---------------------- MODULE ArtifactGeneration_proofs ----------------------
(***************************************************************************)
(* Proofs about TemplateRegistry and ArtifactGeneration, for any number of *)
(* template requests, generations, downloads and templates.                *)
(***************************************************************************)
EXTENDS ArtifactGeneration, FiniteSetTheorems, WellFoundedInduction, TLAPS

----------------------------------------------------------------------------
(* The inductive invariant.                                                *)

Upload == {"none", Chosen} \cup Request
Row == [upload : Upload, overrides : SUBSET Request]
Content == Upload \cup {"torn", "empty"}
File == [upload : Content, patches : SUBSET Request]
Views == [rows : [Id -> Row], selected : {0} \cup Id]

RegistryTypeOK ==
  /\ rows \in [Id -> Row]
  /\ selected \in {0} \cup Id
  /\ files \in [Id -> File]
  /\ writer \in Request \cup Generation \cup {NoOne}
  /\ asked \in [Request -> [kind : Kinds, id : Id]]
  /\ at \in [Request -> {"insert", "get", "store", "commit", "file", "delete", "update"}
                        \cup Answers]
  /\ target \in [Request -> Id]
  /\ loaded \in [Request -> Row]
  /\ broken \in SUBSET Id

GenerationTypeOK ==
  /\ parsed \in BOOLEAN
  /\ artifacts \in SUBSET [by : Generation, kind : Kind]
  /\ disk \in [Kind -> [by : Generation \cup {NoOne}, upload : Content]]
  /\ gat \in [Generation -> {"session", "template", "rows", "build", "select", "replace",
                             "commit"} \cup GenerationAnswers]
  /\ template \in [Generation -> [id : {0} \cup Id, upload : Upload]]
  /\ kinds \in [Generation -> SUBSET Kind]
  /\ old \in [Generation -> SUBSET [by : Generation, kind : Kind]]
  /\ dat \in [Download -> {"select", "file"} \cup GenerationAnswers]
  /\ wants \in [Download -> Kind]
  /\ latest \in Generation \cup {NoOne}
  /\ wrote \in Generation \cup {NoOne}
  /\ overlapped \in SUBSET Generation

\* Row i would do with the file of id i.
HasItsFile(i, row) ==
  row # NoRow =>
    \/ files[i].upload = row.upload
    \/ files[i] \in Cut /\ i \in broken

\* What holds of the committed rows, and of those the writer sees.
ViewInv(view) ==
  /\ \A i \in Id : view.rows[i].upload = "none" => view.rows[i] = NoRow
  /\ view.selected # 0 => view.rows[view.selected].upload = Chosen

CommittedInv ==
  /\ ViewInv([rows |-> rows, selected |-> selected])
  /\ \A i \in Id : HasItsFile(i, rows[i])

\* What the writer is about to commit: between the INSERT and the file only
\* the new id is without one, and nobody else's row has it; an override is
\* dropped only if it was not read.
PendingInv(r) ==
  writer = r =>
    /\ pending \in Views
    /\ ViewInv(pending)
    /\ pending.selected \in {0, selected}
    /\ \A i \in Id : (at[r] = "store" /\ i = target[r]) \/ HasItsFile(i, pending.rows[i])
    /\ at[r] = "store" =>
         rows[target[r]] = NoRow /\ pending.rows[target[r]] = Registered(r)
    /\ \A i \in Id : pending.rows[i].upload = rows[i].upload =>
         rows[i].overrides \cap loaded[r].overrides \subseteq pending.rows[i].overrides

\* The lock is held exactly between the first statement that writes and the
\* end of the transaction.
RegistryInv ==
  /\ RegistryTypeOK
  /\ \A r \in Request : writer = r <=> at[r] \in {"store", "commit"}
  /\ CommittedInv
  /\ \A r \in Request : PendingInv(r)
  /\ \A r \in Request : at[r] = "file" => files[target[r]] # Missing
  /\ \A r \in Request : at[r] # "missing"

\* A generation works with the template the session has, as long as it has it.
\* One that has not found its file remembers which it was.
TemplateInv(g) ==
  /\ gat[g] \in {"template", "rows", "build", "missing"} =>
       /\ template[g].id \in Id
       /\ selected # 0 => template[g].id = selected
  /\ gat[g] \in {"rows", "build"} => files[template[g].id] # Missing
  /\ gat[g] = "missing" => selected = 0 \/ template[g].id \in broken

\* Rows come after files.
OutputInv ==
  /\ \A row \in artifacts : disk[row.kind] # Nothing
  /\ \A g \in Storing : \A kind \in kinds[g] : disk[kind] # Nothing
  /\ \A d \in Download : dat[d] = "file" => disk[wants[d]] # Nothing
  /\ MadeFromChosen

\* Of two generations that store their rows at a time both know that they
\* overlapped; another one knows all rows there are.
OverlapInv ==
  /\ \A g, h \in Storing : g # h => g \in overlapped
  /\ \A g \in Storing \ overlapped : gat[g] # "select" => old[g] = artifacts
  /\ \A g \in Generation :
       (g \in Storing \/ g = latest) /\ wrote = g =>
         \A kind \in kinds[g] : disk[kind].by = g
  /\ latest # NoOne => gat[latest] = "200"
  /\ latest = NoOne => artifacts = {}
  /\ latest # NoOne /\ latest \notin overlapped => artifacts = RowsOf(latest)

GenerationInv ==
  /\ GenerationTypeOK
  /\ \A g \in Generation : writer = g <=> gat[g] = "commit"
  /\ \A g \in Generation : TemplateInv(g)
  /\ OutputInv
  /\ OverlapInv
  /\ \A d \in Download : dat[d] # "missing"
  /\ DownloadFailsByOverlap

IInv == RegistryInv /\ GenerationInv

----------------------------------------------------------------------------
(* The template requests.                                                  *)

\* A set of positive integers has a least element.
LEMMA LeastExists ==
  ASSUME NEW T, T \subseteq Nat, T # {}
  PROVE  \E n \in T : \A m \in T : n <= m
<1> DEFINE Below == {pair \in Nat \X Nat : pair[1] < pair[2]}
<1>1. IsWellFoundedOn(Below, Nat)
  BY NatLessThanWellFounded, Zenon DEF OpToRel
<1>2. PICK n \in T : \A m \in T : <<m, n>> \notin Below
  <2> HIDE DEF Below
  <2> QED BY <1>1, WFMin
<1>3. ASSUME NEW m \in T PROVE n <= m
  <2>1. m \in Nat /\ n \in Nat /\ <<m, n>> \notin Below
    BY <1>2
  <2>2. ~(m < n)
    BY <2>1
  <2> QED BY <2>1, <2>2
<1> QED BY <1>3

\* The id SQLite gives to a new row belongs to none.
LEMMA NewIdIsFree ==
  ASSUME NEW view, NewId(view) \in Id
  PROVE  view.rows[NewId(view)] = NoRow
<1> DEFINE Above(n) == \A j \in Id : view.rows[j] # NoRow => j < n
           T == {n \in 1 .. MaxId + 1 : Above(n)}
<1>1. MaxId + 1 \in T /\ T \subseteq Nat
  <2>1. MaxId \in Nat
    BY RegistryAssumption
  <2>2. MaxId + 1 \in 1 .. MaxId + 1 /\ \A j \in Id : j < MaxId + 1
    BY <2>1 DEF Id
  <2> QED BY <2>1, <2>2
<1>2. PICK n \in T : \A m \in T : n <= m
  BY <1>1, LeastExists
<1>3. n = 1 \/ view.rows[n - 1] # NoRow
  <2> SUFFICES ASSUME n # 1 PROVE view.rows[n - 1] # NoRow
    OBVIOUS
  <2>1. n - 1 \in 1 .. MaxId + 1 /\ n - 1 \notin T
    BY <1>1, <1>2, RegistryAssumption
  <2>2. PICK j \in Id : view.rows[j] # NoRow /\ ~(j < n - 1)
    BY <2>1
  <2>3. j < n
    BY <2>2
  <2>4. j = n - 1
    BY <1>1, <1>2, <2>2, <2>3 DEF Id
  <2> QED BY <2>2, <2>4
<1>4. \E i \in 1 .. MaxId + 1 : Above(i) /\ (i = 1 \/ view.rows[i - 1] # NoRow)
  BY <1>2, <1>3
<1>5. Above(NewId(view))
  BY <1>4 DEF NewId
<1>6. NewId(view) \in Nat
  BY DEF Id
<1> QED BY <1>5, <1>6

\* The rows a request sees that has not written are the committed ones.
LEMMA ReadersView ==
  ASSUME RegistryInv, NEW r \in Request, at[r] \notin {"store", "commit"}
  PROVE  writer # r /\ View(r) = [rows |-> rows, selected |-> selected]
BY DEF RegistryInv, View

\* What the invariant says of the committed rows.
LEMMA CommittedRows ==
  ASSUME RegistryInv
  PROVE  /\ \A i \in Id : rows[i].upload = "none" => rows[i] = NoRow
         /\ selected # 0 => rows[selected].upload = Chosen
BY DEF RegistryInv, CommittedInv, ViewInv

\* No step of a template request makes a file disappear, forgets which file of a
\* committed row was cut off, gives the session another template, or takes the
\* lock from somebody else.
RegistryFrame(r) ==
  /\ \A i \in Id : files[i] # Missing => files'[i] # Missing
  /\ \A i \in Id : rows[i] # NoRow /\ i \in broken => i \in broken'
  /\ selected' \in {0, selected}
  /\ writer' = writer \/ {writer, writer'} = {NoOne, r}

\* What may become of file i: patched cells, or a cut that is known.
FileKept(i) ==
  \/ files'[i] = files[i]
  \/ files[i] \notin Cut /\ files'[i].upload = files[i].upload
  \/ files'[i] \in Cut /\ i \in broken'

\* The file of a row stays its file.
LEMMA KeptFileFits ==
  ASSUME NEW i \in Id, FileKept(i), broken \subseteq broken', NEW row, HasItsFile(i, row)
  PROVE  \/ row = NoRow
         \/ files'[i].upload = row.upload
         \/ files'[i] \in Cut /\ i \in broken'
BY DEF FileKept, HasItsFile

\* A request is answered, with files left as they may be.
LEMMA AnswerInv ==
  ASSUME RegistryInv, NEW r \in Request, NEW code \in Answers \ {"missing"},
         Answer(r, code), files' \in [Id -> File],
         broken' \in SUBSET Id, broken \subseteq broken',
         \A i \in Id : files[i] # Missing => files'[i] # Missing,
         \A i \in Id : FileKept(i) \/ (at[r] = "store" /\ i = target[r])
  PROVE  RegistryInv' /\ RegistryFrame(r)
<1> USE DEF RegistryInv
<1>1. /\ at' = [at EXCEPT ![r] = code]
      /\ UNCHANGED <<rows, selected, asked, target, loaded>>
      /\ IF writer = r THEN writer' = NoOne /\ pending' = NoOne
         ELSE UNCHANGED <<writer, pending>>
  BY DEF Answer, GoTo, Release
<1>2. NoOne \notin Request
  BY RegistryAssumption
<1>3. code \notin {"store", "commit", "file", "missing"}
  BY DEF Answers
<1>4. RegistryTypeOK'
  BY <1>1 DEF RegistryTypeOK
<1>5. \A s \in Request : writer' = s <=> at'[s] \in {"store", "commit"}
  BY <1>1, <1>2, <1>3 DEF RegistryTypeOK
<1>6. CommittedInv'
  <2>1. ViewInv([rows |-> rows, selected |-> selected])'
    BY <1>1 DEF CommittedInv, ViewInv
  <2>2. ASSUME NEW i \in Id PROVE HasItsFile(i, rows[i])'
    <3>1. CASE at[r] = "store" /\ i = target[r]
      BY <3>1, <1>1 DEF PendingInv, HasItsFile
    <3>2. CASE FileKept(i)
      BY <3>2, <1>1, KeptFileFits DEF CommittedInv, HasItsFile
    <3> QED BY <3>1, <3>2
  <2> QED BY <2>1, <2>2 DEF CommittedInv
<1>7. ASSUME NEW s \in Request PROVE PendingInv(s)'
  <2> SUFFICES ASSUME writer' = s PROVE PendingInv(s)'
    BY DEF PendingInv
  <2>1. writer = s /\ s # r /\ pending' = pending /\ at'[s] = at[s]
    BY <1>1, <1>2 DEF RegistryTypeOK
  <2>2. at[r] # "store"
    BY <2>1
  <2>3. \A i \in Id : FileKept(i)
    BY <2>2
  <2>4. \A i \in Id : HasItsFile(i, pending.rows[i]) =>
          \/ pending.rows[i] = NoRow
          \/ files'[i].upload = pending.rows[i].upload
          \/ files'[i] \in Cut /\ i \in broken'
    BY <2>3, KeptFileFits
  <2> QED BY <2>1, <2>4, <1>1 DEF PendingInv, HasItsFile, ViewInv
<1>8. \A s \in Request : at'[s] = "file" => files'[target'[s]] # Missing
  BY <1>1, <1>3 DEF RegistryTypeOK
<1>9. \A s \in Request : at'[s] # "missing"
  BY <1>1, <1>3 DEF RegistryTypeOK
<1>10. RegistryFrame(r)
  BY <1>1 DEF RegistryFrame
<1> QED BY <1>4, <1>5, <1>6, <1>7, <1>8, <1>9, <1>10

\* A request goes on with nothing written.
LEMMA GetTemplateInv ==
  ASSUME RegistryInv, NEW r \in Request, GetTemplate(r)
  PROVE  RegistryInv' /\ RegistryFrame(r)
<1>1. at[r] = "get" /\ UNCHANGED <<files, broken>>
  BY DEF GetTemplate
<1>2. CASE rows[target[r]] = NoRow
  <2>1. Answer(r, "404")
    BY <1>2 DEF GetTemplate
  <2>2. \A i \in Id : FileKept(i)
    BY <1>1 DEF FileKept
  <2>3. files' \in [Id -> File] /\ broken' \in SUBSET Id
    BY <1>1 DEF RegistryInv, RegistryTypeOK
  <2> QED BY <1>1, <2>1, <2>2, <2>3, AnswerInv DEF Answers
<1>3. CASE rows[target[r]] # NoRow
  <2> USE DEF RegistryInv
  <2>1. /\ loaded' = [loaded EXCEPT ![r] = rows[target[r]]]
        /\ UNCHANGED <<rows, selected, writer, pending, asked, target>>
        /\ \E place \in {"delete", "update", "file"} : at' = [at EXCEPT ![r] = place]
    BY <1>3 DEF GetTemplate, GoTo
  <2>2. target[r] \in Id /\ writer # r
    BY <1>1 DEF RegistryTypeOK
  <2>3. RegistryTypeOK'
    BY <1>1, <2>1, <2>2 DEF RegistryTypeOK
  <2>4. files[target[r]] # Missing
    BY <1>3, <2>2 DEF CommittedInv, HasItsFile, ViewInv, Missing, Cut, Torn, Empty
  <2>5. CommittedInv'
    BY <1>1, <2>1 DEF CommittedInv, HasItsFile, ViewInv
  <2>6. \A s \in Request : writer' = s <=> at'[s] \in {"store", "commit"}
    BY <1>1, <2>1 DEF RegistryTypeOK
  <2>7. ASSUME NEW s \in Request PROVE PendingInv(s)'
    <3>1. s # r => at'[s] = at[s] /\ loaded'[s] = loaded[s]
      BY <2>1 DEF RegistryTypeOK
    <3> QED BY <3>1, <1>1, <2>1, <2>2 DEF PendingInv, HasItsFile, ViewInv
  <2>8. /\ \A s \in Request : at'[s] = "file" => files'[target'[s]] # Missing
        /\ \A s \in Request : at'[s] # "missing"
    BY <1>1, <2>1, <2>4 DEF RegistryTypeOK
  <2>9. RegistryFrame(r)
    BY <1>1, <2>1 DEF RegistryFrame
  <2> QED BY <2>3, <2>5, <2>6, <2>7, <2>8, <2>9
<1> QED BY <1>2, <1>3

\* The first statement that writes: what it will commit is as it has to be.
LEMMA WriteInv ==
  ASSUME RegistryInv, NEW r \in Request, at[r] \notin {"store", "commit"},
         NEW place \in {"store", "commit"}, NEW view \in Views,
         Write(r, view), GoTo(r, place), target' \in [Request -> Id],
         \A s \in Request \ {r} : target'[s] = target[s],
         UNCHANGED <<rows, selected, files, asked, loaded, broken>>,
         ViewInv(view), view.selected \in {0, selected},
         \A i \in Id : (place = "store" /\ i = target'[r]) \/ HasItsFile(i, view.rows[i]),
         place = "store" => /\ rows[target'[r]] = NoRow
                            /\ view.rows[target'[r]] = Registered(r),
         \A i \in Id : view.rows[i].upload = rows[i].upload =>
           rows[i].overrides \cap loaded[r].overrides \subseteq view.rows[i].overrides
  PROVE  RegistryInv' /\ RegistryFrame(r)
<1> USE DEF RegistryInv
<1>1. /\ writer \in {NoOne, r} /\ writer' = r /\ pending' = view
      /\ at' = [at EXCEPT ![r] = place]
  BY DEF Write, LockFree, GoTo
<1>2. NoOne \notin Request /\ writer = NoOne
  BY <1>1, RegistryAssumption, ReadersView
<1>3. RegistryTypeOK'
  BY <1>1 DEF RegistryTypeOK
<1>4. \A s \in Request : writer' = s <=> at'[s] \in {"store", "commit"}
  BY <1>1, <1>2 DEF RegistryTypeOK
<1>5. CommittedInv'
  BY DEF CommittedInv, HasItsFile, ViewInv
<1>6. ASSUME NEW s \in Request PROVE PendingInv(s)'
  <2>1. CASE s = r
    <3>1. at'[r] = place
      BY <1>1 DEF RegistryTypeOK
    <3> QED BY <2>1, <3>1, <1>1 DEF PendingInv, HasItsFile, ViewInv
  <2>2. CASE s # r
    BY <2>2, <1>1 DEF PendingInv
  <2> QED BY <2>1, <2>2
<1>7. /\ \A s \in Request : at'[s] = "file" => files'[target'[s]] # Missing
      /\ \A s \in Request : at'[s] # "missing"
  BY <1>1 DEF RegistryTypeOK
<1>8. RegistryFrame(r)
  BY <1>1, <1>2 DEF RegistryFrame
<1> QED BY <1>3, <1>4, <1>5, <1>6, <1>7, <1>8

LEMMA InsertTemplateInv ==
  ASSUME RegistryInv, NEW r \in Request, InsertTemplate(r)
  PROVE  RegistryInv' /\ RegistryFrame(r)
<1> DEFINE committed == [rows |-> rows, selected |-> selected]
           id == NewId(committed)
           view == [committed EXCEPT !.rows[id] = Registered(r)]
<1>1. at[r] = "insert" /\ View(r) = committed
  BY ReadersView DEF InsertTemplate
<1>2. /\ id \in Id
      /\ Write(r, view) /\ GoTo(r, "store")
      /\ target' = [target EXCEPT ![r] = id]
      /\ UNCHANGED <<rows, selected, files, asked, loaded, broken>>
  BY <1>1 DEF InsertTemplate
<1>3. rows[id] = NoRow
  BY <1>2, NewIdIsFree
<1> HIDE DEF id
<1>4. /\ rows \in [Id -> Row] /\ selected \in {0} \cup Id /\ target \in [Request -> Id]
      /\ Registered(r) \in Row
  BY DEF RegistryInv, RegistryTypeOK, Registered, Row, Upload
<1>5. view = [rows |-> [rows EXCEPT ![id] = Registered(r)], selected |-> selected]
  OBVIOUS
<1>6. view \in Views
  BY <1>4, <1>5 DEF Views
<1>7. ViewInv(view)
  <2>1. Registered(r).upload # "none" /\ NoRow.upload # Chosen
    BY RegistryAssumption DEF Registered, NoRow, Chosen
  <2>2. selected # 0 => selected # id
    BY <1>3, <2>1, CommittedRows
  <2> QED BY <1>2, <1>4, <1>5, <2>1, <2>2, CommittedRows DEF ViewInv
<1>8. \A i \in Id : i = id \/ HasItsFile(i, view.rows[i])
  BY <1>4, <1>5 DEF RegistryInv, CommittedInv, HasItsFile
<1>9. /\ target' \in [Request -> Id] /\ target'[r] = id
      /\ \A s \in Request \ {r} : target'[s] = target[s]
  BY <1>2, <1>4
<1>10. \A i \in Id : rows[i].overrides \cap loaded[r].overrides \subseteq view.rows[i].overrides
  BY <1>3, <1>4, <1>5 DEF NoRow
<1>11. view.selected = selected /\ view.rows[id] = Registered(r)
  BY <1>2, <1>4, <1>5
<1> HIDE DEF view
<1> QED BY <1>1, <1>2, <1>3, <1>6, <1>7, <1>8, <1>9, <1>10, <1>11, WriteInv

LEMMA DeleteRowInv ==
  ASSUME RegistryInv, NEW r \in Request, DeleteRow(r)
  PROVE  RegistryInv' /\ RegistryFrame(r)
<1> DEFINE id == target[r]
           view == [rows |-> [rows EXCEPT ![id] = NoRow],
                    selected |-> IF selected = id THEN 0 ELSE selected]
<1>1. /\ at[r] = "delete" /\ View(r) = [rows |-> rows, selected |-> selected]
      /\ UNCHANGED <<rows, selected, files, asked, target, loaded, broken>>
  BY ReadersView DEF DeleteRow
<1>2. WithoutTemplate(View(r), target[r]) = view
  BY <1>1 DEF WithoutTemplate
<1>3. Write(r, view) /\ GoTo(r, "commit")
  BY <1>2 DEF DeleteRow
<1>4. /\ rows \in [Id -> Row] /\ selected \in {0} \cup Id /\ target \in [Request -> Id]
      /\ NoRow \in Row
  BY DEF RegistryInv, RegistryTypeOK, NoRow, Row, Upload
<1>5. view \in Views
  BY <1>4 DEF Views
<1>6. ViewInv(view)
  BY <1>4 DEF RegistryInv, CommittedInv, ViewInv
<1>7. \A i \in Id : HasItsFile(i, view.rows[i])
  BY <1>4 DEF RegistryInv, CommittedInv, HasItsFile
<1>8. \A i \in Id : view.rows[i].upload = rows[i].upload =>
        rows[i].overrides \cap loaded[r].overrides \subseteq view.rows[i].overrides
  BY <1>4 DEF RegistryInv, CommittedInv, ViewInv, NoRow
<1>9. view.selected \in {0, selected}
  OBVIOUS
<1>10. target' \in [Request -> Id] /\ \A s \in Request \ {r} : target'[s] = target[s]
  BY <1>1, <1>4
<1> HIDE DEF view
<1> QED BY <1>1, <1>3, <1>5, <1>6, <1>7, <1>8, <1>9, <1>10, WriteInv

LEMMA UpdateRowInv ==
  ASSUME RegistryInv, NEW r \in Request, UpdateRow(r)
  PROVE  RegistryInv' /\ RegistryFrame(r)
<1>1. /\ at[r] = "update" /\ View(r) = [rows |-> rows, selected |-> selected]
      /\ UNCHANGED <<files, broken>>
  BY ReadersView DEF UpdateRow
<1>2. CASE rows[target[r]] = NoRow
  <2>1. Answer(r, "500")
    BY <1>1, <1>2 DEF UpdateRow
  <2>2. \A i \in Id : FileKept(i)
    BY <1>1 DEF FileKept
  <2>3. files' \in [Id -> File] /\ broken' \in SUBSET Id
    BY <1>1 DEF RegistryInv, RegistryTypeOK
  <2> QED BY <1>1, <2>1, <2>2, <2>3, AnswerInv DEF Answers
<1>3. CASE rows[target[r]] # NoRow
  <2> DEFINE id == target[r]
             row == PatchedMapping(r, rows[id])
             view == [rows |-> [rows EXCEPT ![id] = row], selected |-> selected]
  <2>1. /\ rows \in [Id -> Row] /\ selected \in {0} \cup Id /\ target \in [Request -> Id]
        /\ rows[id] \in Row /\ loaded[r] \in Row
    BY DEF RegistryInv, RegistryTypeOK
  <2>2. [View(r) EXCEPT !.rows[target[r]] = PatchedMapping(r, @)] = view
    BY <1>1
  <2>3. /\ Write(r, view) /\ GoTo(r, "commit")
        /\ UNCHANGED <<rows, selected, asked, target, loaded>>
    BY <1>1, <1>3, <2>2 DEF UpdateRow
  <2>4. /\ row \in Row /\ row.upload = rows[id].upload
        /\ rows[id].overrides \cap loaded[r].overrides \subseteq row.overrides
    BY <2>1 DEF PatchedMapping, Row
  <2> HIDE DEF row
  <2>5. view \in Views
    BY <2>1, <2>4 DEF Views
  <2>6. rows[id].upload # "none" /\ row # NoRow
    <3>1. rows[id].upload # "none"
      BY <1>3, <2>1, CommittedRows
    <3>2. NoRow.upload = "none"
      BY DEF NoRow
    <3> QED BY <2>4, <3>1, <3>2
  <2>7. ViewInv(view)
    BY <2>1, <2>4, <2>6 DEF RegistryInv, CommittedInv, ViewInv
  <2>8. \A i \in Id : HasItsFile(i, view.rows[i])
    BY <1>3, <2>1, <2>4 DEF RegistryInv, CommittedInv, HasItsFile
  <2>9. \A i \in Id : rows[i].overrides \cap loaded[r].overrides \subseteq view.rows[i].overrides
    BY <2>1, <2>4
  <2>10. target' \in [Request -> Id] /\ \A s \in Request \ {r} : target'[s] = target[s]
    BY <2>1, <2>3
  <2>11. view.selected = selected
    OBVIOUS
  <2> HIDE DEF view
  <2> QED BY <1>1, <2>3, <2>5, <2>7, <2>8, <2>9, <2>10, <2>11, WriteInv
<1> QED BY <1>2, <1>3

\* The file gets its row's upload before the row is committed.
LEMMA StoreFileInv ==
  ASSUME RegistryInv, NEW r \in Request, StoreFile(r)
  PROVE  RegistryInv' /\ RegistryFrame(r)
<1> USE DEF RegistryInv
<1>1. /\ at[r] = "store" /\ at' = [at EXCEPT ![r] = "commit"]
      /\ files' = [files EXCEPT ![target[r]] = Uploaded(r)]
      /\ broken' = broken \ {target[r]}
      /\ UNCHANGED <<rows, selected, writer, pending, asked, target, loaded>>
  BY DEF StoreFile, GoTo
<1>2. /\ target[r] \in Id /\ files \in [Id -> File] /\ Uploaded(r) \in File
      /\ Uploaded(r) # Missing /\ Uploaded(r).upload = r
  BY RegistryAssumption DEF RegistryTypeOK, Uploaded, Missing, File, Content, Upload
<1>3. writer = r /\ PendingInv(r)
  BY <1>1
<1>4. \A i \in Id : i # target[r] => files'[i] = files[i]
  BY <1>1, <1>2
<1>5. files'[target[r]] = Uploaded(r)
  BY <1>1, <1>2
<1>6. RegistryTypeOK'
  BY <1>1, <1>2 DEF RegistryTypeOK
<1>7. \A s \in Request : writer' = s <=> at'[s] \in {"store", "commit"}
  BY <1>1 DEF RegistryTypeOK
<1>8. CommittedInv'
  <2>1. rows[target[r]] = NoRow
    BY <1>1, <1>3 DEF PendingInv
  <2>2. ASSUME NEW i \in Id PROVE HasItsFile(i, rows[i])'
    BY <1>1, <1>4, <2>1 DEF CommittedInv, HasItsFile
  <2> QED BY <1>1, <2>2 DEF CommittedInv, ViewInv
<1>9. ASSUME NEW s \in Request PROVE PendingInv(s)'
  <2>1. CASE s # r
    BY <2>1, <1>1, <1>3 DEF PendingInv
  <2>2. CASE s = r
    <3>1. /\ pending.rows[target[r]] = Registered(r)
          /\ \A i \in Id : i # target[r] => HasItsFile(i, pending.rows[i])
      BY <1>1, <1>3 DEF PendingInv
    <3>2. \A i \in Id : HasItsFile(i, pending.rows[i])'
      BY <1>1, <1>2, <1>4, <1>5, <3>1 DEF HasItsFile, Registered
    <3>3. at'[r] = "commit"
      BY <1>1 DEF RegistryTypeOK
    <3> QED BY <2>2, <1>1, <1>3, <3>2, <3>3 DEF PendingInv, ViewInv
  <2> QED BY <2>1, <2>2
<1>10. /\ \A s \in Request : at'[s] = "file" => files'[target'[s]] # Missing
       /\ \A s \in Request : at'[s] # "missing"
  BY <1>1, <1>2, <1>4, <1>5 DEF RegistryTypeOK
<1>11. RegistryFrame(r)
  <2>1. rows[target[r]] = NoRow
    BY <1>1, <1>3 DEF PendingInv
  <2> QED BY <1>1, <1>2, <1>4, <1>5, <2>1 DEF RegistryFrame
<1> QED BY <1>6, <1>7, <1>8, <1>9, <1>10, <1>11

\* What is left of a file whose writing is cut off.
LEMMA CutFiles ==
  ASSUME NEW cut \in Cut
  PROVE  cut \in File /\ cut # Missing
BY DEF Cut, Torn, Empty, Missing, File, Content

LEMMA StoreFailsInv ==
  ASSUME RegistryInv, NEW r \in Request, StoreFails(r)
  PROVE  RegistryInv' /\ RegistryFrame(r)
<1>1. /\ at[r] = "store" /\ Answer(r, "500") /\ UNCHANGED broken
      /\ files' = files \/ \E cut \in Cut : files' = [files EXCEPT ![target[r]] = cut]
  BY DEF StoreFails
<1>2. /\ target[r] \in Id /\ files \in [Id -> File] /\ broken \in SUBSET Id
  BY DEF RegistryInv, RegistryTypeOK
<1>3. files' \in [Id -> File] /\ \A i \in Id : files[i] # Missing => files'[i] # Missing
  BY <1>1, <1>2, CutFiles
<1>4. \A i \in Id : FileKept(i) \/ i = target[r]
  BY <1>1, <1>2 DEF FileKept
<1> QED BY <1>1, <1>2, <1>3, <1>4, AnswerInv DEF Answers

\* A file a row was found for is there.
LEMMA ReadFileInv ==
  ASSUME RegistryInv, NEW r \in Request, ReadFile(r)
  PROVE  RegistryInv' /\ RegistryFrame(r)
<1>1. at[r] = "file" /\ UNCHANGED <<files, broken>>
  BY DEF ReadFile
<1>2. files[target[r]] # Missing /\ files' \in [Id -> File] /\ broken' \in SUBSET Id
  BY <1>1 DEF RegistryInv, RegistryTypeOK
<1>3. \E code \in {"500", "200"} : Answer(r, code)
  BY <1>2 DEF ReadFile
<1>4. \A i \in Id : FileKept(i)
  BY <1>1 DEF FileKept
<1> QED BY <1>1, <1>2, <1>3, <1>4, AnswerInv DEF Answers

\* Patching cells keeps whose file it is.
LEMMA PatchCellsInv ==
  ASSUME RegistryInv, NEW r \in Request, PatchCells(r)
  PROVE  RegistryInv' /\ RegistryFrame(r)
<1> DEFINE id == target[r]
<1>1. /\ at[r] = "file" /\ UNCHANGED broken
      /\ \/ files' = files
         \/ files[id] \notin Cut /\ files' = [files EXCEPT ![id].patches = @ \cup {r}]
  BY DEF PatchCells, Whole
<1>2. /\ id \in Id /\ files \in [Id -> File] /\ broken \in SUBSET Id
      /\ files[id] # Missing
  BY <1>1 DEF RegistryInv, RegistryTypeOK
<1>3. \E code \in {"500", "200"} : Answer(r, code)
  BY <1>2 DEF PatchCells
<1>4. [files[id] EXCEPT !.patches = @ \cup {r}] \in File
  BY <1>2 DEF File
<1>5. [files[id] EXCEPT !.patches = @ \cup {r}].upload = files[id].upload
  BY <1>2 DEF File
<1>6. [files[id] EXCEPT !.patches = @ \cup {r}] # Missing
  <2>1. r \in [files[id] EXCEPT !.patches = @ \cup {r}].patches
    BY <1>2 DEF File
  <2> QED BY <2>1 DEF Missing
<1>7. files' \in [Id -> File] /\ \A i \in Id : files[i] # Missing => files'[i] # Missing
  BY <1>1, <1>2, <1>4, <1>6
<1>8. \A i \in Id : FileKept(i)
  BY <1>1, <1>2, <1>5 DEF FileKept
<1> HIDE DEF id
<1> QED BY <1>1, <1>2, <1>3, <1>7, <1>8, AnswerInv DEF Answers

\* Cutting off the writing of patched cells leaves a file, known to be cut.
LEMMA CutCellsKeeps ==
  ASSUME RegistryInv, NEW r \in Request, NEW cut \in Cut, CutCells(r, cut)
  PROVE  /\ at[r] = "file"
         /\ files' \in [Id -> File] /\ \A i \in Id : files[i] # Missing => files'[i] # Missing
         /\ broken' \in SUBSET Id /\ broken \subseteq broken'
         /\ \A i \in Id : FileKept(i)
<1>1. /\ at[r] = "file"
      /\ files' = [files EXCEPT ![target[r]] = cut]
      /\ broken' = broken \cup {target[r]}
  BY DEF CutCells
<1>2. /\ target[r] \in Id /\ files \in [Id -> File] /\ broken \in SUBSET Id
      /\ cut \in File /\ cut # Missing
  BY CutFiles DEF RegistryInv, RegistryTypeOK
<1>3. /\ files' \in [Id -> File] /\ \A i \in Id : files[i] # Missing => files'[i] # Missing
      /\ broken' \in SUBSET Id /\ broken \subseteq broken'
  BY <1>1, <1>2
<1>4. \A i \in Id : FileKept(i)
  BY <1>1, <1>2 DEF FileKept
<1> QED BY <1>1, <1>3, <1>4

LEMMA CellsFailInv ==
  ASSUME RegistryInv, NEW r \in Request, CellsFail(r)
  PROVE  RegistryInv' /\ RegistryFrame(r)
<1>1. UNCHANGED <<files, broken>> \/ \E cut \in Cut : CutCells(r, cut)
  BY DEF CellsFail
<1>2. Answer(r, "500") /\ at[r] = "file"
  BY DEF CellsFail
<1>3. /\ files' \in [Id -> File] /\ \A i \in Id : files[i] # Missing => files'[i] # Missing
      /\ broken' \in SUBSET Id /\ broken \subseteq broken'
      /\ \A i \in Id : FileKept(i)
  <2>1. CASE UNCHANGED <<files, broken>>
    BY <2>1 DEF FileKept, RegistryInv, RegistryTypeOK
  <2>2. CASE \E cut \in Cut : CutCells(r, cut)
    BY <2>2, CutCellsKeeps
  <2> QED BY <1>1, <2>1, <2>2
<1> QED BY <1>2, <1>3, AnswerInv DEF Answers

\* A statement that is refused the lock, or a COMMIT that fails.
LEMMA RolledBackInv ==
  ASSUME RegistryInv, NEW r \in Request, LockTimeout(r) \/ CommitFails(r)
  PROVE  RegistryInv' /\ RegistryFrame(r)
<1>1. /\ Answer(r, "500") /\ UNCHANGED <<files, broken>>
  BY DEF LockTimeout, CommitFails
<1>2. \A i \in Id : FileKept(i)
  BY <1>1 DEF FileKept
<1>3. files' \in [Id -> File] /\ broken' \in SUBSET Id
  BY <1>1 DEF RegistryInv, RegistryTypeOK
<1> QED BY <1>1, <1>2, <1>3, AnswerInv DEF Answers

\* What the writer saw becomes what is committed.
LEMMA CommitInv ==
  ASSUME RegistryInv, NEW r \in Request, Commit(r)
  PROVE  RegistryInv' /\ RegistryFrame(r)
<1> USE DEF RegistryInv
<1>1. /\ at[r] = "commit" /\ at' = [at EXCEPT ![r] = "200"]
      /\ UNCHANGED <<files, asked, target, loaded, broken>>
  BY DEF Commit, GoTo
<1>2. writer = r /\ PendingInv(r) /\ NoOne \notin Request
  BY <1>1, RegistryAssumption
<1>3. /\ rows' = pending.rows /\ selected' = pending.selected
      /\ writer' = NoOne
  BY <1>2 DEF Commit, View, Release
<1>4. /\ pending \in Views /\ ViewInv(pending) /\ pending.selected \in {0, selected}
      /\ \A i \in Id : HasItsFile(i, pending.rows[i])
  BY <1>1, <1>2 DEF PendingInv
<1>5. RegistryTypeOK'
  BY <1>1, <1>3, <1>4 DEF RegistryTypeOK, Views, Answers
<1>6. \A s \in Request : writer' = s <=> at'[s] \in {"store", "commit"}
  BY <1>1, <1>2, <1>3 DEF RegistryTypeOK
<1>7. CommittedInv'
  BY <1>1, <1>3, <1>4 DEF CommittedInv, HasItsFile, ViewInv
<1>8. \A s \in Request : PendingInv(s)'
  BY <1>2, <1>3 DEF PendingInv
<1>9. /\ \A s \in Request : at'[s] = "file" => files'[target'[s]] # Missing
      /\ \A s \in Request : at'[s] # "missing"
  BY <1>1 DEF RegistryTypeOK
<1>10. RegistryFrame(r)
  BY <1>1, <1>2, <1>3, <1>4 DEF RegistryFrame
<1> QED BY <1>5, <1>6, <1>7, <1>8, <1>9, <1>10

\* Every step of a template request.
LEMMA RegistryStepInv ==
  ASSUME RegistryInv, NEW r \in Request, RegistryStep(r)
  PROVE  RegistryInv' /\ RegistryFrame(r)
BY GetTemplateInv, InsertTemplateInv, StoreFileInv, StoreFailsInv, ReadFileInv,
   PatchCellsInv, CellsFailInv, DeleteRowInv, UpdateRowInv, CommitInv, RolledBackInv
   DEF RegistryStep

\* The process ends in the middle of whatever was under way.
LEMMA RegistryCrashInv ==
  ASSUME RegistryInv, RegistryCrash
  PROVE  /\ RegistryInv'
         /\ \A i \in Id : files[i] # Missing => files'[i] # Missing
         /\ broken \subseteq broken'
<1> USE DEF RegistryInv
<1>1. /\ at' = [r \in Request |-> IF at[r] \in Answers \cup NotBegun THEN at[r] ELSE "gone"]
      /\ writer' = NoOne
      /\ UNCHANGED <<rows, selected, asked, target, loaded>>
  BY DEF RegistryCrash
<1>2. /\ files' \in [Id -> File]
      /\ \A i \in Id : files[i] # Missing => files'[i] # Missing
      /\ broken' \in SUBSET Id /\ broken \subseteq broken'
      /\ \A i \in Id : FileKept(i) \/ rows[i] = NoRow
  <2>1. files \in [Id -> File] /\ broken \in SUBSET Id /\ target \in [Request -> Id]
    BY DEF RegistryTypeOK
  <2>2. CASE UNCHANGED <<files, broken>>
    BY <2>1, <2>2 DEF FileKept
  <2>3. CASE \E r \in Request, cut \in Cut : CutCells(r, cut)
    BY <2>3, CutCellsKeeps
  <2>4. CASE \E r \in Request, cut \in Cut :
               /\ at[r] = "store"
               /\ files' = [files EXCEPT ![target[r]] = cut] /\ UNCHANGED broken
    <3>1. PICK r \in Request, cut \in Cut :
                 /\ at[r] = "store"
                 /\ files' = [files EXCEPT ![target[r]] = cut] /\ UNCHANGED broken
      BY <2>4
    <3>2. rows[target[r]] = NoRow
      BY <3>1 DEF PendingInv
    <3>3. \A i \in Id : FileKept(i) \/ i = target[r]
      BY <2>1, <3>1 DEF FileKept
    <3>4. files' \in [Id -> File] /\ \A i \in Id : files[i] # Missing => files'[i] # Missing
      BY <2>1, <3>1, CutFiles
    <3> QED BY <2>1, <3>1, <3>2, <3>3, <3>4
  <2> QED BY <2>2, <2>3, <2>4 DEF RegistryCrash
<1>3. /\ at' \in [Request -> {"insert", "get"} \cup Answers]
      /\ \A r \in Request : at'[r] # "missing" /\ at'[r] \notin {"store", "commit", "file"}
  BY <1>1 DEF RegistryTypeOK, Answers, NotBegun
<1>4. RegistryTypeOK'
  BY <1>1, <1>2, <1>3 DEF RegistryTypeOK
<1>5. CommittedInv'
  <2>1. ASSUME NEW i \in Id PROVE HasItsFile(i, rows[i])'
    <3>1. CASE rows[i] = NoRow
      BY <3>1, <1>1 DEF HasItsFile
    <3>2. CASE FileKept(i)
      BY <3>2, <1>1, <1>2, KeptFileFits DEF CommittedInv, HasItsFile
    <3> QED BY <1>2, <3>1, <3>2
  <2> QED BY <2>1, <1>1 DEF CommittedInv, ViewInv
<1>6. NoOne \notin Request
  BY RegistryAssumption
<1>7. \A r \in Request : PendingInv(r)'
  BY <1>1, <1>6 DEF PendingInv
<1>8. \A r \in Request : writer' = r <=> at'[r] \in {"store", "commit"}
  BY <1>1, <1>3, <1>6
<1> QED BY <1>1, <1>2, <1>3, <1>4, <1>5, <1>7, <1>8

----------------------------------------------------------------------------
(* The generations and downloads.                                          *)

LEMMA RegistryUnchanged ==
  ASSUME RegistryInv, UNCHANGED registryVars
  PROVE  RegistryInv'
BY DEF RegistryInv, RegistryTypeOK, CommittedInv, PendingInv, HasItsFile, ViewInv, registryVars

\* A generation that takes or gives back the lock is no template request.
LEMMA RegistryLocked ==
  ASSUME RegistryInv, writer \in Generation \cup {NoOne}, writer' \in Generation \cup {NoOne},
         UNCHANGED <<rows, selected, files, pending, asked, at, target, loaded, broken>>
  PROVE  RegistryInv'
<1>1. writer \notin Request /\ writer' \notin Request
  BY RegistryAssumption, GenerationAssumption
<1> QED BY <1>1 DEF RegistryInv, RegistryTypeOK, CommittedInv, PendingInv, HasItsFile, ViewInv

\* A template request changes nothing a generation relies on.
LEMMA RegistryStepKeeps ==
  ASSUME IInv, NEW r \in Request, RegistryStep(r), UNCHANGED generationVars
  PROVE  IInv'
<1>1. RegistryInv' /\ RegistryFrame(r)
  BY RegistryStepInv DEF IInv
<1>2. /\ GenerationInv /\ NoOne \notin Generation /\ r \notin Generation
      /\ UNCHANGED <<parsed, artifacts, disk, gat, template, kinds, old, dat, wants, latest,
                     wrote, overlapped>>
  BY RegistryAssumption, GenerationAssumption DEF IInv, generationVars
<1>3. GenerationTypeOK'
  BY <1>2 DEF GenerationInv, GenerationTypeOK
<1>4. \A g \in Generation : writer' = g <=> gat'[g] = "commit"
  BY <1>1, <1>2 DEF GenerationInv, RegistryFrame
<1>5. \A g \in Generation : TemplateInv(g)'
  <2>1. selected # 0 => rows[selected] # NoRow
    <3>1. NoRow.upload # Chosen
      BY DEF NoRow, Chosen
    <3> QED BY <3>1, CommittedRows DEF IInv
  <2> QED BY <1>1, <1>2, <2>1 DEF GenerationInv, RegistryFrame, TemplateInv
<1>6. OutputInv'
  BY <1>1, <1>2 DEF GenerationInv, RegistryFrame, OutputInv, MadeFromChosen, Storing, Nothing
<1>7. OverlapInv'
  BY <1>2 DEF GenerationInv, OverlapInv, Storing, RowsOf
<1> QED BY <1>1, <1>2, <1>3, <1>4, <1>5, <1>6, <1>7
        DEF IInv, GenerationInv, DownloadFailsByOverlap

LEMMA GetSessionInv ==
  ASSUME IInv, NEW g \in Generation, GetSession(g)
  PROVE  IInv'
<1> USE DEF IInv, GenerationInv
<1>1. /\ gat[g] = "session" /\ template' = [template EXCEPT ![g].id = selected]
      /\ gat' = [gat EXCEPT ![g] = IF selected = 0 THEN "422" ELSE "template"]
      /\ UNCHANGED <<registryVars, parsed, artifacts, disk, kinds, old, dat, wants, latest,
                     wrote, overlapped>>
  BY DEF GetSession, Go
<1>2. RegistryInv' /\ UNCHANGED <<selected, files, writer, broken>>
  BY <1>1, RegistryUnchanged DEF registryVars
<1>3. selected \in {0} \cup Id
  BY DEF RegistryInv, RegistryTypeOK
<1>4. GenerationTypeOK'
  BY <1>1, <1>3 DEF GenerationTypeOK, GenerationAnswers
<1>5. \A h \in Generation : /\ TemplateInv(h)'
                            /\ writer' = h <=> gat'[h] = "commit"
  BY <1>1, <1>2, <1>3 DEF GenerationTypeOK, TemplateInv
<1>6. Storing' = Storing
  BY <1>1 DEF GenerationTypeOK, Storing
<1>7. OutputInv'
  BY <1>1, <1>2, <1>6 DEF OutputInv, MadeFromChosen, Nothing
<1>8. OverlapInv'
  BY <1>1, <1>6 DEF OverlapInv, RowsOf, GenerationTypeOK, Storing
<1> QED BY <1>1, <1>2, <1>4, <1>5, <1>7, <1>8 DEF DownloadFailsByOverlap

LEMMA GetSelectedInv ==
  ASSUME IInv, NEW g \in Generation, GetSelected(g)
  PROVE  IInv'
<1> USE DEF IInv, GenerationInv
<1> DEFINE id == template[g].id
<1>1. /\ gat[g] = "template" /\ template' = [template EXCEPT ![g].upload = rows[id].upload]
      /\ gat' = [gat EXCEPT ![g] = IF rows[id] = NoRow THEN "404" ELSE "rows"]
      /\ UNCHANGED <<registryVars, parsed, artifacts, disk, kinds, old, dat, wants, latest,
                     wrote, overlapped>>
  BY DEF GetSelected, Go
<1>2. RegistryInv' /\ UNCHANGED <<selected, files, writer, rows, broken>>
  BY <1>1, RegistryUnchanged DEF registryVars
<1>3. id \in Id /\ rows[id] \in Row
  BY <1>1 DEF RegistryInv, RegistryTypeOK, TemplateInv
<1>4. rows[id] # NoRow => files[id] # Missing
  BY <1>3, CommittedRows DEF RegistryInv, CommittedInv, HasItsFile, Missing, Cut, Torn, Empty
<1>5. GenerationTypeOK'
  BY <1>1, <1>3 DEF GenerationTypeOK, GenerationAnswers, Answers, Row
<1>6. /\ \A h \in Generation : template'[h].id = template[h].id
      /\ \A h \in Generation \ {g} : gat'[h] = gat[h]
      /\ gat'[g] = IF rows[id] = NoRow THEN "404" ELSE "rows"
  BY <1>1 DEF GenerationTypeOK
<1>7. \A h \in Generation : /\ TemplateInv(h)'
                            /\ writer' = h <=> gat'[h] = "commit"
  BY <1>1, <1>2, <1>3, <1>4, <1>6 DEF TemplateInv
<1>8. Storing' = Storing
  BY <1>1, <1>6 DEF Storing
<1>9. OutputInv'
  BY <1>1, <1>2, <1>8 DEF OutputInv, MadeFromChosen, Nothing
<1>10. OverlapInv'
  BY <1>1, <1>6, <1>8 DEF OverlapInv, RowsOf, GenerationTypeOK, Storing
<1> QED BY <1>1, <1>2, <1>5, <1>7, <1>9, <1>10 DEF DownloadFailsByOverlap

LEMMA ReadRowsInv ==
  ASSUME IInv, NEW g \in Generation, ReadRows(g)
  PROVE  IInv'
<1> USE DEF IInv, GenerationInv
<1>1. /\ gat[g] = "rows" /\ gat' = [gat EXCEPT ![g] = "build"]
      /\ kinds' = [kinds EXCEPT ![g] = {"xlsx", "zip"} \cup IF parsed THEN Pdf ELSE {}]
      /\ UNCHANGED <<registryVars, parsed, artifacts, disk, template, old, dat, wants, latest,
                     wrote, overlapped>>
  BY DEF ReadRows, Go
<1>2. RegistryInv' /\ UNCHANGED <<selected, files, writer, broken>>
  BY <1>1, RegistryUnchanged DEF registryVars
<1>3. GenerationTypeOK'
  BY <1>1 DEF GenerationTypeOK, Kind
<1>4. \A h \in Generation : /\ TemplateInv(h)'
                            /\ writer' = h <=> gat'[h] = "commit"
  BY <1>1, <1>2 DEF GenerationTypeOK, TemplateInv
<1>5. Storing' = Storing /\ g \notin Storing /\ g # latest
  BY <1>1, GenerationAssumption DEF GenerationTypeOK, Storing, OverlapInv
<1>6. \A h \in Generation \ {g} : kinds'[h] = kinds[h] /\ gat'[h] = gat[h]
  BY <1>1 DEF GenerationTypeOK
<1>7. OutputInv'
  BY <1>1, <1>2, <1>5, <1>6 DEF OutputInv, MadeFromChosen, Nothing, Storing
<1>8. OverlapInv'
  BY <1>1, <1>5, <1>6 DEF OverlapInv, RowsOf, GenerationTypeOK, Storing
<1> QED BY <1>1, <1>2, <1>3, <1>4, <1>7, <1>8 DEF DownloadFailsByOverlap

\* What a generation writes is its own, and made from the session's template.
LEMMA WrittenFacts ==
  ASSUME IInv, NEW g \in Generation, gat[g] = "build", Usable(g), NEW done \in SUBSET Kind
  PROVE  /\ Written(g, done) \in
              [Kind -> [by : Generation \cup {NoOne}, upload : Content]]
         /\ \A kind \in Kind : kind \notin done => Written(g, done)[kind] = disk[kind]
         /\ \A kind \in done : /\ Written(g, done)[kind].by = g
                               /\ Written(g, done)[kind] # Nothing
         /\ selected # 0 => \A kind \in Kind :
              Written(g, done)[kind] # Nothing => Written(g, done)[kind].upload = Chosen
<1> DEFINE id == template[g].id
           made == [by |-> g, upload |-> files[id].upload]
<1>1. /\ id \in Id /\ (selected # 0 => id = selected)
      /\ files[id] \in File /\ rows[id] \in Row
  BY DEF IInv, GenerationInv, TemplateInv, RegistryInv, RegistryTypeOK
<1>2. selected # 0 => files[id].upload = Chosen
  <2> SUFFICES ASSUME selected # 0 PROVE files[id].upload = Chosen
    OBVIOUS
  <2>1. rows[id].upload = Chosen /\ files[id] \notin Cut
    BY <1>1, CommittedRows DEF IInv, Usable, Whole, TemplateFile
  <2>2. rows[id] # NoRow
    BY <2>1 DEF NoRow, Chosen
  <2> QED BY <1>1, <2>1, <2>2 DEF IInv, RegistryInv, CommittedInv, HasItsFile
<1>3. made # Nothing /\ made.by = g
      /\ made \in [by : Generation \cup {NoOne}, upload : Content]
  BY <1>1, GenerationAssumption DEF Nothing, File
<1>4. Written(g, done) = [kind \in Kind |-> IF kind \in done THEN made ELSE disk[kind]]
  BY DEF Written, TemplateFile
<1>5. made.upload = files[id].upload
  OBVIOUS
<1>6. disk \in [Kind -> [by : Generation \cup {NoOne}, upload : Content]]
      /\ MadeFromChosen
  BY DEF IInv, GenerationInv, GenerationTypeOK, OutputInv
<1> HIDE DEF made
<1> QED BY <1>2, <1>3, <1>4, <1>5, <1>6 DEF MadeFromChosen

LEMMA BuildAndWriteInv ==
  ASSUME IInv, NEW g \in Generation, BuildAndWrite(g)
  PROVE  IInv'
<1> USE DEF IInv, GenerationInv
<1>1. /\ gat[g] = "build" /\ Usable(g)
      /\ disk' = Written(g, kinds[g]) /\ wrote' = g
      /\ overlapped' = IF Storing = {} THEN overlapped ELSE overlapped \cup Storing \cup {g}
      /\ gat' = [gat EXCEPT ![g] = "select"]
      /\ UNCHANGED <<registryVars, parsed, artifacts, template, kinds, old, dat, wants, latest>>
  BY DEF BuildAndWrite, Go
<1>2. RegistryInv' /\ UNCHANGED <<selected, files, writer, broken>>
  BY <1>1, RegistryUnchanged DEF registryVars
<1>3. /\ gat \in [Generation -> {"session", "template", "rows", "build", "select", "replace",
                                 "commit"} \cup GenerationAnswers]
      /\ kinds[g] \in SUBSET Kind
      /\ artifacts \in SUBSET [by : Generation, kind : Kind]
      /\ wants \in [Download -> Kind] /\ kinds \in [Generation -> SUBSET Kind]
  BY DEF GenerationTypeOK
<1>4. /\ disk' \in [Kind -> [by : Generation \cup {NoOne}, upload : Content]]
      /\ \A kind \in Kind : kind \notin kinds[g] => disk'[kind] = disk[kind]
      /\ \A kind \in kinds[g] : disk'[kind].by = g /\ disk'[kind] # Nothing
      /\ selected # 0 => \A kind \in Kind : disk'[kind] # Nothing => disk'[kind].upload = Chosen
  BY <1>1, <1>3, WrittenFacts
<1>5. GenerationTypeOK'
  BY <1>1, <1>4 DEF GenerationTypeOK, Storing
<1>6. \A h \in Generation : /\ TemplateInv(h)'
                            /\ writer' = h <=> gat'[h] = "commit"
  BY <1>1, <1>2, <1>3 DEF TemplateInv
<1>7. Storing' = Storing \cup {g} /\ g \notin Storing
  BY <1>1, <1>3 DEF Storing
<1>8. OutputInv'
  <2>1. \A kind \in Kind : disk[kind] # Nothing => disk'[kind] # Nothing
    BY <1>4
  <2>2. Nothing' = Nothing /\ \A h \in Storing : h \in Generation
    BY DEF Nothing, Storing
  <2>3. MadeFromChosen'
    BY <1>2, <1>4, <2>2 DEF MadeFromChosen
  <2>4. \A row \in artifacts' : disk'[row.kind] # Nothing
    BY <1>1, <1>3, <2>1 DEF OutputInv
  <2>5. \A h \in Storing' : \A kind \in kinds'[h] : disk'[kind] # Nothing
    BY <1>1, <1>3, <1>4, <1>7, <2>1, <2>2 DEF OutputInv
  <2>6. \A d \in Download : dat'[d] = "file" => disk'[wants'[d]] # Nothing
    BY <1>1, <1>3, <2>1 DEF OutputInv
  <2> QED BY <2>2, <2>3, <2>4, <2>5, <2>6 DEF OutputInv
<1>9. OverlapInv'
  <2>1. \A h \in Generation \ {g} : gat'[h] = gat[h]
    BY <1>1, <1>3
  <2>2. latest' = latest /\ (latest # NoOne => latest # g /\ gat'[latest] = "200")
        /\ latest \in Generation \cup {NoOne}
    BY <1>1, <1>3, <2>1 DEF OverlapInv, GenerationTypeOK
  <2>3. \A h, k \in Storing' : h # k => h \in overlapped'
    BY <1>1, <1>7 DEF OverlapInv
  <2>4. ASSUME NEW h \in Storing' \ overlapped', gat'[h] # "select"
        PROVE  old'[h] = artifacts'
    BY <1>1, <1>3, <1>7, <2>1, <2>4 DEF OverlapInv, Storing
  <2>5. \A h \in Generation : (h \in Storing' \/ h = latest') /\ wrote' = h =>
          \A kind \in kinds'[h] : disk'[kind].by = h
    BY <1>1, <1>4
  <2>6. latest # NoOne /\ latest \notin overlapped' => artifacts' = RowsOf(latest)'
    BY <1>1 DEF OverlapInv, RowsOf
  <2> QED BY <1>1, <2>2, <2>3, <2>4, <2>5, <2>6 DEF OverlapInv
<1>10. DownloadFailsByOverlap'
  BY <1>1 DEF DownloadFailsByOverlap
<1> QED BY <1>1, <1>2, <1>5, <1>6, <1>8, <1>9, <1>10

\* A generation that writes only a part, or nothing, and is over.
LEMMA WritesPart ==
  ASSUME IInv, NEW g \in Generation, gat[g] = "build",
         UNCHANGED <<disk, wrote>> \/ (Usable(g) /\ WriteSome(g, kinds[g])),
         UNCHANGED <<selected, artifacts, kinds, wants, latest, Storing>>
  PROVE  /\ disk' \in [Kind -> [by : Generation \cup {NoOne}, upload : Content]]
         /\ \A kind \in Kind : disk[kind] # Nothing => disk'[kind] # Nothing
         /\ MadeFromChosen'
         /\ \A h \in Generation : (h \in Storing \/ h = latest) /\ wrote' = h =>
              \A kind \in kinds[h] : disk'[kind].by = h
<1> USE DEF IInv, GenerationInv
<1>1. g \notin Storing /\ g # latest
  BY GenerationAssumption DEF Storing, OverlapInv
<1>2. Nothing' = Nothing
  BY DEF Nothing
<1>3. CASE UNCHANGED <<disk, wrote>>
  BY <1>2, <1>3 DEF GenerationTypeOK, OutputInv, MadeFromChosen, OverlapInv
<1>4. CASE Usable(g) /\ WriteSome(g, kinds[g])
  <2>1. kinds[g] \in SUBSET Kind
    BY DEF GenerationTypeOK
  <2>2. PICK done \in SUBSET Kind :
               disk' = Written(g, done) /\ wrote' = IF done = {} THEN wrote ELSE g
    BY <1>4, <2>1 DEF WriteSome
  <2>3. /\ disk' \in [Kind -> [by : Generation \cup {NoOne}, upload : Content]]
        /\ \A kind \in Kind : kind \notin done => disk'[kind] = disk[kind]
        /\ \A kind \in Kind : disk[kind] # Nothing => disk'[kind] # Nothing
        /\ selected # 0 => \A kind \in Kind :
             disk'[kind] # Nothing => disk'[kind].upload = Chosen
    BY <1>4, <2>2, WrittenFacts
  <2>4. MadeFromChosen'
    BY <1>2, <2>3 DEF MadeFromChosen
  <2>5. CASE done = {}
    <3>1. \A kind \in Kind : disk'[kind] = disk[kind]
      BY <2>3, <2>5
    <3>2. \A h \in Generation : kinds[h] \in SUBSET Kind
      BY DEF GenerationTypeOK
    <3> QED BY <2>2, <2>3, <2>4, <2>5, <3>1, <3>2 DEF OverlapInv
  <2>6. CASE done # {}
    BY <1>1, <2>2, <2>3, <2>4, <2>6
  <2> QED BY <2>5, <2>6
<1> QED BY <1>3, <1>4

LEMMA BuildFailsInv ==
  ASSUME IInv, NEW g \in Generation, BuildFails(g)
  PROVE  IInv'
<1> USE DEF IInv, GenerationInv
<1>1. /\ gat[g] = "build"
      /\ UNCHANGED <<registryVars, parsed, artifacts, template, kinds, old, dat, wants, latest,
                     overlapped>>
  BY DEF BuildFails
<1>2. /\ gat \in [Generation -> {"session", "template", "rows", "build", "select", "replace",
                                 "commit"} \cup GenerationAnswers]
      /\ kinds \in [Generation -> SUBSET Kind]
      /\ artifacts \in SUBSET [by : Generation, kind : Kind]
      /\ wants \in [Download -> Kind]
  BY DEF GenerationTypeOK
<1>3. PICK code \in {"missing", "500"} :
        /\ gat' = [gat EXCEPT ![g] = code]
        /\ UNCHANGED <<disk, wrote>> \/ (Usable(g) /\ WriteSome(g, kinds[g]))
        /\ code = "missing" => files[template[g].id] \in {Missing, Empty}
  BY DEF BuildFails, WriteSome, Go, TemplateFile
<1>4. RegistryInv' /\ UNCHANGED <<selected, files, writer, broken>>
  BY <1>1, RegistryUnchanged DEF registryVars
<1>5. Storing' = Storing
  BY <1>1, <1>2, <1>3 DEF Storing
<1>6. /\ disk' \in [Kind -> [by : Generation \cup {NoOne}, upload : Content]]
      /\ \A kind \in Kind : disk[kind] # Nothing => disk'[kind] # Nothing
      /\ MadeFromChosen'
      /\ \A h \in Generation : (h \in Storing \/ h = latest) /\ wrote' = h =>
           \A kind \in kinds[h] : disk'[kind].by = h
  BY <1>1, <1>3, <1>4, <1>5, WritesPart
<1>7. GenerationTypeOK'
  <2>1. wrote' \in {wrote, g}
    BY <1>3 DEF WriteSome
  <2>2. gat' \in [Generation -> {"session", "template", "rows", "build", "select", "replace",
                                 "commit"} \cup GenerationAnswers]
    BY <1>2, <1>3 DEF GenerationAnswers, Answers
  <2> QED BY <1>1, <1>6, <2>1, <2>2 DEF GenerationTypeOK
<1>8. \A h \in Generation : /\ TemplateInv(h)'
                            /\ writer' = h <=> gat'[h] = "commit"
  <2>1. files[template[g].id] # Missing /\ template[g].id \in Id
    BY <1>1 DEF TemplateInv
  <2>2. files[template[g].id] = Empty => selected = 0 \/ template[g].id \in broken
    <3> SUFFICES ASSUME files[template[g].id] = Empty, selected # 0
                 PROVE  template[g].id \in broken
      OBVIOUS
    <3>1. rows[template[g].id].upload = Chosen /\ NoRow.upload # Chosen
      BY <1>1, CommittedRows DEF TemplateInv, NoRow, Chosen
    <3>2. Empty.upload # Chosen
      BY DEF Empty, Chosen
    <3> QED BY <2>1, <3>1, <3>2 DEF RegistryInv, CommittedInv, HasItsFile
  <2>3. TemplateInv(g)'
    BY <1>1, <1>2, <1>3, <1>4, <2>1, <2>2 DEF TemplateInv
  <2>4. ASSUME NEW h \in Generation, h # g
        PROVE  TemplateInv(h)' /\ (writer' = h <=> gat'[h] = "commit")
    BY <1>1, <1>2, <1>3, <1>4, <2>4 DEF TemplateInv
  <2>5. writer' = g <=> gat'[g] = "commit"
    BY <1>1, <1>2, <1>3, <1>4
  <2> QED BY <2>3, <2>4, <2>5
<1>9. OutputInv'
  BY <1>1, <1>2, <1>5, <1>6 DEF OutputInv, Nothing, Storing
<1>10. OverlapInv'
  BY <1>1, <1>2, <1>3, <1>5, <1>6 DEF OverlapInv, RowsOf, GenerationTypeOK, Storing
<1> QED BY <1>1, <1>4, <1>7, <1>8, <1>9, <1>10 DEF DownloadFailsByOverlap

LEMMA FindOldInv ==
  ASSUME IInv, NEW g \in Generation, FindOld(g)
  PROVE  IInv'
<1> USE DEF IInv, GenerationInv
<1>1. /\ gat[g] = "select" /\ gat' = [gat EXCEPT ![g] = "replace"]
      /\ old' = [old EXCEPT ![g] = artifacts]
      /\ UNCHANGED <<registryVars, parsed, artifacts, disk, template, kinds, dat, wants, latest,
                     wrote, overlapped>>
  BY DEF FindOld, Go, SelectOld
<1>2. RegistryInv' /\ UNCHANGED <<selected, files, writer, broken>>
  BY <1>1, RegistryUnchanged DEF registryVars
<1>3. GenerationTypeOK'
  BY <1>1 DEF GenerationTypeOK
<1>4. \A h \in Generation : /\ TemplateInv(h)'
                            /\ writer' = h <=> gat'[h] = "commit"
  BY <1>1, <1>2 DEF GenerationTypeOK, TemplateInv
<1>5. Storing' = Storing
  BY <1>1 DEF GenerationTypeOK, Storing
<1>6. OutputInv'
  BY <1>1, <1>2, <1>5 DEF OutputInv, MadeFromChosen, Nothing
<1>7. /\ old'[g] = artifacts
      /\ \A h \in Generation \ {g} : old'[h] = old[h] /\ gat'[h] = gat[h]
  BY <1>1 DEF GenerationTypeOK
<1>8. OverlapInv'
  BY <1>1, <1>5, <1>7 DEF OverlapInv, RowsOf, GenerationTypeOK, Storing
<1> QED BY <1>1, <1>2, <1>3, <1>4, <1>6, <1>8 DEF DownloadFailsByOverlap

LEMMA ReplaceInv ==
  ASSUME IInv, NEW g \in Generation, Replace(g)
  PROVE  IInv'
<1> USE DEF IInv, GenerationInv
<1>1. /\ gat[g] = "replace" /\ gat' = [gat EXCEPT ![g] = "commit"]
      /\ writer \in {NoOne, g} /\ writer' = g
      /\ UNCHANGED <<rows, selected, files, pending, asked, at, target, loaded, broken>>
      /\ UNCHANGED <<parsed, artifacts, disk, template, kinds, old, dat, wants, latest, wrote,
                     overlapped>>
  BY DEF Replace, Go, LockFree
<1>2. RegistryInv'
  BY <1>1, RegistryLocked
<1>3. GenerationTypeOK'
  BY <1>1 DEF GenerationTypeOK
<1>4. \A h \in Generation : /\ TemplateInv(h)'
                            /\ writer' = h <=> gat'[h] = "commit"
  BY <1>1, GenerationAssumption DEF GenerationTypeOK, TemplateInv
<1>5. Storing' = Storing
  BY <1>1 DEF GenerationTypeOK, Storing
<1>6. OutputInv'
  BY <1>1, <1>5 DEF OutputInv, MadeFromChosen, Nothing
<1>7. \A h \in Generation \ {g} : gat'[h] = gat[h]
  BY <1>1 DEF GenerationTypeOK
<1>8. OverlapInv'
  BY <1>1, <1>5, <1>7 DEF OverlapInv, RowsOf, GenerationTypeOK, Storing
<1> QED BY <1>1, <1>2, <1>3, <1>4, <1>6, <1>8 DEF DownloadFailsByOverlap

LEMMA ReplaceTimeoutInv ==
  ASSUME IInv, NEW g \in Generation, ReplaceTimeout(g)
  PROVE  IInv'
<1> USE DEF IInv, GenerationInv
<1>1. /\ gat[g] = "replace" /\ gat' = [gat EXCEPT ![g] = "500"]
      /\ UNCHANGED <<registryVars, parsed, artifacts, disk, template, kinds, old, dat, wants,
                     latest, wrote, overlapped>>
  BY DEF ReplaceTimeout, Go
<1>2. RegistryInv' /\ UNCHANGED <<selected, files, writer, broken>>
  BY <1>1, RegistryUnchanged DEF registryVars
<1>3. GenerationTypeOK'
  BY <1>1 DEF GenerationTypeOK, GenerationAnswers, Answers
<1>4. \A h \in Generation : /\ TemplateInv(h)'
                            /\ writer' = h <=> gat'[h] = "commit"
  BY <1>1, <1>2 DEF GenerationTypeOK, TemplateInv
<1>5. Storing' = Storing \ {g}
  BY <1>1 DEF GenerationTypeOK, Storing
<1>6. OutputInv'
  BY <1>1, <1>2, <1>5 DEF OutputInv, MadeFromChosen, Nothing
<1>7. /\ \A h \in Generation \ {g} : gat'[h] = gat[h]
      /\ latest # g
  BY <1>1, GenerationAssumption DEF GenerationTypeOK, OverlapInv
<1>8. OverlapInv'
  BY <1>1, <1>5, <1>7 DEF OverlapInv, RowsOf, GenerationTypeOK, Storing
<1> QED BY <1>1, <1>2, <1>3, <1>4, <1>6, <1>8 DEF DownloadFailsByOverlap

LEMMA CommitRowsFailsInv ==
  ASSUME IInv, NEW g \in Generation, CommitRowsFails(g)
  PROVE  IInv'
<1> USE DEF IInv, GenerationInv
<1>1. /\ gat[g] = "commit" /\ gat' = [gat EXCEPT ![g] = "500"] /\ writer' = NoOne
      /\ UNCHANGED <<rows, selected, files, pending, asked, at, target, loaded, broken>>
      /\ UNCHANGED <<parsed, artifacts, disk, template, kinds, old, dat, wants, latest, wrote,
                     overlapped>>
  BY DEF CommitRowsFails, Go
<1>2. RegistryInv' /\ writer = g
  BY <1>1, RegistryLocked
<1>3. GenerationTypeOK'
  BY <1>1 DEF GenerationTypeOK, GenerationAnswers, Answers
<1>4. \A h \in Generation : /\ TemplateInv(h)'
                            /\ writer' = h <=> gat'[h] = "commit"
  BY <1>1, <1>2, GenerationAssumption DEF GenerationTypeOK, TemplateInv
<1>5. Storing' = Storing \ {g}
  BY <1>1 DEF GenerationTypeOK, Storing
<1>6. OutputInv'
  BY <1>1, <1>5 DEF OutputInv, MadeFromChosen, Nothing
<1>7. /\ \A h \in Generation \ {g} : gat'[h] = gat[h]
      /\ latest # g
  BY <1>1, GenerationAssumption DEF GenerationTypeOK, OverlapInv
<1>8. OverlapInv'
  BY <1>1, <1>5, <1>7 DEF OverlapInv, RowsOf, GenerationTypeOK, Storing
<1> QED BY <1>1, <1>2, <1>3, <1>4, <1>6, <1>8 DEF DownloadFailsByOverlap

LEMMA CommitRowsInv ==
  ASSUME IInv, NEW g \in Generation, CommitRows(g)
  PROVE  IInv'
<1> USE DEF IInv, GenerationInv
<1>1. /\ gat[g] = "commit" /\ gat' = [gat EXCEPT ![g] = "200"]
      /\ artifacts' = (artifacts \ old[g]) \cup RowsOf(g)
      /\ latest' = g /\ writer' = NoOne
      /\ UNCHANGED <<rows, selected, files, pending, asked, at, target, loaded, broken>>
      /\ UNCHANGED <<parsed, disk, template, kinds, old, dat, wants, wrote, overlapped>>
  BY DEF CommitRows, Go
<1>2. RegistryInv' /\ writer = g
  BY <1>1, RegistryLocked
<1>3. /\ kinds \in [Generation -> SUBSET Kind]
      /\ RowsOf(g) \in SUBSET [by : Generation, kind : Kind]
  BY DEF GenerationTypeOK, RowsOf
<1>4. GenerationTypeOK'
  BY <1>1, <1>3 DEF GenerationTypeOK, GenerationAnswers, Answers
<1>5. \A h \in Generation : /\ TemplateInv(h)'
                            /\ writer' = h <=> gat'[h] = "commit"
  BY <1>1, <1>2, GenerationAssumption DEF GenerationTypeOK, TemplateInv
<1>6. Storing' = Storing \ {g} /\ g \in Storing
  BY <1>1 DEF GenerationTypeOK, Storing
<1>7. OutputInv'
  <2>1. \A row \in artifacts' : disk[row.kind] # Nothing
    BY <1>1, <1>6 DEF OutputInv, RowsOf
  <2> QED BY <1>1, <1>6, <2>1 DEF OutputInv, MadeFromChosen, Nothing
<1>8. /\ \A h \in Generation \ {g} : gat'[h] = gat[h]
      /\ gat'[g] = "200"
  BY <1>1 DEF GenerationTypeOK
<1>9. OverlapInv'
  <2>1. \A h \in Storing' : h \in overlapped
    BY <1>6 DEF OverlapInv
  <2>2. g \notin overlapped => artifacts' = RowsOf(g)
    <3> SUFFICES ASSUME g \notin overlapped PROVE artifacts \ old[g] = {}
      BY <1>1
    <3> QED BY <1>1, <1>6 DEF OverlapInv
  <2>3. RowsOf(g)' = RowsOf(g)
    BY <1>1 DEF RowsOf
  <2>4. g # NoOne
    BY GenerationAssumption
  <2> QED BY <1>1, <1>6, <1>8, <2>1, <2>2, <2>3, <2>4 DEF OverlapInv
<1> QED BY <1>1, <1>2, <1>4, <1>5, <1>7, <1>9 DEF DownloadFailsByOverlap

LEMMA GenerationStepInv ==
  ASSUME IInv, NEW g \in Generation, GenerationStep(g)
  PROVE  IInv'
BY GetSessionInv, GetSelectedInv, ReadRowsInv, BuildAndWriteInv, BuildFailsInv, FindOldInv,
   ReplaceInv, ReplaceTimeoutInv, CommitRowsInv, CommitRowsFailsInv DEF GenerationStep

\* Without an overlap there is at most one row of a kind.
LEMMA OneOfAKind ==
  ASSUME IInv, overlapped = {}, NEW kind
  PROVE  ~(Cardinality(OfKind(kind)) > 1)
<1>1. \/ artifacts = {}
      \/ artifacts = RowsOf(latest)
  BY DEF IInv, GenerationInv, OverlapInv
<1>2. OfKind(kind) \subseteq {[by |-> latest, kind |-> kind]}
  BY <1>1 DEF OfKind, RowsOf
<1>3. OfKind(kind) = {} \/ OfKind(kind) = {[by |-> latest, kind |-> kind]}
  BY <1>2
<1>4. Cardinality({}) = 0 /\ Cardinality({[by |-> latest, kind |-> kind]}) = 1
  BY FS_EmptySet, FS_Singleton
<1>5. Cardinality(OfKind(kind)) \in {0, 1}
  BY <1>3, <1>4
<1> QED BY <1>5

\* A download changes only its own place.
LEMMA DownloadInv ==
  ASSUME IInv, NEW d \in Download, SelectArtifact(d) \/ SendArtifact(d)
  PROVE  IInv'
<1> USE DEF IInv, GenerationInv
<1>1. PICK place \in {"404", "500", "file", "200"} :
        /\ dat' = [dat EXCEPT ![d] = place]
        /\ place = "500" => overlapped # {}
        /\ place = "file" => disk[wants[d]] # Nothing
  <2>1. CASE SelectArtifact(d)
    <3>1. OfKind(wants[d]) # {} => disk[wants[d]] # Nothing
      BY DEF OutputInv, OfKind
    <3>2. Cardinality(OfKind(wants[d])) > 1 => overlapped # {}
      BY OneOfAKind
    <3> QED BY <2>1, <3>1, <3>2 DEF SelectArtifact
  <2>2. CASE SendArtifact(d)
    BY <2>2 DEF SendArtifact, OutputInv
  <2> QED BY <2>1, <2>2
<1>2. UNCHANGED <<registryVars, parsed, artifacts, disk, gat, template, kinds, old, wants,
                  latest, wrote, overlapped>>
  BY DEF SelectArtifact, SendArtifact
<1>3. RegistryInv' /\ UNCHANGED <<selected, files, writer, broken>>
  BY <1>2, RegistryUnchanged DEF registryVars
<1>4. /\ dat \in [Download -> {"select", "file"} \cup GenerationAnswers]
      /\ place # "missing" /\ place \in {"select", "file"} \cup GenerationAnswers
  BY DEF GenerationTypeOK, GenerationAnswers, Answers
<1>5. GenerationTypeOK'
  BY <1>1, <1>2, <1>4 DEF GenerationTypeOK
<1>6. \A g \in Generation : TemplateInv(g)'
  BY <1>2, <1>3 DEF TemplateInv
<1>7. OutputInv'
  BY <1>1, <1>2, <1>3, <1>4 DEF OutputInv, MadeFromChosen, Nothing, Storing
<1>8. OverlapInv'
  BY <1>2 DEF OverlapInv, Storing, RowsOf
<1>9. DownloadFailsByOverlap' /\ \A e \in Download : dat'[e] # "missing"
  BY <1>1, <1>2, <1>4 DEF DownloadFailsByOverlap
<1> QED BY <1>2, <1>3, <1>5, <1>6, <1>7, <1>8, <1>9

LEMMA JobCommitsInv ==
  ASSUME IInv, JobCommits
  PROVE  IInv'
<1> USE DEF IInv, GenerationInv
<1>1. /\ parsed' = TRUE
      /\ UNCHANGED <<registryVars, artifacts, disk, gat, template, kinds, old, dat, wants,
                     latest, wrote, overlapped>>
  BY DEF JobCommits
<1>2. RegistryInv' /\ UNCHANGED <<selected, files, writer, broken>>
  BY <1>1, RegistryUnchanged DEF registryVars
<1>3. GenerationTypeOK'
  BY <1>1 DEF GenerationTypeOK
<1>4. \A g \in Generation : TemplateInv(g)'
  BY <1>1, <1>2 DEF TemplateInv
<1>5. OutputInv'
  BY <1>1, <1>2 DEF OutputInv, MadeFromChosen, Nothing, Storing
<1>6. OverlapInv'
  BY <1>1 DEF OverlapInv, Storing, RowsOf
<1> QED BY <1>1, <1>2, <1>3, <1>4, <1>5, <1>6 DEF DownloadFailsByOverlap

LEMMA CrashInv ==
  ASSUME IInv, Crash
  PROVE  IInv'
<1> USE DEF IInv, GenerationInv
<1>1. /\ RegistryCrash
      /\ gat' = [g \in Generation |->
                   IF gat[g] \in GenerationAnswers \cup {"session"} THEN gat[g] ELSE "gone"]
      /\ dat' = [d \in Download |->
                   IF dat[d] \in GenerationAnswers \cup {"select"} THEN dat[d] ELSE "gone"]
      /\ UNCHANGED <<parsed, artifacts, template, kinds, old, wants, latest, overlapped>>
  BY DEF Crash
<1>2. /\ RegistryInv' /\ UNCHANGED selected /\ writer' = NoOne
      /\ broken \subseteq broken'
  BY <1>1, RegistryCrashInv DEF RegistryCrash
<1>3. /\ gat \in [Generation -> {"session", "template", "rows", "build", "select", "replace",
                                 "commit"} \cup GenerationAnswers]
      /\ dat \in [Download -> {"select", "file"} \cup GenerationAnswers]
      /\ kinds \in [Generation -> SUBSET Kind] /\ wants \in [Download -> Kind]
      /\ artifacts \in SUBSET [by : Generation, kind : Kind]
  BY DEF GenerationTypeOK
<1>4. /\ gat' \in [Generation -> {"session"} \cup GenerationAnswers]
      /\ dat' \in [Download -> {"select"} \cup GenerationAnswers]
      /\ \A g \in Generation : gat'[g] = "missing" => gat[g] = "missing"
      /\ \A g \in Generation : gat[g] = "200" => gat'[g] = "200"
      /\ \A d \in Download : dat'[d] \in {"500", "missing"} => dat'[d] = dat[d]
  BY <1>1, <1>3 DEF GenerationAnswers, Answers
<1>5. /\ disk' \in [Kind -> [by : Generation \cup {NoOne}, upload : Content]]
      /\ \A kind \in Kind : disk[kind] # Nothing => disk'[kind] # Nothing
      /\ MadeFromChosen'
      /\ wrote' \in Generation \cup {NoOne}
      /\ latest # NoOne /\ wrote' = latest => \A kind \in kinds[latest] : disk'[kind].by = latest
  <2>1. Nothing' = Nothing
    BY DEF Nothing
  <2>2. CASE UNCHANGED <<disk, wrote>>
    BY <1>2, <2>1, <2>2 DEF GenerationTypeOK, OutputInv, MadeFromChosen, OverlapInv
  <2>3. CASE ~UNCHANGED <<disk, wrote>>
    <3>1. PICK g \in Generation : gat[g] = "build" /\ Usable(g) /\ WriteSome(g, kinds[g])
      BY <2>3 DEF Crash
    <3>2. PICK done \in SUBSET Kind :
                 disk' = Written(g, done) /\ wrote' = IF done = {} THEN wrote ELSE g
      BY <1>3, <3>1 DEF WriteSome
    <3>3. /\ disk' \in [Kind -> [by : Generation \cup {NoOne}, upload : Content]]
          /\ \A kind \in Kind : kind \notin done => disk'[kind] = disk[kind]
          /\ \A kind \in Kind : disk[kind] # Nothing => disk'[kind] # Nothing
          /\ selected # 0 => \A kind \in Kind :
               disk'[kind] # Nothing => disk'[kind].upload = Chosen
      BY <3>1, <3>2, WrittenFacts
    <3>4. latest # g
      BY <3>1, GenerationAssumption DEF OverlapInv
    <3>5. MadeFromChosen'
      BY <1>2, <2>1, <3>3 DEF MadeFromChosen
    <3>6. CASE done = {}
      <4>1. \A kind \in Kind : disk'[kind] = disk[kind]
        BY <3>3, <3>6
      <4>2. \A h \in Generation : kinds[h] \in SUBSET Kind
        BY <1>3
      <4>3. latest \in Generation \cup {NoOne} /\ wrote' = wrote
            /\ wrote \in Generation \cup {NoOne}
        BY <3>2, <3>6 DEF GenerationTypeOK
      <4> QED BY <3>3, <3>5, <4>1, <4>2, <4>3 DEF OverlapInv
    <3>7. CASE done # {}
      BY <3>2, <3>3, <3>4, <3>5, <3>7
    <3> QED BY <3>6, <3>7
  <2> QED BY <2>2, <2>3
<1>6. GenerationTypeOK'
  BY <1>1, <1>4, <1>5 DEF GenerationTypeOK
<1>7. Storing' = {} /\ NoOne \notin Generation
  BY <1>4, GenerationAssumption DEF Storing, GenerationAnswers, Answers
<1>8. \A g \in Generation : TemplateInv(g)' /\ gat'[g] # "commit"
  <2> TAKE g \in Generation
  <2>1. gat'[g] \notin {"template", "rows", "build", "commit"}
    BY <1>4 DEF GenerationAnswers, Answers
  <2>2. CASE gat'[g] = "missing"
    <3>1. gat[g] = "missing" /\ template' = template
      BY <1>1, <1>4, <2>2
    <3> QED BY <1>2, <2>1, <3>1 DEF TemplateInv
  <2>3. CASE gat'[g] # "missing"
    BY <2>1, <2>3 DEF TemplateInv
  <2> QED BY <2>2, <2>3
<1>9. OutputInv'
  <2>1. Nothing' = Nothing /\ \A d \in Download : dat'[d] # "file"
    BY <1>4 DEF Nothing, GenerationAnswers, Answers
  <2> QED BY <1>1, <1>3, <1>5, <1>7, <2>1 DEF OutputInv
<1>10. OverlapInv'
  <2>1. latest # NoOne => gat'[latest] = "200"
    BY <1>4 DEF OverlapInv, GenerationTypeOK
  <2> QED BY <1>1, <1>5, <1>7, <2>1 DEF OverlapInv, RowsOf, GenerationTypeOK
<1>11. DownloadFailsByOverlap' /\ \A d \in Download : dat'[d] # "missing"
  BY <1>1, <1>4 DEF DownloadFailsByOverlap
<1> QED BY <1>2, <1>6, <1>7, <1>8, <1>9, <1>10, <1>11

LEMMA InitInv ==
  ASSUME Init
  PROVE  IInv
<1> USE DEF Init, RegistryInit
<1>1. 1 \in Id /\ NoOne \notin Request /\ NoOne \notin Generation /\ "none" \notin Request
      /\ Ask \subseteq [kind : Kinds, id : Id]
  BY RegistryAssumption, GenerationAssumption DEF Id
<1>2. Registered(Chosen) \in Row /\ NoRow \in Row /\ Registered(Chosen) # NoRow
  BY DEF Registered, Chosen, NoRow, Row, Upload
<1>3. Uploaded(Chosen) \in File /\ Missing \in File /\ Uploaded(Chosen) # Missing
  BY DEF Uploaded, Chosen, Missing, File, Content, Upload
<1>4. RegistryTypeOK
  BY <1>1, <1>2, <1>3 DEF RegistryTypeOK
<1>5. CommittedInv
  BY <1>1 DEF CommittedInv, ViewInv, HasItsFile, Registered, Uploaded, Chosen, NoRow
<1>6. RegistryInv
  BY <1>1, <1>4, <1>5 DEF RegistryInv, PendingInv
<1>7. GenerationTypeOK
  BY DEF GenerationTypeOK, Nothing, Content, Upload
<1>8. OutputInv
  BY DEF OutputInv, MadeFromChosen, Storing
<1>9. OverlapInv
  BY <1>1 DEF OverlapInv, Storing
<1> QED BY <1>1, <1>6, <1>7, <1>8, <1>9 DEF IInv, GenerationInv, TemplateInv, DownloadFailsByOverlap

LEMMA UnchangedInv ==
  ASSUME IInv, UNCHANGED vars
  PROVE  IInv'
<1>1. RegistryInv' /\ UNCHANGED <<selected, files, writer, broken>>
  BY RegistryUnchanged DEF IInv, vars, registryVars
<1> QED BY <1>1 DEF IInv, GenerationInv, GenerationTypeOK, TemplateInv, OutputInv, OverlapInv,
      MadeFromChosen, DownloadFailsByOverlap, Storing, RowsOf, Nothing, vars, generationVars

\* The invariant holds in every state of the system.
THEOREM Inductive == Spec => []IInv
<1>1. IInv /\ [Next]_vars => IInv'
  BY RegistryStepKeeps, GenerationStepInv, DownloadInv, JobCommitsInv, CrashInv, UnchangedInv
     DEF Next
<1> QED BY InitInv, <1>1, PTL DEF Spec

----------------------------------------------------------------------------
(* What the runs check.                                                    *)

\* Whatever request fails, times out, is not committed or ends with the process,
\* and whatever comes after the restart, a committed template row has its file,
\* unless a write of patched cells to that very file was cut off
\* (templates.py:191, :288).
THEOREM TemplateFilesAreThere == Spec => []TemplateRowHasItsFile
<1>1. IInv => TemplateRowHasItsFile
  BY DEF IInv, RegistryInv, CommittedInv, HasItsFile, TemplateRowHasItsFile
<1> QED BY Inductive, <1>1, PTL

\* A session never comes to another template than the one it was created with,
\* although ids of deleted templates are given again (models.py:212).
THEOREM NoOtherTemplate == Spec => []SessionKeepsTemplate
<1>1. IInv => SessionKeepsTemplate
  BY CommittedRows DEF IInv, SessionKeepsTemplate
<1> QED BY Inductive, <1>1, PTL

\* No template request or download that has read a row finds its file missing,
\* before or after a restart, and a generation only one that a write of patched
\* cells emptied, or whose template was deleted meanwhile (sessions.py:585,
\* :753, templates.py:270).
THEOREM FilesOutliveRows == Spec => []NoFileMissing
<1>1. IInv => NoFileMissing
  BY DEF IInv, RegistryInv, GenerationInv, TemplateInv, NoFileMissing
<1> QED BY Inductive, <1>1, PTL

\* While the session has its template, every workbook on disk is made from that
\* upload (sessions.py:551).
THEOREM WorkbooksFromChosen == Spec => []MadeFromChosen
<1>1. IInv => MadeFromChosen
  BY DEF IInv, GenerationInv, OutputInv
<1> QED BY Inductive, <1>1, PTL

\* The rows a generation leaves that no other one overlapped are its own, and
\* lead to its files (sessions.py:657).
THEOREM QuietGeneration == Spec => []QuietGenerationIsWhole
<1>1. ASSUME IInv PROVE QuietGenerationIsWhole
  <2> SUFFICES ASSUME latest # NoOne, latest \notin overlapped
               PROVE  /\ artifacts = RowsOf(latest)
                      /\ wrote = latest => \A row \in artifacts : disk[row.kind].by = latest
    BY DEF QuietGenerationIsWhole
  <2>1. latest \in Generation /\ artifacts = RowsOf(latest)
    BY <1>1 DEF IInv, GenerationInv, GenerationTypeOK, OverlapInv
  <2>2. wrote = latest => \A kind \in kinds[latest] : disk[kind].by = latest
    BY <1>1, <2>1 DEF IInv, GenerationInv, OverlapInv
  <2> QED BY <2>1, <2>2 DEF RowsOf
<1> QED BY Inductive, <1>1, PTL

\* Two rows of a kind, the one thing a download cannot get over, come only of
\* generations that overlapped (generated_artifact_repo.py:64).
THEOREM DownloadsFailByOverlap == Spec => []DownloadFailsByOverlap
<1>1. IInv => DownloadFailsByOverlap
  BY DEF IInv, GenerationInv
<1> QED BY Inductive, <1>1, PTL

\* Only Commit changes rows.
LEMMA OnlyCommitChangesRows ==
  ASSUME Next, rows' # rows
  PROVE  \E r \in Request : Commit(r)
<1>1. ASSUME NEW r \in Request, RegistryStep(r) PROVE Commit(r)
  BY <1>1 DEF RegistryStep, GetTemplate, InsertTemplate, StoreFile, StoreFails, ReadFile,
     PatchCells, CellsFail, DeleteRow, UpdateRow, CommitFails, LockTimeout, Answer
<1>2. ASSUME NEW g \in Generation, GenerationStep(g) PROVE FALSE
  BY <1>2 DEF GenerationStep, GetSession, GetSelected, ReadRows, BuildAndWrite, BuildFails,
     FindOld, Replace, ReplaceTimeout, CommitRows, CommitRowsFails, registryVars
<1>3. ASSUME NEW d \in Download, SelectArtifact(d) \/ SendArtifact(d) PROVE FALSE
  BY <1>3 DEF SelectArtifact, SendArtifact, registryVars
<1>4. ~JobCommits /\ ~Crash
  BY DEF JobCommits, Crash, RegistryCrash, registryVars
<1> QED BY <1>1, <1>2, <1>3, <1>4 DEF Next

\* An override goes only when a request commits a mapping, or the row itself,
\* that had read the row without it (templates.py:314).
THEOREM OverridesAreKept == Spec => OverridesKept
<1> DEFINE Kept ==
      \A i \in Id : rows'[i].upload = rows[i].upload =>
        \A r \in rows[i].overrides \ rows'[i].overrides :
          \E s \in Request : at[s] = "commit" /\ r \notin loaded[s].overrides
<1>1. ASSUME IInv, Next PROVE Kept
  <2>1. CASE rows' = rows
    BY <2>1
  <2>2. CASE rows' # rows
    <3>1. PICK s \in Request : Commit(s)
      BY <1>1, <2>2, OnlyCommitChangesRows
    <3>2. at[s] = "commit" /\ writer = s /\ PendingInv(s)
      BY <1>1, <3>1 DEF Commit, IInv, RegistryInv
    <3>3. rows' = pending.rows
      BY <3>1, <3>2 DEF Commit, View
    <3>4. \A i \in Id : rows'[i].upload = rows[i].upload =>
            rows[i].overrides \cap loaded[s].overrides \subseteq rows'[i].overrides
      BY <3>2, <3>3 DEF PendingInv
    <3> QED BY <3>2, <3>4
  <2> QED BY <2>1, <2>2
<1>2. IInv /\ [Next]_vars => [Kept]_registryVars
  BY <1>1 DEF vars
<1>3. Spec => [][Kept]_registryVars
  BY Inductive, <1>2, PTL DEF Spec
<1> QED BY <1>3 DEF OverridesKept
=============================================================================
