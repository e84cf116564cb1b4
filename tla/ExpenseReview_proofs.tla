------------------------ MODULE ExpenseReview_proofs ------------------------
(***************************************************************************)
(* Proofs about ExpenseReview, for any number of requests, of users, of    *)
(* transactions and of fields, whatever the requests ask.                  *)
(***************************************************************************)
EXTENDS ExpenseReview, TLAPS

----------------------------------------------------------------------------
(* The inductive invariant.                                                *)

Before == {"user", "newuser", "newsession", "newtemplate", "session"}
Upload == {"create", "template"}
Upserting == {"load", "flush", "commit"}
Expenses == [Tx -> {NoRecord} \cup Record]
Views ==
  [users : SUBSET User, sessions : SUBSET User, templates : SUBSET User, expense : Expenses]

TypeOK ==
  /\ users \in SUBSET User /\ sessions \in SUBSET User /\ templates \in SUBSET User
  /\ expense \in Expenses
  /\ writer \in Request \cup {NoOne}
  /\ asked \in [Request -> Asked]
  /\ at \in [Request -> Before \cup Upserting \cup Answers \cup {"gone"}]
  /\ k \in [Request -> Nat]
  /\ loaded \in [Request -> [Tx -> {Null, NoRecord} \cup Record]]

\* The transactions whose upsert a request is through with.
DoneTxs(r) ==
  {asked[r].txs[n] : n \in {m \in 1 .. Len(asked[r].txs) :
     m < k[r] \/ (at[r] = "commit" /\ asked[r].kind \notin Upload)}}

\* What a request has read so far fits to where it is.
PlaceInv(r) ==
  /\ at[r] \in Before => k[r] = 1 /\ \A t \in Tx : loaded[r][t] = Null
  /\ at[r] \in {"newsession", "newtemplate"} => asked[r].kind \in Upload
  /\ at[r] \in {"session", "load", "flush"} => asked[r].kind \notin Upload
  /\ at[r] = "commit" /\ asked[r].kind \in Upload => k[r] = 1
  /\ at[r] \in {"load", "flush"} => k[r] \in 1 .. Len(asked[r].txs)
  /\ at[r] = "flush" => /\ loaded[r][CurrentTx(r)] \in {NoRecord} \cup Record
                        /\ Owner[CurrentTx(r)] = asked[r].user
  /\ at[r] \in Upserting =>
       \A t \in DoneTxs(r) : loaded[r][t] \in Record /\ Owner[t] = asked[r].user

\* A record once loaded is there as long as the request is under way, and a
\* user that was found is not found missing later.
ViewInv(r) ==
  /\ at[r] \in Upserting => \A t \in Tx :
       loaded[r][t] \in Record => View(r).expense[t] \in Record
  /\ writer # r /\ at[r] \in {"newsession", "newtemplate"} => asked[r].user \in users

\* Sessions and templates are of users that exist.
Registered == sessions \cup templates \subseteq users

\* New users of a view come with a session or a template.
Brought(view) ==
  /\ view.sessions \cup view.templates \subseteq view.users
  /\ view.users \subseteq users \cup view.sessions \cup view.templates

\* What the writer is about to commit: a user with a session or a template, and
\* its own patch laid over the transactions it is through with.
WriterInv(r) ==
  writer = r =>
    /\ at[r] \in {"newsession", "newtemplate", "session"} \cup Upserting
    /\ dirty \in Views
    /\ users \subseteq dirty.users
    /\ at[r] \in {"newsession", "newtemplate", "session"} =>
         /\ dirty.users = users \cup {asked[r].user} /\ asked[r].user \notin users
         /\ dirty.sessions = sessions /\ dirty.templates = templates
    /\ at[r] \in Upserting => Brought(dirty)
    /\ \A t \in Tx : expense[t] \in Record => dirty.expense[t] \in Record
    /\ \A t \in Tx \ DoneTxs(r) : dirty.expense[t] = expense[t]
    /\ \A t \in DoneTxs(r), f \in Field :
         \/ dirty.expense[t].field[f] = asked[r].patch[f]
         \/ expense[t] \in Record /\ dirty.expense[t].field[f] = expense[t].field[f]

RequestInv(r) == PlaceInv(r) /\ ViewInv(r) /\ WriterInv(r)

IInv ==
  /\ TypeOK
  /\ Registered
  /\ \A r \in Request : RequestInv(r)

----------------------------------------------------------------------------
(* Parts of a step.                                                        *)

\* What a step of one request leaves alone for another one.
Frame(r) ==
  /\ \A s \in Request \ {r} :
       /\ at'[s] = at[s] /\ k'[s] = k[s] /\ loaded'[s] = loaded[s]
       /\ \/ writer # s /\ writer' # s
          \/ UNCHANGED <<users, sessions, templates, expense, writer, dirty>>
  /\ UNCHANGED asked
  /\ users \subseteq users'
  /\ \A t \in Tx : expense[t] \in Record => expense'[t] \in Record

\* The step of a request that keeps its own part of the invariant keeps it all.
LEMMA OthersKeep ==
  ASSUME IInv, NEW r \in Request, Frame(r), TypeOK', Registered', RequestInv(r)'
  PROVE  IInv'
<1> SUFFICES ASSUME NEW s \in Request, s # r PROVE RequestInv(s)'
  BY DEF IInv
<1>1. /\ at'[s] = at[s] /\ k'[s] = k[s] /\ loaded'[s] = loaded[s] /\ asked' = asked
      /\ RequestInv(s)
  BY DEF Frame, IInv
<1>2. DoneTxs(s)' = DoneTxs(s)
  BY <1>1 DEF DoneTxs
<1>3. PlaceInv(s)'
  BY <1>1, <1>2 DEF RequestInv, PlaceInv, CurrentTx
<1>4. CASE UNCHANGED <<users, sessions, templates, expense, writer, dirty>>
  BY <1>1, <1>2, <1>3, <1>4 DEF RequestInv, ViewInv, WriterInv, View, Committed, Brought
<1>5. CASE writer # s /\ writer' # s
  <2>1. /\ users \subseteq users'
        /\ \A t \in Tx : expense[t] \in Record => expense'[t] \in Record
    BY DEF Frame
  <2> QED BY <1>1, <1>3, <1>5, <2>1 DEF RequestInv, ViewInv, WriterInv, View, Committed
<1> QED BY <1>4, <1>5 DEF Frame

\* What a request sees has the right form.
LEMMA ViewTyped ==
  ASSUME IInv, NEW r \in Request
  PROVE  /\ View(r) \in Views
         /\ writer # r => View(r).users = users /\ View(r).sessions = sessions
                          /\ View(r).templates = templates /\ View(r).expense = expense
         /\ writer = r => View(r) = dirty
BY DEF IInv, RequestInv, WriterInv, TypeOK, View, Committed, Views

\* An answer ends the transaction and leaves everything else.
LEMMA AnswerInv ==
  ASSUME IInv, NEW r \in Request, NEW code \in Answers, Answer(r, code)
  PROVE  IInv'
<1>1. /\ at' = [at EXCEPT ![r] = code]
      /\ writer' = IF writer = r THEN NoOne ELSE writer
      /\ dirty' = IF writer = r THEN Null ELSE dirty
      /\ UNCHANGED <<users, sessions, templates, expense, asked, k, loaded>>
  BY DEF Answer, GoTo, Release, Keep
<1>2. TypeOK /\ NoOne \notin Request
  BY ReviewAssumption DEF IInv
<1>3. TypeOK' /\ Registered'
  BY <1>1, <1>2 DEF TypeOK, IInv, Registered
<1>4. at'[r] = code /\ writer' # r /\ \A s \in Request \ {r} : at'[s] = at[s]
  BY <1>1, <1>2 DEF TypeOK
<1>5. RequestInv(r)'
  BY <1>4 DEF RequestInv, PlaceInv, ViewInv, WriterInv, Answers, Before, Upserting
<1>6. Frame(r)
  BY <1>1, <1>2, <1>4 DEF Frame
<1> QED BY <1>3, <1>5, <1>6, OthersKeep

LEMMA FailureInv ==
  ASSUME IInv, NEW r \in Request, NEW code \in Answers, Failure(r, code)
  PROVE  IInv'
BY AnswerInv DEF Failure, Answers

\* Before the first upsert none is done.
LEMMA NoneDone ==
  ASSUME IInv, NEW r \in Request,
         at[r] \in Before \/ (k[r] = 1 /\ at[r] # "commit")
  PROVE  DoneTxs(r) = {}
<1>1. k[r] = 1 /\ at[r] # "commit"
  BY DEF IInv, RequestInv, PlaceInv, Before
<1>2. \A m \in 1 .. Len(asked[r].txs) : ~(m < k[r])
  BY <1>1
<1> QED BY <1>1, <1>2 DEF DoneTxs

----------------------------------------------------------------------------
(* The statements.                                                         *)

LEMMA SelectUserInv ==
  ASSUME IInv, NEW r \in Request, SelectUser(r)
  PROVE  IInv'
<1>1. PICK place \in {"newuser", "newsession", "newtemplate", "session"} :
        /\ at' = [at EXCEPT ![r] = place]
        /\ place # "newuser" => asked[r].user \in View(r).users
        /\ place \in {"newsession", "newtemplate"} => asked[r].kind \in Upload
        /\ place = "session" => asked[r].kind \notin Upload
  BY DEF SelectUser, GoTo, WithUser, Upload
<1>2. /\ at[r] = "user"
      /\ UNCHANGED <<users, sessions, templates, expense, writer, dirty, asked, k, loaded>>
  BY DEF SelectUser, Keep
<1>3. TypeOK /\ RequestInv(r) /\ Registered
  BY DEF IInv
<1>4. writer # r
  BY <1>2, <1>3 DEF RequestInv, WriterInv, Upserting
<1>5. TypeOK' /\ Registered'
  BY <1>1, <1>2, <1>3 DEF TypeOK, Before, Registered
<1>6. at'[r] = place /\ \A s \in Request \ {r} : at'[s] = at[s]
  BY <1>1, <1>3 DEF TypeOK
<1>7. RequestInv(r)'
  BY <1>1, <1>2, <1>3, <1>4, <1>6, ViewTyped
     DEF RequestInv, PlaceInv, ViewInv, WriterInv, Before, Upserting
<1>8. Frame(r)
  BY <1>2, <1>6 DEF Frame
<1> QED BY <1>5, <1>7, <1>8, OthersKeep

LEMMA InsertUserInv ==
  ASSUME IInv, NEW r \in Request, InsertUser(r)
  PROVE  IInv'
<1>1. at[r] = "newuser" /\ writer \in {NoOne, r}
  BY DEF InsertUser, LockFree
<1>2. TypeOK /\ RequestInv(r) /\ Registered /\ NoOne \notin Request
  BY ReviewAssumption DEF IInv
<1>3. writer = NoOne /\ writer # r
  BY <1>1, <1>2 DEF RequestInv, WriterInv, Upserting
<1>4. CASE asked[r].user \in View(r).users
  BY <1>4, AnswerInv DEF InsertUser, Answers
<1>5. CASE asked[r].user \notin View(r).users
  <2> DEFINE view == [View(r) EXCEPT !.users = @ \cup {asked[r].user}]
  <2>1. PICK place \in {"newsession", "newtemplate", "session"} :
          /\ at' = [at EXCEPT ![r] = place]
          /\ place \in {"newsession", "newtemplate"} => asked[r].kind \in Upload
          /\ place = "session" => asked[r].kind \notin Upload
    BY <1>5 DEF InsertUser, GoTo, WithUser, Upload
  <2>2. /\ writer' = r /\ dirty' = view
        /\ UNCHANGED <<users, sessions, templates, expense, asked, k, loaded>>
    BY <1>5 DEF InsertUser, Wrote, Keep
  <2>3. asked[r].user \in User /\ asked[r].user \notin users
    BY <1>2, <1>3, <1>5, ViewTyped DEF TypeOK, Asked
  <2>4. /\ dirty' \in Views
        /\ dirty'.users = users \cup {asked[r].user}
        /\ dirty'.sessions = sessions /\ dirty'.templates = templates
        /\ dirty'.expense = expense
    BY <1>3, <2>2, <2>3, ViewTyped DEF Views
  <2>5. TypeOK' /\ Registered'
    BY <1>2, <2>1, <2>2 DEF TypeOK, Before, Registered
  <2>6. at'[r] = place /\ \A s \in Request \ {r} : at'[s] = at[s]
    BY <1>2, <2>1 DEF TypeOK
  <2>7. DoneTxs(r)' = {}
    <3>1. DoneTxs(r)' = DoneTxs(r)
      BY <1>1, <2>2, <2>6 DEF DoneTxs
    <3> QED BY <1>1, <3>1, NoneDone DEF Before
  <2>8. WriterInv(r)'
    BY <2>2, <2>3, <2>4, <2>6, <2>7 DEF WriterInv, Upserting
  <2>9. PlaceInv(r)' /\ ViewInv(r)'
    BY <1>1, <1>2, <2>1, <2>2, <2>6
       DEF RequestInv, PlaceInv, ViewInv, Before, Upserting
  <2>10. Frame(r)
    BY <1>2, <1>3, <2>2, <2>6 DEF Frame
  <2> QED BY <2>5, <2>8, <2>9, <2>10, OthersKeep DEF RequestInv
<1> QED BY <1>4, <1>5

\* What an upload sees when it is about to insert its row.
LEMMA UploadView ==
  ASSUME IInv, NEW r \in Request, at[r] \in {"newsession", "newtemplate"},
         writer \in {NoOne, r}
  PROVE  /\ View(r) \in Views /\ asked[r].user \in User /\ asked[r].kind \in Upload
         /\ View(r).users = users \cup {asked[r].user}
         /\ View(r).sessions = sessions /\ View(r).templates = templates
         /\ View(r).expense = expense
<1>1. /\ TypeOK /\ RequestInv(r) /\ View(r) \in Views
      /\ asked[r].user \in User /\ asked[r].kind \in Upload
  BY ViewTyped DEF IInv, TypeOK, Asked, RequestInv, PlaceInv
<1>2. CASE writer = r
  <2>1. WriterInv(r) /\ View(r) = dirty /\ dirty \in Views
    BY <1>1, <1>2, ViewTyped DEF RequestInv
  <2>2. dirty.expense \in [Tx -> {NoRecord} \cup Record] /\ expense \in Expenses
    BY <1>1, <2>1 DEF Views, Expenses, TypeOK
  <2>3. \A t \in Tx : dirty.expense[t] = expense[t]
    BY <1>2, <2>1, NoneDone DEF WriterInv, Before
  <2>4. dirty.expense = expense
    BY <2>2, <2>3 DEF Expenses
  <2> QED BY <1>1, <1>2, <2>1, <2>4 DEF WriterInv
<1>3. CASE writer # r
  BY <1>1, <1>3, ViewTyped DEF RequestInv, ViewInv
<1> QED BY <1>2, <1>3

\* The INSERT of a session or of a template keeps the invariant.
LEMMA UploadInv ==
  ASSUME IInv, NEW r \in Request, NEW view \in Views,
         at[r] \in {"newsession", "newtemplate"}, LockFree(r),
         Wrote(r, view), GoTo(r, "commit"), UNCHANGED <<k, loaded>>,
         view.users = View(r).users, view.expense = View(r).expense,
         view.sessions \cup view.templates =
           View(r).sessions \cup View(r).templates \cup {asked[r].user}
  PROVE  IInv'
<1>1. /\ writer \in {NoOne, r}
      /\ at' = [at EXCEPT ![r] = "commit"]
      /\ writer' = r /\ dirty' = view
      /\ UNCHANGED <<users, sessions, templates, expense, asked, k, loaded>>
  BY DEF LockFree, Wrote, Keep, GoTo
<1>2. TypeOK /\ RequestInv(r) /\ Registered /\ NoOne \notin Request
  BY ReviewAssumption DEF IInv
<1>3. /\ asked[r].kind \in Upload /\ view.users = users \cup {asked[r].user}
      /\ view.sessions \cup view.templates = sessions \cup templates \cup {asked[r].user}
      /\ view.expense = expense
  BY <1>1, UploadView
<1>4. /\ users \subseteq view.users
      /\ view.sessions \cup view.templates \subseteq view.users
      /\ view.users \subseteq users \cup view.sessions \cup view.templates
  BY <1>2, <1>3 DEF Registered
<1>5. DoneTxs(r) = {}
  BY NoneDone DEF Before
<1>6. TypeOK' /\ Registered'
  BY <1>1, <1>2 DEF TypeOK, Upserting, Registered
<1>7. at'[r] = "commit" /\ \A s \in Request \ {r} : at'[s] = at[s]
  BY <1>1, <1>2 DEF TypeOK
<1>8. DoneTxs(r)' = {}
  <2>1. DoneTxs(r)' = DoneTxs(r)
    BY <1>1, <1>3, <1>7 DEF DoneTxs, Upload
  <2> QED BY <1>5, <2>1
<1>9. Brought(dirty)'
  BY <1>1, <1>4 DEF Brought
<1>10. WriterInv(r)'
  BY <1>1, <1>3, <1>4, <1>7, <1>8, <1>9 DEF WriterInv, Upserting
<1>11. PlaceInv(r)' /\ ViewInv(r)'
  <2>1. k'[r] = 1 /\ \A t \in Tx : loaded'[r][t] \notin Record
    BY <1>1, <1>2, ReviewAssumption DEF RequestInv, PlaceInv, Before
  <2> QED BY <1>1, <1>7, <1>8, <2>1 DEF PlaceInv, ViewInv, Before, Upserting
<1>12. Frame(r)
  BY <1>1, <1>2, <1>7 DEF Frame
<1> QED BY <1>6, <1>10, <1>11, <1>12, OthersKeep DEF RequestInv

LEMMA InsertSessionInv ==
  ASSUME IInv, NEW r \in Request, InsertSession(r)
  PROVE  IInv'
<1>1. CASE Answer(r, "500")
  BY <1>1, AnswerInv DEF Answers
<1>2. CASE ~Answer(r, "500")
  <2> DEFINE view == [View(r) EXCEPT !.sessions = @ \cup {asked[r].user}]
  <2>1. /\ at[r] = "newsession" /\ LockFree(r) /\ Wrote(r, view)
        /\ GoTo(r, "commit") /\ UNCHANGED <<k, loaded>>
    BY <1>2 DEF InsertSession
  <2>2. View(r) \in Views /\ asked[r].user \in User
    BY <2>1, UploadView DEF LockFree
  <2>3. /\ view \in Views /\ view.users = View(r).users /\ view.expense = View(r).expense
        /\ view.sessions \cup view.templates =
             View(r).sessions \cup View(r).templates \cup {asked[r].user}
    BY <2>2 DEF Views
  <2> HIDE DEF view
  <2> QED BY <2>1, <2>3, UploadInv
<1> QED BY <1>1, <1>2

LEMMA RejectTemplateInv ==
  ASSUME IInv, NEW r \in Request, RejectTemplate(r)
  PROVE  IInv'
BY AnswerInv DEF RejectTemplate, Answers

LEMMA InsertTemplateInv ==
  ASSUME IInv, NEW r \in Request, InsertTemplate(r)
  PROVE  IInv'
<1> DEFINE view == [View(r) EXCEPT !.templates = @ \cup {asked[r].user}]
<1>1. /\ at[r] = "newtemplate" /\ LockFree(r) /\ Wrote(r, view)
      /\ GoTo(r, "commit") /\ UNCHANGED <<k, loaded>>
  BY DEF InsertTemplate
<1>2. View(r) \in Views /\ asked[r].user \in User
  BY <1>1, UploadView DEF LockFree
<1>3. /\ view \in Views /\ view.users = View(r).users /\ view.expense = View(r).expense
      /\ view.sessions \cup view.templates =
           View(r).sessions \cup View(r).templates \cup {asked[r].user}
  BY <1>2 DEF Views
<1> HIDE DEF view
<1> QED BY <1>1, <1>3, UploadInv

LEMMA SelectSessionInv ==
  ASSUME IInv, NEW r \in Request, SelectSession(r)
  PROVE  IInv'
<1>1. CASE Answer(r, "404") \/ Answer(r, "200")
  BY <1>1, AnswerInv DEF Answers
<1>2. CASE ~(Answer(r, "404") \/ Answer(r, "200"))
  <2>1. PICK place \in {"commit", "load"} :
          /\ at' = [at EXCEPT ![r] = place]
          /\ place = "commit" <=> asked[r].txs = <<>>
    BY <1>2 DEF SelectSession, GoTo
  <2>2. /\ at[r] = "session" /\ asked[r].user \in View(r).sessions
        /\ UNCHANGED <<users, sessions, templates, expense, writer, dirty, asked, k, loaded>>
    BY <1>2 DEF SelectSession, Keep
  <2>3. TypeOK /\ RequestInv(r) /\ Registered
    BY DEF IInv
  <2>4. writer # r
    BY <2>2, <2>3, ViewTyped DEF RequestInv, WriterInv, Registered
  <2>5. TypeOK' /\ Registered'
    BY <2>1, <2>2, <2>3 DEF TypeOK, Upserting, Registered
  <2>6. at'[r] = place /\ \A s \in Request \ {r} : at'[s] = at[s]
    BY <2>1, <2>3 DEF TypeOK
  <2>7. k'[r] = 1 /\ \A t \in Tx : loaded'[r][t] \notin Record
    BY <2>2, <2>3, ReviewAssumption DEF RequestInv, PlaceInv, Before
  <2>8. place = "load" => 1 \in 1 .. Len(asked[r].txs)
    <3>1. asked[r].txs \in Seq(Tx)
      BY <2>3 DEF TypeOK, Asked
    <3> QED BY <2>1, <3>1
  <2>9. DoneTxs(r)' = {}
    <3>1. CASE place = "commit"
      BY <3>1, <2>1, <2>2 DEF DoneTxs
    <3>2. CASE place = "load"
      BY <3>2, <2>6, <2>7 DEF DoneTxs
    <3> QED BY <3>1, <3>2
  <2>10. RequestInv(r)'
    BY <2>2, <2>3, <2>4, <2>6, <2>7, <2>8, <2>9
       DEF RequestInv, PlaceInv, ViewInv, WriterInv, Before, Upserting
  <2>11. Frame(r)
    BY <2>2, <2>6 DEF Frame
  <2> QED BY <2>5, <2>10, <2>11, OthersKeep
<1> QED BY <1>1, <1>2

\* The transaction a request works on is one of those it was asked for.
LEMMA CurrentTyped ==
  ASSUME IInv, NEW r \in Request, at[r] \in {"load", "flush"}
  PROVE  /\ CurrentTx(r) \in Tx
         /\ k[r] \in 1 .. Len(asked[r].txs) /\ Len(asked[r].txs) \in Nat
         /\ \A n \in 1 .. Len(asked[r].txs) : asked[r].txs[n] \in Tx
<1>1. asked[r].txs \in Seq(Tx)
  BY DEF IInv, TypeOK, Asked
<1>2. k[r] \in 1 .. Len(asked[r].txs)
  BY DEF IInv, RequestInv, PlaceInv
<1> QED BY <1>1, <1>2 DEF CurrentTx

LEMMA LoadRecordInv ==
  ASSUME IInv, NEW r \in Request, LoadRecord(r)
  PROVE  IInv'
<1> DEFINE cur == CurrentTx(r)
<1>1. CASE Owner[cur] # asked[r].user
  BY <1>1, FailureInv DEF LoadRecord, Answers
<1>2. CASE Owner[cur] = asked[r].user
  <2>1. /\ at[r] = "load" /\ at' = [at EXCEPT ![r] = "flush"]
        /\ loaded' = IF loaded[r][cur] \in Record THEN loaded
                     ELSE [loaded EXCEPT ![r][cur] = View(r).expense[cur]]
        /\ UNCHANGED <<users, sessions, templates, expense, writer, dirty, asked, k>>
    BY <1>2 DEF LoadRecord, GoTo, Keep
  <2>2. TypeOK /\ RequestInv(r) /\ Registered
    BY DEF IInv
  <2>3. cur \in Tx /\ View(r).expense \in Expenses
    BY <2>1, CurrentTyped, ViewTyped DEF Views
  <2>4. View(r).expense[cur] \in {NoRecord} \cup Record
    BY <2>3 DEF Expenses
  <2>5. /\ loaded' \in [Request -> [Tx -> {Null, NoRecord} \cup Record]]
        /\ loaded'[r][cur] = IF loaded[r][cur] \in Record THEN loaded[r][cur]
                             ELSE View(r).expense[cur]
        /\ \A t \in Tx \ {cur} : loaded'[r][t] = loaded[r][t]
        /\ \A s \in Request \ {r} : loaded'[s] = loaded[s]
    BY <2>1, <2>2, <2>3, <2>4 DEF TypeOK
  <2>6. TypeOK' /\ Registered'
    BY <2>1, <2>2, <2>5 DEF TypeOK, Upserting, Registered
  <2>7. at'[r] = "flush" /\ \A s \in Request \ {r} : at'[s] = at[s]
    BY <2>1, <2>2 DEF TypeOK
  <2>8. DoneTxs(r)' = DoneTxs(r) /\ View(r)' = View(r) /\ CurrentTx(r)' = cur
    BY <2>1, <2>7 DEF DoneTxs, View, Committed, CurrentTx
  <2>9. DoneTxs(r) \subseteq Tx
    BY <2>1, CurrentTyped DEF DoneTxs
  <2>10. PlaceInv(r)'
    <3>1. \A t \in DoneTxs(r) : loaded'[r][t] \in Record /\ Owner[t] = asked[r].user
      BY <2>1, <2>2, <2>5, <2>9 DEF RequestInv, PlaceInv, Upserting
    <3>2. loaded'[r][cur] \in {NoRecord} \cup Record
      BY <2>4, <2>5
    <3>3. asked[r].kind \notin Upload /\ k[r] \in 1 .. Len(asked[r].txs)
      BY <2>1, <2>2 DEF RequestInv, PlaceInv
    <3> QED BY <1>2, <2>1, <2>7, <2>8, <3>1, <3>2, <3>3 DEF PlaceInv, Before
  <2>11. ViewInv(r)'
    BY <2>1, <2>2, <2>5, <2>7, <2>8 DEF RequestInv, ViewInv, Upserting
  <2>12. WriterInv(r)'
    BY <2>1, <2>2, <2>7, <2>8 DEF RequestInv, WriterInv, Upserting, Brought
  <2>13. Frame(r)
    BY <2>1, <2>5, <2>7 DEF Frame
  <2> QED BY <2>6, <2>10, <2>11, <2>12, <2>13, OthersKeep DEF RequestInv
<1> QED BY <1>1, <1>2

\* After an upsert a request is through with one more transaction.
LEMMA AdvanceFacts ==
  ASSUME IInv, NEW r \in Request, at[r] = "flush", Advance(r), UNCHANGED asked
  PROVE  /\ at' \in [Request -> Before \cup Upserting \cup Answers \cup {"gone"}]
         /\ k' \in [Request -> Nat]
         /\ at'[r] \in {"load", "commit"}
         /\ at'[r] = "load" => k'[r] \in 1 .. Len(asked[r].txs)
         /\ DoneTxs(r)' = DoneTxs(r) \cup {CurrentTx(r)}
         /\ \A s \in Request \ {r} : at'[s] = at[s] /\ k'[s] = k[s]
<1> DEFINE n == Len(asked[r].txs)
           txs == asked[r].txs
<1>1. /\ TypeOK /\ k[r] \in 1 .. n /\ n \in Nat /\ asked[r].kind \notin Upload
  BY CurrentTyped DEF IInv, RequestInv, PlaceInv
<1>2. DoneTxs(r) = {txs[i] : i \in {m \in 1 .. n : m < k[r]}}
  BY DEF DoneTxs
<1>3. CASE NextTx(r)
  <2>1. /\ at' = [at EXCEPT ![r] = "load"] /\ k' = [k EXCEPT ![r] = @ + 1]
        /\ k[r] < n
    BY <1>3 DEF Advance, NextTx, GoTo
  <2>2. /\ at'[r] = "load" /\ k'[r] = k[r] + 1
        /\ at' \in [Request -> Before \cup Upserting \cup Answers \cup {"gone"}]
        /\ k' \in [Request -> Nat]
        /\ \A s \in Request \ {r} : at'[s] = at[s] /\ k'[s] = k[s]
    BY <1>1, <2>1 DEF TypeOK, Upserting
  <2>3. DoneTxs(r)' = {txs[i] : i \in {m \in 1 .. n : m < k[r] + 1}}
    BY <2>2 DEF DoneTxs
  <2>4. {m \in 1 .. n : m < k[r] + 1} = {m \in 1 .. n : m < k[r]} \cup {k[r]}
    BY <1>1
  <2>5. DoneTxs(r)' = DoneTxs(r) \cup {CurrentTx(r)}
    BY <1>2, <2>3, <2>4 DEF CurrentTx
  <2> QED BY <1>1, <2>1, <2>2, <2>5
<1>4. CASE ~NextTx(r)
  <2>1. /\ at' = [at EXCEPT ![r] = "commit"] /\ k' = k /\ k[r] = n
    BY <1>1, <1>4 DEF Advance, NextTx, GoTo
  <2>2. /\ at'[r] = "commit"
        /\ at' \in [Request -> Before \cup Upserting \cup Answers \cup {"gone"}]
        /\ \A s \in Request \ {r} : at'[s] = at[s] /\ k'[s] = k[s]
    BY <1>1, <2>1 DEF TypeOK, Upserting
  <2>3. DoneTxs(r)' = {txs[i] : i \in 1 .. n}
    BY <1>1, <2>2 DEF DoneTxs
  <2>4. 1 .. n = {m \in 1 .. n : m < k[r]} \cup {k[r]}
    BY <1>1, <2>1
  <2>5. DoneTxs(r)' = DoneTxs(r) \cup {CurrentTx(r)}
    BY <1>2, <2>3, <2>4 DEF CurrentTx
  <2> QED BY <1>1, <2>1, <2>2, <2>5 DEF TypeOK
<1> QED BY <1>3, <1>4

LEMMA NothingToFlushInv ==
  ASSUME IInv, NEW r \in Request, NothingToFlush(r)
  PROVE  IInv'
<1> DEFINE cur == CurrentTx(r)
<1>1. /\ at[r] = "flush" /\ loaded[r][cur] # NoRecord /\ Advance(r)
      /\ UNCHANGED <<users, sessions, templates, expense, writer, dirty, asked, loaded>>
  BY DEF NothingToFlush, Keep
<1>2. TypeOK /\ RequestInv(r) /\ Registered /\ cur \in Tx
  BY <1>1, CurrentTyped DEF IInv
<1>3. /\ at' \in [Request -> Before \cup Upserting \cup Answers \cup {"gone"}]
      /\ k' \in [Request -> Nat]
      /\ at'[r] \in {"load", "commit"}
      /\ at'[r] = "load" => k'[r] \in 1 .. Len(asked[r].txs)
      /\ DoneTxs(r)' = DoneTxs(r) \cup {cur}
      /\ \A s \in Request \ {r} : at'[s] = at[s] /\ k'[s] = k[s]
  BY <1>1, AdvanceFacts
<1>4. TypeOK' /\ Registered'
  BY <1>1, <1>2, <1>3 DEF TypeOK, Registered
<1>5. loaded[r][cur] \in Record /\ Owner[cur] = asked[r].user
  BY <1>1, <1>2 DEF RequestInv, PlaceInv
<1>6. PlaceInv(r)'
  BY <1>1, <1>2, <1>3, <1>5 DEF RequestInv, PlaceInv, Before, Upserting
<1>7. View(r)' = View(r)
  BY <1>1 DEF View, Committed
<1>8. ViewInv(r)'
  BY <1>1, <1>2, <1>3, <1>7 DEF RequestInv, ViewInv, Upserting
<1>9. WriterInv(r)'
  <2> SUFFICES ASSUME writer' = r PROVE WriterInv(r)'
    BY DEF WriterInv
  <2>1. /\ writer = r /\ WriterInv(r) /\ View(r) = dirty
        /\ dirty.expense[cur] \in Record
    BY <1>1, <1>2, <1>5, ViewTyped DEF RequestInv, ViewInv, Upserting
  <2>2. \A f \in Field :
          \/ dirty.expense[cur].field[f] = asked[r].patch[f]
          \/ expense[cur] \in Record /\ dirty.expense[cur].field[f] = expense[cur].field[f]
    <3>1. CASE cur \in DoneTxs(r)
      BY <2>1, <3>1 DEF WriterInv
    <3>2. CASE cur \notin DoneTxs(r)
      BY <1>2, <2>1, <3>2 DEF WriterInv
    <3> QED BY <3>1, <3>2
  <2> QED BY <1>1, <1>3, <2>1, <2>2 DEF WriterInv, Upserting, Brought
<1>10. Frame(r)
  BY <1>1, <1>3 DEF Frame
<1> QED BY <1>4, <1>6, <1>8, <1>9, <1>10, OthersKeep DEF RequestInv

\* A flush that writes one record, each field of it patched or left.
LEMMA FlushInv ==
  ASSUME IInv, NEW r \in Request, at[r] = "flush", writer \in {NoOne, r}, Advance(r),
         NEW record \in Record, NEW image \in Record,
         Wrote(r, [View(r) EXCEPT !.expense[CurrentTx(r)] = record]),
         loaded' = [loaded EXCEPT ![r][CurrentTx(r)] = image],
         \A f \in Field :
           \/ record.field[f] = asked[r].patch[f]
           \/ /\ View(r).expense[CurrentTx(r)] \in Record
              /\ record.field[f] = View(r).expense[CurrentTx(r)].field[f]
  PROVE  IInv'
<1> DEFINE cur == CurrentTx(r)
           seen == View(r).expense
<1>1. /\ writer' = r /\ dirty' = [View(r) EXCEPT !.expense[cur] = record]
      /\ UNCHANGED <<users, sessions, templates, expense, asked>>
  BY DEF Wrote, Keep
<1>2. /\ TypeOK /\ RequestInv(r) /\ Registered /\ cur \in Tx /\ NoOne \notin Request
  BY CurrentTyped, ReviewAssumption DEF IInv
<1>3. /\ at' \in [Request -> Before \cup Upserting \cup Answers \cup {"gone"}]
      /\ k' \in [Request -> Nat]
      /\ at'[r] \in {"load", "commit"}
      /\ at'[r] = "load" => k'[r] \in 1 .. Len(asked[r].txs)
      /\ DoneTxs(r)' = DoneTxs(r) \cup {cur}
      /\ \A s \in Request \ {r} : at'[s] = at[s] /\ k'[s] = k[s]
  BY <1>1, AdvanceFacts
<1>4. /\ loaded' \in [Request -> [Tx -> {Null, NoRecord} \cup Record]]
      /\ loaded'[r][cur] = image
      /\ \A t \in Tx \ {cur} : loaded'[r][t] = loaded[r][t]
      /\ \A s \in Request \ {r} : loaded'[s] = loaded[s]
  BY <1>2 DEF TypeOK
<1>5. TypeOK' /\ Registered'
  BY <1>1, <1>2, <1>3, <1>4 DEF TypeOK, Registered
<1>6. PlaceInv(r)'
  <2>1. \A t \in DoneTxs(r) \cup {cur} : loaded'[r][t] \in Record /\ Owner[t] = asked[r].user
    <3>1. DoneTxs(r) \subseteq Tx
      BY CurrentTyped DEF DoneTxs
    <3> QED BY <1>2, <1>4, <3>1 DEF RequestInv, PlaceInv, Upserting
  <2> QED BY <1>1, <1>2, <1>3, <2>1 DEF RequestInv, PlaceInv, Before
<1>7. /\ View(r) \in Views /\ seen \in [Tx -> {NoRecord} \cup Record]
      /\ users \subseteq View(r).users /\ Brought(View(r))
      /\ \A t \in Tx : expense[t] \in Record => seen[t] \in Record
      /\ \A t \in Tx \ DoneTxs(r) : seen[t] = expense[t]
      /\ \A t \in DoneTxs(r), f \in Field :
           \/ seen[t].field[f] = asked[r].patch[f]
           \/ expense[t] \in Record /\ seen[t].field[f] = expense[t].field[f]
      /\ \A t \in Tx : loaded[r][t] \in Record => seen[t] \in Record
  <2>1. View(r) \in Views /\ seen \in [Tx -> {NoRecord} \cup Record]
    BY ViewTyped DEF Views, Expenses
  <2>2. \A t \in Tx : loaded[r][t] \in Record => seen[t] \in Record
    BY <1>2 DEF RequestInv, ViewInv, Upserting
  <2>3. CASE writer = r
    BY <1>2, <2>1, <2>2, <2>3, ViewTyped DEF RequestInv, WriterInv, Upserting
  <2>4. CASE writer # r
    <3>1. /\ View(r).users = users /\ View(r).sessions = sessions
          /\ View(r).templates = templates /\ seen = expense
      BY <2>4, ViewTyped
    <3>2. \A t \in DoneTxs(r) : t \in Tx /\ loaded[r][t] \in Record
      BY <1>2, CurrentTyped DEF DoneTxs, RequestInv, PlaceInv, Upserting
    <3>3. Brought(View(r)) /\ users \subseteq View(r).users
      BY <1>2, <3>1 DEF Registered, Brought
    <3> QED BY <1>2, <2>1, <2>2, <3>1, <3>2, <3>3
  <2> QED BY <2>3, <2>4
<1>8. /\ dirty' \in Views
      /\ dirty'.users = View(r).users /\ dirty'.sessions = View(r).sessions
      /\ dirty'.templates = View(r).templates
      /\ dirty'.expense[cur] = record
      /\ \A t \in Tx \ {cur} : dirty'.expense[t] = seen[t]
  BY <1>1, <1>2, <1>7 DEF Views, Expenses
<1>9. \A f \in Field :
        \/ record.field[f] = asked[r].patch[f]
        \/ expense[cur] \in Record /\ record.field[f] = expense[cur].field[f]
  <2>1. CASE cur \in DoneTxs(r)
    BY <1>7, <2>1
  <2>2. CASE cur \notin DoneTxs(r)
    BY <1>2, <1>7, <2>2
  <2> QED BY <2>1, <2>2
<1>10. WriterInv(r)'
  <2>1. \A t \in Tx : expense[t] \in Record => dirty'.expense[t] \in Record
    BY <1>7, <1>8
  <2>2. \A t \in Tx \ (DoneTxs(r) \cup {cur}) : dirty'.expense[t] = expense[t]
    BY <1>7, <1>8
  <2>3. \A t \in DoneTxs(r) \cup {cur}, f \in Field :
          \/ dirty'.expense[t].field[f] = asked[r].patch[f]
          \/ expense[t] \in Record /\ dirty'.expense[t].field[f] = expense[t].field[f]
    <3>1. DoneTxs(r) \subseteq Tx
      BY CurrentTyped DEF DoneTxs
    <3> QED BY <1>7, <1>8, <1>9, <3>1
  <2> QED BY <1>1, <1>3, <1>7, <1>8, <2>1, <2>2, <2>3 DEF WriterInv, Upserting, Brought
<1>11. ViewInv(r)'
  <2>1. View(r)' = dirty'
    BY <1>1 DEF View
  <2> QED BY <1>1, <1>3, <1>4, <1>7, <1>8, <2>1 DEF ViewInv, Upserting
<1>12. Frame(r)
  BY <1>1, <1>2, <1>3, <1>4 DEF Frame
<1> QED BY <1>5, <1>6, <1>10, <1>11, <1>12, OthersKeep DEF RequestInv

LEMMA InsertRecordInv ==
  ASSUME IInv, NEW r \in Request, InsertRecord(r)
  PROVE  IInv'
<1>1. CASE Failure(r, "500")
  BY <1>1, FailureInv DEF Answers
<1>2. CASE ~Failure(r, "500")
  <2> DEFINE fresh == [row |-> TRUE, field |-> asked[r].patch]
  <2>1. /\ at[r] = "flush" /\ writer \in {NoOne, r} /\ Advance(r)
        /\ Wrote(r, [View(r) EXCEPT !.expense[CurrentTx(r)] = fresh])
        /\ loaded' = [loaded EXCEPT ![r][CurrentTx(r)] = fresh]
    BY <1>2 DEF InsertRecord, LockFree
  <2>2. fresh \in Record /\ \A f \in Field : fresh.field[f] = asked[r].patch[f]
    BY DEF IInv, TypeOK, Asked, Record
  <2> HIDE DEF fresh
  <2> QED BY <2>1, <2>2, FlushInv
<1> QED BY <1>1, <1>2

\* Laying a patch over a record patches or leaves each field.
LEMMA OverlayFacts ==
  ASSUME IInv, NEW r \in Request, NEW record \in Record
  PROVE  /\ Overlay(r, record) \in Record
         /\ \A f \in Field : \/ Overlay(r, record).field[f] = asked[r].patch[f]
                             \/ Overlay(r, record).field[f] = record.field[f]
<1>1. /\ asked[r].patch \in [Field -> Value \cup {Null}]
      /\ record.field \in [Field -> Value \cup {Null}] /\ record.row = TRUE
  BY DEF IInv, TypeOK, Asked, Record
<1> DEFINE field == [f \in Field |-> IF f \in Changed(r) THEN asked[r].patch[f]
                                     ELSE record.field[f]]
<1>2. Overlay(r, record) = [row |-> TRUE, field |-> field]
  <2>1. Overlay(r, record) = [record EXCEPT !.field = field]
    BY DEF Overlay
  <2> HIDE DEF field
  <2> QED BY <1>1, <2>1 DEF Record
<1>3. field \in [Field -> Value \cup {Null}]
  BY <1>1
<1> QED BY <1>1, <1>2, <1>3 DEF Record

LEMMA UpdateRecordInv ==
  ASSUME IInv, NEW r \in Request, UpdateRecord(r)
  PROVE  IInv'
<1>1. CASE Answer(r, "500")
  BY <1>1, AnswerInv DEF Answers
<1>2. CASE ~Answer(r, "500")
  <2> DEFINE cur == CurrentTx(r)
             record == Overlay(r, View(r).expense[cur])
             image == Overlay(r, loaded[r][cur])
  <2>1. /\ at[r] = "flush" /\ writer \in {NoOne, r} /\ Advance(r)
        /\ loaded[r][cur] # NoRecord
        /\ Wrote(r, [View(r) EXCEPT !.expense[cur] = record])
        /\ loaded' = [loaded EXCEPT ![r][cur] = image]
    BY <1>2 DEF UpdateRecord, LockFree
  <2>2. cur \in Tx /\ loaded[r][cur] \in Record
    BY <2>1, CurrentTyped DEF IInv, RequestInv, PlaceInv
  <2>3. View(r).expense[cur] \in Record
    BY <2>1, <2>2 DEF IInv, RequestInv, ViewInv, Upserting
  <2>4. /\ record \in Record /\ image \in Record
        /\ \A f \in Field : \/ record.field[f] = asked[r].patch[f]
                            \/ record.field[f] = View(r).expense[cur].field[f]
    BY <2>2, <2>3, OverlayFacts
  <2> HIDE DEF record, image
  <2> QED BY <2>1, <2>3, <2>4, FlushInv
<1> QED BY <1>1, <1>2

LEMMA CommitFailsInv ==
  ASSUME IInv, NEW r \in Request, CommitFails(r)
  PROVE  IInv'
BY FailureInv DEF CommitFails, Answers

LEMMA LockTimeoutInv ==
  ASSUME IInv, NEW r \in Request, LockTimeout(r)
  PROVE  IInv'
BY AnswerInv, FailureInv DEF LockTimeout, Answers

\* What the writer saw is what everybody sees now.
LEMMA CommitInv ==
  ASSUME IInv, NEW r \in Request, Commit(r)
  PROVE  IInv'
<1>1. /\ at[r] = "commit" /\ at' = [at EXCEPT ![r] = "200"]
      /\ users' = View(r).users /\ sessions' = View(r).sessions
      /\ templates' = View(r).templates /\ expense' = View(r).expense
      /\ writer' = IF writer = r THEN NoOne ELSE writer
      /\ dirty' = IF writer = r THEN Null ELSE dirty
      /\ UNCHANGED <<asked, k, loaded>>
  BY DEF Commit, GoTo, Release, StoreView
<1>2. TypeOK /\ RequestInv(r) /\ Registered /\ NoOne \notin Request
  BY ReviewAssumption DEF IInv
<1>3. /\ View(r) \in Views
      /\ Brought(View(r)) /\ users \subseteq View(r).users
      /\ \A t \in Tx : expense[t] \in Record => View(r).expense[t] \in Record
  BY <1>1, <1>2, ViewTyped DEF RequestInv, WriterInv, Upserting, Registered, Brought
<1>4. TypeOK' /\ Registered'
  BY <1>1, <1>2, <1>3 DEF TypeOK, Views, Answers, Registered, Brought
<1>5. at'[r] = "200" /\ writer' # r /\ \A s \in Request \ {r} : at'[s] = at[s]
  BY <1>1, <1>2 DEF TypeOK
<1>6. RequestInv(r)'
  BY <1>5 DEF RequestInv, PlaceInv, ViewInv, WriterInv, Before, Upserting
<1>7. \A s \in Request \ {r} :
        \/ writer # s /\ writer' # s
        \/ UNCHANGED <<users, sessions, templates, expense, writer, dirty>>
  BY <1>1, <1>2, ViewTyped
<1>8. Frame(r)
  BY <1>1, <1>3, <1>5, <1>7 DEF Frame
<1> QED BY <1>4, <1>6, <1>8, OthersKeep

LEMMA CrashInv ==
  ASSUME IInv, Crash
  PROVE  IInv'
<1>1. /\ at' = [r \in Request |-> IF at[r] \in Answers \cup {"user"} THEN at[r] ELSE "gone"]
      /\ writer' = NoOne
      /\ UNCHANGED <<users, sessions, templates, expense, asked, k, loaded>>
  BY DEF Crash, Keep
<1>2. TypeOK /\ Registered /\ NoOne \notin Request
  BY ReviewAssumption DEF IInv
<1>3. TypeOK'
  BY <1>1, <1>2 DEF TypeOK, Before
<1>4. ASSUME NEW r \in Request PROVE RequestInv(r)'
  <2>1. /\ at'[r] = at[r] \/ at'[r] = "gone"
        /\ at'[r] \in Answers \cup {"user", "gone"}
    BY <1>1
  <2>2. RequestInv(r) /\ writer' # r
    BY <1>1, <1>2 DEF IInv
  <2> QED BY <1>1, <2>1, <2>2
          DEF RequestInv, PlaceInv, ViewInv, WriterInv, Before, Upserting, Answers
<1> QED BY <1>1, <1>2, <1>3, <1>4 DEF IInv, Registered

LEMMA InitInv ==
  ASSUME Init
  PROVE  IInv
<1>1. /\ Owner \in [Tx -> User] /\ NoOne \notin Request
      /\ Stored \subseteq [Tx -> {NoRecord} \cup Record]
      /\ \A s \in Shape : s \in Asked
  BY ReviewAssumption
<1>2. TypeOK
  BY <1>1 DEF Init, TypeOK, Expenses, Before
<1>3. ASSUME NEW r \in Request PROVE RequestInv(r)
  BY <1>1 DEF Init, RequestInv, PlaceInv, ViewInv, WriterInv, Upserting
<1> QED BY <1>2, <1>3 DEF IInv, Init, Registered

\* The invariant holds whatever the requests ask and however they interleave.
THEOREM Inductive == Spec => []IInv
<1>1. ASSUME IInv, UNCHANGED vars PROVE IInv'
  <2>1. UNCHANGED <<users, sessions, templates, expense, writer, dirty, asked, at, k, loaded>>
    BY <1>1 DEF vars
  <2>2. TypeOK' /\ Registered'
    BY <1>1, <2>1 DEF IInv, TypeOK, Registered
  <2>3. ASSUME NEW r \in Request PROVE RequestInv(r)'
    <3>1. RequestInv(r) /\ DoneTxs(r)' = DoneTxs(r) /\ View(r)' = View(r)
          /\ CurrentTx(r)' = CurrentTx(r)
      BY <1>1, <2>1 DEF IInv, DoneTxs, View, Committed, CurrentTx
    <3> QED BY <2>1, <3>1 DEF RequestInv, PlaceInv, ViewInv, WriterInv, Brought
  <2> QED BY <2>2, <2>3 DEF IInv
<1>2. IInv /\ [Next]_vars => IInv'
  BY <1>1, SelectUserInv, InsertUserInv, InsertSessionInv, RejectTemplateInv,
     InsertTemplateInv, SelectSessionInv, LoadRecordInv, CommitFailsInv,
     InsertRecordInv, UpdateRecordInv, NothingToFlushInv, LockTimeoutInv, CommitInv, CrashInv
     DEF Next, Step
<1> QED BY InitInv, <1>2, PTL DEF Spec

----------------------------------------------------------------------------
(* What the runs check.                                                    *)

\* The write lock belongs to a request under way, never to one that has been
\* answered: every error path rolls back (sessions.py:513).
THEOREM LockIsOwned == Spec => []LockHasOwner
<1>1. IInv => LockHasOwner
  BY DEF IInv, TypeOK, RequestInv, WriterInv, LockHasOwner, Answers, Upserting
<1> QED BY Inductive, <1>1, PTL

\* Only a commit that brings a user's session or template brings the user: no
\* read, no refused upload and no request that fails registers anybody
\* (user_repo.py:17).
THEOREM UsersComeWithUploads == Spec => UserComesWithUpload
<1> DEFINE Comes == \A u \in users' \ users :
                      u \in (sessions' \ sessions) \cup (templates' \ templates)
<1>1. ASSUME IInv, Next PROVE Comes
  <2> SUFFICES ASSUME NEW u \in users' \ users PROVE Comes!(u)
    OBVIOUS
  <2>1. ~Crash
    BY DEF Crash, Keep
  <2>2. ASSUME NEW r \in Request, Step(r) PROVE Commit(r)
    BY <2>2 DEF Step, SelectUser, InsertUser, InsertSession, RejectTemplate, InsertTemplate,
       SelectSession, LoadRecord, InsertRecord, UpdateRecord, NothingToFlush, LockTimeout,
       CommitFails, Answer, Failure, Wrote, Keep
  <2>3. PICK r \in Request : Commit(r)
    BY <1>1, <2>1, <2>2 DEF Next
  <2>4. /\ writer = r /\ users' = dirty.users /\ sessions' = dirty.sessions
        /\ templates' = dirty.templates
    BY <1>1, <2>3, ViewTyped DEF Commit, StoreView
  <2>5. Brought(dirty) /\ Registered
    BY <1>1, <2>3, <2>4 DEF IInv, RequestInv, WriterInv, Commit, Upserting
  <2> QED BY <2>4, <2>5 DEF Brought, Registered
<1>2. IInv /\ [Next]_vars => [Comes]_vars
  BY <1>1
<1>3. Spec => [][Comes]_vars
  BY Inductive, <1>2, PTL DEF Spec
<1> QED BY <1>3 DEF UserComesWithUpload

\* Only the commit of the writer changes stored expense input.
LEMMA OnlyCommitChangesExpense ==
  ASSUME IInv, Next, expense' # expense
  PROVE  \E r \in Request : writer = r /\ Commit(r) /\ expense' = dirty.expense
<1>1. ~Crash
  BY DEF Crash, Keep
<1>2. ASSUME NEW r \in Request, Step(r) PROVE Commit(r)
  BY <1>2 DEF Step, SelectUser, InsertUser, InsertSession, RejectTemplate, InsertTemplate,
     SelectSession, LoadRecord, InsertRecord, UpdateRecord, NothingToFlush, LockTimeout,
     CommitFails, Answer, Failure, Wrote, Keep
<1>3. PICK r \in Request : Commit(r)
  BY <1>1, <1>2 DEF Next
<1>4. writer = r /\ expense' = dirty.expense
  BY <1>3, ViewTyped DEF Commit, StoreView
<1> QED BY <1>3, <1>4

\* A change of stored input is one request's, through all its transactions
\* and no others (sessions.py:487).
THEOREM RequestsAreWhole == Spec => WholeRequests
<1> DEFINE Whole(r) ==
             /\ at[r] = "commit" /\ at'[r] = "200"
             /\ \A t \in Tx :
                  IF \A n \in DOMAIN asked[r].txs : asked[r].txs[n] # t
                  THEN expense'[t] = expense[t]
                  ELSE /\ loaded[r][t] \in Record /\ Owner[t] = asked[r].user
                       /\ \A f \in Field : asked[r].patch[f] # Null =>
                            \/ expense'[t].field[f] = asked[r].patch[f]
                            \/ expense'[t] # NoRecord
                               /\ expense'[t].field[f] = expense[t].field[f]
           Changes == expense' # expense => \E r \in Request : Whole(r)
<1>1. ASSUME IInv, Next PROVE Changes
  <2> SUFFICES ASSUME expense' # expense PROVE \E r \in Request : Whole(r)
    OBVIOUS
  <2>1. PICK r \in Request : writer = r /\ Commit(r) /\ expense' = dirty.expense
    BY <1>1, OnlyCommitChangesExpense
  <2>2. /\ TypeOK /\ PlaceInv(r) /\ ViewInv(r) /\ WriterInv(r)
        /\ View(r) = dirty /\ dirty \in Views
    BY <1>1, <2>1, ViewTyped DEF IInv, RequestInv
  <2>3. at[r] = "commit" /\ at'[r] = "200"
    BY <2>1, <2>2 DEF Commit, GoTo, TypeOK
  <2>4. asked[r].txs \in Seq(Tx) /\ DOMAIN asked[r].txs = 1 .. Len(asked[r].txs)
    BY <2>2 DEF TypeOK, Asked
  <2>5. asked[r].kind \notin Upload
    <3> SUFFICES ASSUME asked[r].kind \in Upload PROVE FALSE
      OBVIOUS
    <3>1. dirty.expense \in Expenses /\ expense \in Expenses
      BY <2>2 DEF TypeOK, Views
    <3>2. PICK t \in Tx : dirty.expense[t] # expense[t]
      BY <2>1, <3>1 DEF Expenses
    <3>3. t \in DoneTxs(r)
      BY <2>1, <2>2, <3>2 DEF WriterInv
    <3>4. k[r] = 1
      BY <2>2, <2>3 DEF PlaceInv
    <3>5. \A m \in 1 .. Len(asked[r].txs) : ~(m < k[r])
      BY <2>4, <3>4
    <3> QED BY <3>3, <3>5 DEF DoneTxs
  <2>6. DoneTxs(r) = {asked[r].txs[n] : n \in 1 .. Len(asked[r].txs)}
    BY <2>3, <2>5 DEF DoneTxs
  <2>7. ASSUME NEW t \in Tx, \A n \in DOMAIN asked[r].txs : asked[r].txs[n] # t
        PROVE  expense'[t] = expense[t]
    BY <2>1, <2>2, <2>4, <2>6, <2>7 DEF WriterInv
  <2>8. ASSUME NEW t \in Tx, ~\A n \in DOMAIN asked[r].txs : asked[r].txs[n] # t
        PROVE  /\ loaded[r][t] \in Record /\ Owner[t] = asked[r].user
               /\ \A f \in Field :
                    \/ expense'[t].field[f] = asked[r].patch[f]
                    \/ expense'[t] # NoRecord /\ expense'[t].field[f] = expense[t].field[f]
    <3>1. t \in DoneTxs(r)
      BY <2>4, <2>6, <2>8
    <3>2. loaded[r][t] \in Record /\ Owner[t] = asked[r].user
      BY <2>2, <2>3, <3>1 DEF PlaceInv, Upserting
    <3>3. expense'[t] # NoRecord
      BY <2>1, <2>2, <2>3, <3>2 DEF ViewInv, Upserting, Record, NoRecord
    <3> QED BY <2>1, <2>2, <3>1, <3>2, <3>3 DEF WriterInv
  <2> QED BY <2>3, <2>7, <2>8
<1>2. IInv /\ [Next]_vars => [Changes]_vars
  BY <1>1
<1>3. Spec => [][Changes]_vars
  BY Inductive, <1>2, PTL DEF Spec
<1> QED BY <1>3 DEF WholeRequests

\* Users who edit different fields of a transaction at a time do not undo each
\* other's edits (sessions.py:361).
THEOREM EditsOfOthersStay == Spec => NoFieldWrittenBack
<1> DEFINE Own ==
      \A t \in Tx : expense[t] \in Record =>
        \A f \in Field : expense'[t].field[f] # expense[t].field[f] =>
          \E r \in Request : at'[r] # at[r] /\ asked[r].patch[f] = expense'[t].field[f]
<1>1. ASSUME IInv, Next PROVE Own
  <2>1. CASE expense' = expense
    BY <2>1
  <2>2. CASE expense' # expense
    <3>1. PICK r \in Request : writer = r /\ Commit(r) /\ expense' = dirty.expense
      BY <1>1, <2>2, OnlyCommitChangesExpense
    <3>2. TypeOK /\ WriterInv(r)
      BY <1>1 DEF IInv, RequestInv
    <3>3. at'[r] # at[r]
      BY <3>1, <3>2 DEF Commit, GoTo, TypeOK
    <3>4. \A t \in Tx, f \in Field :
            expense[t] \in Record => \/ expense'[t].field[f] = asked[r].patch[f]
                                     \/ expense'[t].field[f] = expense[t].field[f]
      BY <3>1, <3>2 DEF WriterInv
    <3> QED BY <3>3, <3>4
  <2> QED BY <2>1, <2>2
<1>2. IInv /\ [Next]_vars => [Own]_vars
  BY <1>1
<1>3. Spec => [][Own]_vars
  BY Inductive, <1>2, PTL DEF Spec
<1> QED BY <1>3 DEF NoFieldWrittenBack
=============================================================================
