-------------------------- MODULE ExpenseWorkbook --------------------------
(***************************************************************************)
(* From receipts and card transactions to the workbook: the matcher runs   *)
(* at the end of the job (runner.py), its result is stored, given an       *)
(* expense by the reviewer, read back in date order (sessions.py,          *)
(* generate_session_artifacts), and written into the template.             *)
(***************************************************************************)
EXTENDS TransactionMatcher, XlsxWriter

VARIABLE
  source      \* the reconciled entry each row of the writer stands for

vars == <<matcherVars, writerVars, source>>

NoTemplate == [sheets |-> <<>>, names |-> {}]

Init ==
  /\ MatcherInit
  /\ source = <<>>
  /\ template = NoTemplate /\ rows = <<>> /\ configs = <<>>
  /\ book = <<>> /\ nextRow = <<>> /\ written = 0
  /\ stage = "waiting"

\* The transaction of a reconciled entry.
Stored(entry) == IF entry.kind = "receipt" THEN receipts[entry.idx] ELSE cards[entry.idx]

\* Mutant: in the order they were stored.
ByDateAsStored == Reconciled

\* list_for_session: by date, those of one date in the order they were stored.
ByDate ==
  LET stored == Reconciled
      Day(a) == Stored(stored[a]).date
      Earlier == {p \in (DOMAIN stored) \X (DOMAIN stored) :
                    \/ Day(p[1]) < Day(p[2])
                    \/ Day(p[1]) = Day(p[2]) /\ p[1] < p[2]}
      order == InOrder(DOMAIN stored, Earlier)
  IN [n \in DOMAIN order |-> stored[order[n]]]

\* What a transaction without an expense record is given.
Unreviewed == [sheet : Kind, category : {"other"}]

\* Bound: at most MaxRows transactions are stored.
Generate ==
  /\ stage = "waiting"
  /\ MatcherDone
  /\ Len(Reconciled) <= MaxRows
  /\ \E wb \in Workbook, given \in [DOMAIN Reconciled -> Expense \cup Unreviewed] :
       /\ template' = wb
       /\ rows' = given
       /\ configs' = Analyze(wb)
       /\ book' = Loaded(wb)
       /\ nextRow' = FirstRows(wb)
       /\ written' = 0
       /\ stage' = IF Analyze(wb) = <<>> THEN "failed" ELSE "loaded"
  /\ source' = ByDate
  /\ UNCHANGED matcherVars

Next ==
  \/ stage = "waiting" /\ MatcherNext /\ UNCHANGED <<writerVars, source>>
  \/ Generate
  \/ WriterNext /\ UNCHANGED <<matcherVars, source>>

Spec == Init /\ [][Next]_vars

----------------------------------------------------------------------------
(* Properties.                                                             *)

\* Reading a sheet of the saved workbook downwards, the days do not go back,
\* whether a line stems from a receipt or from the card statement.
LinesInDateOrder ==
  stage = "saved" => \A t \in DOMAIN book : \A r, q \in DOMAIN book[t] :
    \A a, b \in 1 .. Columns : book[t][r][a].is = "date" /\ book[t][q][b].is = "date" /\ r < q =>
        Stored(source[book[t][r][a].of]).date <= Stored(source[book[t][q][b].of]).date
=============================================================================
