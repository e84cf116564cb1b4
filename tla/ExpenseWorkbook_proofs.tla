------------------------ MODULE ExpenseWorkbook_proofs ------------------------
(***************************************************************************)
(* Proofs about TransactionMatcher and ExpenseWorkbook, for every set of   *)
(* transactions, lists of any length and all templates.                    *)
(***************************************************************************)
EXTENDS ExpenseWorkbook, ListLemmas

----------------------------------------------------------------------------
(* The matcher.                                                            *)

\* What the inner loop knows before it looks at card number card: the best
\* card so far is free and eligible, and no card before it is closer.
ScanInv ==
  /\ best # 0 =>
       /\ Len(partner) < Len(receipts)
       /\ best \notin consumed
       /\ Eligible(Current, cards[best])
  /\ Len(partner) < Len(receipts) =>
       \A k \in 1 .. card - 1 :
         k \notin consumed /\ Eligible(Current, cards[k]) =>
           /\ best # 0
           /\ \/ TimeDiff(Current, cards[k]) > TimeDiff(Current, cards[best])
              \/ /\ TimeDiff(Current, cards[k]) = TimeDiff(Current, cards[best])
                 /\ k >= best

\* The parts of GreedyChoice: card k is not closer to receipt j than card p is,
\* and p is the right choice for receipt j.
NotCloser(j, k, p) ==
  /\ p # 0
  /\ \/ TimeDiff(receipts[j], cards[k]) > TimeDiff(receipts[j], cards[p])
     \/ /\ TimeDiff(receipts[j], cards[k]) = TimeDiff(receipts[j], cards[p])
        /\ k >= p

ChosenWell(j, p) ==
  /\ p # 0 => Eligible(receipts[j], cards[p])
  /\ \A k \in DOMAIN cards :
       Eligible(receipts[j], cards[k]) /\ ~TakenBefore(j, k) => NotCloser(j, k, p)

MatcherInv == MatcherTypeOK /\ OneToOne /\ ScanInv /\ GreedyChoice

\* The distance of two transactions is an integer.
LEMMA TimeDiffInt ==
  ASSUME NEW a \in Transaction, NEW b \in Transaction
  PROVE  TimeDiff(a, b) \in Int
<1>1. CASE NoTime \in {a.time, b.time}
  BY <1>1 DEF TimeDiff, Tolerance
<1>2. CASE NoTime \notin {a.time, b.time}
  <2>1. a.time \in Nat /\ b.time \in Nat
    BY <1>2, MatcherAssumption
  <2>2. TimeDiff(a, b) = IF a.time >= b.time THEN a.time - b.time ELSE b.time - a.time
    BY <1>2 DEF TimeDiff
  <2> QED BY <2>1, <2>2
<1> QED BY <1>1, <1>2

\* Bounded lists are sequences.
LEMMA ListsAreSequences ==
  ASSUME NEW n \in Nat, NEW ts \in ListsUpTo(n)
  PROVE  ts \in Seq(Transaction)
<1>1. PICK m \in 0 .. n : ts \in [1 .. m -> Transaction]
  BY DEF ListsUpTo
<1> QED BY <1>1

\* The receipt whose turn it is and every card are transactions.
LEMMA Operands ==
  ASSUME MatcherTypeOK
  PROVE  /\ Len(partner) < Len(receipts) => Current \in Transaction
         /\ \A k \in 1 .. Len(cards) : cards[k] \in Transaction
BY DEF MatcherTypeOK, Current

LEMMA StartInv == MatcherInit => MatcherInv
<1> SUFFICES ASSUME MatcherInit PROVE MatcherInv
  OBVIOUS
<1>1. PICK rs \in ListsUpTo(MaxReceipts), cs \in ListsUpTo(MaxCards) : MatcherStart(rs, cs)
  BY DEF MatcherInit
<1>2. rs \in Seq(Transaction) /\ cs \in Seq(Transaction)
  BY MatcherAssumption, ListsAreSequences
<1>3. MatcherTypeOK
  BY <1>1, <1>2 DEF MatcherStart, MatcherTypeOK
<1>4. OneToOne /\ ScanInv /\ GreedyChoice
  BY <1>1, <1>2 DEF MatcherStart, OneToOne, ScanInv, GreedyChoice
<1> QED BY <1>3, <1>4 DEF MatcherInv

\* One turn of the inner loop.
LEMMA ExamineInv ==
  ASSUME MatcherInv, Examine
  PROVE  MatcherInv'
<1> USE DEF MatcherInv
<1>1. MatcherTypeOK'
  BY DEF MatcherTypeOK, Examine
<1>2. OneToOne' /\ GreedyChoice'
  BY DEF OneToOne, GreedyChoice, Examine, TakenBefore, Eligible, Compatible, TimeDiff
<1>3. /\ card \in 1 .. Len(cards) /\ card' = card + 1
      /\ UNCHANGED <<receipts, cards, partner, consumed>>
      /\ Current' = Current
      /\ best \in 0 .. card - 1
  BY DEF MatcherTypeOK, Examine, Current
<1>4. /\ Current \in Transaction
      /\ \A k \in 1 .. Len(cards) : TimeDiff(Current, cards[k]) \in Int
  BY Operands, TimeDiffInt DEF Examine
<1>5. CASE Improves(card)
  <2>1. best' = card
    BY <1>5 DEF Examine
  <2>2. /\ card \notin consumed /\ Eligible(Current, cards[card])
        /\ best # 0 => TimeDiff(Current, cards[card]) < TimeDiff(Current, cards[best])
    BY <1>5 DEF Improves
  <2>3. ScanInv'
    BY <2>1, <2>2, <1>3, <1>4 DEF ScanInv, Examine, Eligible, Compatible, TimeDiff
  <2> QED BY <1>1, <1>2, <2>3
<1>6. CASE ~Improves(card)
  <2>1. best' = best
    BY <1>6 DEF Examine
  <2>2. card \notin consumed /\ Eligible(Current, cards[card]) =>
          best # 0 /\ ~(TimeDiff(Current, cards[card]) < TimeDiff(Current, cards[best]))
    BY <1>6 DEF Improves
  <2>3. ScanInv'
    BY <2>1, <2>2, <1>3, <1>4 DEF ScanInv, Examine, Eligible, Compatible, TimeDiff
  <2> QED BY <1>1, <1>2, <2>3
<1> QED BY <1>5, <1>6

\* The inner loop is over: the receipt gets the best card, or none.
LEMMA SettleInv ==
  ASSUME MatcherInv, Settle
  PROVE  MatcherInv'
<1> USE DEF MatcherInv
<1> DEFINE i == Len(partner) + 1
<1>a. /\ receipts \in Seq(Transaction) /\ cards \in Seq(Transaction)
      /\ partner \in Seq(0 .. Len(cards))
      /\ consumed \subseteq 1 .. Len(cards)
      /\ card \in 1 .. Len(cards) + 1 /\ best \in 0 .. card - 1
  BY DEF MatcherTypeOK
<1>b. /\ Len(partner) < Len(receipts) /\ card > Len(cards)
      /\ partner' = Append(partner, best) /\ card' = 1 /\ best' = 0
      /\ receipts' = receipts /\ cards' = cards
      /\ consumed' = IF best = 0 THEN consumed ELSE consumed \cup {best}
  BY DEF Settle
<1>c. Len(cards) \in Nat /\ Len(partner) \in Nat /\ Len(receipts) \in Nat
  BY <1>a
<1>d. DOMAIN cards = 1 .. Len(cards)
  BY <1>a
<1>e. card = Len(cards) + 1 /\ best \in 0 .. Len(cards)
  BY <1>a, <1>b, <1>c
<1>1. Current = receipts[i]
  BY DEF Current
<1>2. /\ Len(partner') = i /\ DOMAIN partner' = 1 .. i
      /\ DOMAIN partner = 1 .. i - 1 /\ i \in Nat
      /\ \A j \in 1 .. i - 1 : partner'[j] = partner[j]
      /\ partner'[i] = best
  BY <1>a, <1>b, <1>c, <1>e
<1>3. MatcherTypeOK'
  BY <1>a, <1>b, <1>c, <1>e DEF MatcherTypeOK
<1>4. \A k \in 1 .. Len(cards) : k \in consumed <=> \E j \in 1 .. i - 1 : partner[j] = k
  BY <1>d, <1>2 DEF OneToOne
<1>5. best # 0 => best \notin consumed /\ Eligible(receipts[i], cards[best])
  BY <1>1 DEF ScanInv
<1>6. OneToOne'
  <2>1. ASSUME NEW j \in 1 .. i, NEW l \in 1 .. i, partner'[j] = partner'[l], j # l
        PROVE  partner'[j] = 0
    <3>1. CASE j = i
      BY <2>1, <3>1, <1>2, <1>4, <1>5, <1>e
    <3>2. CASE l = i
      BY <2>1, <3>2, <1>2, <1>4, <1>5, <1>e
    <3>3. CASE j # i /\ l # i
      BY <2>1, <3>3, <1>2 DEF OneToOne
    <3> QED BY <3>1, <3>2, <3>3
  <2>2. \A k \in 1 .. Len(cards) : k \in consumed' <=> \E j \in 1 .. i : partner'[j] = k
    BY <1>b, <1>e, <1>2, <1>4
  <2> QED BY <2>1, <2>2, <1>2, <1>b, <1>d DEF OneToOne
<1>7. ScanInv'
  BY <1>b DEF ScanInv
<1>8. GreedyChoice'
  <2>1. \A j \in 1 .. i, k \in 1 .. Len(cards) : TakenBefore(j, k)' <=> TakenBefore(j, k)
    BY <1>2 DEF TakenBefore
  <2>2. \A k \in 1 .. Len(cards) : TakenBefore(i, k) <=> k \in consumed
    BY <1>4 DEF TakenBefore
  <2>3. ASSUME NEW k \in 1 .. Len(cards), k \notin consumed, Eligible(receipts[i], cards[k])
        PROVE  NotCloser(i, k, best)
    BY <2>3, <1>1, <1>b, <1>e DEF ScanInv, NotCloser
  <2>4. ChosenWell(i, best)
    BY <2>2, <2>3, <1>d, <1>5 DEF ChosenWell
  <2>5. \A j \in 1 .. i - 1 : ChosenWell(j, partner[j])
    BY <1>2 DEF GreedyChoice, ChosenWell, NotCloser
  <2>6. ASSUME NEW j \in 1 .. i
        PROVE  ChosenWell(j, partner'[j])
    <3>1. CASE j = i
      BY <3>1, <2>4, <1>2
    <3>2. CASE j \in 1 .. i - 1
      BY <3>2, <2>5, <1>2
    <3> QED BY <3>1, <3>2, <1>2
  <2>7. ASSUME NEW j \in 1 .. i
        PROVE  /\ partner'[j] # 0 => Eligible(receipts[j], cards[partner'[j]])
               /\ \A k \in DOMAIN cards :
                    Eligible(receipts[j], cards[k]) /\ ~TakenBefore(j, k)' =>
                      NotCloser(j, k, partner'[j])
    BY <2>6, <2>1, <1>d DEF ChosenWell
  <2> QED BY <2>7, <1>b, <1>2 DEF GreedyChoice, NotCloser, Eligible, Compatible, TimeDiff
<1> QED BY <1>3, <1>6, <1>7, <1>8

\* The invariant, and why it is needed: that a receipt got the closest card
\* follows from what the inner loop knew when it ended.
THEOREM MatcherInductive == MatcherSpec => []MatcherInv
<1>1. MatcherInv /\ [MatcherNext]_matcherVars => MatcherInv'
  <2>1. MatcherInv /\ UNCHANGED matcherVars => MatcherInv'
    BY DEF MatcherInv, MatcherTypeOK, OneToOne, ScanInv, GreedyChoice, matcherVars,
           Current, TakenBefore, Eligible, Compatible, TimeDiff
  <2> QED BY <2>1, ExamineInv, SettleInv DEF MatcherNext
<1> QED BY StartInv, <1>1, PTL DEF MatcherSpec

\* No card transaction is linked to two receipts, for lists of any length.
THEOREM MatchedOneToOne == MatcherSpec => []OneToOne
<1>1. MatcherInv => OneToOne
  BY DEF MatcherInv
<1> QED BY MatcherInductive, <1>1, PTL

\* Every receipt got the closest free card, the first of those equally close.
THEOREM MatchedGreedily == MatcherSpec => []GreedyChoice
<1>1. MatcherInv => GreedyChoice
  BY DEF MatcherInv
<1> QED BY MatcherInductive, <1>1, PTL

----------------------------------------------------------------------------
(* From the matcher to the workbook.                                       *)

\* Generating a workbook leaves the matcher's result alone: whatever is proved
\* of the matcher holds of the transactions a workbook is made of
\* (runner.py:117-130).
THEOREM WorkbookUsesMatcher == Spec => MatcherSpec
<1>1. Init => MatcherInit
  BY DEF Init
<1>2. [Next]_vars => [MatcherNext]_matcherVars
  BY DEF Next, Generate, vars
<1> QED BY <1>1, <1>2, PTL DEF Spec, MatcherSpec

\* The cells of a sheet have the shape of the template's, and where the
\* template has a formula they hold it.
Intact(cells, original) ==
  /\ DOMAIN cells = DOMAIN original
  /\ \A r \in DOMAIN original : DOMAIN cells[r] = 1 .. Columns
  /\ \A r \in DOMAIN original : \A col \in 1 .. Columns :
       IsFormula(original[r][col]) => cells[r][col] = original[r][col]

\* safe_write spares formulas, wherever it is asked to write.
LEMMA SafeWriteKeeps ==
  ASSUME NEW original, NEW cells, Intact(cells, original),
         NEW col, NEW row, NEW value
  PROVE  Intact(SafeWrite(cells, col, row, value), original)
<1>1. CASE col = 0 \/ IsFormula(cells[row][col])
  BY <1>1 DEF SafeWrite
<1>2. CASE ~(col = 0 \/ IsFormula(cells[row][col]))
  <2>1. SafeWrite(cells, col, row, value) = [cells EXCEPT ![row][col] = value]
    BY <1>2 DEF SafeWrite
  <2> DEFINE after == [cells EXCEPT ![row][col] = value]
  <2>2. DOMAIN after = DOMAIN original
    BY DEF Intact
  <2>3. \A r \in DOMAIN original : DOMAIN after[r] = 1 .. Columns
    BY DEF Intact
  <2>4. ASSUME NEW r \in DOMAIN original, NEW c \in 1 .. Columns, IsFormula(original[r][c])
        PROVE  after[r][c] = original[r][c]
    <3>1. cells[r][c] = original[r][c]
      BY <2>4 DEF Intact
    <3>2. ~(r = row /\ c = col)
      BY <1>2, <2>4, <3>1
    <3>3. after[r][c] = cells[r][c]
      BY <3>2 DEF Intact
    <3> QED BY <3>1, <3>3
  <2> QED BY <2>1, <2>2, <2>3, <2>4 DEF Intact
<1> QED BY <1>1, <1>2

LEMMA WriteReceiptKeeps ==
  ASSUME NEW original, NEW cells, Intact(cells, original), NEW cfg, NEW row, NEW i
  PROVE  Intact(WriteReceipt(cells, cfg, row, i), original)
BY SafeWriteKeeps DEF WriteReceipt

LEMMA ClearKeeps ==
  ASSUME NEW original, NEW cells, Intact(cells, original), NEW cfg
  PROVE  Intact(ClearDataRows(cells, cfg), original)
<1>1. /\ DOMAIN ClearDataRows(cells, cfg) = DOMAIN original
      /\ \A r \in DOMAIN original : DOMAIN ClearDataRows(cells, cfg)[r] = 1 .. Columns
  BY DEF ClearDataRows, Intact
<1>2. ASSUME NEW r \in DOMAIN original, NEW c \in 1 .. Columns, IsFormula(original[r][c])
      PROVE  ClearDataRows(cells, cfg)[r][c] = original[r][c]
  BY <1>2 DEF ClearDataRows, Intact
<1> QED BY <1>1, <1>2 DEF Intact

\* Every sheet of the workbook in memory is a sheet of the template, intact.
BookInv ==
  /\ DOMAIN book = IF stage = "waiting" THEN {} ELSE Titles(template)
  /\ \A t \in DOMAIN book : Intact(book[t], SheetOf(template, t).cells)

LEMMA BookStep == BookInv /\ [Next]_vars => BookInv'
<1> SUFFICES ASSUME BookInv, [Next]_vars PROVE BookInv'
  OBVIOUS
<1>1. CASE UNCHANGED <<stage, template, book>>
  <2>1. Titles(template)' = Titles(template) /\ \A t : SheetOf(template, t)' = SheetOf(template, t)
    BY <1>1 DEF Titles, SheetOf
  <2>2. /\ DOMAIN book' = IF stage' = "waiting" THEN {} ELSE Titles(template)'
        /\ \A t \in DOMAIN book' : Intact(book'[t], SheetOf(template, t).cells)
    BY <1>1, <2>1 DEF BookInv
  <2> QED BY <2>1, <2>2 DEF BookInv
<1>2. CASE Generate
  <2>1. PICK wb \in Workbook : template' = wb /\ book' = Loaded(wb) /\ stage' # "waiting"
    BY <1>2 DEF Generate
  <2>2. ASSUME NEW t \in Titles(wb)
        PROVE  Intact(SheetOf(wb, t).cells, SheetOf(wb, t).cells)
    <3>1. PICK n \in DOMAIN wb.sheets : SheetOf(wb, t) = wb.sheets[n]
      BY DEF Titles, SheetOf
    <3>2. \A r \in DOMAIN wb.sheets[n].cells : DOMAIN wb.sheets[n].cells[r] = 1 .. Columns
      <4>1. \A r \in DOMAIN wb.sheets[n].cells :
              wb.sheets[n].cells[r] = [col \in 1 .. Columns |-> wb.sheets[n].cells[r][col]]
        <5>1. IsSheet(wb.sheets[n])
          BY WriterAssumption DEF WriterAssumption
        <5> QED BY <5>1, Zenon DEF IsSheet
      <4> QED BY <4>1
    <3> QED BY <3>1, <3>2 DEF Intact
  <2>3. /\ Titles(template)' = Titles(wb)
        /\ \A t : SheetOf(template, t)' = SheetOf(wb, t)
    BY <2>1 DEF Titles, SheetOf
  <2> QED BY <2>1, <2>2, <2>3 DEF BookInv, Loaded
<1>3. ASSUME stage # "waiting", stage' # "waiting", template' = template,
             DOMAIN book' = DOMAIN book,
             \A t \in DOMAIN book : Intact(book'[t], SheetOf(template, t).cells)
      PROVE  BookInv'
  BY <1>3 DEF BookInv, Titles, SheetOf
<1>4. CASE Clear
  <2>1. /\ stage # "waiting" /\ stage' # "waiting" /\ template' = template
        /\ DOMAIN book' = DOMAIN book
        /\ \A t \in DOMAIN book :
             book'[t] = IF t \in Configured THEN ClearDataRows(book[t], ConfigFor(t)) ELSE book[t]
    BY <1>4 DEF Clear
  <2> QED BY <1>3, <2>1, ClearKeeps DEF BookInv
<1>5. CASE WriteRow
  <2>1. /\ stage # "waiting" /\ stage' # "waiting" /\ template' = template
        /\ \E u, cfg, row, i : book' = [book EXCEPT ![u] = WriteReceipt(@, cfg, row, i)]
    BY <1>5 DEF WriteRow
  <2>2. PICK u, cfg, row, i : book' = [book EXCEPT ![u] = WriteReceipt(book[u], cfg, row, i)]
    BY <2>1
  <2>3. /\ DOMAIN book' = DOMAIN book
        /\ \A t \in DOMAIN book :
             book'[t] = IF t = u THEN WriteReceipt(book[t], cfg, row, i) ELSE book[t]
    BY <2>2
  <2> QED BY <1>3, <2>1, <2>3, WriteReceiptKeeps DEF BookInv
<1>6. CASE Save \/ SkipRow \/ ClearFails \/ WriteFails
  BY <1>6, <1>3 DEF Save, SkipRow, ClearFails, WriteFails, BookInv
<1>7. CASE MatcherNext /\ UNCHANGED <<writerVars, source>>
  BY <1>1, <1>7 DEF writerVars
<1>8. CASE UNCHANGED vars
  BY <1>1, <1>8 DEF vars, writerVars
<1> QED BY <1>2, <1>4, <1>5, <1>6, <1>7, <1>8 DEF Next, WriterNext

\* Formula cells of the template are never changed, whatever the template, the
\* transactions and their number, and wherever a transaction is written
\* (xlsx_writer.py:4, "SUM cells always stay formulas").
THEOREM FormulasSurvive == Spec => []FormulasKept
<1>1. Init => BookInv
  BY DEF Init, BookInv
<1>2. BookInv => FormulasKept
  BY DEF BookInv, Intact, FormulasKept
<1> QED BY <1>1, <1>2, BookStep, PTL DEF Spec

----------------------------------------------------------------------------
(* What the analysis finds.                                                *)

\* The configurations a workbook's sheets can yield.
ConfigsOf(wb) ==
  {AnalyzedConfig(wb, wb.sheets[n]) : n \in DOMAIN wb.sheets}
  \cup {Placeholder(wb.sheets[n]) : n \in DOMAIN wb.sheets}

\* The sheets of a template are a list.
LEMMA SheetList ==
  ASSUME NEW wb \in Workbook
  PROVE  /\ Len(wb.sheets) \in Nat
         /\ DOMAIN wb.sheets = 1 .. Len(wb.sheets)
         /\ \A n \in DOMAIN wb.sheets : IsSheet(wb.sheets[n])
<1>1. wb.sheets \in Seq(ToSet(wb.sheets)) /\ \A n \in DOMAIN wb.sheets : IsSheet(wb.sheets[n])
  BY WriterAssumption DEF WriterAssumption
<1> HIDE DEF ToSet
<1> QED BY <1>1

\* Every configuration is one of them.
LEMMA AnalysisElements ==
  ASSUME NEW wb \in Workbook
  PROVE  Analyze(wb) \in Seq(ConfigsOf(wb))
<1> DEFINE n == Len(wb.sheets)
           seqs == [k \in 1 .. n |-> ConfigOf(wb, wb.sheets[k])]
           S == ConfigsOf(wb)
<1>1. ASSUME NEW k \in 1 .. n
      PROVE  ConfigOf(wb, wb.sheets[k]) \in Seq(S)
  <2>1. AnalyzedConfig(wb, wb.sheets[k]) \in S /\ Placeholder(wb.sheets[k]) \in S
    BY SheetList, Zenon DEF ConfigsOf
  <2>2. \A c \in S : <<c>> \in Seq(S)
    OBVIOUS
  <2>3. <<>> \in Seq(S)
    OBVIOUS
  <2> HIDE DEF S
  <2> QED BY <2>1, <2>2, <2>3 DEF ConfigOf
<1>2. seqs \in [1 .. n -> Seq(S)]
  BY <1>1
<1>3. Analyze(wb) = FlattenSeq(seqs)
  BY SheetList DEF Analyze
<1>4. n \in Nat
  BY SheetList
<1> HIDE DEF seqs, S, n
<1>5. PICK f \in [0 .. n -> Seq(S)] : FlattenSeq(seqs) = f[n]
  BY <1>2, <1>4, FlattenedParts, Zenon
<1>6. f[n] \in Seq(S)
  BY <1>4
<1> QED BY <1>3, <1>5, <1>6 DEF S

\* The writer works on a template and what the analysis makes of it.
GivenInv ==
  IF stage = "waiting" THEN configs = <<>> /\ DOMAIN book = {}
  ELSE template \in Workbook /\ configs = Analyze(template)

LEMMA GivenStep == GivenInv /\ [Next]_vars => GivenInv'
<1> SUFFICES ASSUME GivenInv, [Next]_vars PROVE GivenInv'
  OBVIOUS
<1>1. CASE UNCHANGED <<stage, template, configs, book>>
  BY <1>1 DEF GivenInv
<1>2. CASE Generate
  <2>1. PICK wb \in Workbook : template' = wb /\ configs' = Analyze(wb) /\ stage' # "waiting"
    BY <1>2 DEF Generate
  <2> QED BY <2>1 DEF GivenInv
<1>3. CASE WriterNext
  <2>1. /\ stage # "waiting" /\ stage' # "waiting"
        /\ template' = template /\ configs' = configs
    BY <1>3 DEF WriterNext, Clear, ClearFails, SkipRow, WriteRow, WriteFails, Save
  <2> QED BY <2>1 DEF GivenInv
<1>4. CASE MatcherNext /\ UNCHANGED <<writerVars, source>>
  BY <1>1, <1>4 DEF writerVars
<1>5. CASE UNCHANGED vars
  BY <1>1, <1>5 DEF vars, writerVars
<1> QED BY <1>2, <1>3, <1>4, <1>5 DEF Next

LEMMA GivenAlways == Spec => []GivenInv
<1>1. Init => GivenInv
  BY DEF Init, GivenInv
<1> QED BY <1>1, GivenStep, PTL DEF Spec

\* The sum row, if there is one, is a row of the sheet.
LEMMA SumRowInSheet ==
  ASSUME NEW ws, IsSheet(ws)
  PROVE  SumRow(ws) = 0 \/ SumRow(ws) \in DataStart .. ws.maxRow
<1> DEFINE rows_ == {r \in DataStart .. ws.maxRow : ws.cells[r][1] = SumLabel}
<1>1. CASE rows_ = {}
  BY <1>1 DEF SumRow
<1>2. CASE rows_ # {}
  <2>1. rows_ \subseteq Nat
    BY DEF DataStart, IsSheet
  <2>2. \E r \in rows_ : \A s \in rows_ : r <= s
    <3> HIDE DEF rows_
    <3> QED BY <1>2, <2>1, LeastNumber
  <2>3. SumRow(ws) = CHOOSE r \in rows_ : \A s \in rows_ : r <= s
    BY <1>2 DEF SumRow
  <2>4. SumRow(ws) \in rows_
    <3> HIDE DEF rows_
    <3> QED BY <2>2, <2>3
  <2> QED BY <2>4
<1> QED BY <1>1, <1>2

\* What is known of a configuration of a template.
Sound(wb, cfg) ==
  /\ cfg.title \in Titles(wb)
  /\ LET ws == SheetOf(wb, cfg.title) IN
       /\ IsSheet(ws)
       /\ cfg \in {AnalyzedConfig(wb, ws), Placeholder(ws)}
       /\ cfg.sumRow = 0 \/ cfg.sumRow \in DataStart .. ws.maxRow
  /\ cfg.end \in Int
  /\ EffectiveEnd(cfg) \in Int
  /\ cfg.sumRow # 0 => EffectiveEnd(cfg) < cfg.sumRow

LEMMA ConfigsSound ==
  ASSUME NEW wb \in Workbook, NEW i \in DOMAIN Analyze(wb)
  PROVE  Sound(wb, Analyze(wb)[i])
<1> DEFINE cfg == Analyze(wb)[i]
<1>1. cfg \in ConfigsOf(wb)
  <2>1. Analyze(wb) \in Seq(ConfigsOf(wb))
    BY AnalysisElements
  <2> QED BY <2>1
<1> HIDE DEF cfg
<1>2. PICK n \in DOMAIN wb.sheets :
        cfg \in {AnalyzedConfig(wb, wb.sheets[n]), Placeholder(wb.sheets[n])}
  BY <1>1 DEF ConfigsOf
<1> DEFINE ws == wb.sheets[n]
<1>3. IsSheet(ws)
  BY SheetList
<1>4. cfg.title = ws.title
  BY <1>2 DEF AnalyzedConfig, Placeholder
<1>5. SheetOf(wb, cfg.title) = ws /\ cfg.title \in Titles(wb)
  <2>1. \A m \in DOMAIN wb.sheets : wb.sheets[m].title = wb.sheets[n].title => m = n
    BY WriterAssumption DEF WriterAssumption
  <2>2. (CHOOSE m \in DOMAIN wb.sheets : wb.sheets[m].title = cfg.title) = n
    BY <2>1, <1>4
  <2> QED BY <2>2, <1>4 DEF SheetOf, Titles
<1>6. /\ cfg.sumRow = 0 \/ cfg.sumRow \in DataStart .. ws.maxRow
      /\ cfg.end \in Int
  <2>1. SumRow(ws) = 0 \/ SumRow(ws) \in DataStart .. ws.maxRow
    BY <1>3, SumRowInSheet
  <2>2. ws.maxRow \in Int /\ DataStart \in Int
    BY <1>3 DEF IsSheet, DataStart
  <2>3. CASE cfg = AnalyzedConfig(wb, ws)
    <3>1. cfg.sumRow = SumRow(ws) /\ cfg.end = DataEnd(ws)
      BY <2>3 DEF AnalyzedConfig
    <3>2. DataEnd(ws) \in Int
      BY <2>1, <2>2 DEF DataEnd
    <3> HIDE DEF ws
    <3> QED BY <2>1, <3>1, <3>2
  <2>4. CASE cfg = Placeholder(ws)
    BY <2>2, <2>4 DEF Placeholder
  <2> QED BY <1>2, <2>3, <2>4
<1>7. EffectiveEnd(cfg) \in Int /\ (cfg.sumRow # 0 => EffectiveEnd(cfg) < cfg.sumRow)
  <2>1. cfg.sumRow \in Int
    BY <1>6, <1>3 DEF IsSheet, DataStart
  <2> QED BY <1>6, <2>1 DEF EffectiveEnd
<1> HIDE DEF ws
<1> QED BY <1>2, <1>3, <1>5, <1>6, <1>7 DEF Sound, cfg, ws

----------------------------------------------------------------------------
(* Growing a sheet.                                                        *)

\* A merged range that is not cut moves with its cells, or stays.
LEMMA MergesMove ==
  ASSUME NEW ws, IsSheet(ws), NEW m \in ws.merges,
         NEW target \in DataStart .. ws.maxRow, m.bottom < target \/ m.top >= target
  PROVE  LET grown == InsertRowAt(ws.cells, ws.merges, target)
         IN \E g \in grown.merges : Content(grown.cells, g) = Content(ws.cells, m)
<1> DEFINE grown == InsertRowAt(ws.cells, ws.merges, target)
           moved == IF m.top >= target THEN [m EXCEPT !.top = @ + 1, !.bottom = @ + 1] ELSE m
<1>1. /\ m.bottom \in Nat /\ m.bottom <= ws.maxRow /\ m.top \in DataStart .. m.bottom
      /\ ws.maxRow \in Nat /\ MaxRows \in Nat \ {0} /\ DataStart \in Int
      /\ DOMAIN ws.cells = DataStart .. ws.maxRow + MaxRows
  BY WriterAssumption DEF IsSheet, WriterAssumption, DataStart
<1>2. moved \in grown.merges
  BY DEF InsertRowAt
<1>3. \A r \in DOMAIN ws.cells :
        grown.cells[r] = IF r < target THEN ws.cells[r]
                         ELSE IF r = target THEN [col \in 1 .. Columns |-> Blank]
                         ELSE ws.cells[r - 1]
  BY DEF InsertRowAt
<1>4. moved.bottom - moved.top = m.bottom - m.top
  BY <1>1
<1>5. ASSUME NEW k \in 0 .. m.bottom - m.top
      PROVE  grown.cells[moved.top + k] = ws.cells[m.top + k]
  <2>1. CASE m.top >= target
    <3>1. /\ moved.top + k \in DOMAIN ws.cells
          /\ ~(moved.top + k < target) /\ moved.top + k # target
          /\ (moved.top + k) - 1 = m.top + k
      BY <2>1, <1>1
    <3> HIDE DEF grown, moved
    <3>2. grown.cells[moved.top + k] = ws.cells[(moved.top + k) - 1]
      BY <3>1, <1>3
    <3> QED BY <3>1, <3>2
  <2>2. CASE m.bottom < target
    <3>1. moved = m /\ m.top + k \in DOMAIN ws.cells /\ m.top + k < target
      BY <2>2, <1>1
    <3> HIDE DEF grown, moved
    <3> QED BY <3>1, <1>1, <1>3
  <2> QED BY <2>1, <2>2
<1> HIDE DEF grown, moved
<1>6. Content(grown.cells, moved) = Content(ws.cells, m)
  BY <1>4, <1>5 DEF Content
<1> QED BY <1>2, <1>6 DEF grown

\* The sums over all data rows reach the new one.
LEMMA SumsGrow ==
  ASSUME NEW ws, IsSheet(ws), NEW sumRow \in DataStart .. ws.maxRow, sumRow > DataStart + 2,
         NEW target \in DataStart .. sumRow, NEW col \in 1 .. Columns,
         ws.cells[sumRow][col] = SumFormula(DataStart, sumRow - 1)
  PROVE  LET grown == InsertRowAt(ws.cells, ws.merges, target)
         IN RegenerateSums(grown.cells, sumRow + 1, sumRow)[sumRow + 1][col]
              = SumFormula(DataStart, sumRow)
<1> DEFINE grown == InsertRowAt(ws.cells, ws.merges, target)
           v == grown.cells[sumRow + 1][col]
<1>1. /\ ws.maxRow \in Nat /\ MaxRows \in Nat \ {0} /\ DataStart \in Int
      /\ DOMAIN ws.cells = DataStart .. ws.maxRow + MaxRows
  BY WriterAssumption DEF IsSheet, WriterAssumption, DataStart
<1>2. /\ sumRow + 1 \in DOMAIN ws.cells /\ ~(sumRow + 1 < target) /\ sumRow + 1 # target
      /\ (sumRow + 1) - 1 = sumRow
  BY <1>1
<1>3. DOMAIN grown.cells = DOMAIN ws.cells /\ grown.cells[sumRow + 1] = ws.cells[sumRow]
  BY <1>2 DEF InsertRowAt
<1>4. v = SumFormula(DataStart, sumRow - 1)
  BY <1>3
<1>5. v.is = "sum" /\ v.from = DataStart /\ v.to = sumRow - 1 /\ v.from # v.to
  BY <1>1, <1>4 DEF SumFormula
<1> HIDE DEF grown
<1>6. RegenerateSums(grown.cells, sumRow + 1, sumRow)[sumRow + 1][col]
        = IF v.is = "sum" /\ v.from # v.to THEN SumFormula(v.from, sumRow) ELSE v
  BY <1>2, <1>3 DEF RegenerateSums
<1> HIDE DEF v
<1> QED BY <1>5, <1>6 DEF grown

\* Growing a sheet of two or more data rows by a row, at whatever place, keeps
\* the uncut merged ranges and the totals (xlsx_writer.py:199).
THEOREM GrowthIsHarmless == Spec => []GrowthKeepsTotals
<1>1. GivenInv => GrowthKeepsTotals
  <2> SUFFICES ASSUME GivenInv, stage = "loaded", NEW n \in DOMAIN configs,
                      configs[n].sumRow > DataStart + 2,
                      NEW target \in DataStart .. configs[n].sumRow
               PROVE  LET cfg == configs[n]
                          ws == SheetOf(template, cfg.title)
                          grown == InsertRowAt(ws.cells, ws.merges, target)
                          cells == RegenerateSums(grown.cells, cfg.sumRow + 1, cfg.sumRow)
                      IN /\ \A col \in 1 .. Columns :
                              ws.cells[cfg.sumRow][col] = SumFormula(DataStart, cfg.sumRow - 1) =>
                                cells[cfg.sumRow + 1][col] = SumFormula(DataStart, cfg.sumRow)
                         /\ \A m \in ws.merges : m.bottom < target \/ m.top >= target =>
                              \E g \in grown.merges :
                                Content(grown.cells, g) = Content(ws.cells, m)
    BY DEF GrowthKeepsTotals
  <2> DEFINE cfg == configs[n]
             ws == SheetOf(template, cfg.title)
  <2>1. Sound(template, cfg)
    BY ConfigsSound DEF GivenInv
  <2>2. IsSheet(ws) /\ cfg.sumRow \in DataStart .. ws.maxRow
    BY <2>1 DEF Sound, DataStart
  <2>3. target \in DataStart .. ws.maxRow
    BY <2>2 DEF IsSheet, DataStart
  <2> HIDE DEF ws
  <2> QED BY <2>2, <2>3, MergesMove, SumsGrow DEF ws
<1> QED BY <1>1, GivenAlways, PTL

----------------------------------------------------------------------------
(* Dictionaries and the folds that build them.                             *)

Item(keys, cols) == [key : keys, col : cols]

\* The value stands in the dictionary.
StandsIn(value, dict) == \E n \in DOMAIN dict : value = dict[n].col

\* What is looked up is a value that is there.
LEMMA GetFinds ==
  ASSUME NEW dict, NEW key, NEW default, Has(dict, key)
  PROVE  StandsIn(Get(dict, key, default), dict)
<1>1. \E n \in DOMAIN dict : dict[n].key = key
  BY DEF Has
<1>2. Get(dict, key, default) = dict[CHOOSE n \in DOMAIN dict : dict[n].key = key].col
  BY DEF Get
<1> QED BY <1>1, <1>2 DEF StandsIn

LEMMA PutTyped ==
  ASSUME NEW keys, NEW cols, NEW dict \in Seq(Item(keys, cols)), NEW key \in keys, NEW col \in cols
  PROVE  Put(dict, key, col) \in Seq(Item(keys, cols))
<1> DEFINE item == [key |-> key, col |-> col]
<1>1. item \in Item(keys, cols)
  BY DEF Item
<1>2. CASE Has(dict, key)
  <2> DEFINE after == [n \in DOMAIN dict |-> IF dict[n].key = key THEN item ELSE dict[n]]
  <2>1. Put(dict, key, col) = after
    BY <1>2 DEF Put
  <2> HIDE DEF item
  <2>2. DOMAIN dict = 1 .. Len(dict) /\ Len(dict) \in Nat
    OBVIOUS
  <2>3. \A n \in 1 .. Len(dict) : dict[n] \in Item(keys, cols)
    OBVIOUS
  <2>4. after \in [1 .. Len(dict) -> Item(keys, cols)]
    BY <1>1, <2>2, <2>3
  <2>5. after \in Seq(Item(keys, cols))
    <3> HIDE DEF after
    <3> QED BY <2>2, <2>4
  <2> QED BY <2>1, <2>5
<1>3. CASE ~Has(dict, key)
  <2>1. Put(dict, key, col) = Append(dict, item)
    BY <1>3 DEF Put
  <2> HIDE DEF item
  <2> QED BY <1>1, <2>1
<1> QED BY <1>2, <1>3

\* Every transaction is routed to a sheet that has a configuration.
LEMMA RoutesTyped ==
  ASSUME NEW S, NEW sheets \in Seq(S)
  PROVE  LET keys == {c.kind : c \in S} \cup {c.title : c \in S}
             cols == {c.title : c \in ToSet(sheets)}
         IN KindToSheet(sheets) \in Seq(Item(keys, cols))
<1> DEFINE keys == {c.kind : c \in S} \cup {c.title : c \in S}
           cols == {c.title : c \in ToSet(sheets)}
           D == Seq(Item(keys, cols))
           n == Len(sheets)
           step == [p \in D \X (1 .. n) |-> AddSheet(p[1], sheets[p[2]])]
           Solves(F) == F = [s \in SUBSET (1 .. n) |->
                               IF s = {} THEN <<>>
                               ELSE AddSheet(F[s \ {Max(s)}], sheets[Max(s)])]
           fold == CHOOSE F : Solves(F)
<1>1. n \in Nat /\ DOMAIN sheets = 1 .. n /\ \A k \in 1 .. n : sheets[k] \in S
  OBVIOUS
<1>2. ASSUME NEW d \in D, NEW k \in 1 .. n
      PROVE  AddSheet(d, sheets[k]) \in D
  <2>1. sheets[k].kind \in keys /\ sheets[k].title \in keys /\ sheets[k].title \in cols
    BY <1>1 DEF ToSet
  <2> HIDE DEF keys, cols
  <2>2. Put(d, sheets[k].kind, sheets[k].title) \in D
    BY <2>1, PutTyped
  <2>3. \A e \in D : Put(e, sheets[k].title, sheets[k].title) \in D
    BY <2>1, PutTyped
  <2> HIDE DEF D
  <2> QED BY <2>2, <2>3 DEF AddSheet
<1>3. step \in [D \X (1 .. n) -> D]
  <2> HIDE DEF D, n
  <2> QED BY <1>2
<1>4. <<>> \in D
  OBVIOUS
<1>5. PICK F \in [SUBSET (1 .. n) -> D] : \A s \in SUBSET (1 .. n) : FoldsAt(F, <<>>, step, s)
  <2> HIDE DEF D, step, n
  <2> QED BY <1>1, <1>3, <1>4, FoldExists
<1>6. \A s \in SUBSET (1 .. n) : s # {} => Max(s) \in 1 .. n /\ s \ {Max(s)} \in SUBSET (1 .. n)
  <2> HIDE DEF n
  <2> QED BY <1>1, GreatestNumber
<1>7. ASSUME NEW s \in SUBSET (1 .. n)
      PROVE  F[s] = IF s = {} THEN <<>> ELSE AddSheet(F[s \ {Max(s)}], sheets[Max(s)])
  <2>1. F[s] = IF s = {} THEN <<>> ELSE step[<<F[s \ {Max(s)}], Max(s)>>]
    BY <1>5 DEF FoldsAt
  <2>2. s # {} => F[s \ {Max(s)}] \in D /\ Max(s) \in 1 .. n
    <3> HIDE DEF D, n
    <3> QED BY <1>6
  <2>3. \A d \in D, k \in 1 .. n : step[<<d, k>>] = AddSheet(d, sheets[k])
    <3> HIDE DEF D, n
    <3> QED OBVIOUS
  <2> HIDE DEF D, n, step
  <2> QED BY <2>1, <2>2, <2>3
<1>8. Solves(F)
  <2> HIDE DEF D, n
  <2> QED BY <1>7
<1>9. Solves(fold)
  <2> HIDE DEF Solves
  <2> QED BY <1>8
<1>10. KindToSheet(sheets) = fold[1 .. n]
  BY <1>1 DEF KindToSheet, FoldLeft, MapThenFoldSet
<1>11. \A s \in SUBSET (1 .. n) :
         fold[s] = IF s = {} THEN <<>> ELSE AddSheet(fold[s \ {Max(s)}], sheets[Max(s)])
  <2> HIDE DEF fold, n
  <2> QED BY <1>9
<1> DEFINE T == {k \in 0 .. n : fold[1 .. k] \in D}
<1> HIDE DEF fold, D, n
<1>12. 0 \in T
  <2>1. 1 .. 0 = {} /\ 1 .. 0 \in SUBSET (1 .. n) /\ 0 \in 0 .. n
    BY <1>1
  <2>2. fold[1 .. 0] = <<>>
    BY <2>1, <1>11
  <2> QED BY <2>1, <2>2, <1>4
<1>13. ASSUME NEW k \in 1 .. n, k - 1 \in T PROVE k \in T
  <2>1. Max(1 .. k) = k /\ (1 .. k) \ {k} = 1 .. k - 1
    BY LastOfPrefix
  <2>2. 1 .. k \in SUBSET (1 .. n) /\ 1 .. k # {} /\ k \in 0 .. n
    <3>1. n \in Nat /\ k \in 1 .. n
      BY <1>1
    <3>2. 1 .. k \subseteq 1 .. n
      BY <3>1
    <3>3. k \in 1 .. k /\ k \in 0 .. n
      BY <3>1
    <3> QED BY <3>2, <3>3
  <2>3. fold[1 .. k] = AddSheet(fold[(1 .. k) \ {Max(1 .. k)}], sheets[Max(1 .. k)])
    BY <1>11, <2>2, Zenon
  <2>4. fold[1 .. k - 1] \in D
    BY <1>13
  <2> QED BY <1>2, <2>1, <2>2, <2>3, <2>4
<1>14. n \in T
  <2>1. 0 .. n \subseteq T
    <3> HIDE DEF T
    <3> QED BY <1>1, <1>12, <1>13, InductionUpTo
  <2> QED BY <1>1, <2>1
<1> QED BY <1>10, <1>14 DEF D, n

----------------------------------------------------------------------------
(* The list of the elements of a set in an order.                          *)

\* R is a strict total order on S.
Orders(R, S) ==
  /\ \A x \in S : <<x, x>> \notin R
  /\ \A x, y, z \in S : <<x, y>> \in R /\ <<y, z>> \in R => <<x, z>> \in R
  /\ \A x, y \in S : x # y => <<x, y>> \in R \/ <<y, x>> \in R

\* InOrder lists every element of S once, in the order R: the number of
\* predecessors is a bijection between S and 0 .. Cardinality(S) - 1.
LEMMA InOrderLists ==
  ASSUME NEW S, IsFiniteSet(S), NEW R, Orders(R, S)
  PROVE  /\ Cardinality(S) \in Nat
         /\ InOrder(S, R) \in [1 .. Cardinality(S) -> S]
         /\ \A x \in S : \E k \in 1 .. Cardinality(S) : InOrder(S, R)[k] = x
         /\ \A k, l \in 1 .. Cardinality(S) : k < l => <<InOrder(S, R)[k], InOrder(S, R)[l]>> \in R
<1> DEFINE Before(x) == {y \in S : <<y, x>> \in R}
           rank == [x \in S |-> Cardinality(Before(x))]
           n == Cardinality(S)
           o == InOrder(S, R)
<1>1. n \in Nat
  BY FS_CardinalityType
<1>2. \A x \in S : Before(x) \in SUBSET S /\ x \notin Before(x)
  BY DEF Orders
<1>3. \A x \in S : IsFiniteSet(Before(x)) /\ Cardinality(Before(x)) \in 0 .. n - 1
  <2> TAKE x \in S
  <2>1. /\ IsFiniteSet(Before(x)) /\ Cardinality(Before(x)) <= n
        /\ n = Cardinality(Before(x)) => S = Before(x)
    <3> HIDE DEF Before
    <3> QED BY <1>2, FS_Subset
  <2>2. Cardinality(Before(x)) \in Nat
    <3> HIDE DEF Before
    <3> QED BY <2>1, FS_CardinalityType
  <2>3. S # Before(x)
    BY <1>2
  <2> HIDE DEF Before, n
  <2> QED BY <1>1, <2>1, <2>2, <2>3
<1>4. ASSUME NEW x \in S, NEW y \in S, <<x, y>> \in R
      PROVE  Cardinality(Before(x)) < Cardinality(Before(y))
  <2>1. Before(x) \in SUBSET Before(y) /\ x \in Before(y) /\ x \notin Before(x)
    BY <1>4 DEF Orders
  <2>2. /\ Cardinality(Before(x)) <= Cardinality(Before(y))
        /\ Cardinality(Before(y)) = Cardinality(Before(x)) => Before(y) = Before(x)
    <3>1. IsFiniteSet(Before(y))
      BY <1>3
    <3> HIDE DEF Before
    <3> QED BY <2>1, <3>1, FS_Subset
  <2>3. Cardinality(Before(x)) \in Nat /\ Cardinality(Before(y)) \in Nat
    <3> HIDE DEF Before
    <3> QED BY <1>1, <1>3
  <2> HIDE DEF Before
  <2> QED BY <2>1, <2>2, <2>3
<1>5. rank \in [S -> 0 .. n - 1]
  BY <1>3
<1>6. \A x, y \in S : rank[x] < rank[y] <=> <<x, y>> \in R
  <2> TAKE x, y \in S
  <2>1. rank[x] = Cardinality(Before(x)) /\ rank[y] = Cardinality(Before(y))
    OBVIOUS
  <2>2. rank[x] \in Int /\ rank[y] \in Int
    <3> HIDE DEF rank
    <3> QED BY <1>5
  <2> HIDE DEF rank, Before
  <2>3. <<x, y>> \in R => rank[x] < rank[y]
    BY <1>4, <2>1
  <2>4. <<y, x>> \in R => rank[y] < rank[x]
    BY <1>4, <2>1
  <2>5. x # y => <<x, y>> \in R \/ <<y, x>> \in R
    BY DEF Orders
  <2> QED BY <2>2, <2>3, <2>4, <2>5
<1> HIDE DEF Before
<1>7. \A x, y \in S : rank[x] = rank[y] => x = y
  <2> TAKE x, y \in S
  <2>1. rank[x] \in Int /\ rank[y] \in Int
    <3> HIDE DEF rank
    <3> QED BY <1>5
  <2>2. x # y => <<x, y>> \in R \/ <<y, x>> \in R
    BY DEF Orders
  <2> HIDE DEF rank
  <2> QED BY <1>6, <2>1, <2>2
<1>8. \A k \in 0 .. n - 1 : \E x \in S : rank[x] = k
  <2>1. rank \in Injection(S, 0 .. n - 1)
    <3> HIDE DEF rank, n
    <3> QED BY <1>5, <1>7 DEF Injection, IsInjective
  <2>2. IsFiniteSet(0 .. n - 1) /\ Cardinality(0 .. n - 1) = n
    <3> HIDE DEF n
    <3>1. 0 \in Int /\ n - 1 \in Int
      BY <1>1
    <3>2. IsFiniteSet(0 .. n - 1) /\ Cardinality(0 .. n - 1) = IF 0 > n - 1 THEN 0 ELSE (n - 1) - 0 + 1
      BY <3>1, FS_Interval
    <3> QED BY <3>2, <1>1
  <2>3. rank \in Surjection(S, 0 .. n - 1)
    <3> HIDE DEF rank
    <3> QED BY <2>1, <2>2, FS_Injection
  <2> HIDE DEF rank, n
  <2> QED BY <2>3 DEF Surjection
<1>9. \A k \in 1 .. n : o[k] \in S /\ rank[o[k]] = k - 1
  <2> TAKE k \in 1 .. n
  <2>1. o[k] = CHOOSE x \in S : Cardinality(Before(x)) = k - 1
    BY DEF InOrder, Before
  <2>2. \E x \in S : Cardinality(Before(x)) = k - 1
    <3>1. k - 1 \in 0 .. n - 1
      BY <1>1
    <3>2. PICK x \in S : rank[x] = k - 1
      <4> HIDE DEF rank, n
      <4> QED BY <3>1, <1>8
    <3> QED BY <3>2
  <2>3. o[k] \in S /\ Cardinality(Before(o[k])) = k - 1
    <3> HIDE DEF o
    <3> QED BY <2>1, <2>2
  <2> HIDE DEF o
  <2> QED BY <2>3
<1>10. o \in [1 .. n -> S]
  <2> DEFINE Pick(k) == CHOOSE x \in S : Cardinality(Before(x)) = k - 1
  <2>1. o = [k \in 1 .. n |-> Pick(k)]
    BY Zenon DEF InOrder, Before
  <2> HIDE DEF o, n, Pick
  <2> QED BY <1>9, <2>1
<1>11. \A x \in S : \E k \in 1 .. n : o[k] = x
  <2> TAKE x \in S
  <2>1. rank[x] + 1 \in 1 .. n /\ (rank[x] + 1) - 1 = rank[x]
    <3>1. rank[x] \in 0 .. n - 1
      <4> HIDE DEF rank
      <4> QED BY <1>5
    <3> HIDE DEF rank
    <3> QED BY <1>1, <3>1
  <2> HIDE DEF rank, o, n
  <2>2. o[rank[x] + 1] \in S /\ rank[o[rank[x] + 1]] = rank[x]
    BY <1>9, <2>1
  <2>3. o[rank[x] + 1] = x
    BY <1>7, <2>2
  <2> QED BY <2>1, <2>3
<1>12. \A k, l \in 1 .. n : k < l => <<o[k], o[l]>> \in R
  <2> TAKE k, l \in 1 .. n
  <2> HIDE DEF rank, o, n
  <2>1. o[k] \in S /\ o[l] \in S /\ rank[o[k]] = k - 1 /\ rank[o[l]] = l - 1
    BY <1>9
  <2>2. k < l => rank[o[k]] < rank[o[l]]
    BY <2>1
  <2> QED BY <1>6, <2>1, <2>2
<1> QED BY <1>1, <1>10, <1>11, <1>12

\* s lists every element of V once, and nothing else.
Enumerates(s, V) ==
  /\ s \in Seq(V)
  /\ \A x \in V : \E k \in DOMAIN s : s[k] = x
  /\ \A k, l \in DOMAIN s : s[k] = s[l] => k = l

\* For numbers: Ascending lists every number of S once, smallest first.
LEMMA AscendingLists ==
  ASSUME NEW S, IsFiniteSet(S), S \subseteq Nat
  PROVE  Enumerates(Ascending(S), S)
<1> DEFINE R == {p \in S \X S : p[1] < p[2]}
           o == Ascending(S)
           n == Cardinality(S)
<1>1. Orders(R, S)
  BY DEF Orders
<1>2. o = InOrder(S, R)
  BY DEF Ascending
<1>3. \A x \in S : <<x, x>> \notin R
  OBVIOUS
<1> HIDE DEF R, o, n
<1>4. /\ n \in Nat
      /\ o \in [1 .. n -> S]
      /\ \A x \in S : \E k \in 1 .. n : o[k] = x
      /\ \A k, l \in 1 .. n : k < l => <<o[k], o[l]>> \in R
  BY <1>1, <1>2, InOrderLists DEF n
<1>5. o \in Seq(S) /\ DOMAIN o = 1 .. n
  BY <1>4
<1>6. \A k, l \in 1 .. n : o[k] = o[l] => k = l
  <2> SUFFICES ASSUME NEW k \in 1 .. n, NEW l \in 1 .. n, o[k] = o[l], k # l PROVE FALSE
    OBVIOUS
  <2>1. k < l \/ l < k
    BY <1>4
  <2>2. o[k] \in S
    BY <1>4
  <2> QED BY <1>3, <1>4, <2>1, <2>2
<1> QED BY <1>4, <1>5, <1>6 DEF o, Enumerates

LEMMA JoinEnumerates ==
  ASSUME NEW V, NEW W, V \cap W = {},
         NEW s, Enumerates(s, V), NEW t, Enumerates(t, W)
  PROVE  Enumerates(s \o t, V \cup W)
<1> DEFINE j == s \o t
<1>1. s \in Seq(V \cup W) /\ t \in Seq(V \cup W)
  <2>1. s \in Seq(V) /\ t \in Seq(W)
    BY DEF Enumerates
  <2> QED BY <2>1
<1>2. /\ Len(s) \in Nat /\ Len(t) \in Nat
      /\ DOMAIN s = 1 .. Len(s) /\ DOMAIN t = 1 .. Len(t)
      /\ j \in Seq(V \cup W) /\ DOMAIN j = 1 .. Len(s) + Len(t)
      /\ \A k \in 1 .. Len(s) + Len(t) : j[k] = IF k <= Len(s) THEN s[k] ELSE t[k - Len(s)]
  BY <1>1
<1>3. \A x \in V \cup W : \E k \in DOMAIN j : j[k] = x
  <2>1. ASSUME NEW x \in V PROVE \E k \in DOMAIN j : j[k] = x
    <3>1. PICK k \in DOMAIN s : s[k] = x
      BY DEF Enumerates
    <3>2. k \in 1 .. Len(s) + Len(t) /\ k <= Len(s)
      BY <1>2
    <3> HIDE DEF j
    <3> QED BY <1>2, <3>1, <3>2
  <2>2. ASSUME NEW x \in W PROVE \E k \in DOMAIN j : j[k] = x
    <3>1. PICK k \in DOMAIN t : t[k] = x
      BY DEF Enumerates
    <3>2. /\ k + Len(s) \in 1 .. Len(s) + Len(t) /\ ~(k + Len(s) <= Len(s))
          /\ (k + Len(s)) - Len(s) = k
      BY <1>2
    <3> HIDE DEF j
    <3>3. j[k + Len(s)] = t[(k + Len(s)) - Len(s)]
      BY <1>2, <3>2
    <3> QED BY <1>2, <3>1, <3>2, <3>3
  <2> QED BY <2>1, <2>2
<1>4. ASSUME NEW k \in DOMAIN j, NEW l \in DOMAIN j, j[k] = j[l] PROVE k = l
  <2>1. /\ k <= Len(s) => k \in DOMAIN s /\ j[k] = s[k] /\ s[k] \in V
        /\ l <= Len(s) => l \in DOMAIN s /\ j[l] = s[l] /\ s[l] \in V
    <3> HIDE DEF j
    <3> QED BY <1>2 DEF Enumerates
  <2>2. /\ ~(k <= Len(s)) => k - Len(s) \in DOMAIN t /\ j[k] = t[k - Len(s)] /\ t[k - Len(s)] \in W
        /\ ~(l <= Len(s)) => l - Len(s) \in DOMAIN t /\ j[l] = t[l - Len(s)] /\ t[l - Len(s)] \in W
    <3> HIDE DEF j
    <3> QED BY <1>2 DEF Enumerates
  <2>3. k \in Nat /\ l \in Nat
    BY <1>2
  <2> HIDE DEF j
  <2>4. k <= Len(s) /\ l <= Len(s) => k = l
    BY <1>4, <2>1 DEF Enumerates
  <2>5. ~(k <= Len(s)) /\ ~(l <= Len(s)) => k = l
    <3> SUFFICES ASSUME ~(k <= Len(s)), ~(l <= Len(s)) PROVE k = l
      OBVIOUS
    <3>1. k - Len(s) = l - Len(s)
      BY <1>4, <2>2 DEF Enumerates
    <3> QED BY <1>2, <2>3, <3>1
  <2>6. (k <= Len(s)) <=> (l <= Len(s))
    BY <1>4, <2>1, <2>2
  <2> QED BY <2>4, <2>5, <2>6
<1> HIDE DEF j
<1> QED BY <1>2, <1>3, <1>4 DEF Enumerates, j

----------------------------------------------------------------------------
(* What becomes of the receipts and the cards.                             *)

Entries(kind, indices) == {[kind |-> kind, idx |-> i] : i \in indices}

LEMMA FromEnumerates ==
  ASSUME NEW kind, NEW V, NEW s, Enumerates(s, V)
  PROVE  Enumerates(From(kind, s), Entries(kind, V))
<1> DEFINE f == From(kind, s)
<1>1. s \in Seq(V) /\ Len(s) \in Nat /\ DOMAIN s = 1 .. Len(s)
  BY DEF Enumerates
<1>2. DOMAIN f = DOMAIN s /\ \A k \in DOMAIN s : f[k] = [kind |-> kind, idx |-> s[k]]
  BY DEF From
<1>3. \A k \in DOMAIN s : [kind |-> kind, idx |-> s[k]] \in Entries(kind, V)
  BY <1>1 DEF Entries
<1>4. f \in [1 .. Len(s) -> Entries(kind, V)]
  BY <1>1, <1>3 DEF From
<1>5. f \in Seq(Entries(kind, V))
  <2> HIDE DEF f
  <2> QED BY <1>1, <1>4
<1> HIDE DEF f
<1>6. \A x \in Entries(kind, V) : \E k \in DOMAIN f : f[k] = x
  BY <1>2 DEF Entries, Enumerates
<1>7. ASSUME NEW k \in DOMAIN f, NEW l \in DOMAIN f, f[k] = f[l] PROVE k = l
  <2>1. [kind |-> kind, idx |-> s[k]].idx = [kind |-> kind, idx |-> s[l]].idx
    BY <1>2, <1>7
  <2> QED BY <1>2, <2>1 DEF Enumerates
<1> QED BY <1>5, <1>6, <1>7 DEF Enumerates, f

\* The stored transactions: every receipt and every free card.
LEMMA ReconciledLists ==
  ASSUME MatcherInv
  PROVE  Enumerates(Reconciled, Entries("receipt", DOMAIN receipts)
                                \cup Entries("card", DOMAIN cards \ consumed))
<1> DEFINE linked == {i \in DOMAIN receipts : partner[i] # 0}
           alone == {i \in DOMAIN receipts : partner[i] = 0}
           free == DOMAIN cards \ consumed
<1>1. /\ receipts \in Seq(Transaction) /\ cards \in Seq(Transaction)
  BY DEF MatcherInv, MatcherTypeOK
<1>2. /\ IsFiniteSet(DOMAIN receipts) /\ DOMAIN receipts \subseteq Nat
      /\ IsFiniteSet(DOMAIN cards) /\ DOMAIN cards \subseteq Nat
  <2>1. /\ DOMAIN receipts = 1 .. Len(receipts) /\ Len(receipts) \in Int
        /\ DOMAIN cards = 1 .. Len(cards) /\ Len(cards) \in Int
    BY <1>1
  <2>2. IsFiniteSet(1 .. Len(receipts)) /\ IsFiniteSet(1 .. Len(cards))
    BY <2>1, FS_Interval
  <2> QED BY <2>1, <2>2
<1>3. /\ linked \in SUBSET DOMAIN receipts /\ alone \in SUBSET DOMAIN receipts
      /\ free \in SUBSET DOMAIN cards
      /\ linked \cup alone = DOMAIN receipts /\ linked \cap alone = {}
  OBVIOUS
<1>4. Reconciled = From("receipt", Ascending(linked)) \o From("receipt", Ascending(alone))
                   \o From("card", Ascending(free))
  BY DEF Reconciled
<1> HIDE DEF linked, alone, free
<1>5. /\ Enumerates(Ascending(linked), linked)
      /\ Enumerates(Ascending(alone), alone)
      /\ Enumerates(Ascending(free), free)
  <2>1. \A T \in SUBSET DOMAIN receipts : IsFiniteSet(T) /\ T \subseteq Nat
    BY <1>2, FS_Subset
  <2>2. \A T \in SUBSET DOMAIN cards : IsFiniteSet(T) /\ T \subseteq Nat
    BY <1>2, FS_Subset
  <2> QED BY <1>3, <2>1, <2>2, AscendingLists
<1>6. Enumerates(From("receipt", Ascending(linked)) \o From("receipt", Ascending(alone)),
                 Entries("receipt", linked) \cup Entries("receipt", alone))
  <2>1. Entries("receipt", linked) \cap Entries("receipt", alone) = {}
    BY <1>3 DEF Entries
  <2> QED BY <1>5, <2>1, FromEnumerates, JoinEnumerates
<1>7. Entries("receipt", linked) \cup Entries("receipt", alone) = Entries("receipt", DOMAIN receipts)
  BY <1>3 DEF Entries
<1>8. Entries("receipt", DOMAIN receipts) \cap Entries("card", free) = {}
  BY DEF Entries
<1>9. Enumerates(From("card", Ascending(free)), Entries("card", free))
  BY <1>5, FromEnumerates
<1> QED BY <1>4, <1>6, <1>7, <1>8, <1>9, JoinEnumerates DEF free

\* Every receipt and every unlinked card becomes exactly one stored transaction
\* and a linked card none, for lists of any length (runner.py:117-130).
THEOREM EachExpenseOnce == MatcherSpec => []EveryExpenseOnce
<1>1. MatcherInv => EveryExpenseOnce
  <2> SUFFICES ASSUME MatcherInv, MatcherDone PROVE EveryExpenseOnce
    BY DEF EveryExpenseOnce
  <2> DEFINE E == Entries("receipt", DOMAIN receipts) \cup Entries("card", DOMAIN cards \ consumed)
             R == Reconciled
  <2>1. Enumerates(R, E)
    BY ReconciledLists
  <2> HIDE DEF R
  <2>2. \A a, b \in DOMAIN R : R[a] = R[b] => a = b
    BY <2>1 DEF Enumerates
  <2>3. \A i \in DOMAIN receipts : \E a \in DOMAIN R : R[a] = [kind |-> "receipt", idx |-> i]
    BY <2>1 DEF Enumerates, Entries
  <2>4. ASSUME NEW k \in DOMAIN cards
        PROVE  (\E a \in DOMAIN R : R[a] = [kind |-> "card", idx |-> k])
                 <=> \A i \in DOMAIN partner : partner[i] # k
    <3>1. (\E a \in DOMAIN R : R[a] = [kind |-> "card", idx |-> k]) <=> [kind |-> "card", idx |-> k] \in E
      <4> HIDE DEF E
      <4> QED BY <2>1 DEF Enumerates
    <3>2. [kind |-> "card", idx |-> k] \in E <=> k \notin consumed
      <4>1. [kind |-> "card", idx |-> k] \notin Entries("receipt", DOMAIN receipts)
        BY DEF Entries
      <4>2. [kind |-> "card", idx |-> k] \in Entries("card", DOMAIN cards \ consumed)
              <=> k \notin consumed
        BY DEF Entries
      <4> QED BY <4>1, <4>2
    <3>3. k \in consumed <=> \E i \in DOMAIN partner : partner[i] = k
      BY DEF MatcherInv, OneToOne
    <3> QED BY <3>1, <3>2, <3>3
  <2> QED BY <2>2, <2>3, <2>4 DEF EveryExpenseOnce, R
<1> QED BY MatcherInductive, <1>1, PTL

----------------------------------------------------------------------------
(* Writing. What is said of the transactions rs and the configurations cs  *)
(* is said of values, so that it survives every step that keeps the two.   *)

\* Transaction j goes to sheet t; those of the first n that do; and the line
\* of j on that sheet.
Goes(rs, cs, j, t) ==
  Has(KindToSheet(cs), rs[j].sheet) /\ Get(KindToSheet(cs), rs[j].sheet, "") = t
GoneTo(rs, cs, n, t) == {j \in 1 .. n : Goes(rs, cs, j, t)}
LineIn(rs, cs, j, t) == DataStart + Cardinality(GoneTo(rs, cs, j - 1, t))

TitlesOf(cs) == {cs[n].title : n \in DOMAIN cs}
ConfigIn(cs, t) == cs[CHOOSE n \in DOMAIN cs : cs[n].title = t]

\* What the writer has put into a cell.
Filled(value) == value.is \in {"date", "merchant", "amount"}

\* The stage, and the counters: each sheet's next line is below those of the
\* transactions handled that go to it.
CountersInv ==
  /\ stage \in {"waiting", "failed", "loaded", "cleared", "saved"}
  /\ Len(rows) \in Nat /\ DOMAIN rows = 1 .. Len(rows)
  /\ stage = "waiting" => configs = <<>>
  /\ stage = "waiting" => rows = <<>>
  /\ written \in 0 .. Len(rows)
  /\ stage = "loaded" => written = 0
  /\ stage = "saved" => written = Len(rows)
  /\ DOMAIN nextRow = TitlesOf(configs)
  /\ \A t \in TitlesOf(configs) :
       nextRow[t] = DataStart + Cardinality(GoneTo(rows, configs, written, t))

\* What a cell holds after n transactions: value, where the template has
\* original.
CellInv(rs, cs, value, original, t, r, col, n) ==
  /\ Filled(value) =>
       /\ value = [is |-> value.is, of |-> value.of]
       /\ value.of \in 1 .. n /\ Goes(rs, cs, value.of, t) /\ LineIn(rs, cs, value.of, t) = r
  /\ value.is = "amount" => col = CategoryCol(rs[value.of].category, ConfigIn(cs, t))
  /\ IsFormula(value) => IsFormula(original)
  /\ IF t \in TitlesOf(cs) /\ r <= EffectiveEnd(ConfigIn(cs, t))
     THEN value = Blank \/ IsFormula(value) \/ Filled(value)
     ELSE value = original \/ Filled(value)

\* The amount of transaction i is on its line, unless a formula is there.
AmountInv(rs, cs, cells, original, t, i) ==
  LET col == CategoryCol(rs[i].category, ConfigIn(cs, t))
      row == LineIn(rs, cs, i, t)
  IN Goes(rs, cs, i, t) /\ row \in DOMAIN original /\ col \in 1 .. Columns
     /\ ~IsFormula(original[row][col])
       => cells[row][col] = [is |-> "amount", of |-> i]

\* The cells of a sheet have the rows of the template's and its columns.
Shaped(cells, original) ==
  /\ DOMAIN cells = DOMAIN original
  /\ \A r \in DOMAIN original : cells[r] = [col \in 1 .. Columns |-> cells[r][col]]

\* A sheet after n transactions.
SheetInv(rs, cs, cells, original, t, n) ==
  /\ Shaped(cells, original)
  /\ \A r \in DOMAIN original : \A col \in 1 .. Columns :
       CellInv(rs, cs, cells[r][col], original[r][col], t, r, col, n)
  /\ \A i \in 1 .. n : AmountInv(rs, cs, cells, original, t, i)

WritingInv ==
  /\ stage # "waiting" => DOMAIN book = Titles(template)
  /\ stage = "loaded" => book = Loaded(template)
  /\ stage \in {"cleared", "saved"} =>
       \A t \in DOMAIN book :
         SheetInv(rows, configs, book[t], SheetOf(template, t).cells, t, written)

\* The transactions the writer has are in order of date.
SourceInv ==
  \A i, j \in DOMAIN rows : i < j => Stored(source[i]).date <= Stored(source[j]).date

WorkbookInv == MatcherInv /\ GivenInv /\ CountersInv /\ WritingInv /\ SourceInv

\* Where transactions go, in the words of the specification.
LEMMA InWriterWords ==
  /\ Configured = TitlesOf(configs)
  /\ \A t : ConfigFor(t) = ConfigIn(configs, t)
  /\ \A i, t : Routed(i) /\ SheetFor(i) = t <=> Goes(rows, configs, i, t)
  /\ \A i : LineOf(i) = LineIn(rows, configs, i, SheetFor(i))
<1>1. \A i, t : Routed(i) /\ SheetFor(i) = t <=> Goes(rows, configs, i, t)
  BY DEF Routed, SheetFor, Goes
<1>2. \A i : LineOf(i) = LineIn(rows, configs, i, SheetFor(i))
  BY <1>1 DEF LineOf, LineIn, GoneTo
<1> QED BY <1>1, <1>2 DEF Configured, TitlesOf, ConfigFor, ConfigIn

\* The transactions that have gone to a sheet are counted.
LEMMA GoneCounted ==
  ASSUME NEW rs, NEW cs, NEW t, NEW n \in Nat
  PROVE  /\ Cardinality(GoneTo(rs, cs, 0, t)) = 0
         /\ IsFiniteSet(GoneTo(rs, cs, n, t)) /\ Cardinality(GoneTo(rs, cs, n, t)) \in Nat
         /\ Cardinality(GoneTo(rs, cs, n + 1, t))
              = Cardinality(GoneTo(rs, cs, n, t)) + IF Goes(rs, cs, n + 1, t) THEN 1 ELSE 0
<1> DEFINE G(m) == GoneTo(rs, cs, m, t)
<1>1. G(0) = {} /\ G(n) \in SUBSET (1 .. n) /\ n + 1 \notin G(n)
  BY DEF GoneTo
<1>2. G(n + 1) = IF Goes(rs, cs, n + 1, t) THEN G(n) \cup {n + 1} ELSE G(n)
  <2>1. 1 .. n + 1 = (1 .. n) \cup {n + 1}
    OBVIOUS
  <2> QED BY <2>1, Zenon DEF GoneTo
<1>3. IsFiniteSet(1 .. n)
  BY FS_Interval
<1>4. IsFiniteSet(G(n))
  <2> HIDE DEF G
  <2> QED BY <1>1, <1>3, FS_Subset
<1>5. Cardinality(G(n)) \in Nat
  <2> HIDE DEF G
  <2> QED BY <1>4, FS_CardinalityType
<1>6. Cardinality(G(n) \cup {n + 1}) = Cardinality(G(n)) + 1
  <2> HIDE DEF G
  <2> QED BY <1>1, <1>4, FS_AddElement
<1>7. Cardinality(G(n + 1)) = Cardinality(G(n)) + IF Goes(rs, cs, n + 1, t) THEN 1 ELSE 0
  <2> HIDE DEF G
  <2> QED BY <1>2, <1>5, <1>6
<1>8. Cardinality(G(0)) = 0
  BY <1>1, FS_EmptySet
<1> HIDE DEF G
<1> QED BY <1>4, <1>5, <1>7, <1>8 DEF G

\* A transaction's line is below those of the earlier ones on its sheet.
LEMMA LinesDescend ==
  ASSUME NEW rs, NEW cs, NEW t, NEW j \in Nat, NEW i \in 1 .. j - 1, Goes(rs, cs, i, t)
  PROVE  LineIn(rs, cs, i, t) < LineIn(rs, cs, j, t)
<1> DEFINE G == GoneTo(rs, cs, i - 1, t)
           H == GoneTo(rs, cs, j - 1, t)
<1>1. G \in SUBSET H /\ i \in H /\ i \notin G
  BY DEF GoneTo
<1>2. IsFiniteSet(H) /\ Cardinality(H) \in Nat /\ Cardinality(G) \in Nat
  <2>1. i - 1 \in Nat /\ j - 1 \in Nat
    OBVIOUS
  <2> QED BY <2>1, GoneCounted
<1>3. LineIn(rs, cs, i, t) = DataStart + Cardinality(G)
  BY DEF LineIn
<1>4. LineIn(rs, cs, j, t) = DataStart + Cardinality(H)
  BY DEF LineIn
<1> HIDE DEF G, H
<1>5. Cardinality(G) < Cardinality(H)
  <2>1. Cardinality(G) <= Cardinality(H) /\ (Cardinality(H) = Cardinality(G) => H = G)
    BY <1>1, <1>2, FS_Subset
  <2> QED BY <1>1, <1>2, <2>1
<1> QED BY <1>2, <1>3, <1>4, <1>5 DEF DataStart

\* Hence a line belongs to one transaction.
LEMMA OwnLine ==
  ASSUME NEW rs, NEW cs, NEW t, NEW i \in Nat \ {0}, NEW j \in Nat \ {0},
         Goes(rs, cs, i, t), Goes(rs, cs, j, t), LineIn(rs, cs, i, t) = LineIn(rs, cs, j, t)
  PROVE  i = j
<1>1. LineIn(rs, cs, i, t) \in Int /\ LineIn(rs, cs, j, t) \in Int
  <2>1. i - 1 \in Nat /\ j - 1 \in Nat
    OBVIOUS
  <2>2. Cardinality(GoneTo(rs, cs, i - 1, t)) \in Nat /\ Cardinality(GoneTo(rs, cs, j - 1, t)) \in Nat
    BY <2>1, GoneCounted
  <2> QED BY <2>2 DEF LineIn, DataStart
<1>2. ~(i < j)
  <2> SUFFICES ASSUME i < j PROVE FALSE
    OBVIOUS
  <2>1. i \in 1 .. j - 1
    OBVIOUS
  <2> QED BY <1>1, <2>1, LinesDescend
<1>3. ~(j < i)
  <2> SUFFICES ASSUME j < i PROVE FALSE
    OBVIOUS
  <2>1. j \in 1 .. i - 1
    OBVIOUS
  <2> QED BY <1>1, <2>1, LinesDescend
<1> QED BY <1>2, <1>3

\* The configuration of a sheet is one the analysis found.
LEMMA ConfigThere ==
  ASSUME GivenInv, stage # "waiting", NEW t \in TitlesOf(configs)
  PROVE  Sound(template, ConfigIn(configs, t)) /\ ConfigIn(configs, t).title = t
<1>1. \E n \in DOMAIN configs : configs[n].title = t
  BY DEF TitlesOf
<1>2. PICK n \in DOMAIN configs : ConfigIn(configs, t) = configs[n] /\ configs[n].title = t
  BY <1>1 DEF ConfigIn
<1>3. template \in Workbook /\ configs = Analyze(template)
  BY DEF GivenInv
<1> QED BY <1>2, <1>3, ConfigsSound

\* Transactions go to sheets that have a configuration.
LEMMA GoesToConfigured ==
  ASSUME GivenInv, stage # "waiting", NEW j, NEW t, Goes(rows, configs, j, t)
  PROVE  t \in TitlesOf(configs)
<1> DEFINE S == ConfigsOf(template)
           keys == {c.kind : c \in S} \cup {c.title : c \in S}
           cols == {c.title : c \in ToSet(configs)}
           routes == KindToSheet(configs)
<1>1. configs \in Seq(S)
  BY AnalysisElements DEF GivenInv
<1>2. routes \in Seq(Item(keys, cols))
  <2> HIDE DEF S
  <2> QED BY <1>1, RoutesTyped
<1>3. cols = TitlesOf(configs)
  BY DEF ToSet, TitlesOf
<1>0. Has(routes, rows[j].sheet) /\ Get(routes, rows[j].sheet, "") = t
  BY DEF Goes
<1> HIDE DEF routes, keys, cols
<1>4. PICK n \in DOMAIN routes : t = routes[n].col
  <2>1. StandsIn(t, routes)
    BY <1>0, GetFinds, Zenon
  <2> QED BY <2>1 DEF StandsIn
<1>5. routes[n] \in Item(keys, cols)
  BY <1>2
<1>6. routes[n].col \in cols
  BY <1>5 DEF Item
<1> QED BY <1>3, <1>4, <1>6

\* What safe_write does to each cell.
WritesCell(after, cells, col, row, value, r, c) ==
  after[r][c] = IF r = row /\ c = col /\ ~IsFormula(cells[r][c]) THEN value ELSE cells[r][c]

LEMMA SafeWriteCells ==
  ASSUME NEW original, NEW cells, Shaped(cells, original), NEW col, NEW row, NEW value
  PROVE  LET after == SafeWrite(cells, col, row, value)
         IN /\ Shaped(after, original)
            /\ \A r \in DOMAIN original : \A c \in 1 .. Columns :
                 WritesCell(after, cells, col, row, value, r, c)
<1> DEFINE after == SafeWrite(cells, col, row, value)
<1>1. CASE col = 0 \/ IsFormula(cells[row][col])
  <2>1. after = cells
    BY <1>1 DEF SafeWrite
  <2>2. \A c \in 1 .. Columns : c # 0
    OBVIOUS
  <2>3. \A r \in DOMAIN original : \A c \in 1 .. Columns :
          WritesCell(after, cells, col, row, value, r, c)
    BY <1>1, <2>1, <2>2 DEF WritesCell
  <2> QED BY <2>1, <2>3
<1>2. CASE ~(col = 0 \/ IsFormula(cells[row][col]))
  <2>1. after = [cells EXCEPT ![row][col] = value]
    BY <1>2 DEF SafeWrite
  <2> HIDE DEF after
  <2>2. DOMAIN after = DOMAIN original
    BY <2>1 DEF Shaped
  <2>3. \A r \in DOMAIN original :
          after[r] = IF r = row THEN [cells[r] EXCEPT ![col] = value] ELSE cells[r]
    BY <2>1 DEF Shaped
  <2>4. ASSUME NEW r \in DOMAIN original
        PROVE  /\ after[r] = [c \in 1 .. Columns |-> after[r][c]]
               /\ \A c \in 1 .. Columns : WritesCell(after, cells, col, row, value, r, c)
    <3>1. cells[r] = [c \in 1 .. Columns |-> cells[r][c]]
      BY DEF Shaped
    <3>2. CASE r # row
      BY <2>3, <3>1, <3>2 DEF WritesCell
    <3>3. CASE r = row
      <4>1. after[r] = [cells[r] EXCEPT ![col] = value]
        BY <2>3, <3>3
      <4>2. after[r] = [c \in 1 .. Columns |-> IF c = col THEN value ELSE cells[r][c]]
        BY <3>1, <4>1
      <4>3. \A c \in 1 .. Columns : after[r][c] = IF c = col THEN value ELSE cells[r][c]
        BY <4>2
      <4>4. after[r] = [c \in 1 .. Columns |-> after[r][c]]
        BY <4>2
      <4> QED BY <1>2, <3>3, <4>3, <4>4 DEF WritesCell
    <3> QED BY <3>2, <3>3
  <2> QED BY <2>2, <2>4 DEF Shaped, after
<1> QED BY <1>1, <1>2

\* What writing transaction i does to a cell: nothing, or, on its row and not
\* over a formula, it fills it; its amount is in the column of its category.
Receives(after, before, isRow, isColumn, i) ==
  /\ \/ after = before
     \/ /\ isRow /\ ~IsFormula(before)
        /\ after \in {[is |-> "date", of |-> i], [is |-> "merchant", of |-> i]}
     \/ isRow /\ isColumn /\ ~IsFormula(before) /\ after = [is |-> "amount", of |-> i]
  /\ isRow /\ isColumn /\ ~IsFormula(before) => after = [is |-> "amount", of |-> i]

LEMMA WriteReceiptCells ==
  ASSUME NEW original, NEW cells, Shaped(cells, original), NEW cfg, NEW row, NEW i
  PROVE  LET after == WriteReceipt(cells, cfg, row, i)
             category == CategoryCol(rows[i].category, cfg)
         IN /\ Shaped(after, original)
            /\ \A r \in DOMAIN original : \A c \in 1 .. Columns :
                 Receives(after[r][c], cells[r][c], r = row, c = category, i)
<1> DEFINE dateCol == Get(cfg.slots, "DATE", 0)
           merchantCol == Get(cfg.slots, "MERCHANT", 0)
           category == CategoryCol(rows[i].category, cfg)
           date == [is |-> "date", of |-> i]
           merchant == [is |-> "merchant", of |-> i]
           amount == [is |-> "amount", of |-> i]
           c1 == SafeWrite(cells, dateCol, row, date)
           c2 == SafeWrite(c1, merchantCol, row, merchant)
           c3 == SafeWrite(c2, category, row, amount)
<1>1. WriteReceipt(cells, cfg, row, i) = c3
  BY DEF WriteReceipt
<1>2. ~IsFormula(date) /\ ~IsFormula(merchant)
  BY DEF IsFormula
<1> HIDE DEF dateCol, merchantCol, category, date, merchant, amount
<1>3. /\ Shaped(c1, original)
      /\ \A r \in DOMAIN original : \A c \in 1 .. Columns :
           WritesCell(c1, cells, dateCol, row, date, r, c)
  BY SafeWriteCells
<1> HIDE DEF c1
<1>4. /\ Shaped(c2, original)
      /\ \A r \in DOMAIN original : \A c \in 1 .. Columns :
           WritesCell(c2, c1, merchantCol, row, merchant, r, c)
  BY <1>3, SafeWriteCells
<1> HIDE DEF c2
<1>5. /\ Shaped(c3, original)
      /\ \A r \in DOMAIN original : \A c \in 1 .. Columns :
           WritesCell(c3, c2, category, row, amount, r, c)
  BY <1>4, SafeWriteCells
<1> HIDE DEF c3
<1>6. ASSUME NEW r \in DOMAIN original, NEW c \in 1 .. Columns
      PROVE  Receives(c3[r][c], cells[r][c], r = row, c = category, i)
  <2>1. WritesCell(c1, cells, dateCol, row, date, r, c)
    BY <1>3
  <2>2. WritesCell(c2, c1, merchantCol, row, merchant, r, c)
    BY <1>4
  <2>3. WritesCell(c3, c2, category, row, amount, r, c)
    BY <1>5
  <2> QED BY <1>2, <2>1, <2>2, <2>3 DEF Receives, WritesCell, date, merchant, amount
<1> QED BY <1>1, <1>5, <1>6 DEF category

\* What a cell holds stays allowed when transactions follow.
LEMMA CellLater ==
  ASSUME NEW rs, NEW cs, NEW value, NEW original, NEW t, NEW r, NEW col, NEW n \in Nat,
         CellInv(rs, cs, value, original, t, r, col, n)
  PROVE  CellInv(rs, cs, value, original, t, r, col, n + 1)
BY DEF CellInv

\* A transaction that goes elsewhere, or nowhere, leaves a sheet as it was.
LEMMA SheetUntouched ==
  ASSUME NEW rs, NEW cs, NEW cells, NEW original, NEW t, NEW n \in Nat,
         SheetInv(rs, cs, cells, original, t, n), ~Goes(rs, cs, n + 1, t)
  PROVE  SheetInv(rs, cs, cells, original, t, n + 1)
<1>1. \A r \in DOMAIN original : \A col \in 1 .. Columns :
        CellInv(rs, cs, cells[r][col], original[r][col], t, r, col, n + 1)
  BY CellLater DEF SheetInv
<1>2. AmountInv(rs, cs, cells, original, t, n + 1)
  BY DEF AmountInv
<1>3. ASSUME NEW i \in 1 .. n + 1 PROVE AmountInv(rs, cs, cells, original, t, i)
  <2>1. i \in 1 .. n \/ i = n + 1
    OBVIOUS
  <2> QED BY <1>2, <2>1 DEF SheetInv
<1> QED BY <1>1, <1>3 DEF SheetInv

\* A cell that transaction n + 1 is written into.
LEMMA CellWritten ==
  ASSUME NEW rs, NEW cs, NEW after, NEW before, NEW original, NEW t, NEW r, NEW col, NEW n \in Nat,
         CellInv(rs, cs, before, original, t, r, col, n), Goes(rs, cs, n + 1, t),
         Receives(after, before, r = LineIn(rs, cs, n + 1, t),
                  col = CategoryCol(rs[n + 1].category, ConfigIn(cs, t)), n + 1)
  PROVE  CellInv(rs, cs, after, original, t, r, col, n + 1)
<1>1. CASE after = before
  BY <1>1, CellLater
<1>2. CASE after # before
  <2>1. /\ r = LineIn(rs, cs, n + 1, t)
        /\ after.is \in {"date", "merchant", "amount"} /\ after.of = n + 1
        /\ after = [is |-> after.is, of |-> n + 1]
        /\ after.is = "amount" => col = CategoryCol(rs[n + 1].category, ConfigIn(cs, t))
    BY <1>2 DEF Receives
  <2>2. n + 1 \in 1 .. n + 1
    OBVIOUS
  <2>3. Filled(after) /\ ~IsFormula(after)
    BY <2>1 DEF Filled, IsFormula
  <2> QED BY <2>1, <2>2, <2>3 DEF CellInv
<1> QED BY <1>1, <1>2

\* The sheet transaction n + 1 goes to.
LEMMA SheetWritten ==
  ASSUME NEW cells, NEW original, NEW t, NEW n \in Nat,
         SheetInv(rows, configs, cells, original, t, n), Goes(rows, configs, n + 1, t)
  PROVE  SheetInv(rows, configs,
                  WriteReceipt(cells, ConfigIn(configs, t), LineIn(rows, configs, n + 1, t), n + 1),
                  original, t, n + 1)
<1> DEFINE row == LineIn(rows, configs, n + 1, t)
           category == CategoryCol(rows[n + 1].category, ConfigIn(configs, t))
           after == WriteReceipt(cells, ConfigIn(configs, t), row, n + 1)
<1>1. /\ Shaped(after, original)
      /\ \A r \in DOMAIN original : \A c \in 1 .. Columns :
           Receives(after[r][c], cells[r][c], r = row, c = category, n + 1)
  <2>1. Shaped(cells, original)
    BY DEF SheetInv
  <2> HIDE DEF row
  <2> QED BY <2>1, WriteReceiptCells
<1> HIDE DEF after
<1>2. ASSUME NEW r \in DOMAIN original, NEW col \in 1 .. Columns
      PROVE  CellInv(rows, configs, after[r][col], original[r][col], t, r, col, n + 1)
  <2>1. CellInv(rows, configs, cells[r][col], original[r][col], t, r, col, n)
    BY DEF SheetInv
  <2>2. Receives(after[r][col], cells[r][col], r = row, col = category, n + 1)
    BY <1>1
  <2> QED BY <2>1, <2>2, CellWritten
<1>3. ASSUME NEW i \in 1 .. n PROVE AmountInv(rows, configs, after, original, t, i)
  <2> DEFINE line == LineIn(rows, configs, i, t)
             col == CategoryCol(rows[i].category, ConfigIn(configs, t))
  <2> SUFFICES ASSUME Goes(rows, configs, i, t), line \in DOMAIN original, col \in 1 .. Columns,
                      ~IsFormula(original[line][col])
               PROVE  after[line][col] = [is |-> "amount", of |-> i]
    BY DEF AmountInv
  <2>1. cells[line][col] = [is |-> "amount", of |-> i]
    BY DEF SheetInv, AmountInv
  <2>2. line # row
    <3>1. i \in 1 .. (n + 1) - 1 /\ n + 1 \in Nat
      OBVIOUS
    <3>2. i \in Nat \ {0} /\ n + 1 \in Nat \ {0} /\ i # n + 1
      OBVIOUS
    <3> QED BY <3>2, OwnLine
  <2>3. Receives(after[line][col], cells[line][col], line = row, col = category, n + 1)
    <3> HIDE DEF line, col, row, category
    <3> QED BY <1>1
  <2> QED BY <2>1, <2>2, <2>3 DEF Receives
<1>4. AmountInv(rows, configs, after, original, t, n + 1)
  <2> SUFFICES ASSUME row \in DOMAIN original, category \in 1 .. Columns,
                      ~IsFormula(original[row][category])
               PROVE  after[row][category] = [is |-> "amount", of |-> n + 1]
    BY DEF AmountInv
  <2>1. CellInv(rows, configs, cells[row][category], original[row][category], t, row, category, n)
    BY DEF SheetInv
  <2>2. ~IsFormula(cells[row][category])
    BY <2>1 DEF CellInv
  <2>3. Receives(after[row][category], cells[row][category], row = row, category = category, n + 1)
    <3> HIDE DEF row, category
    <3> QED BY <1>1
  <2> QED BY <2>2, <2>3 DEF Receives
<1>5. ASSUME NEW i \in 1 .. n + 1 PROVE AmountInv(rows, configs, after, original, t, i)
  <2>1. i \in 1 .. n \/ i = n + 1
    OBVIOUS
  <2> QED BY <1>3, <1>4, <2>1
<1> QED BY <1>1, <1>2, <1>5 DEF SheetInv, after

\* A sheet once it is cleared.
LEMMA SheetCleared ==
  ASSUME NEW rs, NEW cs, NEW ws, IsSheet(ws), NEW t
  PROVE  SheetInv(rs, cs,
                  IF t \in TitlesOf(cs) THEN ClearDataRows(ws.cells, ConfigIn(cs, t)) ELSE ws.cells,
                  ws.cells, t, 0)
<1> DEFINE cells == IF t \in TitlesOf(cs) THEN ClearDataRows(ws.cells, ConfigIn(cs, t)) ELSE ws.cells
<1>1. \A r \in DOMAIN ws.cells :
        /\ ws.cells[r] = [col \in 1 .. Columns |-> ws.cells[r][col]]
        /\ \A col \in 1 .. Columns : ~Filled(ws.cells[r][col])
  BY DEF IsSheet, Filled
<1>2. Shaped(cells, ws.cells)
  BY <1>1 DEF Shaped, ClearDataRows
<1>3. ASSUME NEW r \in DOMAIN ws.cells, NEW col \in 1 .. Columns
      PROVE  CellInv(rs, cs, cells[r][col], ws.cells[r][col], t, r, col, 0)
  <2>1. cells[r][col] = IF /\ t \in TitlesOf(cs) /\ r <= EffectiveEnd(ConfigIn(cs, t))
                           /\ ~IsFormula(ws.cells[r][col])
                        THEN Blank ELSE ws.cells[r][col]
    BY DEF ClearDataRows
  <2>2. ~Filled(cells[r][col])
    <3>1. ~Filled(Blank)
      BY DEF Filled, Blank
    <3> HIDE DEF cells
    <3> QED BY <1>1, <2>1, <3>1
  <2>3. ~IsFormula(Blank)
    BY DEF IsFormula, Blank
  <2> HIDE DEF cells
  <2> QED BY <2>1, <2>2, <2>3 DEF CellInv, Filled
<1>4. \A i \in 1 .. 0 : AmountInv(rs, cs, cells, ws.cells, t, i)
  OBVIOUS
<1> QED BY <1>2, <1>3, <1>4 DEF SheetInv

\* The steps that leave the writer's transactions and configurations alone.
LEMMA WriterGivens ==
  ASSUME WriterNext
  PROVE  /\ template' = template /\ rows' = rows /\ configs' = configs
         /\ stage \in {"loaded", "cleared"} /\ stage' \in {"cleared", "saved", "failed"}
BY DEF WriterNext, Clear, ClearFails, SkipRow, WriteRow, WriteFails, Save

LEMMA CountersStep == MatcherInv /\ GivenInv /\ CountersInv /\ [Next]_vars => CountersInv'
<1> SUFFICES ASSUME MatcherInv, GivenInv, CountersInv, [Next]_vars PROVE CountersInv'
  OBVIOUS
<1>1. CASE UNCHANGED <<stage, rows, configs, written, nextRow>>
  BY <1>1 DEF CountersInv
<1>2. CASE Generate
  <2>1. PICK wb \in Workbook :
          /\ rows' \in [DOMAIN Reconciled -> Expense \cup Unreviewed]
          /\ configs' = Analyze(wb) /\ nextRow' = FirstRows(wb) /\ written' = 0
          /\ stage' = IF Analyze(wb) = <<>> THEN "failed" ELSE "loaded"
    BY <1>2 DEF Generate
  <2>2. Len(rows') \in Nat /\ DOMAIN rows' = 1 .. Len(rows')
    <3>1. DOMAIN Reconciled = 1 .. Len(Reconciled) /\ Len(Reconciled) \in Nat
      <4> DEFINE E == Entries("receipt", DOMAIN receipts) \cup Entries("card", DOMAIN cards \ consumed)
                 R == Reconciled
      <4>1. R \in Seq(E)
        BY ReconciledLists DEF Enumerates
      <4> HIDE DEF R, E
      <4> QED BY <4>1 DEF R
    <3> DEFINE R == Reconciled
    <3>2. rows' \in [1 .. Len(R) -> Expense \cup Unreviewed] /\ Len(R) \in Nat
      BY <2>1, <3>1
    <3> HIDE DEF R
    <3> QED BY <3>2
  <2>3. TitlesOf(configs') = {c.title : c \in ToSet(Analyze(wb))}
    BY <2>1 DEF TitlesOf, ToSet
  <2>4. /\ DOMAIN nextRow' = TitlesOf(configs')
        /\ \A t \in TitlesOf(configs') : nextRow'[t] = DataStart
    BY <2>1, <2>3 DEF FirstRows
  <2>5. \A t : Cardinality(GoneTo(rows', configs', written', t)) = 0
    <3>1. \A t : Cardinality(GoneTo(rows', configs', 0, t)) = 0
      <4>1. 0 \in Nat
        OBVIOUS
      <4> QED BY <4>1, GoneCounted
    <3> QED BY <2>1, <3>1
  <2>6. 0 \in 0 .. Len(rows')
    BY <2>2
  <2>7. DataStart + 0 = DataStart
    BY DEF DataStart
  <2> QED BY <2>1, <2>2, <2>4, <2>5, <2>6, <2>7 DEF CountersInv
<1>3. CASE Clear \/ Save \/ ClearFails \/ WriteFails
  BY <1>3 DEF Clear, Save, ClearFails, WriteFails, CountersInv
<1> DEFINE n == written
           gone(t) == Cardinality(GoneTo(rows, configs, n, t))
<1>4. CASE SkipRow \/ WriteRow
  <2>1. /\ rows' = rows /\ configs' = configs /\ stage' = stage /\ written' = n + 1
        /\ stage = "cleared" /\ n < Len(rows)
    BY <1>4 DEF SkipRow, WriteRow
  <2>2. n \in Nat /\ Len(rows) \in Nat /\ n + 1 \in 0 .. Len(rows)
    BY <2>1 DEF CountersInv
  <2>3. /\ DOMAIN nextRow' = TitlesOf(configs)
        /\ \A t \in TitlesOf(configs) :
             nextRow'[t] = nextRow[t] + IF Goes(rows, configs, n + 1, t) THEN 1 ELSE 0
    <3>0. DOMAIN nextRow = TitlesOf(configs)
      BY DEF CountersInv
    <3>1. \A t \in TitlesOf(configs) : nextRow[t] \in Int
      <4>1. \A t : gone(t) \in Nat
        BY <2>2, GoneCounted
      <4>2. \A t \in TitlesOf(configs) : nextRow[t] = DataStart + gone(t)
        BY DEF CountersInv
      <4> HIDE DEF gone
      <4> QED BY <4>1, <4>2 DEF DataStart
    <3>2. CASE SkipRow
      <4>1. nextRow' = nextRow /\ \A t : ~Goes(rows, configs, n + 1, t)
        BY <3>2 DEF SkipRow, Goes
      <4> HIDE DEF n
      <4> QED BY <3>0, <3>1, <4>1
    <3>3. CASE WriteRow
      <4> DEFINE u == Get(KindToSheet(configs), rows[n + 1].sheet, "")
      <4>1. /\ nextRow' = [nextRow EXCEPT ![u] = nextRow[u] + 1]
            /\ \A t : Goes(rows, configs, n + 1, t) <=> t = u
        BY <3>3 DEF WriteRow, Goes
      <4> HIDE DEF u, n
      <4> QED BY <3>0, <3>1, <4>1
    <3> QED BY <1>4, <3>2, <3>3
  <2>4. \A t \in TitlesOf(configs) :
          nextRow'[t] = DataStart + Cardinality(GoneTo(rows, configs, n + 1, t))
    <3> TAKE t \in TitlesOf(configs)
    <3>1. /\ gone(t) \in Nat
          /\ Cardinality(GoneTo(rows, configs, n + 1, t))
               = gone(t) + IF Goes(rows, configs, n + 1, t) THEN 1 ELSE 0
      BY <2>2, GoneCounted
    <3>2. nextRow[t] = DataStart + gone(t)
      BY DEF CountersInv
    <3> HIDE DEF gone
    <3> QED BY <2>3, <3>1, <3>2 DEF DataStart
  <2> QED BY <2>1, <2>2, <2>3, <2>4 DEF CountersInv
<1>5. CASE MatcherNext /\ UNCHANGED <<writerVars, source>>
  BY <1>1, <1>5 DEF writerVars
<1>6. CASE UNCHANGED vars
  BY <1>1, <1>6 DEF vars, writerVars
<1> QED BY <1>2, <1>3, <1>4, <1>5, <1>6 DEF Next, WriterNext

LEMMA WritingStep == GivenInv /\ CountersInv /\ WritingInv /\ [Next]_vars => WritingInv'
<1> SUFFICES ASSUME GivenInv, CountersInv, WritingInv, [Next]_vars PROVE WritingInv'
  OBVIOUS
<1>1. CASE UNCHANGED <<stage, template, rows, configs, book, written>>
  BY <1>1 DEF WritingInv
<1>2. CASE Generate
  <2>1. PICK wb \in Workbook :
          template' = wb /\ book' = Loaded(wb) /\ stage' \in {"failed", "loaded"}
    BY <1>2 DEF Generate
  <2>2. DOMAIN Loaded(wb) = Titles(wb)
    BY DEF Loaded
  <2> QED BY <2>1, <2>2 DEF WritingInv
<1> DEFINE original(t) == SheetOf(template, t).cells
<1>3. CASE Clear
  <2>1. /\ stage = "loaded" /\ stage' = "cleared" /\ written' = 0
        /\ template' = template /\ rows' = rows /\ configs' = configs
        /\ DOMAIN book' = DOMAIN book
        /\ \A t \in DOMAIN book :
             book'[t] = IF t \in Configured THEN ClearDataRows(book[t], ConfigFor(t)) ELSE book[t]
    BY <1>3 DEF Clear, CountersInv
  <2>2. DOMAIN book = Titles(template) /\ \A t \in DOMAIN book : book[t] = original(t)
    BY <2>1 DEF WritingInv, Loaded
  <2>3. ASSUME NEW t \in DOMAIN book
        PROVE  SheetInv(rows, configs, book'[t], original(t), t, 0)
    <3>1. IsSheet(SheetOf(template, t))
      <4>1. \E k \in DOMAIN template.sheets : SheetOf(template, t) = template.sheets[k]
        BY <2>2 DEF Titles, SheetOf
      <4> QED BY <2>1, <4>1, SheetList DEF GivenInv
    <3>2. book'[t] = IF t \in TitlesOf(configs)
                     THEN ClearDataRows(original(t), ConfigIn(configs, t)) ELSE original(t)
      BY <2>1, <2>2, InWriterWords
    <3> QED BY <3>1, <3>2, SheetCleared
  <2> HIDE DEF original
  <2> QED BY <2>1, <2>2, <2>3 DEF WritingInv, original
<1>4. CASE SkipRow \/ WriteRow
  <2> DEFINE n == written
  <2>1. /\ stage = "cleared" /\ stage' = "cleared" /\ written' = n + 1
        /\ template' = template /\ rows' = rows /\ configs' = configs
    BY <1>4 DEF SkipRow, WriteRow
  <2>0. n \in Nat
    <3>1. written \in 0 .. Len(rows)
      BY DEF CountersInv
    <3> QED BY <3>1
  <2>2. /\ DOMAIN book = Titles(template)
        /\ \A t \in DOMAIN book : SheetInv(rows, configs, book[t], original(t), t, n)
    BY <2>1 DEF WritingInv
  <2>3. /\ DOMAIN book' = DOMAIN book
        /\ \A t \in DOMAIN book : SheetInv(rows, configs, book'[t], original(t), t, n + 1)
    <3>1. CASE SkipRow
      <4>1. book' = book /\ \A t : ~Goes(rows, configs, n + 1, t)
        BY <3>1 DEF SkipRow, Goes
      <4> HIDE DEF original
      <4> QED BY <2>0, <2>2, <4>1, SheetUntouched
    <3>2. CASE WriteRow
      <4> DEFINE u == Get(KindToSheet(configs), rows[n + 1].sheet, "")
      <4>1. /\ book' = [book EXCEPT ![u] = WriteReceipt(book[u], ConfigFor(u), nextRow[u], n + 1)]
            /\ \A t : Goes(rows, configs, n + 1, t) <=> t = u
        BY <3>2 DEF WriteRow, Goes
      <4> HIDE DEF u
      <4>2. u \in TitlesOf(configs)
        BY <2>1, <4>1, GoesToConfigured
      <4>3. nextRow[u] = LineIn(rows, configs, n + 1, u)
        <5>1. nextRow[u] = DataStart + Cardinality(GoneTo(rows, configs, n, u))
          BY <4>2 DEF CountersInv
        <5>2. (n + 1) - 1 = n
          BY <2>0
        <5> QED BY <5>1, <5>2 DEF LineIn
      <4>4. DOMAIN book' = DOMAIN book
        BY <4>1
      <4>5. ASSUME NEW t \in DOMAIN book
            PROVE  SheetInv(rows, configs, book'[t], original(t), t, n + 1)
        <5>1. SheetInv(rows, configs, book[t], original(t), t, n)
          BY <2>2
        <5>2. CASE t = u
          <6>1. book'[t] = WriteReceipt(book[t], ConfigIn(configs, t),
                                        LineIn(rows, configs, n + 1, t), n + 1)
            BY <4>1, <4>3, <5>2, InWriterWords
          <6>2. Goes(rows, configs, n + 1, t)
            BY <4>1, <5>2
          <6> HIDE DEF original, n
          <6> QED BY <2>0, <5>1, <6>1, <6>2, SheetWritten
        <5>3. CASE t # u
          <6>1. book'[t] = book[t] /\ ~Goes(rows, configs, n + 1, t)
            BY <4>1, <5>3
          <6> HIDE DEF original, n
          <6> QED BY <2>0, <5>1, <6>1, SheetUntouched
        <5> QED BY <5>2, <5>3
      <4> QED BY <4>4, <4>5
    <3> QED BY <1>4, <3>1, <3>2
  <2> HIDE DEF original
  <2> QED BY <2>1, <2>2, <2>3 DEF WritingInv, original
<1>5. CASE Save \/ ClearFails \/ WriteFails
  BY <1>5 DEF Save, ClearFails, WriteFails, WritingInv
<1>6. CASE MatcherNext /\ UNCHANGED <<writerVars, source>>
  BY <1>1, <1>6 DEF writerVars
<1>7. CASE UNCHANGED vars
  BY <1>1, <1>7 DEF vars, writerVars
<1> QED BY <1>2, <1>3, <1>4, <1>5, <1>6, <1>7 DEF Next, WriterNext

\* The list the writer is given is in order of date.
LEMMA ByDateSorted ==
  ASSUME MatcherInv
  PROVE  \A i, j \in DOMAIN Reconciled : i < j => Stored(ByDate[i]).date <= Stored(ByDate[j]).date
<1> DEFINE E == Entries("receipt", DOMAIN receipts) \cup Entries("card", DOMAIN cards \ consumed)
           R == Reconciled
           D == DOMAIN R
           Day(a) == Stored(R[a]).date
           Earlier == {p \in D \X D : \/ Day(p[1]) < Day(p[2])
                                      \/ Day(p[1]) = Day(p[2]) /\ p[1] < p[2]}
           order == InOrder(D, Earlier)
<1>1. ByDate = [n \in DOMAIN order |-> R[order[n]]]
  BY DEF ByDate
<1>2. R \in Seq(E)
  BY ReconciledLists DEF Enumerates
<1>3. ASSUME NEW e \in E PROVE Stored(e).date \in Int
  <2>1. Stored(e) \in Transaction
    <3>1. CASE e \in Entries("receipt", DOMAIN receipts)
      <4>1. e.kind = "receipt" /\ e.idx \in DOMAIN receipts
        BY <3>1 DEF Entries
      <4> QED BY <4>1 DEF Stored, MatcherInv, MatcherTypeOK
    <3>2. CASE e \in Entries("card", DOMAIN cards \ consumed)
      <4>1. e.kind = "card" /\ e.idx \in DOMAIN cards
        BY <3>2 DEF Entries
      <4> QED BY <4>1 DEF Stored, MatcherInv, MatcherTypeOK
    <3> QED BY <3>1, <3>2
  <2> QED BY <2>1, MatcherAssumption
<1>4. \A a \in D : Day(a) \in Int
  <2> HIDE DEF E, R
  <2> QED BY <1>2, <1>3
<1>5. D = 1 .. Len(R) /\ Len(R) \in Nat
  <2> HIDE DEF E, R
  <2> QED BY <1>2
<1> HIDE DEF R, Day
<1>6. Orders(Earlier, D)
  <2>1. D \subseteq Int
    BY <1>5
  <2> HIDE DEF D
  <2>2. \A x, y \in D : <<x, y>> \in Earlier <=> \/ Day(x) < Day(y)
                                                 \/ Day(x) = Day(y) /\ x < y
    OBVIOUS
  <2> HIDE DEF Earlier
  <2> QED BY <1>4, <2>1, <2>2 DEF Orders
<1>7. IsFiniteSet(D) /\ Cardinality(D) = Len(R)
  <2>1. 1 \in Int /\ Len(R) \in Int
    BY <1>5
  <2>2. IsFiniteSet(1 .. Len(R)) /\ Cardinality(1 .. Len(R)) = IF 1 > Len(R) THEN 0 ELSE Len(R) - 1 + 1
    BY <2>1, FS_Interval
  <2> HIDE DEF D
  <2> QED BY <1>5, <2>2
<1>8. \A x, y \in D : <<x, y>> \in Earlier => Day(x) <= Day(y)
  <2> HIDE DEF D
  <2> QED BY <1>4
<1> HIDE DEF Earlier
<1>9. /\ order \in [1 .. Cardinality(D) -> D]
      /\ \A k, l \in 1 .. Cardinality(D) : k < l => <<order[k], order[l]>> \in Earlier
  <2> HIDE DEF D
  <2> QED BY <1>6, <1>7, InOrderLists
<1> HIDE DEF order
<1>10. ASSUME NEW i \in D, NEW j \in D, i < j
       PROVE  Stored(ByDate[i]).date <= Stored(ByDate[j]).date
  <2>1. DOMAIN order = D /\ order[i] \in D /\ order[j] \in D /\ <<order[i], order[j]>> \in Earlier
    <3>1. 1 .. Cardinality(D) = D
      BY <1>5, <1>7
    <3> HIDE DEF D
    <3> QED BY <1>9, <1>10, <3>1
  <2>2. ByDate[i] = R[order[i]] /\ ByDate[j] = R[order[j]]
    <3> HIDE DEF D
    <3> QED BY <1>1, <2>1
  <2>3. Day(order[i]) <= Day(order[j])
    <3> HIDE DEF D
    <3> QED BY <1>8, <2>1
  <2> QED BY <2>2, <2>3 DEF Day
<1> QED BY <1>10 DEF R

LEMMA SourceStep == MatcherInv /\ CountersInv /\ SourceInv /\ [Next]_vars => SourceInv'
<1> SUFFICES ASSUME MatcherInv, CountersInv, SourceInv, [Next]_vars PROVE SourceInv'
  OBVIOUS
<1>1. CASE UNCHANGED <<rows, source, receipts, cards>>
  BY <1>1 DEF SourceInv, Stored
<1>2. CASE Generate
  <2>1. /\ source' = ByDate /\ receipts' = receipts /\ cards' = cards
        /\ DOMAIN rows' = DOMAIN Reconciled
    BY <1>2 DEF Generate, matcherVars
  <2> QED BY <2>1, ByDateSorted DEF SourceInv, Stored
<1>3. CASE WriterNext /\ UNCHANGED <<matcherVars, source>>
  <2>1. rows' = rows
    BY <1>3, WriterGivens
  <2> QED BY <1>1, <1>3, <2>1 DEF matcherVars
<1>4. CASE stage = "waiting" /\ MatcherNext /\ UNCHANGED <<writerVars, source>>
  <2>1. rows' = rows /\ source' = source /\ receipts' = receipts /\ cards' = cards
    BY <1>4 DEF writerVars, MatcherNext, Examine, Settle
  <2> QED BY <1>1, <2>1
<1>5. CASE UNCHANGED vars
  BY <1>1, <1>5 DEF vars, writerVars, matcherVars
<1> QED BY <1>2, <1>3, <1>4, <1>5 DEF Next

\* The invariant of the whole way from the receipts to the saved workbook.
THEOREM WorkbookInductive == Spec => []WorkbookInv
<1>1. Init => GivenInv /\ CountersInv /\ WritingInv /\ SourceInv
  <2> SUFFICES ASSUME Init PROVE GivenInv /\ CountersInv /\ WritingInv /\ SourceInv
    OBVIOUS
  <2>1. GivenInv /\ WritingInv /\ SourceInv
    BY DEF Init, GivenInv, WritingInv, SourceInv
  <2>2. CountersInv
    BY DEF Init, CountersInv, TitlesOf
  <2> QED BY <2>1, <2>2
<1> DEFINE Rest == GivenInv /\ CountersInv /\ WritingInv /\ SourceInv
<1>2. MatcherInv /\ Rest /\ [Next]_vars => Rest'
  BY GivenStep, CountersStep, WritingStep, SourceStep
<1>3. Spec => []MatcherInv
  BY WorkbookUsesMatcher, MatcherInductive, PTL
<1>4. Spec => []Rest
  BY <1>1, <1>2, <1>3, PTL DEF Spec
<1>5. MatcherInv /\ Rest => WorkbookInv
  BY DEF WorkbookInv
<1> QED BY <1>3, <1>4, <1>5, PTL

\* What holds of a cell of the workbook that is saved or being written.
LEMMA CellOfBook ==
  ASSUME WorkbookInv, stage \in {"cleared", "saved"}, NEW t \in DOMAIN book
  PROVE  /\ IsSheet(SheetOf(template, t))
         /\ Shaped(book[t], SheetOf(template, t).cells)
         /\ \A r \in DOMAIN SheetOf(template, t).cells : \A col \in 1 .. Columns :
              CellInv(rows, configs, book[t][r][col], SheetOf(template, t).cells[r][col], t, r, col, written)
<1>1. SheetInv(rows, configs, book[t], SheetOf(template, t).cells, t, written)
  BY DEF WorkbookInv, WritingInv
<1>2. t \in Titles(template) /\ template \in Workbook
  BY DEF WorkbookInv, WritingInv, GivenInv
<1>3. \E k \in DOMAIN template.sheets : SheetOf(template, t) = template.sheets[k]
  BY <1>2 DEF Titles, SheetOf
<1>4. IsSheet(SheetOf(template, t))
  BY <1>2, <1>3, SheetList
<1> QED BY <1>1, <1>4 DEF SheetInv

\* A transaction that fits goes to a sheet with a configuration, to one of its
\* data rows, above the sum row.
LEMMA LineThatFits ==
  ASSUME WorkbookInv, stage # "waiting", NEW i \in DOMAIN rows, Routed(i), Fits(i)
  PROVE  LET t == SheetFor(i)
             cfg == ConfigIn(configs, t)
         IN /\ Goes(rows, configs, i, t)
            /\ t \in TitlesOf(configs) /\ t \in Titles(template)
            /\ LineIn(rows, configs, i, t) \in Nat /\ LineIn(rows, configs, i, t) >= DataStart
            /\ LineIn(rows, configs, i, t) <= EffectiveEnd(cfg)
            /\ Sound(template, cfg) /\ cfg.title = t
<1> DEFINE t == SheetFor(i)
           line == LineIn(rows, configs, i, t)
<1>1. Goes(rows, configs, i, t) /\ LineOf(i) = line /\ ConfigFor(t) = ConfigIn(configs, t)
  BY InWriterWords
<1>2. t \in TitlesOf(configs)
  BY <1>1, GoesToConfigured DEF WorkbookInv
<1>3. Sound(template, ConfigIn(configs, t)) /\ ConfigIn(configs, t).title = t
  BY <1>2, ConfigThere DEF WorkbookInv
<1>4. line \in Nat /\ line >= DataStart
  <2>1. i - 1 \in Nat
    <3>1. DOMAIN rows = 1 .. Len(rows)
      BY DEF WorkbookInv, CountersInv
    <3> QED BY <3>1
  <2>2. Cardinality(GoneTo(rows, configs, i - 1, t)) \in Nat
    BY <2>1, GoneCounted
  <2> QED BY <2>2 DEF LineIn, DataStart
<1> HIDE DEF line
<1> QED BY <1>1, <1>2, <1>3, <1>4 DEF Fits, Sound, line

\* Where the writer has put something, the transaction is one of the rows.
LEMMA FilledByRow ==
  ASSUME WorkbookInv, stage \in {"cleared", "saved"}, NEW t \in DOMAIN book,
         NEW r \in DOMAIN SheetOf(template, t).cells, NEW col \in 1 .. Columns,
         Filled(book[t][r][col])
  PROVE  LET i == book[t][r][col].of
         IN /\ i \in DOMAIN rows /\ i \in Nat \ {0}
            /\ Goes(rows, configs, i, t) /\ Routed(i) /\ SheetFor(i) = t
            /\ LineIn(rows, configs, i, t) = r
<1> DEFINE value == book[t][r][col]
<1>1. CellInv(rows, configs, value, SheetOf(template, t).cells[r][col], t, r, col, written)
  BY CellOfBook
<1>2. value.of \in 1 .. written /\ Goes(rows, configs, value.of, t)
      /\ LineIn(rows, configs, value.of, t) = r
  BY <1>1 DEF CellInv
<1>3. DOMAIN rows = 1 .. Len(rows) /\ written \in 0 .. Len(rows) /\ Len(rows) \in Nat
  BY DEF WorkbookInv, CountersInv
<1> HIDE DEF value
<1>4. value.of \in DOMAIN rows /\ value.of \in Nat \ {0}
  BY <1>2, <1>3
<1> QED BY <1>2, <1>4, InWriterWords DEF value

\* The sum row, its label and its totals included, is never cleared or written
\* while all transactions fit, on any template (xlsx_writer.py:4, v1 bug 2).
THEOREM SumRowSurvives == Spec => []SumRowKept
<1>1. WorkbookInv => SumRowKept
  <2> SUFFICES ASSUME WorkbookInv, stage # "failed",
                      NEW t \in Configured, ConfigFor(t).sumRow # 0,
                      \A i \in DOMAIN rows : Routed(i) => Fits(i)
               PROVE  book[t][ConfigFor(t).sumRow] = SheetOf(template, t).cells[ConfigFor(t).sumRow]
    BY DEF SumRowKept
  <2> DEFINE cfg == ConfigIn(configs, t)
             r == cfg.sumRow
             original == SheetOf(template, t).cells
  <2>1. t \in TitlesOf(configs) /\ ConfigFor(t) = cfg
    BY InWriterWords
  <2>2. stage \in {"loaded", "cleared", "saved"}
    <3>1. configs # <<>>
      BY <2>1 DEF TitlesOf
    <3> QED BY <3>1 DEF WorkbookInv, CountersInv
  <2>3. Sound(template, cfg) /\ cfg.title = t
    BY <2>1, <2>2, ConfigThere DEF WorkbookInv
  <2>4. t \in DOMAIN book
    BY <2>2, <2>3 DEF Sound, WorkbookInv, WritingInv
  <2>5. /\ r \in DOMAIN original /\ r \in Int
        /\ EffectiveEnd(cfg) \in Int /\ EffectiveEnd(cfg) < r
        /\ original[r] = [col \in 1 .. Columns |-> original[r][col]]
    <3> DEFINE ws == SheetOf(template, t)
    <3>1. /\ IsSheet(ws) /\ r \in DataStart .. ws.maxRow
          /\ EffectiveEnd(cfg) \in Int /\ EffectiveEnd(cfg) < r
      BY <2>1, <2>3 DEF Sound
    <3>2. ws.maxRow \in Nat /\ MaxRows \in Nat /\ DataStart \in Int
          /\ DOMAIN ws.cells = DataStart .. ws.maxRow + MaxRows
          /\ \A q \in DOMAIN ws.cells : ws.cells[q] = [col \in 1 .. Columns |-> ws.cells[q][col]]
      BY <3>1, WriterAssumption DEF IsSheet, WriterAssumption, DataStart
    <3> HIDE DEF ws, cfg
    <3>3. r \in DOMAIN ws.cells /\ r \in Int
      BY <3>1, <3>2
    <3> QED BY <3>1, <3>2, <3>3 DEF ws
  <2>6. CASE stage = "loaded"
    <3>1. book[t] = original
      BY <2>4, <2>6 DEF WorkbookInv, WritingInv, Loaded
    <3> QED BY <2>1, <3>1
  <2>7. CASE stage \in {"cleared", "saved"}
    <3>1. book[t][r] = [col \in 1 .. Columns |-> book[t][r][col]]
      BY <2>4, <2>5, <2>7, CellOfBook DEF Shaped
    <3>2. ASSUME NEW col \in 1 .. Columns PROVE book[t][r][col] = original[r][col]
      <4>1. CellInv(rows, configs, book[t][r][col], original[r][col], t, r, col, written)
        BY <2>4, <2>5, <2>7, CellOfBook
      <4>2. book[t][r][col] = original[r][col] \/ Filled(book[t][r][col])
        <5>1. ~(r <= EffectiveEnd(cfg))
          BY <2>5
        <5> QED BY <4>1, <5>1 DEF CellInv
      <4>3. ASSUME Filled(book[t][r][col]) PROVE FALSE
        <5> DEFINE i == book[t][r][col].of
        <5>1. i \in DOMAIN rows /\ Routed(i) /\ SheetFor(i) = t /\ LineIn(rows, configs, i, t) = r
          BY <2>4, <2>5, <2>7, <4>3, FilledByRow
        <5> HIDE DEF i
        <5>2. LineIn(rows, configs, i, t) <= EffectiveEnd(cfg)
          BY <2>2, <5>1, LineThatFits
        <5> QED BY <2>5, <5>1, <5>2
      <4> QED BY <4>2, <4>3
    <3> HIDE DEF cfg, r, original
    <3>3. book[t][r] = original[r]
      BY <2>5, <3>1, <3>2
    <3> QED BY <2>1, <3>3 DEF r, original
  <2> QED BY <2>2, <2>6, <2>7
<1> QED BY <1>1, WorkbookInductive, PTL

\* When the workbook is saved, every transaction that fits has a line of its
\* own, alone, and no dummy data is left on it, whatever the template, the
\* transactions and their number (xlsx_writer.py:4, v1 bug 1).
THEOREM LinesAreOwn == Spec => []OneLineEach
<1>1. WorkbookInv => OneLineEach
  <2> SUFFICES ASSUME WorkbookInv, stage = "saved", NEW i \in DOMAIN rows, Routed(i), Fits(i),
                      NEW t \in DOMAIN book, NEW r \in DOMAIN book[t], NEW col \in 1 .. Columns
               PROVE  IF t = SheetFor(i) /\ r = LineOf(i)
                      THEN \/ Holds(book[t][r][col], i) \/ book[t][r][col] = Blank
                           \/ IsFormula(book[t][r][col])
                      ELSE ~Holds(book[t][r][col], i)
    BY DEF OneLineEach
  <2> DEFINE value == book[t][r][col]
             original == SheetOf(template, t).cells
  <2>1. stage \in {"cleared", "saved"} /\ stage # "waiting"
    OBVIOUS
  <2>2. r \in DOMAIN original
    BY <2>1, CellOfBook DEF Shaped
  <2>3. CellInv(rows, configs, value, original[r][col], t, r, col, written)
    BY <2>1, <2>2, CellOfBook
  <2>4. Filled(value) => /\ value.of \in Nat \ {0} /\ Goes(rows, configs, value.of, t)
                         /\ SheetFor(value.of) = t /\ LineIn(rows, configs, value.of, t) = r
    BY <2>1, <2>2, FilledByRow
  <2>5. /\ Goes(rows, configs, i, SheetFor(i)) /\ SheetFor(i) \in TitlesOf(configs)
        /\ LineIn(rows, configs, i, SheetFor(i)) <= EffectiveEnd(ConfigIn(configs, SheetFor(i)))
        /\ LineOf(i) = LineIn(rows, configs, i, SheetFor(i))
    BY <2>1, LineThatFits, InWriterWords
  <2>6. i \in Nat \ {0}
    <3>1. DOMAIN rows = 1 .. Len(rows)
      BY DEF WorkbookInv, CountersInv
    <3> QED BY <3>1
  <2> HIDE DEF value, original
  <2>7. CASE t = SheetFor(i) /\ r = LineOf(i)
    <3>1. value = Blank \/ IsFormula(value) \/ Filled(value)
      BY <2>3, <2>5, <2>7 DEF CellInv
    <3>2. ASSUME Filled(value) PROVE Holds(value, i)
      <4>1. value.of = i
        BY <2>4, <2>5, <2>6, <2>7, <3>2, OwnLine
      <4> QED BY <3>2, <4>1 DEF Filled, Holds
    <3> QED BY <2>7, <3>1, <3>2 DEF value
  <2>8. CASE ~(t = SheetFor(i) /\ r = LineOf(i))
    <3> SUFFICES ASSUME Holds(value, i) PROVE FALSE
      BY <2>8 DEF value
    <3>1. Filled(value) /\ value.of = i
      BY DEF Filled, Holds
    <3> QED BY <2>4, <2>5, <2>8, <3>1
  <2> QED BY <2>7, <2>8
<1> QED BY <1>1, WorkbookInductive, PTL

\* Reading a sheet of the saved workbook downwards the days do not go back,
\* for lists of any length (sessions.py, generate_session_artifacts).
THEOREM DatesAscend == Spec => []LinesInDateOrder
<1>1. WorkbookInv => LinesInDateOrder
  <2> SUFFICES ASSUME WorkbookInv, stage = "saved", NEW t \in DOMAIN book,
                      NEW r \in DOMAIN book[t], NEW q \in DOMAIN book[t],
                      NEW a \in 1 .. Columns, NEW b \in 1 .. Columns,
                      book[t][r][a].is = "date", book[t][q][b].is = "date", r < q
               PROVE  Stored(source[book[t][r][a].of]).date <= Stored(source[book[t][q][b].of]).date
    BY DEF LinesInDateOrder
  <2> DEFINE i == book[t][r][a].of
             j == book[t][q][b].of
             original == SheetOf(template, t).cells
  <2>1. stage \in {"cleared", "saved"}
    OBVIOUS
  <2>2. r \in DOMAIN original /\ q \in DOMAIN original
    BY <2>1, CellOfBook DEF Shaped
  <2>3. Filled(book[t][r][a]) /\ Filled(book[t][q][b])
    BY DEF Filled
  <2>4. /\ i \in DOMAIN rows /\ i \in Nat \ {0}
        /\ Goes(rows, configs, i, t) /\ LineIn(rows, configs, i, t) = r
    BY <2>1, <2>2, <2>3, FilledByRow
  <2>5. /\ j \in DOMAIN rows /\ j \in Nat \ {0}
        /\ Goes(rows, configs, j, t) /\ LineIn(rows, configs, j, t) = q
    BY <2>1, <2>2, <2>3, FilledByRow
  <2>6. r \in Int /\ q \in Int
    <3>1. DOMAIN original = DataStart .. SheetOf(template, t).maxRow + MaxRows
      BY <2>1, CellOfBook DEF IsSheet
    <3> HIDE DEF original
    <3> QED BY <2>2, <3>1
  <2> HIDE DEF i, j, original
  <2>7. i < j
    <3>1. i # j
      BY <2>4, <2>5, <2>6
    <3>2. ~(j < i)
      <4> SUFFICES ASSUME j < i PROVE FALSE
        OBVIOUS
      <4>1. j \in 1 .. i - 1 /\ i \in Nat
        BY <2>4, <2>5
      <4> QED BY <2>4, <2>5, <2>6, <4>1, LinesDescend
    <3> QED BY <2>4, <2>5, <3>1, <3>2
  <2>8. Stored(source[i]).date <= Stored(source[j]).date
    BY <2>4, <2>5, <2>7 DEF WorkbookInv, SourceInv
  <2> QED BY <2>8 DEF i, j
<1> QED BY <1>1, WorkbookInductive, PTL

----------------------------------------------------------------------------
(* The totals.                                                             *)

\* A column of a category is a column of the sheet.
CategoryItems == Item({"meals", "other"}, 1 .. Columns)

LEMMA AddFreeTyped ==
  ASSUME NEW dict \in Seq(CategoryItems), NEW header \in DOMAIN SlotKeywords, NEW col \in 1 .. Columns
  PROVE  AddFree(dict, CategoryKeywords[header], col) \in Seq(CategoryItems)
<1> DEFINE words == CategoryKeywords[header]
           I == {i \in 1 .. Len(words) : ~Has(dict, words[i])}
           free == IF I # {} THEN Min(I) ELSE 0
<1>1. SelectInSeq(words, LAMBDA k : ~Has(dict, k)) = free
  BY DEF SelectInSeq
<1>2. words = IF header \in {"meals", "other"} THEN <<header>> ELSE <<>>
  BY DEF CategoryKeywords
<1>3. CASE I = {}
  BY <1>1, <1>3 DEF AddFree
<1>4. CASE I # {}
  <2>1. header \in {"meals", "other"} /\ words = <<header>> /\ Len(words) = 1
    <3>1. CASE header \in {"meals", "other"}
      BY <1>2, <3>1
    <3>2. CASE header \notin {"meals", "other"}
      <4>1. Len(words) = 0
        BY <1>2, <3>2
      <4> QED BY <1>4, <4>1
    <3> QED BY <3>1, <3>2
  <2>2. I = {1}
    BY <1>4, <2>1
  <2>3. Min(I) = 1
    BY <2>2 DEF Min
  <2>4. free = 1 /\ words[1] = header
    BY <1>4, <2>1, <2>3
  <2> HIDE DEF words, free, I
  <2>5. AddFree(dict, words, col) = Put(dict, header, col)
    BY <1>1, <2>4 DEF AddFree
  <2>6. Put(dict, header, col) \in Seq(CategoryItems)
    BY <2>1, PutTyped DEF CategoryItems
  <2> QED BY <2>5, <2>6 DEF words
<1> QED BY <1>3, <1>4

LEMMA FirstFitTyped ==
  ASSUME NEW dict \in Seq(CategoryItems), NEW row \in [1 .. Columns -> DOMAIN SlotKeywords]
  PROVE  FirstFit(row, CategoryKeywords, dict) \in Seq(CategoryItems)
<1> DEFINE D == Seq(CategoryItems)
           n == Columns
           cols == [col \in 1 .. Columns |-> col]
           Next_(d, k) == AddFree(d, CategoryKeywords[row[cols[k]]], cols[k])
           step == [p \in D \X (1 .. n) |-> Next_(p[1], p[2])]
           Solves(F) == F = [s \in SUBSET (1 .. n) |->
                               IF s = {} THEN dict ELSE Next_(F[s \ {Max(s)}], Max(s))]
           fold == CHOOSE F : Solves(F)
<1>1. n \in Nat /\ DOMAIN cols = 1 .. n
  BY WriterAssumption DEF WriterAssumption
<1>2. ASSUME NEW d \in D, NEW k \in 1 .. n PROVE Next_(d, k) \in D
  BY AddFreeTyped
<1> HIDE DEF Next_
<1>3. step \in [D \X (1 .. n) -> D]
  <2> HIDE DEF D, n
  <2> QED BY <1>2
<1>4. dict \in D
  OBVIOUS
<1>5. PICK F \in [SUBSET (1 .. n) -> D] : \A s \in SUBSET (1 .. n) : FoldsAt(F, dict, step, s)
  <2> HIDE DEF D, step, n
  <2> QED BY <1>1, <1>3, <1>4, FoldExists
<1>6. \A s \in SUBSET (1 .. n) : s # {} => Max(s) \in 1 .. n /\ s \ {Max(s)} \in SUBSET (1 .. n)
  <2> HIDE DEF n
  <2> QED BY <1>1, GreatestNumber
<1>7. ASSUME NEW s \in SUBSET (1 .. n)
      PROVE  F[s] = IF s = {} THEN dict ELSE Next_(F[s \ {Max(s)}], Max(s))
  <2>1. F[s] = IF s = {} THEN dict ELSE step[<<F[s \ {Max(s)}], Max(s)>>]
    BY <1>5 DEF FoldsAt
  <2>2. s # {} => F[s \ {Max(s)}] \in D /\ Max(s) \in 1 .. n
    <3> HIDE DEF D, n
    <3> QED BY <1>6
  <2>3. \A d \in D, k \in 1 .. n : step[<<d, k>>] = Next_(d, k)
    <3> HIDE DEF D, n
    <3> QED OBVIOUS
  <2> HIDE DEF D, n, step
  <2> QED BY <2>1, <2>2, <2>3
<1>8. Solves(F)
  <2> HIDE DEF D, n
  <2> QED BY <1>7
<1>9. Solves(fold)
  <2> HIDE DEF Solves
  <2> QED BY <1>8
<1>10. FirstFit(row, CategoryKeywords, dict) = fold[1 .. n]
  BY <1>1 DEF FirstFit, FoldLeft, MapThenFoldSet, Next_
<1>11. \A s \in SUBSET (1 .. n) :
         fold[s] = IF s = {} THEN dict ELSE Next_(fold[s \ {Max(s)}], Max(s))
  <2> HIDE DEF fold, n
  <2> QED BY <1>9
<1> DEFINE T == {k \in 0 .. n : fold[1 .. k] \in D}
<1> HIDE DEF fold, D, n
<1>12. 0 \in T
  <2>1. 1 .. 0 = {} /\ 1 .. 0 \in SUBSET (1 .. n) /\ 0 \in 0 .. n
    BY <1>1
  <2>2. fold[1 .. 0] = dict
    BY <2>1, <1>11
  <2> QED BY <2>1, <2>2, <1>4
<1>13. ASSUME NEW k \in 1 .. n, k - 1 \in T PROVE k \in T
  <2>1. Max(1 .. k) = k /\ (1 .. k) \ {k} = 1 .. k - 1
    BY LastOfPrefix
  <2>2. 1 .. k \in SUBSET (1 .. n) /\ 1 .. k # {} /\ k \in 0 .. n
    <3>1. n \in Nat /\ k \in 1 .. n
      BY <1>1
    <3>2. 1 .. k \subseteq 1 .. n
      BY <3>1
    <3>3. k \in 1 .. k /\ k \in 0 .. n
      BY <3>1
    <3> QED BY <3>2, <3>3
  <2>3. fold[1 .. k] = Next_(fold[(1 .. k) \ {Max(1 .. k)}], Max(1 .. k))
    BY <1>11, <2>2, Zenon
  <2>4. fold[1 .. k - 1] \in D
    BY <1>13
  <2>5. fold[1 .. k] = Next_(fold[1 .. k - 1], k)
    BY <2>1, <2>3, Zenon
  <2>6. fold[1 .. k] \in D
    BY <1>2, <2>4, <2>5, Zenon
  <2> QED BY <2>2, <2>6
<1>14. n \in T
  <2>1. 0 .. n \subseteq T
    <3> HIDE DEF T
    <3> QED BY <1>1, <1>12, <1>13, InductionUpTo
  <2> QED BY <1>1, <2>1
<1> QED BY <1>10, <1>14 DEF D, n

LEMMA CategoriesTyped ==
  ASSUME NEW ws, IsSheet(ws)
  PROVE  CategoryCols(ws) \in Seq(CategoryItems)
<1>1. ws.row7 \in [1 .. Columns -> DOMAIN SlotKeywords] /\ ws.row8 \in [1 .. Columns -> DOMAIN SlotKeywords]
  BY DEF IsSheet
<1>2. <<>> \in Seq(CategoryItems)
  OBVIOUS
<1>3. FirstFit(ws.row7, CategoryKeywords, <<>>) \in Seq(CategoryItems)
  BY <1>1, <1>2, FirstFitTyped
<1> QED BY <1>1, <1>3, FirstFitTyped DEF CategoryCols

\* A transaction's amount goes to a column of one of the sheet's categories.
LEMMA CategoryThere ==
  ASSUME NEW cfg, cfg.categories \in Seq(CategoryItems), cfg.categories # <<>>, NEW category
  PROVE  StandsIn(CategoryCol(category, cfg), cfg.categories)
<1> DEFINE cats == cfg.categories
           first == cats[1].col
           other == Get(cats, "other", first)
<1>1. CategoryCol(category, cfg) = Get(cats, category, other)
  BY DEF CategoryCol
<1>2. StandsIn(first, cats)
  <2>1. 1 \in DOMAIN cats
    OBVIOUS
  <2> QED BY <2>1 DEF StandsIn
<1> HIDE DEF cats, first
<1>3. StandsIn(other, cats)
  <2>1. CASE Has(cats, "other")
    BY <2>1, GetFinds, Zenon
  <2>2. CASE ~Has(cats, "other")
    BY <1>2, <2>2 DEF Get
  <2> QED BY <2>1, <2>2
<1> HIDE DEF other
<1>4. StandsIn(Get(cats, category, other), cats)
  <2>1. CASE Has(cats, category)
    BY <2>1, GetFinds, Zenon
  <2>2. CASE ~Has(cats, category)
    BY <1>3, <2>2 DEF Get
  <2> QED BY <2>1, <2>2
<1> QED BY <1>1, <1>4 DEF cats

\* A sheet with categories has its columns from the analysis.
LEMMA SoundCategories ==
  ASSUME NEW wb, NEW cfg, Sound(wb, cfg), Mode(cfg) # "field"
  PROVE  cfg.categories \in Seq(CategoryItems) /\ cfg.categories # <<>>
<1> DEFINE ws == SheetOf(wb, cfg.title)
<1>1. cfg.categories # <<>>
  BY DEF Mode
<1>2. IsSheet(ws) /\ cfg \in {AnalyzedConfig(wb, ws), Placeholder(ws)}
  BY DEF Sound
<1> HIDE DEF ws
<1>3. cfg = AnalyzedConfig(wb, ws)
  BY <1>1, <1>2 DEF Placeholder
<1>4. cfg.categories = CategoryCols(ws)
  BY <1>3 DEF AnalyzedConfig
<1> QED BY <1>1, <1>2, <1>4, CategoriesTyped

\* On a sheet whose sums cover its data rows, the totals of the saved workbook
\* count the amount of every transaction that fits exactly once, whatever its
\* category, on any template (xlsx_writer.py:96-110).
THEOREM TotalsAreRight == Spec => []TotalsCountEachOnce
<1>1. WorkbookInv /\ FormulasKept => TotalsCountEachOnce
  <2> SUFFICES ASSUME WorkbookInv, FormulasKept, stage = "saved",
                      NEW i \in DOMAIN rows, Routed(i), Fits(i),
                      Mode(ConfigFor(SheetFor(i))) # "field",
                      ConfigFor(SheetFor(i)).sumRow # 0,
                      \A c \in DOMAIN ConfigFor(SheetFor(i)).categories :
                        LET cfg == ConfigFor(SheetFor(i))
                            cells == SheetOf(template, cfg.title).cells
                            col == cfg.categories[c].col
                        IN /\ cells[cfg.sumRow][col] = SumFormula(DataStart, cfg.sumRow - 1)
                           /\ ~IsFormula(cells[LineOf(i)][col])
               PROVE  LET cfg == ConfigFor(SheetFor(i))
                      IN Cardinality({col \in 1 .. Columns : Counts(cfg, col, i)}) = 1
    BY DEF TotalsCountEachOnce
  <2> DEFINE t == SheetFor(i)
             cfg == ConfigFor(t)
             cells == SheetOf(template, t).cells
             line == LineIn(rows, configs, i, t)
             column == CategoryCol(rows[i].category, cfg)
             amount == [is |-> "amount", of |-> i]
  <2>0. stage \in {"cleared", "saved"} /\ stage # "waiting"
    OBVIOUS
  <2>1. cfg = ConfigIn(configs, t) /\ LineOf(i) = line
    BY InWriterWords
  <2>2. /\ Goes(rows, configs, i, t) /\ t \in TitlesOf(configs) /\ t \in Titles(template)
        /\ line \in Nat /\ line >= DataStart /\ line <= EffectiveEnd(cfg)
        /\ Sound(template, cfg) /\ cfg.title = t
    BY <2>0, <2>1, LineThatFits
  <2>3. /\ cfg.sumRow \in Int /\ cfg.sumRow \in DOMAIN cells
        /\ line <= cfg.sumRow - 1 /\ line \in DOMAIN cells
    <3> DEFINE ws == SheetOf(template, t)
    <3>1. /\ IsSheet(ws) /\ cfg.sumRow \in DataStart .. ws.maxRow
          /\ EffectiveEnd(cfg) \in Int /\ EffectiveEnd(cfg) < cfg.sumRow
      BY <2>2 DEF Sound
    <3>2. /\ ws.maxRow \in Nat /\ MaxRows \in Nat /\ DataStart \in Int
          /\ DOMAIN ws.cells = DataStart .. ws.maxRow + MaxRows
      BY <3>1, WriterAssumption DEF IsSheet, WriterAssumption, DataStart
    <3> HIDE DEF ws, cfg, line
    <3>3. cfg.sumRow \in Int /\ cfg.sumRow \in DOMAIN ws.cells
      BY <3>1, <3>2
    <3>4. line <= cfg.sumRow - 1 /\ line \in DOMAIN ws.cells
      BY <2>2, <3>1, <3>2
    <3> QED BY <3>3, <3>4 DEF ws
  <2>4. PICK c \in DOMAIN cfg.categories : column = cfg.categories[c].col
    <3>1. cfg.categories \in Seq(CategoryItems) /\ cfg.categories # <<>>
      BY <2>2, SoundCategories
    <3>2. StandsIn(column, cfg.categories)
      <4> HIDE DEF cfg
      <4> QED BY <3>1, CategoryThere
    <3> QED BY <3>2 DEF StandsIn
  <2>5. column \in 1 .. Columns
    <3>1. cfg.categories \in Seq(CategoryItems)
      BY <2>2, SoundCategories
    <3> HIDE DEF cfg, column
    <3>2. cfg.categories[c] \in CategoryItems
      BY <3>1
    <3>3. cfg.categories[c].col \in 1 .. Columns
      BY <3>2 DEF CategoryItems, Item
    <3> QED BY <2>4, <3>3
  <2>6. /\ cells[cfg.sumRow][column] = SumFormula(DataStart, cfg.sumRow - 1)
        /\ ~IsFormula(cells[line][column])
    BY <2>1, <2>2, <2>4
  <2>7. t \in DOMAIN book /\ DOMAIN book[t] = DOMAIN cells
    <3>1. t \in DOMAIN book
      BY <2>0, <2>2 DEF WorkbookInv, WritingInv
    <3> QED BY <2>0, <3>1, CellOfBook DEF Shaped
  <2> HIDE DEF t, cfg, cells, line, column
  <2>8. book[t][line][column] = amount
    <3>1. AmountInv(rows, configs, book[t], cells, t, i)
      <4>1. SheetInv(rows, configs, book[t], cells, t, written)
        BY <2>0, <2>7 DEF WorkbookInv, WritingInv, cells
      <4>2. i \in 1 .. written
        <5>1. written = Len(rows) /\ DOMAIN rows = 1 .. Len(rows)
          BY DEF WorkbookInv, CountersInv
        <5> QED BY <5>1
      <4> QED BY <4>1, <4>2 DEF SheetInv
    <3>2. column = CategoryCol(rows[i].category, ConfigIn(configs, t))
      BY <2>1 DEF column
    <3>3. line = LineIn(rows, configs, i, t)
      BY DEF line
    <3> QED BY <2>2, <2>3, <2>5, <2>6, <3>1, <3>2, <3>3 DEF AmountInv
  <2>9. book[t][cfg.sumRow][column] = SumFormula(DataStart, cfg.sumRow - 1)
    <3>1. IsFormula(SumFormula(DataStart, cfg.sumRow - 1))
      BY DEF IsFormula, SumFormula
    <3> QED BY <2>3, <2>5, <2>6, <2>7, <3>1 DEF FormulasKept, cells
  <2>10. Counts(cfg, column, i)
    <3> DEFINE v == book[t][cfg.sumRow][column]
    <3>1. v.is = "sum" /\ v.from = DataStart /\ v.to = cfg.sumRow - 1
      BY <2>9 DEF SumFormula
    <3>2. line \in v.from .. v.to
      BY <2>2, <2>3, <3>1 DEF DataStart
    <3> HIDE DEF v
    <3> QED BY <2>2, <2>3, <2>7, <2>8, <3>1, <3>2 DEF Counts, v
  <2>11. ASSUME NEW col \in 1 .. Columns, Counts(cfg, col, i) PROVE col = column
    <3>1. PICK r \in DOMAIN book[t] : book[t][r][col] = amount
      BY <2>2, <2>11 DEF Counts
    <3>2. CellInv(rows, configs, book[t][r][col], cells[r][col], t, r, col, written)
      BY <2>0, <2>7, <3>1, CellOfBook DEF cells
    <3>3. col = CategoryCol(rows[i].category, ConfigIn(configs, t))
      BY <3>1, <3>2 DEF CellInv
    <3> QED BY <2>1, <3>3 DEF column
  <2>12. {col \in 1 .. Columns : Counts(cfg, col, i)} = {column}
    BY <2>5, <2>10, <2>11
  <2>13. Cardinality({column}) = 1
    BY FS_Singleton
  <2> QED BY <2>12, <2>13 DEF cfg, t
<1> QED BY <1>1, WorkbookInductive, FormulasSurvive, PTL
=============================================================================
