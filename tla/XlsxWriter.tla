---------------------------- MODULE XlsxWriter ----------------------------
(***************************************************************************)
(* app/services/generators/xlsx_writer.py: the workbook a session          *)
(* generates from its template and its transactions. A step clears the     *)
(* data rows, or writes one transaction.                                   *)
(***************************************************************************)
EXTENDS TemplateAnalyzer

CONSTANTS
  Workbook,   \* the templates that can be registered
  Expense,    \* [sheet, category] a transaction can have been given
  MaxRows     \* bound: transactions of a session

\* A sheet of a template: every row of it and MaxRows rows more exist as cells,
\* none of which the writer has written yet, and merged ranges lie in its rows.
IsSheet(ws) ==
  /\ ws.maxRow \in Nat
  /\ {ws.row7, ws.row8} \subseteq [1 .. Columns -> DOMAIN SlotKeywords]
  /\ DOMAIN ws.cells = DataStart .. ws.maxRow + MaxRows
  /\ \A r \in DOMAIN ws.cells :
       /\ ws.cells[r] = [col \in 1 .. Columns |-> ws.cells[r][col]]
       /\ \A col \in 1 .. Columns :
            /\ ws.cells[r][col].is \in {"blank", "old", "label", "formula", "sum", "merged"}
            /\ ws.cells[r][col] = Merged <=> \E m \in ws.merges :
                 /\ r \in m.top .. m.bottom /\ col \in m.left .. m.right
                 /\ <<r, col>> # <<m.top, m.left>>
  /\ ws.merges \subseteq [top : Nat, bottom : Nat, left : 1 .. Columns, right : 1 .. Columns]
  /\ \A m \in ws.merges : m.bottom <= ws.maxRow /\ m.top \in DataStart .. m.bottom

\* Titles of sheets are unique in a workbook.
WriterAssumption ==
  /\ MaxRows \in Nat \ {0} /\ Columns \in Nat
  /\ \A wb \in Workbook :
       /\ wb = [sheets |-> wb.sheets, names |-> wb.names]
       /\ wb.sheets \in Seq(ToSet(wb.sheets))
       /\ \A n, m \in DOMAIN wb.sheets :
            IsSheet(wb.sheets[n]) /\ (wb.sheets[n].title = wb.sheets[m].title => n = m)
ASSUME WriterAssumption

VARIABLES
  template,   \* the template's content
  rows,       \* the transactions with their expense input
  configs,    \* template_sheets
  book,       \* cells of each sheet of the workbook in memory
  nextRow,    \* sheet_row_idx, by sheet
  written,    \* transactions handled
  stage       \* "loaded", "cleared", "saved", or "failed"

writerVars == <<template, rows, configs, book, nextRow, written, stage>>

Titles(wb) == {wb.sheets[n].title : n \in DOMAIN wb.sheets}
SheetOf(wb, title) == wb.sheets[CHOOSE n \in DOMAIN wb.sheets : wb.sheets[n].title = title]
ConfigFor(title) == configs[CHOOSE n \in DOMAIN configs : configs[n].title = title]
Configured == {configs[n].title : n \in DOMAIN configs}

\* The workbook as it is loaded, and where each sheet's first line goes.
Loaded(wb) == [t \in Titles(wb) |-> SheetOf(wb, t).cells]
FirstRows(wb) == [t \in {c.title : c \in ToSet(Analyze(wb))} |-> DataStart]

----------------------------------------------------------------------------
\* Mutant: the whole data area is cleared, formulas included.
ClearDataRowsAll(cells, cfg) ==
  [r \in DOMAIN cells |->
     [col \in 1 .. Columns |->
        IF r <= EffectiveEnd(cfg) THEN Blank ELSE cells[r][col]]]

ClearDataRows(cells, cfg) ==
  [r \in DOMAIN cells |->
     [col \in 1 .. Columns |->
        IF r <= EffectiveEnd(cfg) /\ ~IsFormula(cells[r][col]) THEN Blank
        ELSE cells[r][col]]]

\* openpyxl raises when the value of such a cell is set, None included.
ClearRaises(cells, cfg) ==
  \E r \in DOMAIN cells, col \in 1 .. Columns :
    r <= EffectiveEnd(cfg) /\ cells[r][col] = Merged

SafeWrite(cells, col, row, value) ==
  IF col = 0 \/ IsFormula(cells[row][col]) THEN cells
  ELSE [cells EXCEPT ![row][col] = value]

\* Mutant: an unknown category is not written.
CategoryColStrict(category, cfg) == Get(cfg.categories, category, 0)

\* Unknown categories go to "other", else to the first category there is.
CategoryCol(category, cfg) ==
  Get(cfg.categories, category,
      Get(cfg.categories, "other",
          IF cfg.categories = <<>> THEN 0 ELSE cfg.categories[1].col))

\* write_receipt: date, merchant and amount of transaction i on one row.
WriteReceipt(cells, cfg, row, i) ==
  SafeWrite(
    SafeWrite(
      SafeWrite(cells, Get(cfg.slots, "DATE", 0), row, [is |-> "date", of |-> i]),
      Get(cfg.slots, "MERCHANT", 0), row, [is |-> "merchant", of |-> i]),
    CategoryCol(rows[i].category, cfg), row, [is |-> "amount", of |-> i])

WriteRaises(cells, cfg, row, i) ==
  \E col \in {Get(cfg.slots, "DATE", 0), Get(cfg.slots, "MERCHANT", 0),
              CategoryCol(rows[i].category, cfg)} \ {0} : cells[row][col] = Merged

\* kind_to_sheet: the last sheet of a kind, else the sheet with that title, of
\* which an earlier sheet of the kind takes precedence.
AddSheet(dict, cfg) ==
  LET byKind == IF cfg.kind = "none" THEN dict ELSE Put(dict, cfg.kind, cfg.title)
  IN IF Has(byKind, cfg.title) THEN byKind ELSE Put(byKind, cfg.title, cfg.title)

KindToSheet(sheets) == FoldLeft(AddSheet, <<>>, sheets)

Clear ==
  /\ stage = "loaded"
  /\ \A t \in Configured : ~ClearRaises(book[t], ConfigFor(t))
  /\ book' = [t \in DOMAIN book |->
                IF t \in Configured THEN ClearDataRows(book[t], ConfigFor(t)) ELSE book[t]]
  /\ stage' = "cleared"
  /\ UNCHANGED <<template, rows, configs, nextRow, written>>

\* A template with cells merged in its data rows: no workbook comes of it.
ClearFails ==
  /\ stage = "loaded"
  /\ \E t \in Configured : ClearRaises(book[t], ConfigFor(t))
  /\ stage' = "failed"
  /\ UNCHANGED <<template, rows, configs, book, nextRow, written>>

\* A transaction of a sheet that is not in the workbook is skipped.
SkipRow ==
  /\ stage = "cleared" /\ written < Len(rows)
  /\ ~Has(KindToSheet(configs), rows[written + 1].sheet)
  /\ written' = written + 1
  /\ UNCHANGED <<template, rows, configs, book, nextRow, stage>>

\* Mutant: the row counter of the sheet is not advanced.
WriteRowInPlace ==
  /\ stage = "cleared" /\ written < Len(rows)
  /\ Has(KindToSheet(configs), rows[written + 1].sheet)
  /\ LET t == Get(KindToSheet(configs), rows[written + 1].sheet, "")
     IN /\ ~WriteRaises(book[t], ConfigFor(t), nextRow[t], written + 1)
        /\ book' = [book EXCEPT ![t] =
                      WriteReceipt(@, ConfigFor(t), nextRow[t], written + 1)]
  /\ written' = written + 1
  /\ UNCHANGED <<template, rows, configs, nextRow, stage>>

WriteRow ==
  /\ stage = "cleared" /\ written < Len(rows)
  /\ Has(KindToSheet(configs), rows[written + 1].sheet)
  /\ LET t == Get(KindToSheet(configs), rows[written + 1].sheet, "")
     IN /\ ~WriteRaises(book[t], ConfigFor(t), nextRow[t], written + 1)
        /\ book' = [book EXCEPT ![t] =
                      WriteReceipt(@, ConfigFor(t), nextRow[t], written + 1)]
        /\ nextRow' = [nextRow EXCEPT ![t] = @ + 1]
  /\ written' = written + 1
  /\ UNCHANGED <<template, rows, configs, stage>>

\* A line that does not fit meets the merged cells of the sum row.
WriteFails ==
  /\ stage = "cleared" /\ written < Len(rows)
  /\ Has(KindToSheet(configs), rows[written + 1].sheet)
  /\ LET t == Get(KindToSheet(configs), rows[written + 1].sheet, "")
     IN WriteRaises(book[t], ConfigFor(t), nextRow[t], written + 1)
  /\ stage' = "failed"
  /\ UNCHANGED <<template, rows, configs, book, nextRow, written>>

Save ==
  /\ stage = "cleared" /\ written = Len(rows)
  /\ stage' = "saved"
  /\ UNCHANGED <<template, rows, configs, book, nextRow, written>>

WriterNext == Clear \/ ClearFails \/ SkipRow \/ WriteRow \/ WriteFails \/ Save

----------------------------------------------------------------------------
(* R13, not called by write_workbook yet: one row more above the sum row.   *)

\* insert_row_at: rows from target on move down by one with their merges. What
\* the row formulas among them refer to is not adjusted by the code, nor
\* modelled.
InsertRowAt(cells, merges, target) ==
  [cells |-> [r \in DOMAIN cells |->
                IF r < target THEN cells[r]
                ELSE IF r = target THEN [col \in 1 .. Columns |-> Blank]
                ELSE cells[r - 1]],
   merges |-> {IF m.top >= target THEN [m EXCEPT !.top = @ + 1, !.bottom = @ + 1]
               ELSE m : m \in merges}]

\* Mutant: the new end row is left out of the sums.
RegenerateSumsShort(cells, sumRow, newEnd) ==
  [cells EXCEPT ![sumRow] = [col \in 1 .. Columns |->
     LET v == cells[sumRow][col]
     IN IF v.is = "sum" /\ v.from # v.to THEN SumFormula(v.from, newEnd - 1) ELSE v]]

\* regenerate_sum_formulas: sums over one row are taken for row totals.
RegenerateSums(cells, sumRow, newEnd) ==
  [cells EXCEPT ![sumRow] = [col \in 1 .. Columns |->
     LET v == cells[sumRow][col]
     IN IF v.is = "sum" /\ v.from # v.to THEN SumFormula(v.from, newEnd) ELSE v]]

\* What is in a merged range, by row.
Content(cells, m) == [k \in 0 .. m.bottom - m.top |-> cells[m.top + k]]

----------------------------------------------------------------------------
(* Properties.                                                             *)

\* Formula cells of the template are never changed (v1 bug 2,
\* xlsx_writer.py:4, and "SUM cells always stay formulas").
FormulasKept ==
  \A t \in DOMAIN book : \A r \in DOMAIN book[t] : \A col \in 1 .. Columns :
    IsFormula(SheetOf(template, t).cells[r][col]) =>
      book[t][r][col] = SheetOf(template, t).cells[r][col]

\* The sheet transaction i goes to, and the line it is given there.
Routed(i) == Has(KindToSheet(configs), rows[i].sheet)
SheetFor(i) == Get(KindToSheet(configs), rows[i].sheet, "")
LineOf(i) == DataStart + Cardinality({j \in 1 .. i - 1 : Routed(j) /\ SheetFor(j) = SheetFor(i)})
Fits(i) == LineOf(i) <= EffectiveEnd(ConfigFor(SheetFor(i)))

\* A cell holds something of transaction i.
Holds(value, i) == value.is \in {"date", "merchant", "amount"} /\ value.of = i

\* When the workbook is saved, each routed transaction that fits has a data
\* row of its own: its cells are on its line only, nothing else is on that
\* line, and no dummy data of the template is left (v1 bug 1).
OneLineEach ==
  stage = "saved" => \A i \in DOMAIN rows : Routed(i) /\ Fits(i) =>
    \A t \in DOMAIN book : \A r \in DOMAIN book[t] : \A col \in 1 .. Columns :
      IF t = SheetFor(i) /\ r = LineOf(i)
      THEN Holds(book[t][r][col], i) \/ book[t][r][col] = Blank \/ IsFormula(book[t][r][col])
      ELSE ~Holds(book[t][r][col], i)

\* The sum cell at (sumRow, col) counts the amount of transaction i.
Counts(cfg, col, i) ==
  LET v == book[cfg.title][cfg.sumRow][col]
  IN /\ v.is = "sum"
     /\ \E r \in DOMAIN book[cfg.title] :
          r \in v.from .. v.to /\ book[cfg.title][r][col] = [is |-> "amount", of |-> i]

\* On a sheet with categories whose sums cover its data rows, the totals count
\* the amount of every routed transaction that fits, exactly once, whatever
\* its category, unless the template has formulas in the cells of its line.
TotalsCountEachOnce ==
  stage = "saved" => \A i \in DOMAIN rows : Routed(i) /\ Fits(i) =>
    LET cfg == ConfigFor(SheetFor(i))
        cells == SheetOf(template, cfg.title).cells
    IN /\ Mode(cfg) # "field"
       /\ cfg.sumRow # 0
       /\ \A c \in DOMAIN cfg.categories : LET col == cfg.categories[c].col IN
            /\ cells[cfg.sumRow][col] = SumFormula(DataStart, cfg.sumRow - 1)
            /\ ~IsFormula(cells[LineOf(i)][col])
       => Cardinality({col \in 1 .. Columns : Counts(cfg, col, i)}) = 1

\* Data rows end above the sum row, so that neither clearing nor a fitting
\* transaction touches the label or the totals; after a failure the workbook is
\* given up.
SumRowKept ==
  stage # "failed" => \A t \in Configured : LET cfg == ConfigFor(t) IN
    cfg.sumRow # 0 /\ (\A i \in DOMAIN rows : Routed(i) => Fits(i)) =>
      book[t][cfg.sumRow] = SheetOf(template, t).cells[cfg.sumRow]

\* Growing a sheet of two or more data rows by one row keeps each merged range
\* that is not cut around the same cells, and the totals over all data rows.
GrowthKeepsTotals ==
  stage = "loaded" => \A n \in DOMAIN configs :
    LET cfg == configs[n]
        ws == SheetOf(template, cfg.title)
    IN cfg.sumRow > DataStart + 2 => \A target \in DataStart .. cfg.sumRow :
         LET grown == InsertRowAt(ws.cells, ws.merges, target)
             cells == RegenerateSums(grown.cells, cfg.sumRow + 1, cfg.sumRow)
         IN /\ \A col \in 1 .. Columns :
                 ws.cells[cfg.sumRow][col] = SumFormula(DataStart, cfg.sumRow - 1) =>
                   cells[cfg.sumRow + 1][col] = SumFormula(DataStart, cfg.sumRow)
            /\ \A m \in ws.merges : m.bottom < target \/ m.top >= target =>
                 \E g \in grown.merges : Content(grown.cells, g) = Content(ws.cells, m)
=============================================================================
