-------------------------- MODULE TemplateAnalyzer --------------------------
(***************************************************************************)
(* How a registered workbook is read: analyze_workbook of                  *)
(* app/services/templates/analyzer.py, the SheetConfig it returns          *)
(* (app/domain/template_map.py).                                           *)
(*                                                                         *)
(* A sheet is a record: its title, the kind its title's suffix tells, the  *)
(* two tests on title and cell A2, the header texts of rows 7 and 8 by     *)
(* column, and the cells below them. Texts are the keywords they hold.     *)
(***************************************************************************)
EXTENDS Integers, Sequences, FiniteSets, SequencesExt

CONSTANT Columns    \* the number of columns of a sheet

DataStart == 9
Kind == {"corp", "personal"}

\* The slots, and the categories, whose keyword a header text holds, in the
\* order the code tries them.
SlotKeywords ==
  [blank |-> <<>>, serial |-> <<>>, purpose |-> <<>>, date |-> <<"DATE">>,
   party |-> <<"MERCHANT", "PROJECT">>, project |-> <<"PROJECT">>,
   total |-> <<"TOTAL">>, note |-> <<"NOTE">>, meals |-> <<>>, other |-> <<>>]
CategoryKeywords ==
  [h \in DOMAIN SlotKeywords |-> IF h \in {"meals", "other"} THEN <<h>> ELSE <<>>]

\* Cell values.
Blank == [is |-> "blank"]
SumLabel == [is |-> "label"]
RowFormula == [is |-> "formula"]
Merged == [is |-> "merged"]     \* of a merged range, but not its first cell
SumFormula(from, to) == [is |-> "sum", from |-> from, to |-> to]
IsFormula(value) == value.is \in {"formula", "sum"}

\* A dict as the sequence of its items, in insertion order.
Has(dict, key) == \E n \in DOMAIN dict : dict[n].key = key
Get(dict, key, default) ==
  IF Has(dict, key) THEN dict[CHOOSE n \in DOMAIN dict : dict[n].key = key].col
                    ELSE default
Put(dict, key, col) ==
  IF Has(dict, key) THEN [n \in DOMAIN dict |-> IF dict[n].key = key
                            THEN [key |-> key, col |-> col] ELSE dict[n]]
  ELSE Append(dict, [key |-> key, col |-> col])

\* Each cell adds, at its column, the first of its keywords not taken yet.
AddFree(dict, words, col) ==
  LET free == SelectInSeq(words, LAMBDA k : ~Has(dict, k))
  IN IF free = 0 THEN dict ELSE Put(dict, words[free], col)

FirstFit(row, keywords, dict) ==
  FoldLeft(LAMBDA d, col : AddFree(d, keywords[row[col]], col),
           dict, [col \in 1 .. Columns |-> col])

FieldModeSlots(ws) == FirstFit(ws.row7, SlotKeywords, <<>>)
CategoryCols(ws) ==
  FirstFit(ws.row8, CategoryKeywords, FirstFit(ws.row7, CategoryKeywords, <<>>))
Row7KeywordCount(ws) == Cardinality({col \in 1 .. Columns : ws.row7[col] # "blank"})

\* FIELD_* names of one kind; a name maps to a column once in a workbook.
FieldSlots(names, kind) ==
  SetToSeq({[key |-> n.slot, col |-> n.col] :
              n \in {x \in names : x.kind = kind /\ x.slot # "DATA_START"}})

\* dict.setdefault for every item.
SetDefaults(dict, items) ==
  FoldLeft(LAMBDA d, item : IF Has(d, item.key) THEN d ELSE Append(d, item), dict, items)

\* Where both define a slot the named range counts.
SlotsOf(wb, ws) ==
  SetDefaults(IF ws.kind \in Kind THEN FieldSlots(wb.names, ws.kind) ELSE <<>>,
              FieldModeSlots(ws))

\* First row whose column A says "sum", 0 for None.
SumRow(ws) ==
  LET rows == {r \in DataStart .. ws.maxRow : ws.cells[r][1] = SumLabel}
  IN IF rows = {} THEN 0 ELSE CHOOSE r \in rows : \A s \in rows : r <= s

DataEnd(ws) == IF SumRow(ws) # 0 THEN SumRow(ws) - 1 ELSE ws.maxRow

FormulaCols(ws) ==
  {col \in 1 .. Columns :
     \E r \in DataStart .. (IF SumRow(ws) # 0 THEN SumRow(ws) ELSE DataEnd(ws)) :
       IsFormula(ws.cells[r][col])}

\* SheetConfig of an analysed sheet; 0 for a missing column or row.
AnalyzedConfig(wb, ws) ==
  [title |-> ws.title, kind |-> ws.kind, slots |-> SlotsOf(wb, ws),
   categories |-> CategoryCols(ws), formulaCols |-> FormulaCols(ws),
   end |-> DataEnd(ws), sumRow |-> SumRow(ws), analyzable |-> TRUE]

Placeholder(ws) ==
  [title |-> ws.title, kind |-> "none", slots |-> <<>>, categories |-> <<>>,
   formulaCols |-> {}, end |-> DataStart, sumRow |-> 0, analyzable |-> FALSE]

\* A sheet with headers but neither slot nor category yields no configuration.
ConfigOf(wb, ws) ==
  IF ws.stop \/ ~ws.marker THEN <<>>
  ELSE IF Row7KeywordCount(ws) >= 2
          \/ (ws.kind \in Kind /\ FieldSlots(wb.names, ws.kind) # <<>>)
       THEN IF SlotsOf(wb, ws) = <<>> /\ CategoryCols(ws) = <<>> THEN <<>>
            ELSE <<AnalyzedConfig(wb, ws)>>
       ELSE <<Placeholder(ws)>>

\* analyze_workbook; empty stands for TemplateAnalysisError.
Analyze(wb) == FlattenSeq([n \in DOMAIN wb.sheets |-> ConfigOf(wb, wb.sheets[n])])

\* Mutant: the sum row counts as a data row.
EffectiveEndInclusive(cfg) ==
  IF cfg.sumRow = 0 THEN cfg.end ELSE cfg.sumRow

\* effective_data_end_row and mode of a SheetConfig.
EffectiveEnd(cfg) ==
  IF cfg.sumRow = 0 \/ cfg.end < cfg.sumRow - 1 THEN cfg.end ELSE cfg.sumRow - 1
Mode(cfg) ==
  IF cfg.categories = <<>> THEN "field"
  ELSE IF cfg.slots = <<>> THEN "category" ELSE "hybrid"
=============================================================================
