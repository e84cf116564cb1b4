------------------------- MODULE MCExpenseWorkbook -------------------------
EXTENDS ExpenseWorkbook, TLC

\* Two days; on the first, purchases at the two ends of the tolerance, beyond
\* it, and one without a time.
MCTransaction ==
  {[date |-> 1, amount |-> 1, time |-> 0], [date |-> 1, amount |-> 1, time |-> 300],
   [date |-> 1, amount |-> 1, time |-> NoTime], [date |-> 2, amount |-> 1, time |-> 301]}

Old == [is |-> "old"]
Line(a, b, c, d) == <<a, b, c, d>>

\* n data rows with dummy content under four headers, then the totals.
Cells(n, data, last) ==
  [r \in DataStart .. DataStart + n + MaxRows |->
     IF r < DataStart + n THEN data ELSE IF r = DataStart + n THEN last
     ELSE Line(Blank, Blank, Blank, Blank)]

Sum(n) == SumFormula(DataStart, DataStart + n - 1)
Sheet(title, kind, row7, n, data, last) ==
  [title |-> title, kind |-> kind, stop |-> FALSE, marker |-> TRUE, row7 |-> row7,
   row8 |-> Line("blank", "blank", "blank", "blank"), maxRow |-> DataStart + n,
   cells |-> Cells(n, data, last),
   merges |-> IF last[2] = Merged
              THEN {[top |-> DataStart + n, bottom |-> DataStart + n, left |-> 1, right |-> 2]}
              ELSE {}]

Headers == Line("date", "party", "meals", "other")
Dummy == Line(Old, Old, Old, Old)
Totals(n) == Line(SumLabel, Merged, Sum(n), Sum(n))

Hybrid(title, kind, n) == Sheet(title, kind, Headers, n, Dummy, Totals(n))
Categories == [Sheet("e_personal", "personal", Line("blank", "blank", "blank", "blank"), 2,
                     Line(Old, Old, Old, RowFormula), Totals(2))
                 EXCEPT !.row8 = Line("blank", "blank", "meals", "other")]
NoOther == Sheet("a_corp", "corp", Line("date", "party", "meals", "project"), 2, Dummy,
                 Line(SumLabel, Blank, Sum(2), Blank))
RowTotals == Sheet("b_personal", "personal", Line("date", "meals", "total", "other"), 2,
                   Line(Old, Old, RowFormula, Old), Line(SumLabel, Sum(2), Sum(2), Sum(2)))
Field == Sheet("report", "none", Line("date", "party", "total", "note"), 2, Dummy,
               Line(SumLabel, Blank, Sum(2), Blank))
Open == Sheet("d_corp", "corp", Headers, 2, Dummy, Dummy)
Titled == Hybrid("corp", "none", 1)
Unknown == Sheet("memo", "none", Line("serial", "blank", "blank", "blank"), 1, Dummy, Dummy)
Headless == Sheet("list", "none", Line("serial", "purpose", "blank", "blank"), 1, Dummy, Dummy)
Vehicle == [Hybrid("vehicle", "none", 1) EXCEPT !.stop = TRUE]
\* Column A merged over the second and the third data row.
MergedRows ==
  LET plain == Hybrid("a_corp", "corp", 3)
  IN [plain EXCEPT !.cells[DataStart + 2][1] = Merged,
        !.merges = @ \cup {[top |-> DataStart + 1, bottom |-> DataStart + 2,
                            left |-> 1, right |-> 1]}]
Named == [slot : {"DATE"}, kind : {"personal"}, col : {2}]

Book(sheets, names) == [sheets |-> sheets, names |-> names]
MCWorkbook ==
  {Book(<<Hybrid("a_corp", "corp", 3), RowTotals>>, {}),
   Book(<<NoOther, Hybrid("b_personal", "personal", 1), Hybrid("c_personal", "personal", 2)>>, {}),
   Book(<<Titled, Open>>, {}), Book(<<Open, Titled, Vehicle>>, {}),
   Book(<<Unknown, Field, Headless>>, {}), Book(<<Vehicle>>, {}), Book(<<MergedRows>>, {}),
   Book(<<Headless>>, {}),
   Book(<<Categories, Hybrid("a_corp", "corp", 0)>>, Named)}

MCExpense == [sheet : {"corp", "personal"}, category : {"meals", "hotel"}]
=============================================================================
