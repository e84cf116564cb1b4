\* Up to two receipts and two card transactions, up to two rows, on nine
\* templates.
SPECIFICATION Spec
CONSTANTS
  Transaction <- MCTransaction
  NoTime = NoTime
  MaxReceipts = 2
  MaxCards = 2
  Columns = 4
  Workbook <- MCWorkbook
  Expense <- MCExpense
  MaxRows = 2
INVARIANTS
  OneToOne
  GreedyChoice
  EveryExpenseOnce
  FormulasKept
  OneLineEach
  TotalsCountEachOnce
  SumRowKept
  GrowthKeepsTotals
  LinesInDateOrder
CHECK_DEADLOCK FALSE
