--------------------------- MODULE ParserRouter ---------------------------
(***************************************************************************)
(* One call of ParserRouter.parse (app/services/parsers/router.py) with    *)
(* the parsers it falls back through: rule_based, then ocr_hybrid, then    *)
(* llm. A step ends where the code awaits a thread or an HTTP answer.      *)
(*                                                                         *)
(* A file is what the detectors and regular expressions find in it:        *)
(*   ascii    provider whose URL is in the bytes, or "none"                *)
(*   layer    it is a PDF with a text layer (is_text_embedded)             *)
(*   text     provider named by that text, "nup" for the marker and BIN of *)
(*            a Woori page, "plain", or "unreadable" when pdfplumber raises *)
(*   hyundai  the file name says Hyundai                                   *)
(*   fields   what a one-slip parser finds, see KbankOutcome               *)
(*   pages    for the Woori parser: the rows of each page                  *)
(***************************************************************************)
EXTENDS Integers, Sequences, FiniteSets, SequencesExt

CONSTANTS
  File,       \* files that may be uploaded
  MinLines,   \* lines a Woori slip needs (12 in the code, where
              \* a line here stands for one to four of a slip)
  Wirings     \* [ocr, llm, enabled]: the parsers given and LLM_ENABLED

\* What a line of a Woori slip is; "inner" has the marker among other text.
Line == {"marker", "inner", "blank", "stamp", "card", "date", "noday", "amounts", "number",
         "text"}

\* A row of a page: one line across it, or one in each of its two columns.
Row == [1 .. 1 -> Line] \cup [1 .. 2 -> Line]

ASSUME RouterAssumption ==
  /\ \A f \in File : f.pages \in Seq(Seq(Row))
  /\ Wirings \subseteq [ocr : BOOLEAN, llm : BOOLEAN, enabled : BOOLEAN]

VARIABLES
  file, wiring,
  phase,      \* tier or await it stands at, or "returned" or "failed"
  tried,      \* history: the tiers started
  outcomes,   \* history: how each of them ended
  slips,      \* transactions returned
  answer      \* history: the last answer of a model, before the first NoAnswer

routerVars == <<file, wiring, phase, tried, outcomes, slips, answer>>

Stub == {"hana", "hyundai", "lotte"}
Labelled == {"shinhan", "samsung", "kbank"}
RuleParsers == Stub \cup Labelled \cup {"woori"}
Recoverable == {"ParserNotImplemented", "RequiredFieldMissing"}

----------------------------------------------------------------------------
(* Detection.                                                              *)

Text(f) == IF f.layer THEN f.text ELSE "unreadable"

\* detect_provider: bytes, then text, then the gate for Woori pages, which do
\* not name their brand, then the file name.
Provider(f, text) ==
  IF f.ascii # "none" THEN f.ascii
  ELSE IF text = "nup" THEN "woori"
  ELSE IF text \notin {"plain", "unreadable"} THEN text
  ELSE IF f.hyundai THEN "hyundai" ELSE "unknown"

RuleApplies(f, text) == f.layer /\ Provider(f, text) \in RuleParsers

AfterRule(w) == IF w.ocr THEN "ocr" ELSE IF w.enabled /\ w.llm THEN "llm" ELSE "failed"
AfterOcr(w) == AfterRule([w EXCEPT !.ocr = FALSE])

----------------------------------------------------------------------------
(* The parsers.                                                            *)

\* Mutant: only the first marker begins a block.
SplitByMarkerOnce(lines) ==
  FoldLeft(LAMBDA blocks, line :
             IF line \in {"blank", "stamp"} THEN blocks
             ELSE IF blocks = <<>> THEN IF line = "marker" THEN <<<<>>>> ELSE <<>>
             ELSE [blocks EXCEPT ![Len(blocks)] = Append(@, line)],
           <<>>, lines)

\* split_by_marker: a block per marker line; blank lines, page time stamps and
\* lines before the first marker are dropped. Empty for ProviderNotDetected.
SplitByMarker(lines) ==
  FoldLeft(LAMBDA blocks, line :
             IF line \in {"blank", "stamp"} THEN blocks
             ELSE IF line = "marker" THEN Append(blocks, <<>>)
             ELSE IF blocks = <<>> THEN blocks
             ELSE [blocks EXCEPT ![Len(blocks)] = Append(@, line)],
           <<>>, lines)

\* woori._parse_single_block: the number of lines, the card, the date and time
\* (a day that does not exist is no ParseError), the amounts, and the
\* merchant's number somewhere below.
BlockOutcome(block) ==
  IF Len(block) < MinLines THEN "RequiredFieldMissing"
  ELSE IF block[1] # "card" THEN "FormatMismatch"
  ELSE IF block[2] = "noday" THEN "ValueError"
  ELSE IF block[2] # "date" THEN "RequiredFieldMissing"
  ELSE IF block[3] # "amounts" THEN "FormatMismatch"
  ELSE IF "number" \notin {block[i] : i \in 4 .. Len(block)} THEN "RequiredFieldMissing"
  ELSE "rows"

Inked(row) == {k \in DOMAIN row : row[k] # "blank"}
Marked(row) == {k \in DOMAIN row : row[k] \in {"marker", "inner"}}

\* _detect_column_count: the markers of the first row that has one.
ColumnCount(page) ==
  LET first == SelectInSeq(page, LAMBDA row : Marked(row) # {})
  IN IF first = 0 THEN 1 ELSE Cardinality(Marked(page[first]))

\* A row, extracted from the whole page: markers side by side still are a
\* marker line, any other two texts are a line no pattern matches.
Joined(row) ==
  IF Inked(row) = {} THEN "blank"
  ELSE IF \A k \in Inked(row) : row[k] = "marker" THEN "marker"
  ELSE IF \E k \in Inked(row) : Inked(row) = {k} THEN row[CHOOSE k \in Inked(row) : TRUE]
  ELSE "text"

\* A row, extracted from the c-th of n equal parts of the page: what is printed
\* across the page is cut.
Cropped(row, c, n) ==
  IF Len(row) = n THEN row[c] ELSE IF Inked(row) = {} THEN "blank" ELSE "text"

\* Mutant: the last column is left out.
ColumnTextsShort(page) ==
  IF ColumnCount(page) = 1 THEN <<[i \in DOMAIN page |-> Joined(page[i])]>>
  ELSE [c \in 1 .. ColumnCount(page) - 1 |->
          [i \in DOMAIN page |-> Cropped(page[i], c, ColumnCount(page))]]

\* _extract_per_column_texts, of one page.
ColumnTexts(page) ==
  IF ColumnCount(page) = 1 THEN <<[i \in DOMAIN page |-> Joined(page[i])]>>
  ELSE [c \in 1 .. ColumnCount(page) |->
          [i \in DOMAIN page |-> Cropped(page[i], c, ColumnCount(page))]]

PageBlocks(page) ==
  FlattenSeq([c \in DOMAIN ColumnTexts(page) |-> SplitByMarker(ColumnTexts(page)[c])])

WooriBlocks(f) == FlattenSeq([p \in DOMAIN f.pages |-> PageBlocks(f.pages[p])])

\* The first bad block raises for the whole file; columns without marker are
\* passed over.
WooriOutcome(f) ==
  LET blocks == WooriBlocks(f)
      bad == SelectInSeq(blocks, LAMBDA b : BlockOutcome(b) # "rows")
  IN IF blocks = <<>> THEN "RequiredFieldMissing"
     ELSE IF bad = 0 THEN "rows" ELSE BlockOutcome(blocks[bad])

\* kbank: date, merchant and amount are required, in this order; a date that is
\* none is no ParseError.
KbankOutcome(x) ==
  IF x.date = "missing" THEN "RequiredFieldMissing"
  ELSE IF x.date = "impossible" THEN "ValueError"
  ELSE IF ~x.merchant \/ x.amount = "missing" THEN "RequiredFieldMissing"
  ELSE IF x.amount = "zero" THEN "FormatMismatch" ELSE "rows"

\* ParsedTransaction takes no supply amount of zero, which is no ParseError.
Validated(outcome, x) ==
  IF outcome = "rows" /\ x.supply = "zero" THEN "ValidationError" ELSE outcome

\* shinhan and samsung differ from it in labels, and read the supply amount.
ShinhanOutcome(x) == Validated(KbankOutcome(x), x)
SamsungOutcome(x) == Validated(KbankOutcome(x), x)

\* hana, hyundai and lotte are stubs.
StubOutcome == "ParserNotImplemented"

\* All others open the file with pdfplumber, and what it raises is no ParseError.
RuleOutcome(f) ==
  LET provider == Provider(f, Text(f)) IN
  IF provider \in Stub THEN StubOutcome
  ELSE IF f.text = "unreadable" THEN "PdfError"
  ELSE CASE provider = "woori" -> WooriOutcome(f)
         [] provider = "shinhan" -> ShinhanOutcome(f.fields)
         [] provider = "samsung" -> SamsungOutcome(f.fields)
         [] provider = "kbank" -> KbankOutcome(f.fields)

\* sanitize_card_masked: canonical numbers stay, partly masked ones are
\* completed, everything else becomes None.
CardText == {"null", "canonical", "partial", "placeholder", "garbage"}

\* Mutant: a number of another form is passed on.
SanitizeKeeps(card) == IF card = "partial" THEN "canonical"
                       ELSE IF card = "placeholder" THEN "null" ELSE card

Sanitize(card) == IF card \in {"canonical", "partial"} THEN "canonical" ELSE "null"

\* A model's answer: JSON or not, an object or not, its other fields valid or
\* not, the card number it reports.
Answer == [json : BOOLEAN, object : BOOLEAN, valid : BOOLEAN, card : CardText]
NoAnswer == [json |-> FALSE]

\* What is left of it after the four guards against hallucination.
AnswerOutcome(a) ==
  IF a.json /\ a.object /\ a.valid /\ Sanitize(a.card) \in {"null", "canonical"}
  THEN "rows" ELSE "FormatMismatch"

----------------------------------------------------------------------------
(* The fall-back chain.                                                    *)

RouterStart(f, w) ==
  /\ file = f /\ wiring = w
  /\ phase = "probe" /\ tried = <<>> /\ outcomes = <<>> /\ slips = 0
  /\ answer = NoAnswer

RouterInit == \E f \in File, w \in Wirings : RouterStart(f, w)

\* All tiers are used up.
FinalError(f, w) ==
  IF Provider(f, Text(f)) = "unknown" /\ ~w.ocr THEN "ProviderNotDetected" ELSE "LLMDisabled"

\* Go on to a tier, or raise.
Enter(tier) ==
  /\ phase' = tier
  /\ tried' = IF tier = "failed" THEN tried ELSE Append(tried, tier)

Finish(outcome, n) ==
  /\ outcomes' = Append(outcomes, outcome)
  /\ phase' = IF outcome = "rows" THEN "returned" ELSE "failed"
  /\ slips' = IF outcome = "rows" THEN n ELSE 0
  /\ UNCHANGED <<file, wiring, tried>>

FallThrough(outcome, next) ==
  /\ outcomes' = IF next = "failed" THEN outcomes \o <<outcome, FinalError(file, wiring)>>
                 ELSE Append(outcomes, outcome)
  /\ Enter(next)
  /\ UNCHANGED <<file, wiring, slips>>

\* Text is extracted in a thread, once, and only from a text layer.
Probe ==
  /\ phase = "probe"
  /\ LET tier == IF RuleApplies(file, Text(file)) THEN "rule" ELSE AfterRule(wiring)
     IN Enter(tier) /\ outcomes' = IF tier = "failed" THEN <<FinalError(file, wiring)>> ELSE <<>>
  /\ UNCHANGED <<file, wiring, slips, answer>>

RuleEnds ==
  /\ phase = "rule"
  /\ LET outcome == RuleOutcome(file) IN
     IF outcome \in Recoverable THEN FallThrough(outcome, AfterRule(wiring))
     ELSE Finish(outcome, IF Provider(file, Text(file)) = "woori"
                          THEN Len(WooriBlocks(file)) ELSE 1)
  /\ UNCHANGED answer

\* docling raises what is no ParseError ...
DoclingRaises ==
  /\ phase = "ocr"
  /\ Finish("ConversionError", 0)
  /\ UNCHANGED answer

\* ... and so does the HTTP client of Ollama.
OllamaRaises ==
  /\ phase \in {"ocr", "llm"}
  /\ Finish("HTTPError", 0)
  /\ UNCHANGED answer

\* Mutant: a failed OCR ends the search.
OcrAnswersHard(a) ==
  /\ phase = "ocr"
  /\ answer' = a
  /\ IF AnswerOutcome(a) = "rows" THEN Finish("rows", 1)
     ELSE FallThrough(AnswerOutcome(a), "failed")

\* An answer is one slip.
OcrAnswers(a) ==
  /\ phase = "ocr"
  /\ answer' = a
  /\ IF AnswerOutcome(a) = "rows" THEN Finish("rows", 1)
     ELSE FallThrough(AnswerOutcome(a), AfterOcr(wiring))

LlmAnswers(a) ==
  /\ phase = "llm"
  /\ answer' = a
  /\ Finish(AnswerOutcome(a), 1)

RouterNext ==
  \/ Probe \/ RuleEnds \/ DoclingRaises \/ OllamaRaises
  \/ \E a \in Answer : OcrAnswers(a) \/ LlmAnswers(a)

RouterSpec == RouterInit /\ [][RouterNext]_routerVars

----------------------------------------------------------------------------
(* Properties.                                                             *)

\* The classified errors are raised only when every tier that was wired, and
\* the rule parser if there is one, has been tried (router.py:236).
ExhaustedAfterAll ==
  outcomes # <<>> /\ Last(outcomes) \in {"LLMDisabled", "ProviderNotDetected"} =>
    /\ wiring.ocr => Contains(tried, "ocr")
    /\ wiring.enabled /\ wiring.llm => Contains(tried, "llm")
    /\ RuleApplies(file, Text(file)) => Contains(tried, "rule")

\* Whatever card number a model makes up, an answer whose other fields are
\* valid becomes a transaction (sanitize.py:26).
CardNumberNeverFails ==
  answer # NoAnswer /\ answer.json /\ answer.object /\ answer.valid => phase = "returned"

\* The marker lines of a page.
MarkerCells(page) ==
  UNION {{<<i, k>> : k \in {j \in DOMAIN page[i] : page[i][j] = "marker"}} : i \in DOMAIN page}

\* Its markers stand as the first of them do: side by side in columns of their
\* own, or each alone in its row.
Aligned(page) ==
  \A i \in DOMAIN page : (\E k \in DOMAIN page[i] : page[i][k] = "marker") =>
    IF ColumnCount(page) = 1 THEN Cardinality(Inked(page[i])) = 1
    ELSE Len(page[i]) = ColumnCount(page)

\* Of pages whose markers stand as the first of them do, each marker line gives
\* one transaction, whichever column and page it is on and whatever stands
\* across the columns: the count of the first row, the crop and the splitting
\* agree (woori.py:86). Markers that stand otherwise may be lost.
EverySlipReturned ==
  phase = "returned" /\ Last(tried) = "rule" /\ Provider(file, Text(file)) = "woori"
  /\ (\A p \in DOMAIN file.pages : Aligned(file.pages[p])) =>
    slips = Cardinality(UNION {{p} \X MarkerCells(file.pages[p]) : p \in DOMAIN file.pages})
=============================================================================
