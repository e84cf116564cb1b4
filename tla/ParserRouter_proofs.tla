------------------------ MODULE ParserRouter_proofs ------------------------
(***************************************************************************)
(* Proofs about ParserRouter, for all files, whatever is found in them,    *)
(* all wirings, and any answers of the models.                             *)
(***************************************************************************)
EXTENDS ParserRouter, ListLemmas, FunctionTheorems

\* The errors that say that every tier was tried, and those a tier can end with.
Final == {"LLMDisabled", "ProviderNotDetected"}
Failure == {"ParserNotImplemented", "RequiredFieldMissing", "FormatMismatch",
            "ValueError", "ValidationError", "PdfError"}
Ending == {"rows", "ConversionError", "HTTPError"} \cup Failure
Tier == {"rule", "ocr", "llm"}

\* A rule parser returns rows or fails by itself: it never says that the
\* tiers are exhausted.
LEMMA RuleOutcomes ==
  ASSUME NEW f, RuleApplies(f, Text(f))
  PROVE  RuleOutcome(f) \in {"rows"} \cup Failure
<1>1. \A block : BlockOutcome(block) \in {"rows"} \cup Failure
  BY DEF BlockOutcome, Failure
<1>2. WooriOutcome(f) \in {"rows"} \cup Failure
  BY <1>1 DEF WooriOutcome, Failure
<1>3. /\ KbankOutcome(f.fields) \in {"rows"} \cup Failure
      /\ ShinhanOutcome(f.fields) \in {"rows"} \cup Failure
      /\ SamsungOutcome(f.fields) \in {"rows"} \cup Failure
  BY DEF KbankOutcome, ShinhanOutcome, SamsungOutcome, Validated, Failure
<1>4. Provider(f, Text(f)) \in Stub \cup Labelled \cup {"woori"}
  BY DEF RuleApplies, RuleParsers
<1> QED BY <1>2, <1>3, <1>4
        DEF RuleOutcome, Stub, Labelled, StubOutcome, Failure

\* Starting a tier adds it to those tried, and forgets none.
LEMMA Tries ==
  ASSUME NEW s \in Seq(Tier), NEW t \in Tier
  PROVE  /\ Append(s, t) \in Seq(Tier)
         /\ \A x : Contains(Append(s, t), x) <=> Contains(s, x) \/ x = t
<1>1. /\ Append(s, t) \in Seq(Tier) /\ Len(s) \in Nat /\ Len(Append(s, t)) = Len(s) + 1
      /\ \A i \in 1 .. Len(s) : Append(s, t)[i] = s[i]
      /\ Append(s, t)[Len(s) + 1] = t
  OBVIOUS
<1>2. ASSUME NEW x PROVE Contains(Append(s, t), x) <=> Contains(s, x) \/ x = t
  <2>1. Contains(Append(s, t), x) <=> \E i \in 1 .. Len(s) + 1 : Append(s, t)[i] = x
    BY <1>1 DEF Contains
  <2>2. (\E i \in 1 .. Len(s) + 1 : Append(s, t)[i] = x)
        <=> (\E i \in 1 .. Len(s) : Append(s, t)[i] = x) \/ Append(s, t)[Len(s) + 1] = x
    BY <1>1
  <2>3. Contains(s, x) <=> \E i \in 1 .. Len(s) : Append(s, t)[i] = x
    BY <1>1 DEF Contains
  <2> QED BY <1>1, <2>1, <2>2, <2>3
<1> QED BY <1>1, <1>2

----------------------------------------------------------------------------
(* The fall-back chain.                                                    *)

\* Every tier that comes before the present one and applies has been tried.
TierInv ==
  /\ wiring \in Wirings
  /\ tried \in Seq(Tier)
  /\ outcomes \in Seq(Ending \cup Final)
  /\ phase = "rule" => RuleApplies(file, Text(file))
  /\ phase = "ocr" => wiring.ocr
  /\ phase # "probe" /\ RuleApplies(file, Text(file)) => Contains(tried, "rule")
  /\ phase = "ocr" \/ (phase = "llm" /\ wiring.ocr) => Contains(tried, "ocr")

IInv == TierInv /\ ExhaustedAfterAll

\* A tier that ends the search does not say that the tiers are exhausted.
LEMMA FinishKeeps ==
  ASSUME IInv, phase # "probe", NEW outcome \in Ending, NEW n, Finish(outcome, n)
  PROVE  IInv'
<1>1. /\ UNCHANGED <<file, wiring, tried>> /\ phase' \in {"returned", "failed"}
      /\ outcomes' = Append(outcomes, outcome)
  BY DEF Finish
<1>2. outcomes' \in Seq(Ending \cup Final) /\ Last(outcomes') = outcome
  BY <1>1 DEF IInv, TierInv, Last
<1> QED BY <1>1, <1>2 DEF IInv, TierInv, ExhaustedAfterAll, Ending, Failure, Final

\* Falling through to the next tier, or past the last one.
LEMMA FallThroughKeeps ==
  ASSUME IInv, NEW outcome \in Ending,
         NEW next \in {"ocr", "llm", "failed"}, FallThrough(outcome, next),
         phase \in {"rule", "ocr"},
         next = "ocr" => wiring.ocr,
         phase = "rule" => (next # "ocr" => ~wiring.ocr),
         next = "failed" => ~(wiring.enabled /\ wiring.llm)
  PROVE  IInv'
<1>1. /\ UNCHANGED <<file, wiring>> /\ phase' = next
      /\ RuleApplies(file, Text(file)) => Contains(tried, "rule")
      /\ phase = "ocr" => Contains(tried, "ocr")
  BY DEF FallThrough, Enter, IInv, TierInv
<1>2. CASE next = "failed"
  <2>1. tried' = tried /\ outcomes' = outcomes \o <<outcome, FinalError(file, wiring)>>
    BY <1>2 DEF FallThrough, Enter
  <2>2. outcomes' \in Seq(Ending \cup Final)
    BY <2>1 DEF IInv, TierInv, FinalError, Final
  <2> QED BY <1>1, <1>2, <2>1, <2>2 DEF IInv, TierInv, ExhaustedAfterAll
<1>3. CASE next # "failed"
  <2>1. tried' = Append(tried, next) /\ outcomes' = Append(outcomes, outcome)
    BY <1>3 DEF FallThrough, Enter
  <2>2. outcomes' \in Seq(Ending \cup Final) /\ Last(outcomes') = outcome
    BY <2>1 DEF IInv, TierInv, Last
  <2>3. /\ tried' \in Seq(Tier) /\ Contains(tried', next)
        /\ \A x : Contains(tried, x) => Contains(tried', x)
    BY <1>3, <2>1, Tries DEF IInv, TierInv, Tier
  <2> QED BY <1>1, <1>3, <2>2, <2>3 DEF IInv, TierInv, ExhaustedAfterAll, Ending, Failure, Final
<1> QED BY <1>2, <1>3

LEMMA ProbeKeeps == IInv /\ Probe => IInv'
<1> SUFFICES ASSUME IInv, Probe PROVE IInv'
  OBVIOUS
<1> DEFINE tier == IF RuleApplies(file, Text(file)) THEN "rule" ELSE AfterRule(wiring)
<1>1. /\ UNCHANGED <<file, wiring>> /\ phase' = tier
      /\ tried' = IF tier = "failed" THEN tried ELSE Append(tried, tier)
      /\ outcomes' = IF tier = "failed" THEN <<FinalError(file, wiring)>> ELSE <<>>
  BY DEF Probe, Enter
<1>2. outcomes' \in Seq(Ending \cup Final)
  <2>1. FinalError(file, wiring) \in Ending \cup Final
    BY DEF FinalError, Final
  <2>2. <<FinalError(file, wiring)>> \in Seq(Ending \cup Final)
    BY <2>1
  <2>3. outcomes' \in {<<FinalError(file, wiring)>>, <<>>}
    BY <1>1, Zenon
  <2>4. <<>> \in Seq(Ending \cup Final)
    OBVIOUS
  <2> QED BY <2>2, <2>3, <2>4, Zenon
<1>3. tier \in Tier \cup {"failed"}
  BY DEF AfterRule, Tier
<1>4. CASE tier = "failed"
  BY <1>1, <1>2, <1>4 DEF IInv, TierInv, ExhaustedAfterAll, AfterRule
<1>5. CASE tier # "failed"
  <2>1. tried' \in Seq(Tier) /\ Contains(tried', tier)
    BY <1>1, <1>3, <1>5, Tries DEF IInv, TierInv
  <2>2. /\ tier = "rule" => RuleApplies(file, Text(file))
        /\ tier # "rule" => ~RuleApplies(file, Text(file))
        /\ tier = "ocr" => wiring.ocr
        /\ tier = "llm" => ~wiring.ocr
    BY DEF AfterRule
  <2> HIDE DEF tier
  <2> QED BY <1>1, <1>2, <1>3, <1>5, <2>1, <2>2 DEF IInv, TierInv, ExhaustedAfterAll, Tier
<1> QED BY <1>4, <1>5

\* The classified errors are raised only after every tier that was wired, and
\* the rule parser if there is one, has been tried (router.py:236).
THEOREM ChainExhausted == RouterSpec => []ExhaustedAfterAll
<1>1. RouterInit => IInv
  BY DEF RouterInit, RouterStart, IInv, TierInv, ExhaustedAfterAll
<1>2. IInv /\ [RouterNext]_routerVars => IInv'
  <2> SUFFICES ASSUME IInv, [RouterNext]_routerVars PROVE IInv'
    OBVIOUS
  <2>1. CASE Probe
    BY <2>1, ProbeKeeps
  <2>2. CASE RuleEnds
    <3>1. phase = "rule" /\ RuleApplies(file, Text(file))
      BY <2>2 DEF RuleEnds, IInv, TierInv
    <3>2. RuleOutcome(file) \in Ending
      BY <3>1, RuleOutcomes DEF Ending
    <3>3. CASE FallThrough(RuleOutcome(file), AfterRule(wiring))
      <4>1. /\ AfterRule(wiring) \in {"ocr", "llm", "failed"}
            /\ AfterRule(wiring) = "ocr" <=> wiring.ocr
            /\ AfterRule(wiring) = "failed" => ~(wiring.enabled /\ wiring.llm)
        BY DEF AfterRule
      <4> QED BY <3>1, <3>2, <3>3, <4>1, FallThroughKeeps
    <3>4. CASE \E n : Finish(RuleOutcome(file), n)
      BY <3>1, <3>2, <3>4, FinishKeeps
    <3> QED BY <2>2, <3>3, <3>4 DEF RuleEnds
  <2>3. CASE DoclingRaises \/ OllamaRaises
    BY <2>3, FinishKeeps DEF DoclingRaises, OllamaRaises, Ending
  <2>4. ASSUME NEW a \in Answer, OcrAnswers(a) PROVE IInv'
    <3>1. CASE Finish("rows", 1)
      BY <2>4, <3>1, FinishKeeps DEF OcrAnswers, Ending
    <3>2. CASE FallThrough(AnswerOutcome(a), AfterOcr(wiring))
      <4>1. wiring \in [ocr : BOOLEAN, llm : BOOLEAN, enabled : BOOLEAN]
        BY RouterAssumption DEF IInv, TierInv
      <4>2. /\ AfterOcr(wiring) \in {"llm", "failed"}
            /\ AfterOcr(wiring) = "failed" => ~(wiring.enabled /\ wiring.llm)
        BY <4>1 DEF AfterOcr, AfterRule
      <4>3. AnswerOutcome(a) \in Ending
        BY DEF AnswerOutcome, Ending, Failure
      <4> QED BY <2>4, <3>2, <4>2, <4>3, FallThroughKeeps DEF OcrAnswers
    <3> QED BY <2>4, <3>1, <3>2 DEF OcrAnswers
  <2>5. ASSUME NEW a \in Answer, LlmAnswers(a) PROVE IInv'
    BY <2>5, FinishKeeps DEF LlmAnswers, AnswerOutcome, Ending, Failure
  <2>6. CASE UNCHANGED routerVars
    BY <2>6 DEF routerVars, IInv, TierInv, ExhaustedAfterAll
  <2> QED BY <2>1, <2>2, <2>3, <2>4, <2>5, <2>6 DEF RouterNext
<1>3. IInv => ExhaustedAfterAll
  BY DEF IInv
<1> QED BY <1>1, <1>2, <1>3, PTL DEF RouterSpec

\* Whatever card number a model makes up, an answer whose other fields are
\* valid becomes a transaction: no call of a model ends in a failure because
\* of it, and no later step takes the transaction away (sanitize.py:26).
THEOREM CardNumbersAreHarmless == RouterSpec => []CardNumberNeverFails
<1>1. RouterInit => CardNumberNeverFails
  BY DEF RouterInit, RouterStart, CardNumberNeverFails
<1>2. CardNumberNeverFails /\ [RouterNext]_routerVars => CardNumberNeverFails'
  <2> SUFFICES ASSUME CardNumberNeverFails, [RouterNext]_routerVars
               PROVE  CardNumberNeverFails'
    OBVIOUS
  <2>1. CASE Probe \/ RuleEnds \/ DoclingRaises \/ OllamaRaises
    BY <2>1 DEF Probe, RuleEnds, DoclingRaises, OllamaRaises, CardNumberNeverFails
  <2>2. ASSUME NEW a \in Answer, OcrAnswers(a) \/ LlmAnswers(a) PROVE CardNumberNeverFails'
    <3>1. answer' = a
      BY <2>2 DEF OcrAnswers, LlmAnswers
    <3>2. a.json /\ a.object /\ a.valid => AnswerOutcome(a) = "rows"
      BY DEF AnswerOutcome, Sanitize
    <3>3. AnswerOutcome(a) = "rows" => phase' = "returned"
      BY <2>2 DEF OcrAnswers, LlmAnswers, Finish
    <3> QED BY <3>1, <3>2, <3>3 DEF CardNumberNeverFails
  <2>3. CASE UNCHANGED routerVars
    BY <2>3 DEF routerVars, CardNumberNeverFails
  <2> QED BY <2>1, <2>2, <2>3 DEF RouterNext
<1> QED BY <1>1, <1>2, PTL DEF RouterSpec

----------------------------------------------------------------------------
(* The slips of a page.                                                    *)

\* The lines of a column that begin a slip, up to line k.
Markers(lines, k) == {j \in 1 .. k : lines[j] = "marker"}

\* The turn of the loop over the lines of a column (nup_splitter.py:55-72).
Split(blocks, line) ==
  IF line \in {"blank", "stamp"} THEN blocks
  ELSE IF line = "marker" THEN Append(blocks, <<>>)
  ELSE IF blocks = <<>> THEN blocks
  ELSE [blocks EXCEPT ![Len(blocks)] = Append(@, line)]

LEMMA SplitTyped ==
  ASSUME NEW blocks \in Seq(Seq(Line)), NEW line \in Line
  PROVE  /\ Split(blocks, line) \in Seq(Seq(Line))
         /\ Len(Split(blocks, line)) = Len(blocks) + IF line = "marker" THEN 1 ELSE 0
<1> DEFINE n == Len(blocks)
           after == [blocks EXCEPT ![n] = Append(@, line)]
<1>1. n \in Nat /\ DOMAIN blocks = 1 .. n /\ \A k \in 1 .. n : blocks[k] \in Seq(Line)
  OBVIOUS
<1>2. CASE line \in {"blank", "stamp"}
  <2>1. Split(blocks, line) = blocks /\ line # "marker"
    BY <1>2 DEF Split
  <2> QED BY <1>1, <2>1
<1>3. CASE line = "marker"
  <2>1. Split(blocks, line) = Append(blocks, <<>>) /\ <<>> \in Seq(Line)
    BY <1>3 DEF Split
  <2>2. \A e \in Seq(Line) : /\ Append(blocks, e) \in Seq(Seq(Line))
                             /\ Len(Append(blocks, e)) = Len(blocks) + 1
    OBVIOUS
  <2> QED BY <1>3, <2>1, <2>2, Zenon
<1>4. CASE line \notin {"blank", "stamp", "marker"} /\ blocks = <<>>
  <2>1. Split(blocks, line) = blocks /\ line # "marker"
    BY <1>4 DEF Split
  <2> QED BY <1>1, <2>1
<1>5. CASE line \notin {"blank", "stamp", "marker"} /\ blocks # <<>>
  <2>1. Split(blocks, line) = after
    BY <1>5 DEF Split
  <2>2. n \in 1 .. n /\ blocks[n] \in Seq(Line)
    BY <1>1, <1>5
  <2>3. Append(blocks[n], line) \in Seq(Line)
    BY <2>2
  <2>4. after \in [1 .. n -> Seq(Line)]
    <3> HIDE DEF n
    <3> QED BY <1>1, <2>2, <2>3
  <2>5. after \in Seq(Seq(Line)) /\ Len(after) = n
    <3> HIDE DEF after, n
    <3> QED BY <1>1, <2>4
  <2> HIDE DEF after
  <2> QED BY <1>5, <2>1, <2>5
<1> QED BY <1>2, <1>3, <1>4, <1>5

\* One more line: one more marker, or none.
LEMMA MarkersCounted ==
  ASSUME NEW lines, NEW k \in Nat
  PROVE  /\ Cardinality(Markers(lines, 0)) = 0
         /\ IsFiniteSet(Markers(lines, k)) /\ Cardinality(Markers(lines, k)) \in Nat
         /\ Cardinality(Markers(lines, k + 1))
              = Cardinality(Markers(lines, k)) + IF lines[k + 1] = "marker" THEN 1 ELSE 0
<1> DEFINE M(m) == Markers(lines, m)
<1>1. M(0) = {} /\ M(k) \in SUBSET (1 .. k) /\ k + 1 \notin M(k)
  BY DEF Markers
<1>2. M(k + 1) = IF lines[k + 1] = "marker" THEN M(k) \cup {k + 1} ELSE M(k)
  <2>1. 1 .. k + 1 = (1 .. k) \cup {k + 1}
    OBVIOUS
  <2> QED BY <2>1, Zenon DEF Markers
<1>3. IsFiniteSet(1 .. k)
  BY FS_Interval
<1> HIDE DEF M
<1>4. IsFiniteSet(M(k))
  BY <1>1, <1>3, FS_Subset
<1>5. Cardinality(M(k)) \in Nat
  BY <1>4, FS_CardinalityType
<1>6. Cardinality(M(k) \cup {k + 1}) = Cardinality(M(k)) + 1
  BY <1>1, <1>4, FS_AddElement
<1>7. Cardinality(M(k + 1)) = Cardinality(M(k)) + IF lines[k + 1] = "marker" THEN 1 ELSE 0
  BY <1>2, <1>5, <1>6
<1>8. Cardinality(M(0)) = 0
  BY <1>1, FS_EmptySet
<1> QED BY <1>4, <1>5, <1>7, <1>8 DEF M

\* A column is split into as many blocks as it has marker lines.
LEMMA ColumnSplit ==
  ASSUME NEW lines \in Seq(Line)
  PROVE  /\ SplitByMarker(lines) \in Seq(Seq(Line))
         /\ Len(SplitByMarker(lines)) = Cardinality(Markers(lines, Len(lines)))
<1> DEFINE D == Seq(Seq(Line))
           n == Len(lines)
           step == [p \in D \X (1 .. n) |-> Split(p[1], lines[p[2]])]
           Solves(F) == F = [s \in SUBSET (1 .. n) |->
                               IF s = {} THEN <<>> ELSE Split(F[s \ {Max(s)}], lines[Max(s)])]
           fold == CHOOSE F : Solves(F)
<1>1. n \in Nat /\ DOMAIN lines = 1 .. n /\ \A k \in 1 .. n : lines[k] \in Line
  OBVIOUS
<1>2. ASSUME NEW d \in D, NEW k \in 1 .. n PROVE Split(d, lines[k]) \in D
  <2>1. lines[k] \in Line
    BY <1>1
  <2> QED BY <2>1, SplitTyped
<1>3. step \in [D \X (1 .. n) -> D]
  <2> HIDE DEF D, n
  <2> QED BY <1>2
<1>4. <<>> \in D
  OBVIOUS
<1>5. PICK F \in [SUBSET (1 .. n) -> D] : \A s \in SUBSET (1 .. n) : FoldsAt(F, <<>>, step, s)
  <2> HIDE DEF D, step, n
  <2> QED BY <1>1, <1>3, <1>4, FoldExists
<1>6. \A s \in SUBSET (1 .. n) : s # {} => Max(s) \in 1 .. n /\ s \ {Max(s)} \in SUBSET (1 .. n)
  <2> HIDE DEF n
  <2> QED BY <1>1, GreatestNumber
<1>7. ASSUME NEW s \in SUBSET (1 .. n)
      PROVE  F[s] = IF s = {} THEN <<>> ELSE Split(F[s \ {Max(s)}], lines[Max(s)])
  <2>1. F[s] = IF s = {} THEN <<>> ELSE step[<<F[s \ {Max(s)}], Max(s)>>]
    BY <1>5 DEF FoldsAt
  <2>2. s # {} => F[s \ {Max(s)}] \in D /\ Max(s) \in 1 .. n
    <3> HIDE DEF D, n
    <3> QED BY <1>6
  <2>3. \A d \in D, k \in 1 .. n : step[<<d, k>>] = Split(d, lines[k])
    <3> HIDE DEF D, n
    <3> QED OBVIOUS
  <2> HIDE DEF D, n, step
  <2> QED BY <2>1, <2>2, <2>3
<1>8. Solves(F)
  <2> HIDE DEF D, n
  <2> QED BY <1>7
<1>9. Solves(fold)
  <2> HIDE DEF Solves
  <2> QED BY <1>8
<1>10. SplitByMarker(lines) = fold[1 .. n]
  BY <1>1 DEF SplitByMarker, FoldLeft, MapThenFoldSet, Split
<1>11. \A s \in SUBSET (1 .. n) :
         fold[s] = IF s = {} THEN <<>> ELSE Split(fold[s \ {Max(s)}], lines[Max(s)])
  <2> HIDE DEF fold, n
  <2> QED BY <1>9
<1> DEFINE blocks(k) == fold[1 .. k]
           T == {k \in 0 .. n : /\ blocks(k) \in D
                                /\ Len(blocks(k)) = Cardinality(Markers(lines, k))}
<1> HIDE DEF fold, D, n
<1>12. 0 \in T
  <2>1. 1 .. 0 = {} /\ 1 .. 0 \in SUBSET (1 .. n) /\ 0 \in 0 .. n
    BY <1>1
  <2>2. blocks(0) = <<>>
    BY <2>1, <1>11
  <2>3. Cardinality(Markers(lines, 0)) = 0 /\ Len(<<>>) = 0
    <3>1. 0 \in Nat
      OBVIOUS
    <3> QED BY <3>1, MarkersCounted
  <2> HIDE DEF blocks
  <2> QED BY <2>1, <2>2, <2>3, <1>4
<1>13. ASSUME NEW k \in 1 .. n, k - 1 \in T PROVE k \in T
  <2>1. Max(1 .. k) = k /\ (1 .. k) \ {k} = 1 .. k - 1
    BY LastOfPrefix
  <2>2. 1 .. k \in SUBSET (1 .. n) /\ 1 .. k # {} /\ k \in 0 .. n
    <3>1. n \in Nat /\ k \in 1 .. n
      BY <1>1
    <3>2. 1 .. k \subseteq 1 .. n
      BY <3>1
    <3>3. k \in 1 .. k /\ k \in 0 .. n
      BY <3>1
    <3> QED BY <3>2, <3>3
  <2>3. fold[1 .. k] = Split(fold[(1 .. k) \ {Max(1 .. k)}], lines[Max(1 .. k)])
    BY <1>11, <2>2, Zenon
  <2>4. blocks(k) = Split(blocks(k - 1), lines[k])
    BY <2>1, <2>3, Zenon
  <2>5. blocks(k - 1) \in D /\ Len(blocks(k - 1)) = Cardinality(Markers(lines, k - 1))
    BY <1>13
  <2> HIDE DEF blocks
  <2>6. /\ blocks(k) \in D
        /\ Len(blocks(k)) = Len(blocks(k - 1)) + IF lines[k] = "marker" THEN 1 ELSE 0
    <3>1. lines[k] \in Line
      BY <1>1
    <3> QED BY <2>4, <2>5, <3>1, SplitTyped DEF D
  <2>7. Cardinality(Markers(lines, k))
          = Cardinality(Markers(lines, k - 1)) + IF lines[k] = "marker" THEN 1 ELSE 0
    <3>1. k - 1 \in Nat /\ (k - 1) + 1 = k
      OBVIOUS
    <3> QED BY <3>1, MarkersCounted
  <2> QED BY <2>2, <2>5, <2>6, <2>7
<1>14. n \in T
  <2>1. 0 .. n \subseteq T
    <3> HIDE DEF T
    <3> QED BY <1>1, <1>12, <1>13, InductionUpTo
  <2> QED BY <1>1, <2>1
<1> QED BY <1>10, <1>14 DEF D, n

\* The marker lines of one column.
MarkersIn(columns, c) == {<<c, i>> : i \in Markers(columns[c], Len(columns[c]))}

LEMMA ColumnMarkers ==
  ASSUME NEW columns \in Seq(Seq(Line)), NEW c \in DOMAIN columns
  PROVE  /\ IsFiniteSet(MarkersIn(columns, c))
         /\ Cardinality(MarkersIn(columns, c)) = Cardinality(Markers(columns[c], Len(columns[c])))
         /\ Cardinality(MarkersIn(columns, c)) = Len(SplitByMarker(columns[c]))
<1> DEFINE S == Markers(columns[c], Len(columns[c]))
           T == MarkersIn(columns, c)
           f == [i \in S |-> <<c, i>>]
<1>1. columns[c] \in Seq(Line) /\ Len(columns[c]) \in Nat
  <2>1. columns[c] \in Seq(Line)
    OBVIOUS
  <2> QED BY <2>1
<1>2. IsFiniteSet(S)
  BY <1>1, MarkersCounted
<1> HIDE DEF S
<1>3. T = {<<c, i>> : i \in S}
  BY DEF MarkersIn, S
<1> HIDE DEF T
<1>4. f \in Bijection(S, T)
  <2>1. f \in [S -> T]
    BY <1>3
  <2>2. \A x, y \in S : f[x] = f[y] => x = y
    OBVIOUS
  <2>3. \A y \in T : \E x \in S : f[x] = y
    BY <1>3
  <2> HIDE DEF f
  <2> QED BY <2>1, <2>2, <2>3 DEF Bijection, Injection, Surjection, IsInjective
<1>5. ExistsBijection(S, T)
  BY <1>4 DEF ExistsBijection
<1>6. IsFiniteSet(T) /\ Cardinality(T) = Cardinality(S)
  BY <1>2, <1>5, FS_Bijection
<1>7. Len(SplitByMarker(columns[c])) = Cardinality(S)
  BY <1>1, ColumnSplit DEF S
<1> QED BY <1>6, <1>7 DEF S, T

UnionUpTo(sets, n) == UNION {sets[c] : c \in 1 .. n}
Disjoint(sets, n) == \A c, d \in 1 .. n : c # d => sets[c] \cap sets[d] = {}
Measures(sets, seqs, n) ==
  \A c \in 1 .. n : IsFiniteSet(sets[c]) /\ Cardinality(sets[c]) = Len(seqs[c])

\* Sequences put one after the other are as long as sets of their lengths that
\* have nothing in common.
LEMMA FlattenCounts ==
  ASSUME NEW n \in Nat, NEW D, NEW seqs \in [1 .. n -> Seq(D)], NEW sets,
         Measures(sets, seqs, n), Disjoint(sets, n)
  PROVE  /\ FlattenSeq(seqs) \in Seq(D)
         /\ IsFiniteSet(UnionUpTo(sets, n))
         /\ Cardinality(UnionUpTo(sets, n)) = Len(FlattenSeq(seqs))
<1> DEFINE U(k) == UnionUpTo(sets, k)
<1>1. PICK f \in [0 .. n -> Seq(D)] : Concatenates(f, seqs, n) /\ FlattenSeq(seqs) = f[n]
  BY FlattenedParts
<1> DEFINE T == {k \in 0 .. n : IsFiniteSet(U(k)) /\ Cardinality(U(k)) = Len(f[k])}
<1>2. 0 \in T
  <2>1. U(0) = {}
    BY DEF UnionUpTo
  <2>2. f[0] = <<>> /\ 0 \in 0 .. n
    BY <1>1 DEF Concatenates
  <2>3. Len(f[0]) = 0
    BY <2>2
  <2> QED BY <2>1, <2>2, <2>3, FS_EmptySet
<1>3. ASSUME NEW k \in 1 .. n, k - 1 \in T PROVE k \in T
  <2>1. k \in 0 .. n /\ k - 1 \in 0 .. n /\ 1 .. k = (1 .. k - 1) \cup {k}
    OBVIOUS
  <2>2. f[k] = f[k - 1] \o seqs[k]
    BY <1>1, Zenon DEF Concatenates
  <2>3. f[k - 1] \in Seq(D) /\ seqs[k] \in Seq(D)
    BY <2>1
  <2>4. Len(f[k]) = Len(f[k - 1]) + Len(seqs[k])
    <3>1. \A s, t \in Seq(D) : Len(s \o t) = Len(s) + Len(t)
      OBVIOUS
    <3> QED BY <2>2, <2>3, <3>1, Zenon
  <2>5. U(k) = U(k - 1) \cup sets[k]
    BY <2>1, Zenon DEF UnionUpTo
  <2>6. U(k - 1) \cap sets[k] = {}
    <3>1. ASSUME NEW x \in U(k - 1), x \in sets[k] PROVE FALSE
      <4>1. PICK c \in 1 .. k - 1 : x \in sets[c]
        BY <3>1 DEF UnionUpTo
      <4>2. c \in 1 .. n /\ c # k /\ k \in 1 .. n
        OBVIOUS
      <4>3. sets[c] \cap sets[k] = {}
        BY <4>2, Zenon DEF Disjoint
      <4> QED BY <3>1, <4>1, <4>3
    <3> HIDE DEF U
    <3> QED BY <3>1
  <2>7. /\ IsFiniteSet(U(k - 1)) /\ Cardinality(U(k - 1)) = Len(f[k - 1])
        /\ IsFiniteSet(sets[k]) /\ Cardinality(sets[k]) = Len(seqs[k])
    BY <1>3 DEF Measures
  <2>8. Len(f[k - 1]) \in Nat /\ Len(seqs[k]) \in Nat
    BY <2>3
  <2> HIDE DEF U
  <2>9. /\ IsFiniteSet(U(k - 1) \cup sets[k])
        /\ Cardinality(U(k - 1) \cup sets[k])
             = Cardinality(U(k - 1)) + Cardinality(sets[k]) - Cardinality(U(k - 1) \cap sets[k])
    BY <2>7, FS_Union
  <2>10. Cardinality(U(k - 1) \cap sets[k]) = 0
    BY <2>6, FS_EmptySet
  <2>11. Cardinality(U(k)) = Len(f[k - 1]) + Len(seqs[k])
    BY <2>5, <2>7, <2>8, <2>9, <2>10
  <2> QED BY <2>1, <2>4, <2>5, <2>9, <2>11
<1>4. n \in T
  <2>1. 0 .. n \subseteq T
    <3> HIDE DEF T
    <3> QED BY <1>2, <1>3, InductionUpTo
  <2>2. n \in 0 .. n
    OBVIOUS
  <2> HIDE DEF T
  <2> QED BY <2>1, <2>2
<1>5. f[n] \in Seq(D)
  OBVIOUS
<1> QED BY <1>1, <1>4, <1>5

\* The marker lines of columns of text.
MarkerLines(columns) == UNION {MarkersIn(columns, c) : c \in 1 .. Len(columns)}

\* Columns are split into as many blocks as they have marker lines.
LEMMA ColumnsSplit ==
  ASSUME NEW columns \in Seq(Seq(Line))
  PROVE  LET blocks == FlattenSeq([c \in DOMAIN columns |-> SplitByMarker(columns[c])])
         IN /\ blocks \in Seq(Seq(Line))
            /\ IsFiniteSet(MarkerLines(columns))
            /\ Cardinality(MarkerLines(columns)) = Len(blocks)
<1> DEFINE n == Len(columns)
           D == Seq(Line)
           seqs == [c \in 1 .. n |-> SplitByMarker(columns[c])]
           sets == [c \in 1 .. n |-> MarkersIn(columns, c)]
<1>1. n \in Nat /\ DOMAIN columns = 1 .. n /\ \A c \in 1 .. n : columns[c] \in Seq(Line)
  OBVIOUS
<1>2. seqs \in [1 .. n -> Seq(D)]
  BY <1>1, ColumnSplit
<1>3. /\ \A c \in 1 .. n : seqs[c] = SplitByMarker(columns[c])
      /\ \A c \in 1 .. n : sets[c] = MarkersIn(columns, c)
  OBVIOUS
<1>4. Measures(sets, seqs, n)
  <2> HIDE DEF seqs, sets
  <2> QED BY <1>1, <1>3, ColumnMarkers DEF Measures
<1>5. Disjoint(sets, n)
  <2>1. ASSUME NEW c \in 1 .. n, NEW d \in 1 .. n, c # d PROVE sets[c] \cap sets[d] = {}
    <3>1. \A x \in MarkersIn(columns, c) : x[1] = c
      BY DEF MarkersIn
    <3>2. \A x \in MarkersIn(columns, d) : x[1] = d
      BY DEF MarkersIn
    <3> HIDE DEF sets
    <3> QED BY <1>3, <2>1, <3>1, <3>2
  <2> HIDE DEF sets
  <2> QED BY <2>1 DEF Disjoint
<1>6. UnionUpTo(sets, n) = MarkerLines(columns)
  <2> HIDE DEF sets
  <2> QED BY <1>3 DEF MarkerLines, UnionUpTo
<1>7. [c \in DOMAIN columns |-> SplitByMarker(columns[c])] = seqs
  BY <1>1
<1> HIDE DEF seqs, sets, n, D
<1>8. /\ FlattenSeq(seqs) \in Seq(D)
      /\ IsFiniteSet(UnionUpTo(sets, n))
      /\ Cardinality(UnionUpTo(sets, n)) = Len(FlattenSeq(seqs))
  BY <1>1, <1>2, <1>4, <1>5, FlattenCounts
<1> QED BY <1>6, <1>7, <1>8 DEF D

\* A row has finitely many lines.
LEMMA RowFacts ==
  ASSUME NEW row \in Row
  PROVE  /\ DOMAIN row = 1 .. Len(row) /\ Len(row) \in Nat
         /\ IsFiniteSet(DOMAIN row) /\ IsFiniteSet(Inked(row)) /\ IsFiniteSet(Marked(row))
         /\ Inked(row) \subseteq DOMAIN row
         /\ \A k \in DOMAIN row : row[k] \in Line
<1>1. DOMAIN row = 1 .. Len(row) /\ Len(row) \in Nat /\ \A k \in DOMAIN row : row[k] \in Line
  <2>1. ASSUME NEW m \in Nat, row \in [1 .. m -> Line]
        PROVE  DOMAIN row = 1 .. Len(row) /\ Len(row) \in Nat /\ \A k \in DOMAIN row : row[k] \in Line
    <3>1. row \in Seq(Line)
      BY <2>1
    <3> QED BY <3>1
  <2>2. row \in [1 .. 1 -> Line] \/ row \in [1 .. 2 -> Line]
    BY DEF Row
  <2>3. 1 \in Nat /\ 2 \in Nat
    OBVIOUS
  <2> QED BY <2>1, <2>2, <2>3
<1>2. IsFiniteSet(DOMAIN row)
  BY <1>1, FS_Interval
<1>3. Inked(row) \subseteq DOMAIN row /\ Marked(row) \subseteq DOMAIN row
  BY DEF Inked, Marked
<1> QED BY <1>1, <1>2, <1>3, FS_Subset

\* The number of columns is a number; the columns' texts are lines.
LEMMA ColumnsTyped ==
  ASSUME NEW page \in Seq(Row)
  PROVE  ColumnCount(page) \in Nat /\ ColumnTexts(page) \in Seq(Seq(Line))
<1>1. \A row \in Row : /\ DOMAIN row = 1 .. Len(row)
                       /\ IsFiniteSet(Marked(row)) /\ Inked(row) \subseteq DOMAIN row
                       /\ \A k \in DOMAIN row : row[k] \in Line
  BY RowFacts
<1>2. ColumnCount(page) \in Nat
  <2> DEFINE found == {i \in 1 .. Len(page) : Marked(page[i]) # {}}
             first == IF found # {} THEN Min(found) ELSE 0
  <2>1. first # 0 => first \in 1 .. Len(page)
    <3>1. found \subseteq Nat /\ found \subseteq 1 .. Len(page)
      OBVIOUS
    <3> HIDE DEF found
    <3>2. found # {} => \E n \in found : \A m \in found : n <= m
      BY <3>1, LeastNumber
    <3>3. found # {} => Min(found) \in found
      BY <3>2 DEF Min
    <3> QED BY <3>1, <3>3
  <2>2. first # 0 => Cardinality(Marked(page[first])) \in Nat
    <3> SUFFICES ASSUME first # 0 PROVE Cardinality(Marked(page[first])) \in Nat
      OBVIOUS
    <3> HIDE DEF first
    <3>1. page[first] \in Row
      BY <2>1
    <3>2. IsFiniteSet(Marked(page[first]))
      BY <1>1, <3>1
    <3> QED BY <3>2, FS_CardinalityType
  <2>3. ColumnCount(page) = IF first = 0 THEN 1 ELSE Cardinality(Marked(page[first]))
    BY Zenon DEF ColumnCount, SelectInSeq
  <2> HIDE DEF first
  <2> QED BY <2>2, <2>3
<1>3. \A row \in Row : Joined(row) \in Line
  <2> TAKE row \in Row
  <2>1. CASE \E k \in Inked(row) : Inked(row) = {k}
    <3>1. (CHOOSE k \in Inked(row) : TRUE) \in DOMAIN row
      BY <1>1, <2>1
    <3> QED BY <1>1, <3>1 DEF Joined, Line
  <2>2. CASE ~\E k \in Inked(row) : Inked(row) = {k}
    BY <2>2 DEF Joined, Line
  <2> QED BY <2>1, <2>2
<1>4. ASSUME NEW row \in Row, NEW n \in Nat, NEW c \in 1 .. n
      PROVE  Cropped(row, c, n) \in Line
  <2>1. Len(row) = n => c \in DOMAIN row
    BY <1>1
  <2> QED BY <1>1, <2>1 DEF Cropped, Line
<1>5. DOMAIN page = 1 .. Len(page) /\ Len(page) \in Nat /\ \A i \in DOMAIN page : page[i] \in Row
  OBVIOUS
<1>6. ASSUME NEW f, NEW m \in Nat, f \in [1 .. m -> Line] PROVE f \in Seq(Line)
  BY <1>6
<1>7. CASE ColumnCount(page) = 1
  <2>1. [i \in DOMAIN page |-> Joined(page[i])] \in [1 .. Len(page) -> Line]
    BY <1>3, <1>5
  <2>2. [i \in DOMAIN page |-> Joined(page[i])] \in Seq(Line)
    BY <1>5, <1>6, <2>1
  <2> QED BY <1>2, <1>7, <2>2 DEF ColumnTexts
<1>8. CASE ColumnCount(page) # 1
  <2> DEFINE n == ColumnCount(page)
             texts == [c \in 1 .. n |-> [i \in DOMAIN page |-> Cropped(page[i], c, n)]]
  <2>1. ColumnTexts(page) = texts
    BY <1>8 DEF ColumnTexts
  <2> HIDE DEF n
  <2>2. ASSUME NEW c \in 1 .. n
        PROVE  [i \in DOMAIN page |-> Cropped(page[i], c, n)] \in Seq(Line)
    <3>1. [i \in DOMAIN page |-> Cropped(page[i], c, n)] \in [1 .. Len(page) -> Line]
      BY <1>2, <1>4, <1>5 DEF n
    <3> QED BY <1>5, <1>6, <3>1
  <2>3. texts \in [1 .. n -> Seq(Line)] /\ n \in Nat
    BY <1>2, <2>2 DEF n
  <2> HIDE DEF texts
  <2>4. texts \in Seq(Seq(Line))
    BY <2>3
  <2> QED BY <1>2, <2>1, <2>4
<1> QED BY <1>7, <1>8

\* Of a page whose markers stand as the first of them do, a column has a marker
\* line where the page has one, and no column has another.
LEMMA MarkersMatch ==
  ASSUME NEW page \in Seq(Row), Aligned(page)
  PROVE  ExistsBijection(MarkerCells(page), MarkerLines(ColumnTexts(page)))
<1> DEFINE n == ColumnCount(page)
           S == MarkerCells(page)
           T == MarkerLines(ColumnTexts(page))
<1>1. DOMAIN page = 1 .. Len(page) /\ Len(page) \in Nat /\ \A i \in DOMAIN page : page[i] \in Row
  OBVIOUS
<1>2. \A x : x \in S <=> \E i, k : /\ i \in DOMAIN page /\ k \in DOMAIN page[i]
                                    /\ x = <<i, k>> /\ page[i][k] = "marker"
  BY DEF MarkerCells
<1>3. n \in Nat
  BY ColumnsTyped
<1>4. ASSUME NEW i \in DOMAIN page, NEW k \in DOMAIN page[i], page[i][k] = "marker"
      PROVE  IF n = 1 THEN Cardinality(Inked(page[i])) = 1 ELSE Len(page[i]) = n
  BY <1>4 DEF Aligned
<1>5. CASE n = 1
  <2> DEFINE text == [i \in DOMAIN page |-> Joined(page[i])]
             g == [x \in S |-> <<1, x[1]>>]
  <2>1. ColumnTexts(page) = <<text>>
    BY <1>5 DEF ColumnTexts
  <2>2. \A x : x \in T <=> \E i \in DOMAIN page : x = <<1, i>> /\ Joined(page[i]) = "marker"
    <3>1. Len(<<text>>) = 1 /\ <<text>>[1] = text /\ Len(text) = Len(page)
      BY <1>1
    <3>2. \A i \in DOMAIN page : text[i] = Joined(page[i])
      OBVIOUS
    <3>3. Markers(text, Len(page)) = {i \in DOMAIN page : Joined(page[i]) = "marker"}
      BY <1>1, <3>2 DEF Markers
    <3> HIDE DEF text
    <3>4. MarkersIn(<<text>>, 1) = {<<1, i>> : i \in {j \in DOMAIN page : Joined(page[j]) = "marker"}}
      BY <3>1, <3>3 DEF MarkersIn
    <3>5. T = MarkersIn(<<text>>, 1)
      <4>1. 1 .. Len(<<text>>) = {1}
        BY <3>1
      <4> QED BY <2>1, <4>1 DEF MarkerLines
    <3> QED BY <3>4, <3>5
  <2>3. ASSUME NEW i \in DOMAIN page, NEW k \in DOMAIN page[i], page[i][k] = "marker"
        PROVE  Inked(page[i]) = {k} /\ Joined(page[i]) = "marker"
    <3>1. page[i] \in Row
      BY <1>1
    <3>2. IsFiniteSet(Inked(page[i]))
      BY <3>1, RowFacts
    <3>3. Cardinality(Inked(page[i])) = 1
      BY <1>4, <1>5, <2>3
    <3>4. \E k0 : Inked(page[i]) = {k0}
      BY <3>2, <3>3, FS_Singleton
    <3>5. k \in Inked(page[i])
      BY <2>3 DEF Inked
    <3>6. Inked(page[i]) = {k}
      BY <3>4, <3>5
    <3> QED BY <2>3, <3>6 DEF Joined
  <2>4. ASSUME NEW i \in DOMAIN page, Joined(page[i]) = "marker"
        PROVE  \E k \in DOMAIN page[i] : page[i][k] = "marker"
    <3>1. CASE \E k \in Inked(page[i]) : Inked(page[i]) = {k}
      BY <2>4, <3>1 DEF Joined, Inked
    <3>2. CASE ~\E k \in Inked(page[i]) : Inked(page[i]) = {k}
      BY <2>4, <3>2 DEF Joined, Inked
    <3> QED BY <3>1, <3>2
  <2>5. g \in [S -> T]
    BY <1>2, <2>2, <2>3
  <2>6. \A x, y \in S : g[x] = g[y] => x = y
    <3> SUFFICES ASSUME NEW x \in S, NEW y \in S, g[x] = g[y] PROVE x = y
      OBVIOUS
    <3>1. x[1] = y[1]
      OBVIOUS
    <3>2. PICK i, k : /\ i \in DOMAIN page /\ k \in DOMAIN page[i]
                 /\ x = <<i, k>> /\ page[i][k] = "marker"
      BY <1>2
    <3>3. PICK j, m : /\ j \in DOMAIN page /\ m \in DOMAIN page[j]
                 /\ y = <<j, m>> /\ page[j][m] = "marker"
      BY <1>2
    <3>4. i = j
      BY <3>1, <3>2, <3>3
    <3>5. {k} = {m}
      BY <2>3, <3>2, <3>3, <3>4
    <3> QED BY <3>2, <3>3, <3>4, <3>5
  <2>7. \A y \in T : \E x \in S : g[x] = y
    <3> SUFFICES ASSUME NEW y \in T PROVE \E x \in S : g[x] = y
      OBVIOUS
    <3>1. PICK i \in DOMAIN page : y = <<1, i>> /\ Joined(page[i]) = "marker"
      BY <2>2
    <3>2. PICK k \in DOMAIN page[i] : page[i][k] = "marker"
      BY <2>4, <3>1
    <3>3. <<i, k>> \in S
      BY <1>2, <3>2
    <3> QED BY <3>1, <3>3
  <2> HIDE DEF g, S, T
  <2>8. g \in Bijection(S, T)
    BY <2>5, <2>6, <2>7 DEF Bijection, Injection, Surjection, IsInjective
  <2> QED BY <2>8 DEF ExistsBijection, S, T
<1>6. CASE n # 1
  <2> DEFINE text(c) == [i \in DOMAIN page |-> Cropped(page[i], c, n)]
             texts == [c \in 1 .. n |-> text(c)]
             g == [x \in S |-> <<x[2], x[1]>>]
  <2>1. ColumnTexts(page) = texts
    BY <1>6 DEF ColumnTexts
  <2> HIDE DEF n
  <2>2. \A x : x \in T <=> \E c \in 1 .. n, i \in DOMAIN page :
                              x = <<c, i>> /\ Cropped(page[i], c, n) = "marker"
    <3>1. Len(texts) = n
      BY <1>3
    <3>2. ASSUME NEW c \in 1 .. n
          PROVE  MarkersIn(texts, c) =
                   {<<c, i>> : i \in {j \in DOMAIN page : Cropped(page[j], c, n) = "marker"}}
      <4>1. texts[c] = text(c) /\ Len(text(c)) = Len(page)
        BY <1>1
      <4>2. \A i \in DOMAIN page : text(c)[i] = Cropped(page[i], c, n)
        OBVIOUS
      <4>3. Markers(text(c), Len(page)) = {j \in DOMAIN page : Cropped(page[j], c, n) = "marker"}
        <5> HIDE DEF text
        <5> QED BY <1>1, <4>2 DEF Markers
      <4> HIDE DEF text, texts
      <4> QED BY <4>1, <4>3 DEF MarkersIn
    <3> HIDE DEF texts
    <3>3. T = UNION {MarkersIn(texts, c) : c \in 1 .. n}
      BY <2>1, <3>1 DEF MarkerLines
    <3> HIDE DEF T
    <3> QED BY <3>2, <3>3
  <2>3. ASSUME NEW i \in DOMAIN page, NEW k \in DOMAIN page[i], page[i][k] = "marker"
        PROVE  k \in 1 .. n /\ Cropped(page[i], k, n) = "marker"
    <3>1. Len(page[i]) = n
      BY <1>4, <1>6, <2>3
    <3>2. DOMAIN page[i] = 1 .. Len(page[i])
      BY <1>1, RowFacts
    <3> QED BY <2>3, <3>1, <3>2 DEF Cropped
  <2>4. ASSUME NEW i \in DOMAIN page, NEW c \in 1 .. n, Cropped(page[i], c, n) = "marker"
        PROVE  c \in DOMAIN page[i] /\ page[i][c] = "marker"
    <3>1. Len(page[i]) = n /\ page[i][c] = "marker"
      BY <2>4 DEF Cropped
    <3>2. DOMAIN page[i] = 1 .. Len(page[i])
      BY <1>1, RowFacts
    <3> QED BY <3>1, <3>2
  <2> HIDE DEF T
  <2>5. g \in [S -> T]
    <3>1. ASSUME NEW x \in S PROVE <<x[2], x[1]>> \in T
      <4>1. PICK i, k : /\ i \in DOMAIN page /\ k \in DOMAIN page[i]
                 /\ x = <<i, k>> /\ page[i][k] = "marker"
        BY <1>2
      <4>2. <<k, i>> \in T
        BY <2>2, <2>3, <4>1
      <4> QED BY <4>1, <4>2
    <3> QED BY <3>1
  <2>6. \A x, y \in S : g[x] = g[y] => x = y
    BY <1>2
  <2>7. \A y \in T : \E x \in S : g[x] = y
    <3> SUFFICES ASSUME NEW y \in T PROVE \E x \in S : g[x] = y
      OBVIOUS
    <3>1. PICK c \in 1 .. n, i \in DOMAIN page : y = <<c, i>> /\ Cropped(page[i], c, n) = "marker"
      BY <2>2
    <3>2. <<i, c>> \in S
      BY <1>2, <2>4, <3>1
    <3> QED BY <3>1, <3>2
  <2> HIDE DEF g, S
  <2>8. g \in Bijection(S, T)
    BY <2>5, <2>6, <2>7 DEF Bijection, Injection, Surjection, IsInjective
  <2> QED BY <2>8 DEF ExistsBijection, S, T
<1> QED BY <1>5, <1>6

\* Such a page is split into as many blocks as it has marker lines.
LEMMA PageSplit ==
  ASSUME NEW page \in Seq(Row)
  PROVE  /\ PageBlocks(page) \in Seq(Seq(Line))
         /\ Aligned(page) => /\ IsFiniteSet(MarkerCells(page))
                             /\ Cardinality(MarkerCells(page)) = Len(PageBlocks(page))
<1> DEFINE columns == ColumnTexts(page)
<1>1. columns \in Seq(Seq(Line))
  BY ColumnsTyped
<1>2. PageBlocks(page) = FlattenSeq([c \in DOMAIN columns |-> SplitByMarker(columns[c])])
  BY DEF PageBlocks
<1> HIDE DEF columns
<1>3. /\ PageBlocks(page) \in Seq(Seq(Line))
      /\ IsFiniteSet(MarkerLines(columns))
      /\ Cardinality(MarkerLines(columns)) = Len(PageBlocks(page))
  BY <1>1, <1>2, ColumnsSplit
<1>4. ASSUME Aligned(page)
      PROVE  /\ IsFiniteSet(MarkerCells(page))
             /\ Cardinality(MarkerCells(page)) = Cardinality(MarkerLines(columns))
  <2>1. ExistsBijection(MarkerLines(columns), MarkerCells(page))
    BY <1>4, MarkersMatch, Fun_ExistsBijSymmetric DEF columns
  <2> QED BY <1>3, <2>1, FS_Bijection
<1> QED BY <1>3, <1>4

\* And so is a file of such pages.
LEMMA FileSplit ==
  ASSUME NEW pages \in Seq(Seq(Row)), \A p \in DOMAIN pages : Aligned(pages[p])
  PROVE  Cardinality(UNION {{p} \X MarkerCells(pages[p]) : p \in DOMAIN pages})
           = Len(FlattenSeq([p \in DOMAIN pages |-> PageBlocks(pages[p])]))
<1> DEFINE n == Len(pages)
           D == Seq(Line)
           seqs == [p \in 1 .. n |-> PageBlocks(pages[p])]
           sets == [p \in 1 .. n |-> {p} \X MarkerCells(pages[p])]
<1>1. n \in Nat /\ DOMAIN pages = 1 .. n /\ \A p \in 1 .. n : pages[p] \in Seq(Row)
  OBVIOUS
<1>2. seqs \in [1 .. n -> Seq(D)]
  BY <1>1, PageSplit
<1>3. /\ \A p \in 1 .. n : seqs[p] = PageBlocks(pages[p])
      /\ \A p \in 1 .. n : sets[p] = {p} \X MarkerCells(pages[p])
  OBVIOUS
<1>4. ASSUME NEW p \in 1 .. n
      PROVE  IsFiniteSet(sets[p]) /\ Cardinality(sets[p]) = Len(seqs[p])
  <2> DEFINE S == MarkerCells(pages[p])
             T == {p} \X S
             g == [x \in S |-> <<p, x>>]
  <2>1. IsFiniteSet(S) /\ Cardinality(S) = Len(seqs[p])
    BY <1>1, <1>3, PageSplit
  <2> HIDE DEF S
  <2>2. g \in Bijection(S, T)
    <3>1. g \in [S -> T]
      OBVIOUS
    <3>2. \A x, y \in S : g[x] = g[y] => x = y
      OBVIOUS
    <3>3. \A y \in T : \E x \in S : g[x] = y
      OBVIOUS
    <3> HIDE DEF g, T
    <3> QED BY <3>1, <3>2, <3>3 DEF Bijection, Injection, Surjection, IsInjective
  <2>3. sets[p] = T
    BY <1>3 DEF S
  <2> HIDE DEF T, g
  <2>4. ExistsBijection(S, T)
    BY <2>2 DEF ExistsBijection
  <2>5. IsFiniteSet(T) /\ Cardinality(T) = Cardinality(S)
    BY <2>1, <2>4, FS_Bijection
  <2> QED BY <2>1, <2>3, <2>5
<1>5. Measures(sets, seqs, n) /\ Disjoint(sets, n)
  <2> HIDE DEF sets, seqs
  <2> QED BY <1>3, <1>4 DEF Measures, Disjoint
<1>6. UNION {{p} \X MarkerCells(pages[p]) : p \in DOMAIN pages} = UnionUpTo(sets, n)
  <2> HIDE DEF sets
  <2>1. {{p} \X MarkerCells(pages[p]) : p \in DOMAIN pages} = {sets[p] : p \in 1 .. n}
    BY <1>1, <1>3
  <2> QED BY <2>1 DEF UnionUpTo
<1>7. [p \in DOMAIN pages |-> PageBlocks(pages[p])] = seqs
  BY <1>1
<1> HIDE DEF seqs, sets, n, D
<1>8. Cardinality(UnionUpTo(sets, n)) = Len(FlattenSeq(seqs))
  BY <1>1, <1>2, <1>5, FlattenCounts
<1> QED BY <1>6, <1>7, <1>8, Zenon

\* A tier that is running is the last one started; what the rule parser
\* returned for a Woori page is a slip per block.
SlipsInv ==
  /\ file \in File /\ tried \in Seq(Tier)
  /\ phase \in Tier => tried # <<>> /\ Last(tried) = phase
  /\ phase = "returned" /\ Last(tried) = "rule" /\ Provider(file, Text(file)) = "woori" =>
       slips = Len(WooriBlocks(file))

LEMMA LastTried ==
  ASSUME NEW s \in Seq(Tier), NEW tier \in Tier
  PROVE  /\ Append(s, tier) \in Seq(Tier)
         /\ Append(s, tier) # <<>> /\ Last(Append(s, tier)) = tier
BY DEF Last

\* Starting the next tier, or giving up.
LEMMA EnterKeeps ==
  ASSUME SlipsInv, NEW tier \in Tier \cup {"failed"}, Enter(tier), file' = file
  PROVE  SlipsInv'
<1>1. CASE tier = "failed"
  BY <1>1 DEF SlipsInv, Enter, Tier
<1>2. CASE tier # "failed"
  <2>1. tier \in Tier /\ phase' = tier /\ tried' = Append(tried, tier)
    BY <1>2 DEF Enter
  <2>2. tried \in Seq(Tier) /\ file' \in File
    BY DEF SlipsInv
  <2> QED BY <2>1, <2>2, LastTried DEF SlipsInv, Tier
<1> QED BY <1>1, <1>2

\* A tier ends the search.
LEMMA EndKeeps ==
  ASSUME SlipsInv, phase \in Tier, NEW outcome, NEW n, Finish(outcome, n),
         phase = "rule" /\ Provider(file, Text(file)) = "woori" => n = Len(WooriBlocks(file))
  PROVE  SlipsInv'
<1>1. /\ file' = file /\ tried' = tried /\ phase' \in {"returned", "failed"}
      /\ phase' = "returned" => slips' = n
  BY DEF Finish
<1>2. Last(tried) = phase
  BY DEF SlipsInv
<1> QED BY <1>1, <1>2 DEF SlipsInv, Tier

\* What the rule parser returns for pages whose markers stand as the first of
\* them do is one transaction per marker line, through the counting of columns,
\* the crop and the splitting, whatever else stands on the pages (woori.py:86).
THEOREM SlipsAllReturned == RouterSpec => []EverySlipReturned
<1>1. RouterInit => SlipsInv
  BY DEF RouterInit, RouterStart, SlipsInv, Tier
<1>2. SlipsInv /\ [RouterNext]_routerVars => SlipsInv'
  <2> SUFFICES ASSUME SlipsInv, [RouterNext]_routerVars PROVE SlipsInv'
    OBVIOUS
  <2>1. \A w : AfterRule(w) \in Tier \cup {"failed"} /\ AfterOcr(w) \in Tier \cup {"failed"}
    BY DEF AfterRule, AfterOcr, Tier
  <2>2. CASE Probe
    <3>1. PICK tier \in Tier \cup {"failed"} : Enter(tier)
      BY <2>1, <2>2 DEF Probe, Tier
    <3> QED BY <2>2, <3>1, EnterKeeps DEF Probe
  <2>3. CASE RuleEnds
    <3>1. CASE FallThrough(RuleOutcome(file), AfterRule(wiring))
      BY <2>1, <3>1, EnterKeeps DEF FallThrough
    <3>2. CASE Finish(RuleOutcome(file), IF Provider(file, Text(file)) = "woori"
                                         THEN Len(WooriBlocks(file)) ELSE 1)
      BY <2>3, <3>2, EndKeeps DEF RuleEnds, Tier
    <3> QED BY <2>3, <3>1, <3>2 DEF RuleEnds
  <2>4. CASE DoclingRaises \/ OllamaRaises
    BY <2>4, EndKeeps DEF DoclingRaises, OllamaRaises, Tier
  <2>5. ASSUME NEW a \in Answer, OcrAnswers(a) PROVE SlipsInv'
    <3>1. phase = "ocr"
      BY <2>5 DEF OcrAnswers
    <3>2. CASE Finish("rows", 1)
      BY <3>1, <3>2, EndKeeps DEF Tier
    <3>3. CASE FallThrough(AnswerOutcome(a), AfterOcr(wiring))
      BY <2>1, <3>3, EnterKeeps DEF FallThrough
    <3> QED BY <2>5, <3>2, <3>3 DEF OcrAnswers
  <2>6. ASSUME NEW a \in Answer, LlmAnswers(a) PROVE SlipsInv'
    BY <2>6, EndKeeps DEF LlmAnswers, Tier
  <2>7. CASE UNCHANGED routerVars
    BY <2>7 DEF routerVars, SlipsInv, Tier
  <2> QED BY <2>2, <2>3, <2>4, <2>5, <2>6, <2>7 DEF RouterNext
<1>3. SlipsInv => EverySlipReturned
  <2> SUFFICES ASSUME SlipsInv PROVE EverySlipReturned
    OBVIOUS
  <2>1. file.pages \in Seq(Seq(Row))
    BY RouterAssumption DEF SlipsInv
  <2>2. (\A p \in DOMAIN file.pages : Aligned(file.pages[p])) =>
          Len(WooriBlocks(file))
            = Cardinality(UNION {{p} \X MarkerCells(file.pages[p]) : p \in DOMAIN file.pages})
    BY <2>1, FileSplit DEF WooriBlocks
  <2> QED BY <2>2 DEF SlipsInv, EverySlipReturned
<1> QED BY <1>1, <1>2, <1>3, PTL DEF RouterSpec
=============================================================================
