-------------------------- MODULE MCParserRouter --------------------------
(* Files of every provider, with the defects the parsers tell apart.       *)
EXTENDS ParserRouter

None == [date |-> "missing", merchant |-> FALSE, amount |-> "missing", supply |-> "none"]

Plain(ascii, layer, text) ==
  [ascii |-> ascii, layer |-> layer, text |-> text, hyundai |-> FALSE,
   fields |-> None, pages |-> <<>>]

\* A Woori page: slips, which may be short or begin wrongly, in two columns or
\* one, under a row that reaches across the page.
Good == <<"marker", "card", "date", "amounts", "number">>
Short == <<"marker", "card", "date", "amounts">>
Slip == {Good, Short, <<"marker", "blank", "card", "stamp", "date", "text", "number">>,
         <<"marker", "text", "date", "amounts", "number">>,
         <<"marker", "card", "noday", "amounts", "number">>,
         <<"marker", "card", "text", "amounts", "number">>,
         <<"marker", "card", "date", "amounts", "text">>}
Column == {<<>>, <<"text", "stamp">>, <<"blank">> \o Good, Good \o <<"inner">> \o Tail(Good)}
          \cup Slip \cup {a \o b : a, b \in {Good, Short}}

InTwo(left, right) ==
  LET line(col, i) == IF i \in DOMAIN col THEN col[i] ELSE "blank"
      rows == IF Len(left) > Len(right) THEN Len(left) ELSE Len(right)
  IN [i \in 1 .. rows |-> <<line(left, i), line(right, i)>>]
InOne(col) == [i \in DOMAIN col |-> <<col[i]>>]

Heads == {<<>>} \cup {<<<<line>>>> : line \in {"stamp", "inner", "marker"}}
Page == {head \o InTwo(left, right) : head \in Heads, left, right \in Column}
        \cup {InOne(col) : col \in Column}
        \cup {InOne(Good) \o InTwo(Good, Good), InTwo(Good, Good) \o InOne(Good)}
Last2 == {InTwo(Good, <<>>), InTwo(<<>>, Good), InTwo(Good, Good), InOne(Good)}

Woori == {[Plain("none", TRUE, "nup") EXCEPT !.pages = <<page>>] : page \in Page}
         \cup {[Plain("none", TRUE, "woori") EXCEPT !.pages = <<a, b>>] : a, b \in Last2}

Fields == [date : {"missing", "impossible", "ok"}, merchant : BOOLEAN,
           amount : {"missing", "zero", "some"}, supply : {"none", "zero", "some"}]
LabelledFiles == {[Plain("none", TRUE, p) EXCEPT !.fields = x] : p \in Labelled, x \in Fields}

MCFile ==
  Woori \cup LabelledFiles
  \cup {Plain(p, layer, "plain") : p \in {"hana", "lotte", "kakaobank", "none"}, layer \in BOOLEAN}
  \cup {Plain(p, layer, "unreadable") : p \in {"woori", "kbank", "lotte"}, layer \in BOOLEAN}
  \cup {[Plain("none", layer, "unreadable") EXCEPT !.hyundai = TRUE] : layer \in BOOLEAN}

MCWirings == [ocr : BOOLEAN, llm : BOOLEAN, enabled : BOOLEAN]
=============================================================================
