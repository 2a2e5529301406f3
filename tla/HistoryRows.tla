----------------------------- MODULE HistoryRows -----------------------------
(***************************************************************************)
(* The rows of the purchase history page (src/accounts/history.ts): the    *)
(* amounts, currencies and dates as Steam writes them, and the lines of a  *)
(* cell, those of a means of payment apart from the others.                *)
(***************************************************************************)
EXTENDS Integers, Sequences, FiniteSets, SequencesExt

CONSTANT MaxDigits      \* digits of a whole amount, a bound of the model

\* Assumed of them.
HistoryConstants == MaxDigits \in Nat \ {0}

VARIABLES
  job,       \* what is read: an amount, a currency, a date or a row
  outcome    \* what was made of it

rowVars == <<job, outcome>>
NotRead == [of |-> "nothing"]

-----------------------------------------------------------------------------
(* Amounts: sequences of figures and signs.                                *)

Figures == {"1", "5"}
Without(t, signs) == SelectSeq(t, LAMBDA c : c \notin signs)
Places(t, sign) == {i \in DOMAIN t : t[i] = sign}
Highest(S) == CHOOSE i \in S : \A j \in S : j <= i
Bare(t) == LET kept == {i \in DOMAIN t : t[i] \notin {".", ","}} IN SubSeq(t, 1, IF kept = {} THEN 0 ELSE Highest(kept))
Split(t, i) == [whole |-> Without(SubSeq(t, 1, i - 1), {".", ","}), rest |-> SubSeq(t, i + 1, Len(t))]
Whole(t) == [whole |-> Without(t, {".", ","}), rest |-> <<>>]

\* Mutant: a single separator always parts the cents.
AlwaysCents(tail, currency) == TRUE
\* Three figures after the only separator are thousands, except in a currency with three decimals.
PartsCents(tail, currency) == Len(tail) # 3 \/ currency = "KWD"
ParseNumber(text, currency) ==
  LET digits == Bare(Without(text, {" ", "'", "-"}))
      dots == Places(digits, ".")  commas == Places(digits, ",")
  IN CASE dots # {} /\ commas # {} -> Split(digits, IF Highest(dots) > Highest(commas) THEN Highest(dots) ELSE Highest(commas))
       [] Cardinality(dots \cup commas) = 1 ->
            LET at == Highest(dots \cup commas)
            IN IF PartsCents(SubSeq(digits, at + 1, Len(digits)), currency) THEN Split(digits, at) ELSE Whole(digits)
       [] OTHER -> Whole(digits)

Grouped(d, sign) ==
  FlattenSeq([i \in DOMAIN d |-> IF sign # "" /\ i > 1 /\ (Len(d) - i + 1) % 3 = 0 THEN <<sign, d[i]>> ELSE <<d[i]>>])
AmountText(a) ==
  Grouped(a.whole, a.thousands) \o (IF a.cents = <<>> THEN (IF a.dashes THEN <<a.decimal, "-", "-">> ELSE <<>>) ELSE <<a.decimal>> \o a.cents)
Amounts ==
  {a \in [of : {"amount"}, whole : UNION {[1..n -> {"5"}] : n \in 1..MaxDigits}, cents : {<<>>, <<"1", "5">>, <<"5", "1", "5">>},
          thousands : {"", ".", ",", " ", "'"}, decimal : {".", ","}, dashes : BOOLEAN, currency : {"KWD", "EUR"}] :
     a.thousands # a.decimal /\ (Len(a.cents) = 3) = (a.currency = "KWD") /\ (a.dashes => a.cents = <<>>)}

-----------------------------------------------------------------------------
(* Currencies: the marks are tried in order, the longer ones first.        *)
(* Those of letters of other scripts, which stand in no other, are left out. *)

Marks == <<[sign |-> <<"C", "D", "N", "$">>, currency |-> "CAD"], [sign |-> <<"N", "Z", "$">>, currency |-> "NZD"],
           [sign |-> <<"H", "K", "$">>, currency |-> "HKD"], [sign |-> <<"N", "T", "$">>, currency |-> "TWD"],
           [sign |-> <<"M", "e", "x", "$">>, currency |-> "MXN"], [sign |-> <<"C", "O", "L", "$">>, currency |-> "COP"],
           [sign |-> <<"C", "L", "P", "$">>, currency |-> "CLP"], [sign |-> <<"A", "R", "S", "$">>, currency |-> "ARS"],
           [sign |-> <<"A", "$">>, currency |-> "AUD"], [sign |-> <<"S", "$">>, currency |-> "SGD"], [sign |-> <<"R", "$">>, currency |-> "BRL"],
           [sign |-> <<"$", "U">>, currency |-> "UYU"], [sign |-> <<"S", "/", ".">>, currency |-> "PEN"], [sign |-> <<"C", "H", "F">>, currency |-> "CHF"],
           [sign |-> <<"S", "R">>, currency |-> "SAR"], [sign |-> <<"Q", "R">>, currency |-> "QAR"], [sign |-> <<"k", "r">>, currency |-> "NOK"],
           [sign |-> <<"$">>, currency |-> "USD"]>>
HasIn(t, sign) == \E i \in 0..Len(t) - Len(sign) : SubSeq(t, i + 1, i + Len(sign)) = sign
\* Two decimals make the yen sign a yuan's, when the wallet does not say which.
DetectCurrency(text, hint) ==
  IF HasIn(text, <<"Y">>)
  THEN IF hint \in {"JPY", "CNY"} THEN hint ELSE IF \E i \in DOMAIN text : text[i] \in {".", ","} /\ i = Len(text) - 2 THEN "CNY" ELSE "JPY"
  ELSE LET found == {i \in DOMAIN Marks : HasIn(text, Marks[i].sign)}
       IN IF found = {} THEN hint ELSE Marks[CHOOSE i \in found : \A j \in found : i <= j].currency
Negative(text) == \E i \in DOMAIN text : text[i] = "-" /\ \A j \in 1..i : text[j] \notin Figures

Coins == [of : {"mark"}, mark : 1..Len(Marks), before : BOOLEAN, minus : BOOLEAN, hint : {"", "EUR"}]
         \cup [of : {"yen"}, cents : BOOLEAN, minus : BOOLEAN, hint : {"", "JPY", "CNY", "EUR"}]
CoinText(c) ==
  (IF c.minus THEN <<"-">> ELSE <<>>) \o
  IF c.of = "yen" THEN <<"Y", " ", "1", "5">> \o (IF c.cents THEN <<".", "1", "5">> ELSE <<>>)
  ELSE IF c.before THEN Marks[c.mark].sign \o <<" ", "1", "5">> ELSE <<"1", "5", " ">> \o Marks[c.mark].sign

-----------------------------------------------------------------------------
(* Dates: sequences of numbers, names of months and signs.                 *)

Ymd(year, month, day) == IF month \in 1..12 /\ day \in 1..31 /\ year > 2000 THEN <<year, month, day>> ELSE <<>>
Months == {"Jan", "Oct"}
MonthOf(name) == IF name = "Jan" THEN 1 ELSE 10
Number(n) == [word |-> "", number |-> n]
Word(w) == [word |-> w, number |-> 0]
Short(w) == w.number \in 1..99
Long(w) == w.number \in 1000..9999
Named(w) == w.word \in Months
\* The forms are tried one after the other, each wherever it stands in the text.
ParseHistoryDate(t, currentYear) ==
  LET has(i) == i \in DOMAIN t
      chinese == {i \in DOMAIN t : has(i + 2) /\ Short(t[i]) /\ t[i + 1].word = "m" /\ Short(t[i + 2])}
      dashed == {i \in DOMAIN t : has(i + 4) /\ Long(t[i]) /\ t[i + 1].word = "-" /\ Short(t[i + 2]) /\ t[i + 3].word = "-" /\ Short(t[i + 4])}
      dayFirst == {i \in DOMAIN t : has(i + 1) /\ Short(t[i]) /\ Named(t[i + 1])}
      monthFirst == {i \in DOMAIN t : has(i + 1) /\ Named(t[i]) /\ Short(t[i + 1])}
      at(S) == CHOOSE i \in S : \A j \in S : i <= j
      year(i) == IF has(i) /\ Long(t[i]) THEN t[i].number ELSE currentYear
  IN CASE chinese # {} ->
            LET i == at(chinese) IN Ymd(IF has(i - 1) /\ t[i - 1].word = "y" THEN year(i - 2) ELSE currentYear, t[i].number, t[i + 2].number)
       [] chinese = {} /\ dashed # {} -> LET i == at(dashed) IN Ymd(t[i].number, t[i + 2].number, t[i + 4].number)
       [] chinese \cup dashed = {} /\ dayFirst # {} -> LET i == at(dayFirst) IN Ymd(year(i + 2), MonthOf(t[i + 1].word), t[i].number)
       [] chinese \cup dashed \cup dayFirst = {} /\ monthFirst # {} ->
            LET i == at(monthFirst) IN Ymd(year(i + 2), MonthOf(t[i].word), t[i + 1].number)
       [] OTHER -> <<>>

Dates == [of : {"date"}, year : {2025, 2026}, month : Months, day : {1, 31}, form : 1..6]
DateText(d) ==
  LET month == Number(MonthOf(d.month))  day == Number(d.day)  year == Number(d.year)
  IN CASE d.form = 1 -> <<year, Word("y"), month, Word("m"), day>>
       [] d.form = 2 -> <<month, Word("m"), day>>
       [] d.form = 3 -> <<year, Word("-"), month, Word("-"), day>>
       [] d.form = 4 -> <<day, Word(d.month), year>>
       [] d.form = 5 -> <<Word(d.month), day, year>>
       [] d.form = 6 -> <<day, Word(d.month)>>

-----------------------------------------------------------------------------
(* Rows: a cell is a text with blocks in it; a block may be that of the    *)
(* means of payment, and have blocks of its own.                           *)

Start == [lines |-> <<>>, stack |-> <<>>, text |-> "", pays |-> FALSE]
Paying(cell) == cell.stack # <<>> /\ Last(cell.stack)
Flushed(cell) ==
  [cell EXCEPT !.lines = IF cell.text = "" THEN @ ELSE Append(@, [text |-> cell.text, payment |-> cell.pays]), !.text = ""]
\* Mutant: only the block itself is the payment's, not those in it.
OpensAlone(cell, payment) == [Flushed(cell) EXCEPT !.stack = Append(@, payment)]
Opens(cell, payment) == [Flushed(cell) EXCEPT !.stack = Append(@, Paying(cell) \/ payment)]
Token(cell, token) ==
  CASE token = "block" -> Opens(cell, FALSE)
    [] token = "payment" -> Opens(cell, TRUE)
    [] token = "end" -> [Flushed(cell) EXCEPT !.stack = IF @ = <<>> THEN @ ELSE Front(@)]
    [] token = "br" -> Flushed(cell)
    [] OTHER -> [cell EXCEPT !.text = token, !.pays = IF cell.text = "" THEN Paying(cell) ELSE @]
CellLines(html) == Flushed(FoldLeft(Token, Start, html)).lines
WordsOf(lines, payment) == {lines[i].text : i \in {j \in DOMAIN lines : lines[j].payment = payment}}

\* The words of the type column decide (the other kinds, a gift or a conversion, go
\* like a refund and are left out); the wallet among the items makes a purchase a top-up.
ClassifyHistoryRow(typeWords, itemWords, walletChange) ==
  CASE "refund" \in typeWords -> "refund"
    [] typeWords \cap {"refund", "market"} = {"market"} -> IF walletChange > 0 THEN "market_sell" ELSE "market_buy"
    [] typeWords \cap {"refund", "market", "purchase"} = {"purchase"} -> IF "wallet" \in itemWords THEN "wallet" ELSE "purchase"
    [] typeWords \cap {"refund", "market", "purchase", "wallet"} = {"wallet"} -> "wallet"
    [] OTHER -> "other"
ParseRow(row) ==
  LET typeLines == CellLines(row.type)
      itemLines == CellLines(row.items)
      kind == ClassifyHistoryRow(WordsOf(typeLines, FALSE), WordsOf(itemLines, FALSE), row.change)
  IN [kind |-> kind, payment |-> WordsOf(typeLines, TRUE), refunded |-> kind = "refund" \/ row.marked,
      count |-> IF kind \in {"market_buy", "market_sell"} THEN row.count ELSE 0]

Boxed(words) == <<"block">> \o words \o <<"end">>
Payments == {<<>>, <<"payment", "wallet", "end">>, <<"payment">> \o Boxed(<<"wallet">>) \o Boxed(<<"card">>) \o <<"end">>,
             <<"payment", "card", "br", "wallet", "end">>}
Rows == [of : {"row"}, word : {"refund", "market", "purchase", "wallet", "other"}, boxed : BOOLEAN, paid : Payments, item : {"game", "wallet"},
         change : {-1, 0, 1}, count : {1, 3}, marked : BOOLEAN]
RowOf(r) == [type |-> (IF r.boxed THEN Boxed(<<r.word>>) ELSE <<r.word>>) \o r.paid, items |-> <<r.item>> \o r.paid,
             change |-> r.change, count |-> r.count, marked |-> r.marked]

-----------------------------------------------------------------------------
ThisYear == 2026
Reads ==
  /\ outcome = NotRead /\ UNCHANGED job
  /\ outcome' = CASE job.of = "amount" -> [of |-> "amount", value |-> ParseNumber(AmountText(job), job.currency)]
                  [] job.of \in {"mark", "yen"} ->
                       [of |-> "mark", currency |-> DetectCurrency(CoinText(job), job.hint), negative |-> Negative(CoinText(job))]
                  [] job.of = "date" -> [of |-> "date", date |-> ParseHistoryDate(DateText(job), ThisYear)]
                  [] job.of = "row" -> [of |-> "row", row |-> ParseRow(RowOf(job))]
RowsInit == outcome = NotRead /\ job \in Amounts \cup Coins \cup Dates \cup Rows
RowsNext == Reads
RowsSpec == RowsInit /\ [][RowsNext]_rowVars

-----------------------------------------------------------------------------
\* An amount is read as it was written, whatever parts its thousands and its cents.
AmountsRead == outcome.of = "amount" => outcome.value = [whole |-> job.whole, rest |-> job.cents]

\* Every mark is its own currency's, though the shorter ones stand in the longer
\* ones; a yen sign is the wallet's currency, or what its decimals say.
MarksRead ==
  outcome.of = "mark" =>
    /\ outcome.negative = job.minus
    /\ outcome.currency = IF job.of = "mark" THEN Marks[job.mark].currency
                          ELSE IF job.hint \in {"JPY", "CNY"} THEN job.hint ELSE IF job.cents THEN "CNY" ELSE "JPY"

\* A date is the same in every form; without a year it is this year's.
DatesRead ==
  outcome.of = "date" => outcome.date = <<IF job.form \in {2, 6} THEN ThisYear ELSE job.year, MonthOf(job.month), job.day>>

\* What it was paid with never says what a row is, and is listed whole.
PaymentsApart ==
  outcome.of = "row" =>
    /\ outcome.row.payment = {word \in {"wallet", "card"} : \E i \in DOMAIN job.paid : job.paid[i] = word}
    /\ outcome.row.kind = ClassifyHistoryRow({job.word}, {job.item}, job.change)
    /\ outcome.row.count > 0 => outcome.row.kind \in {"market_buy", "market_sell"}

\* The history is read as Steam wrote it.
RowsRead == AmountsRead /\ MarksRead /\ DatesRead /\ PaymentsApart
=============================================================================
