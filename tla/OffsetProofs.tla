----------------------------- MODULE OffsetProofs -----------------------------
(***************************************************************************)
(* CalculateOffset for any texts, with the units and the width of the      *)
(* real Duration, while the clock runs: what it does with what parseTime   *)
(* has read.  That parseTime reads texts right, TextRead, is an assumption *)
(* there.  What is proved of parseTime itself, whatever the text is, is    *)
(* that its index stays near the text and that every step leaves it less   *)
(* to do.                                                                  *)
(***************************************************************************)
EXTENDS Offset, FiniteSetTheorems, WellFoundedInduction, TLAPS

\* Times with a fraction of a second are not shown right.
WholeSeconds == \A a \in Args : a.unit = "absolute" => a.value % Second = 0

(***************************************************************************)
(* Durations                                                               *)
(***************************************************************************)

\* A Duration has as many negative values as others.
LEMMA HalfPositive == Half \in Nat \ {0} /\ Duration = -Half..Half - 1
  BY DurationAssumption DEF Half, Duration

\* The product of two Durations is a Duration, whatever it should have been, and the
\* right one if that fits.
LEMMA WrappedDuration ==
  ASSUME NEW n \in Int
  PROVE  Wrapped(n) \in Duration /\ (n \in Duration => Wrapped(n) = n)
<1> DEFINE h == Half
           m == 2 * Half
<1>1. h \in Nat \ {0} /\ m \in Nat \ {0} /\ m = 2 * h /\ Duration = -h..h - 1
  BY HalfPositive
<1>2. Wrapped(n) = ((n + h) % m) - h
  BY DEF Wrapped
<1> HIDE DEF h, m
<1>3. (n + h) % m \in 0..m - 1
  BY <1>1
<1>4. ASSUME n \in -h..h - 1 PROVE (n + h) % m = n + h
  <2>1. n + h \in Nat /\ n + h < m
    BY <1>1, <1>4
  <2>. QED
    BY <1>1, <2>1
<1>. QED
  BY <1>1, <1>2, <1>3, <1>4

\* Time.Sub returns a Duration.
LEMMA SaturatedDuration ==
  ASSUME NEW n \in Int
  PROVE  Saturated(n) \in Duration
  BY HalfPositive DEF Saturated

\* Every letter that an offset may end with means what its unit means.
LEMMA UnitMeaning ==
  ASSUME NEW a \in Args, a.unit \in {"s", "m", "h", "d", "y"}
  PROVE  UnitOf(ByteAt(a.text, Len(a.text) - 1)) = Meaning(a.unit)
<1> DEFINE letter == ByteAt(a.text, Len(a.text) - 1)
<1>1. \A u \in {"m", "h", "d", "y"} : a.unit = u <=> letter \in LettersOf(u)
  BY OffsetAssumption
<1> HIDE DEF letter
<1>2. /\ a.unit = "m" <=> letter \in {"m", "M"}
      /\ a.unit = "h" <=> letter \in {"h", "H"}
      /\ a.unit = "d" <=> letter \in {"d", "D"}
      /\ a.unit = "y" <=> letter \in {"y", "Y"}
  BY <1>1 DEF LettersOf
<1>3. UnitOf(letter) = Meaning(a.unit)
  <2>1. CASE a.unit = "s"
    BY <1>2, <2>1 DEF UnitOf, Meaning
  <2>2. CASE a.unit = "m"
    BY <1>2, <2>2 DEF UnitOf, Meaning
  <2>3. CASE a.unit = "h"
    BY <1>2, <2>3 DEF UnitOf, Meaning
  <2>4. CASE a.unit = "d"
    BY <1>2, <2>4 DEF UnitOf, Meaning, Day
  <2>5. CASE a.unit = "y"
    BY <1>2, <2>5, DurationAssumption DEF UnitOf, Meaning, Day
  <2>. QED
    BY <2>1, <2>2, <2>3, <2>4, <2>5
<1>. QED
  BY <1>3 DEF letter

\* Whatever the letter, a unit is a Duration of its own.
LEMMA UnitNatural ==
  ASSUME NEW c
  PROVE  UnitOf(c) \in Nat
  BY DurationAssumption DEF UnitOf

(***************************************************************************)
(* The steps of parseTime                                                  *)
(***************************************************************************)

\* parseTime keeps to the call it was started for.
LEMMA ParseKeepsCall == parseTime => UNCHANGED call
<1> USE DEF Go, Mark, Look, Break, Found, Fail, RestartSame, Restart
<1>1. DateLoop => UNCHANGED call
  BY DEF DateLoop, DateStart, DateDigit, DateDigitDash, DateDigitSlash, DateDigitColon,
     DateDigitDot, DateDigitWs, DateDigitSt, DateYearDash, DateYearDashDash,
     DateYearDashDashOffset, DateYearDashAlphaDash, DateDigitDashSecond, DateDigitDashAlpha,
     DateDigitDashAlphaDash, DateDigitYearSlash, DateDigitSlashAlpha, DateDigitSlashSecond,
     DateDigitColonSecond, DateDigitWsMonth, DateDigitWsMoYear, DateDigitChineseYear,
     DateDigitDotSecond, DateAlpha, DateAlphaBlank, DateAlphaComma, DateAlphaPeriod,
     DateAlphaWs, DateAlphaWsDigit, DateAlphaWsDigitYearmaybe, DateAlphaWsDigitMore,
     DateAlphaWsDigitMoreWs, DateAlphaWsMonth, DateAlphaWsMonthMore, DateAlphaWsMonthSuffix,
     DateAlphaWsMore, DateAlphaPeriodWsDigit, DateWeekdayComma, DateWeekdayAbbrevComma,
     DateRest, DateDefault
<1>2. TimeLoop => UNCHANGED call
  BY DEF TimeLoop, TimeStart, TimeZulu, TimeAt, TimeHalf, TimeColon, TimeOffset,
     TimeOffsetColon, TimeWs, TimeWsAlpha, TimeWsAlphaZoneOffset, TimeWsAlphaZoneOffsetWs,
     TimeWsAlphaZoneOffsetWsYear, TimeWsAMPMMaybe, TimeWsOffset, TimeWsOffsetWs,
     TimeWsOffsetColon, TimePeriod, TimePeriodOffsetColon, TimePeriodWs, TimePeriodWsOffset,
     TimePeriodWsOffsetWsAlpha, TimePeriodWsOffsetColon, TimeZ, TimeRest
<1>3. DateEnds \/ Coalesce \/ TimeEnds \/ TimeDone => UNCHANGED call
  BY DEF DateEnds, Coalesce, TimeEnds, TimeDone
<1>4. End => UNCHANGED call
  BY DEF End, EndDigits, EndOffset, EndField, EndFixed, EndComplete, EndUnknown
<1>5. RetryWithSwap \/ Return => UNCHANGED call
  BY DEF RetryWithSwap, Return
<1>. QED
  BY <1>1, <1>2, <1>3, <1>4, <1>5 DEF parseTime

(***************************************************************************)
(* Parsers                                                                 *)
(***************************************************************************)

Units == {"nil", "s", "ms", "us", "ns"}

\* What the control of parseTime needs of a parser.
IsParser(q) ==
  /\ {"stateDate", "stateTime", "retryAmbiguousDateWithSwap", "t"} \subseteq DOMAIN q
  /\ q.t \in Units

\* A parser with other fields, in the same states and with the same option.
SameStates(q, other) ==
  /\ IsParser(other) /\ other.stateDate = q.stateDate /\ other.stateTime = q.stateTime
  /\ other.retryAmbiguousDateWithSwap = q.retryAmbiguousDateWithSwap

\* Writing the layout leaves the states alone.
LEMMA SetKeeps ==
  ASSUME NEW q, IsParser(q), NEW start, NEW val
  PROVE  SameStates(q, Set(q, start, val))
  BY DEF Set, IsParser, SameStates

\* So does writing a field of one or two digits.
LEMMA SetEitherKeeps ==
  ASSUME NEW q, IsParser(q), NEW start, NEW len, NEW two, NEW one
  PROVE  SameStates(q, SetEither(q, start, len, two, one))
  BY SetKeeps DEF SetEither, IsParser, SameStates

\* So do the methods for the parts of a date.
LEMMA SetPartKeeps ==
  ASSUME NEW q, IsParser(q)
  PROVE  SameStates(q, SetDay(q)) /\ SameStates(q, SetMonth(q)) /\ SameStates(q, SetYear(q))
<1>1. SameStates(q, SetDay(q)) /\ SameStates(q, SetMonth(q))
  BY SetEitherKeeps DEF SetDay, SetMonth
<1>2. SameStates(q, SetYear(q))
  BY SetKeeps DEF SetYear, IsParser, SameStates
<1>. QED
  BY <1>1, <1>2

\* So does the end of such a part.
LEMMA PartEndsKeeps ==
  ASSUME NEW q, IsParser(q), NEW k
  PROVE  /\ SameStates(q, DayEnds(q, k)) /\ SameStates(q, MonthEnds(q, k))
         /\ SameStates(q, YearEnds(q, k))
<1> DEFINE d == [q EXCEPT !.daylen = k - q.dayi]
           m == [q EXCEPT !.molen = k - q.moi]
           y == [q EXCEPT !.yearlen = k - q.yeari]
<1>1. SameStates(q, d) /\ SameStates(q, m) /\ SameStates(q, y)
  BY DEF IsParser, SameStates
<1>2. DayEnds(q, k) = SetDay(d) /\ MonthEnds(q, k) = SetMonth(m) /\ YearEnds(q, k) = SetYear(y)
  BY DEF DayEnds, MonthEnds, YearEnds
<1> HIDE DEF d, m, y
<1>. QED
  BY <1>1, <1>2, SetPartKeeps DEF SameStates

\* So do coalesceDate and coalesceTime.
LEMMA CoalesceKeeps ==
  ASSUME NEW q, IsParser(q), NEW end
  PROVE  SameStates(q, CoalesceDate(q, end)) /\ SameStates(q, CoalesceTime(q, end))
<1>1. SameStates(q, q)
  BY DEF SameStates
<1>2. SameStates(q, CoalesceDate(q, end))
  <2> DEFINE y == IF q.yeari <= 0 THEN q
                  ELSE IF q.yearlen = 0 THEN YearEnds(q, end) ELSE SetYear(q)
             m == IF y.moi > 0 /\ y.molen = 0 THEN MonthEnds(y, end) ELSE y
             d == IF m.dayi > 0 /\ m.daylen = 0 THEN DayEnds(m, end) ELSE m
  <2>1. SameStates(q, y)
    BY <1>1, PartEndsKeeps, SetPartKeeps
  <2>2. CoalesceDate(q, end) = d
    BY DEF CoalesceDate
  <2> HIDE DEF y
  <2>3. SameStates(q, m)
    BY <2>1, PartEndsKeeps DEF SameStates
  <2> HIDE DEF m
  <2>4. SameStates(q, d)
    BY <2>3, PartEndsKeeps DEF SameStates
  <2>. QED
    BY <2>2, <2>4
<1>3. SameStates(q, CoalesceTime(q, end))
  <2> DEFINE l == [q EXCEPT !.minlen = LenOr(@, q.mini, end), !.seclen = LenOr(@, q.seci, end)]
             h == IF l.houri > 0 THEN SetEither(l, l.houri, l.hourlen, "15", "3") ELSE l
             m == IF l.mini > 0 THEN Set(h, l.mini, IF l.minlen = 2 THEN "04" ELSE "4") ELSE h
             s == IF l.seci > 0 THEN Set(m, l.seci, IF l.seclen = 2 THEN "05" ELSE "5") ELSE m
             f == IF l.msi > 0 THEN Set(s, l.msi, Upto("000000000", l.mslen)) ELSE s
  <2>1. SameStates(q, l)
    BY DEF SameStates, IsParser
  <2>2. CoalesceTime(q, end) = f
    BY DEF CoalesceTime
  <2> HIDE DEF l
  <2>3. SameStates(q, h)
    BY <2>1, SetEitherKeeps DEF SameStates
  <2> HIDE DEF h
  <2>4. SameStates(q, m)
    BY <2>3, SetKeeps DEF SameStates
  <2> HIDE DEF m
  <2>5. SameStates(q, s)
    BY <2>4, SetKeeps DEF SameStates
  <2> HIDE DEF s
  <2>6. SameStates(q, f)
    BY <2>5, SetKeeps DEF SameStates
  <2>. QED
    BY <2>2, <2>6
<1>. QED
  BY <1>2, <1>3

\* So do the methods for zones and for the end of the text.
LEMMA TailKeeps ==
  ASSUME NEW q, IsParser(q), NEW k, NEW four
  PROVE  /\ SameStates(q, SetZone(q, k, four)) /\ SameStates(q, TrimExtra(q))
         /\ SameStates(q, Cut(q, k))
<1>1. SameStates(q, SetZone(q, k, four))
  BY SetKeeps DEF SetZone, SameStates
<1>2. \A s : IsParser(s) => SameStates(s, TrimExtra(s))
  BY DEF TrimExtra, IsParser, SameStates
<1>3. SameStates(q, Cut(q, k))
  <2> DEFINE c == [q EXCEPT !.extra = k]
  <2>1. SameStates(q, c) /\ Cut(q, k) = TrimExtra(c)
    BY DEF Cut, IsParser, SameStates
  <2> HIDE DEF c
  <2>. QED
    BY <1>2, <2>1 DEF SameStates
<1>. QED
  BY <1>1, <1>2, <1>3

(***************************************************************************)
(* The index                                                               *)
(***************************************************************************)

\* How far the text has been read at least in each state of the date.
Least(s) ==
  CASE s = "dateStart" -> 0
    [] s \in {"dateAlphaWs", "dateAlphaPeriodWsDigit"} -> 2
    [] s = "dateAlphaWsDigit" -> 3
    [] s = "dateAlphaWsDigitYearmaybe" -> 4
    [] OTHER -> 1

\* Texts have lengths, are longer than what is left when something was cut out of them,
\* and keep the bytes that are not replaced, like all sequences; the provers do not know
\* that of strings.
TextLaws ==
  /\ Len(datestr) \in Nat
  /\ \A k \in 0..Len(datestr) - 1 :
       LET text == Upto(datestr, k) \o "." \o From(datestr, k + 1)
       IN  /\ Len(text) = Len(datestr)
           /\ \A b \in 0..Len(datestr) - 1 :
                ByteAt(text, b) = IF b = k THEN "." ELSE ByteAt(datestr, b)
  /\ \A j, k \in 0..Len(datestr) :
       j < k => Len(Upto(datestr, j) \o From(datestr, k)) < Len(datestr)
  /\ Len(datestr) > 0 =>
       \A k \in 1..Len(datestr) + 1 : Len(From(datestr, k)) < Len(datestr)

\* The index that goes back by one or three has come far enough before; the separator
\* before a time ends with the text at the latest.
IndexInv ==
  /\ ParserTypeOK /\ IsParser(p)
  /\ stage = "date" =>
       /\ Least(p.stateDate) <= i
       /\ p.stateDate \in {"dateStart", "dateAlpha"} => p.stateTime = "timeIgnore"
  /\ stage \in {"date", "coalesce"} /\ p.stateTime = "timeStart" => i <= Len(datestr) + 1

\* The parts of parseTime to come.
Rank(s) ==
  CASE s = "date" -> 6 [] s = "coalesce" -> 5 [] s = "time" -> 4 [] s = "endtime" -> 3
    [] s = "end" -> 2 [] s \in {"found", "failed"} -> 1 [] OTHER -> 0

\* The commas that may still be taken for dots.
Commas == {k \in 0..Len(datestr) - 1 : ByteAt(datestr, k) = ","}

\* A parser for the same call of parseTime.
Kept(q) ==
  IsParser(q) /\ q.retryAmbiguousDateWithSwap = p.retryAmbiguousDateWithSwap

\* A step retries without the option to do so, ...
Retried == p.retryAmbiguousDateWithSwap /\ ~p'.retryAmbiguousDateWithSwap

\* ... or starts again on a shorter text, ...
Shortened ==
  /\ p'.retryAmbiguousDateWithSwap => p.retryAmbiguousDateWithSwap
  /\ Len(datestr') < Len(datestr)

\* ... or on a text with a comma less, ...
CommaGone ==
  /\ p'.retryAmbiguousDateWithSwap = p.retryAmbiguousDateWithSwap
  /\ Len(datestr') = Len(datestr)
  /\ \E k \in Commas : Commas' = Commas \ {k}

\* ... or goes on: to the next part, to a later byte, or to the suffix of a day.
WentOn ==
  /\ p'.retryAmbiguousDateWithSwap = p.retryAmbiguousDateWithSwap
  /\ Len(datestr') = Len(datestr) /\ Commas' = Commas
  /\ \/ Rank(stage') < Rank(stage)
     \/ stage' = stage /\ i' > i
     \/ /\ stage' = stage /\ i' = i
        /\ p.stateDate # "dateAlphaWsMonthSuffix" /\ p'.stateDate = "dateAlphaWsMonthSuffix"

Down == Retried \/ Shortened \/ CommaGone \/ WentOn

\* What a step of parseTime does.
Advance == IndexInv' /\ Down

\* The same text has the same commas.
LEMMA SameText ==
  ASSUME UNCHANGED datestr
  PROVE  Len(datestr') = Len(datestr) /\ Commas' = Commas
  BY DEF Commas

\* The rune that is looked at ends within the text.
LEMMA RuneEnds ==
  ASSUME TextLaws, i \in Nat, NEW loop, Reading(loop)
  PROVE  at \in i..Len(datestr)
<1>1. Len(datestr) \in Nat /\ i < Len(datestr)
  BY DEF TextLaws, Reading
<1>2. ByteAt(datestr, i + 1) = "~" => i + 1 \in 0..Len(datestr) - 1
  BY DEF ByteAt
<1>. QED
  BY <1>1, <1>2 DEF at

\* Steps of arithmetic.
LEMMA Before ==
  ASSUME NEW k \in Nat, NEW l \in Nat
  PROVE  /\ k + 1 \in 0..l - 1 => k + 2 <= l
         /\ k + 2 \in Nat /\ k + 3 \in Nat
         /\ k + 2 <= l => k + 2 <= l + 1 /\ k + 2 <= l + 2 /\ k + 3 <= l + 2
  OBVIOUS

\* So does the byte after it.
LEMMA NextWithin ==
  ASSUME TextLaws, NEW k \in Nat, NEW c \in {" ", "t", "T"}, NextIs(k, c)
  PROVE  k + 2 <= Len(datestr)
<1>1. ByteAt(datestr, k + 1) # ""
  BY DEF NextIs
<1>2. k + 1 \in 0..Len(datestr) - 1
  BY <1>1 DEF ByteAt
<1>3. Len(datestr) \in Nat
  BY DEF TextLaws
<1>. QED
  BY <1>2, <1>3, Before

\* q may be the parser of the next turn.
Fits(q) ==
  /\ Kept(q) /\ q.stateDate # "dateStart" /\ Least(q.stateDate) <= i + 1
  /\ q.stateDate = "dateAlpha" => q.stateTime = "timeIgnore"

\* Writing the layout makes no difference for that.
LEMMA SameFits ==
  ASSUME NEW q, Fits(q), NEW s, SameStates(q, s)
  PROVE  Fits(s)
  BY DEF Fits, Kept, SameStates

\* The loop over the date goes on behind the rune.
LEMMA DateGo ==
  ASSUME TextLaws, IndexInv, Reading("date"), NEW q, Fits(q), Go(q)
  PROVE  Advance
<1>1. /\ at \in i..Len(datestr) /\ i \in Nat /\ Len(datestr) \in Nat
  BY RuneEnds DEF IndexInv, ParserTypeOK, TextLaws
<1>2. /\ p' = q /\ i' = at + 1 /\ stage = "date" /\ UNCHANGED <<datestr, stage>>
  BY DEF Go, Look, Reading
<1>3. Least(q.stateDate) <= i' /\ i' <= Len(datestr) + 1
  <2>1. Least(q.stateDate) \in Nat
    BY DEF Least
  <2>. QED
    BY <1>1, <1>2, <2>1 DEF Fits, Kept
<1>4. IndexInv'
  BY <1>1, <1>2, <1>3 DEF IndexInv, ParserTypeOK, Fits, Kept, IsParser, Units
<1>5. i' > i
  BY <1>1, <1>2
<1>6. WentOn
  BY <1>2, <1>5, SameText DEF WentOn, Fits, Kept
<1>. QED
  BY <1>4, <1>6 DEF Advance, Down

\* It goes on somewhere near, without a time.
LEMMA DateLook ==
  ASSUME TextLaws, IndexInv, Reading("date"), NEW q, Fits(q), NEW k \in Nat, Look(q, k),
         Least(q.stateDate) <= k,
         k <= Len(datestr) + 1 \/ (k <= Len(datestr) + 2 /\ q.stateTime # "timeStart"),
         \/ i < k
         \/ /\ i = k /\ p.stateDate # "dateAlphaWsMonthSuffix"
            /\ q.stateDate = "dateAlphaWsMonthSuffix"
  PROVE  Advance
<1>1. /\ p' = q /\ i' = k /\ stage = "date" /\ UNCHANGED <<datestr, stage>> /\ Len(datestr) \in Nat
  BY DEF Look, Reading, TextLaws
<1>2. IndexInv'
  BY <1>1 DEF IndexInv, ParserTypeOK, Fits, Kept, IsParser, Units
<1>3. WentOn
  BY <1>1, SameText DEF WentOn, Fits, Kept
<1>. QED
  BY <1>2, <1>3 DEF Advance, Down

\* A loop ends.
LEMMA LoopBreaks ==
  ASSUME TextLaws, IndexInv, NEW loop \in {"date", "time"}, Reading(loop),
         NEW q, Kept(q), NEW k \in Nat, k <= Len(datestr) + 1, Break(q, k)
  PROVE  Advance
<1>1. /\ p' = q /\ i' = k /\ stage' \in {"coalesce", "endtime"} /\ UNCHANGED datestr
      /\ Len(datestr) \in Nat
  BY DEF Break, TextLaws
<1>2. IndexInv'
  BY <1>1 DEF IndexInv, ParserTypeOK, Kept, IsParser, Units
<1>3. Rank(stage') < Rank(stage)
  BY DEF Break, Reading, Rank
<1>4. WentOn
  BY <1>1, <1>3, SameText DEF WentOn, Kept
<1>. QED
  BY <1>2, <1>4 DEF Advance, Down

\* parseTime calls itself, or is called.
LEMMA NewParserFits ==
  ASSUME TextLaws', NEW text, NEW prefer, NEW retry,
         p' = newParser(text, prefer, retry), i' = 0, stage' \in {"idle", "date"}
  PROVE  IndexInv'
<1>1. /\ IsParser(newParser(text, prefer, retry))
      /\ newParser(text, prefer, retry).stateDate = "dateStart"
      /\ newParser(text, prefer, retry).stateTime = "timeIgnore"
      /\ newParser(text, prefer, retry).t = "nil"
  BY DEF newParser, IsParser, Units
<1>2. Len(datestr)' \in Nat /\ Least("dateStart") = 0
  BY DEF TextLaws, Least
<1>. QED
  BY <1>1, <1>2 DEF IndexInv, ParserTypeOK, IsParser

\* parseTime calls itself with a text that was cut, or with a dot for a comma, or with the
\* other preference but without the option.
LEMMA RestartAdvances ==
  ASSUME TextLaws', NEW text, NEW prefer, NEW retry, Restart(text, prefer, retry),
         \/ p.retryAmbiguousDateWithSwap /\ retry = FALSE
         \/ /\ retry \in {FALSE, p.retryAmbiguousDateWithSwap}
            /\ Len(text) < Len(datestr)
         \/ /\ retry = p.retryAmbiguousDateWithSwap
            /\ Len(text) = Len(datestr)
            /\ \E k \in Commas :
                 {b \in 0..Len(text) - 1 : ByteAt(text, b) = ","} = Commas \ {k}
  PROVE  Advance
<1>1. /\ datestr' = text /\ p' = newParser(text, prefer, retry) /\ i' = 0 /\ stage' = "date"
  BY DEF Restart
<1>2. IndexInv'
  BY <1>1, NewParserFits
<1>3. p'.retryAmbiguousDateWithSwap = retry
  BY <1>1 DEF newParser
<1>4. Commas' = {b \in 0..Len(text) - 1 : ByteAt(text, b) = ","}
  BY <1>1 DEF Commas
<1>5. Down
  BY <1>1, <1>3, <1>4 DEF Down, Retried, Shortened, CommaGone
<1>. QED
  BY <1>2, <1>5 DEF Advance

\* parseTime ends.
LEMMA EndsFit ==
  ASSUME TextLaws, IndexInv, UNCHANGED <<i, datestr>>,
         NEW q, Kept(q), p' = q, stage' \in {"found", "failed", "end"},
         Rank(stage') < Rank(stage)
  PROVE  Advance
<1>1. IndexInv'
  BY DEF IndexInv, ParserTypeOK, Kept, IsParser, Units
<1>2. WentOn
  BY SameText DEF WentOn, Kept
<1>. QED
  BY <1>1, <1>2 DEF Advance, Down

\* It ends in the middle of something.
LEMMA PartFails ==
  ASSUME TextLaws, IndexInv, Fail, stage \in {"date", "endtime", "end"}
  PROVE  Advance
<1>1. Rank("failed") < Rank(stage)
  BY DEF Rank
<1>2. Kept(p) /\ UNCHANGED <<i, datestr>> /\ p' = p /\ stage' = "failed"
  BY DEF Fail, IndexInv, Kept
<1>. QED
  BY <1>1, <1>2, EndsFit

(***************************************************************************)
(* The switch over stateDate                                               *)
(***************************************************************************)

\* A parser that fits does so after the methods that write the layout, too.
LEMMA WrittenFits ==
  ASSUME NEW q, Fits(q), NEW k, NEW val
  PROVE  /\ Fits(Set(q, k, val)) /\ Fits(SetDay(q))
         /\ Fits(DayEnds(q, k)) /\ Fits(MonthEnds(q, k)) /\ Fits(YearEnds(q, k))
<1>1. IsParser(q)
  BY DEF Fits, Kept
<1>. QED
  BY <1>1, SameFits, SetKeeps, SetPartKeeps, PartEndsKeeps

\* Nor do the fields matter that are set with them.
LEMMA FieldFits ==
  ASSUME NEW q, Fits(q), NEW v, NEW w
  PROVE  /\ Fits([q EXCEPT !.dayi = v]) /\ Fits([q EXCEPT !.moi = v])
         /\ Fits([q EXCEPT !.yeari = v]) /\ Fits([q EXCEPT !.part1Len = v])
         /\ Fits([q EXCEPT !.molen = v, !.dayi = w]) /\ Fits([q EXCEPT !.molen = v, !.yeari = w])
         /\ Fits([q EXCEPT !.yeari = v, !.molen = w]) /\ Fits([q EXCEPT !.dayi = v, !.daylen = w])
  BY DEF Fits, Kept, IsParser

\* The first part of a date ends at a separator.
LEMMA PartFits ==
  ASSUME NEW q, Fits(q)
  PROVE  Fits(MonthFirst(q)) /\ Fits(DayFirst(q))
  BY WrittenFits, FieldFits DEF MonthFirst, DayFirst

\* The first separator was found.
LEMMA DateMark ==
  ASSUME TextLaws, IndexInv, Reading("date"), NEW q, Fits(q), Mark(q)
  PROVE  Advance
<1>1. Fits([q EXCEPT !.part1Len = at])
  BY FieldFits
<1>. QED
  BY <1>1, DateGo DEF Mark

\* States that can be entered anywhere, but at the start.
Entered(s) ==
  s \notin {"dateStart", "dateAlpha", "dateAlphaWs", "dateAlphaPeriodWsDigit", "dateAlphaWsDigit",
            "dateAlphaWsDigitYearmaybe"}

\* A parser may go to one of those.
LEMMA ToFits ==
  ASSUME IndexInv, NEW s, Entered(s)
  PROVE  /\ Fits(To(s)) /\ Fits(Timed(To(s))) /\ Fits(Ambiguous(s))
         /\ IsParser(To(s)) /\ To(s).stateDate = s
  BY DEF IndexInv, ParserTypeOK, Fits, Kept, IsParser, Least, Entered, To, Timed, Ambiguous

\* It may stay where it is.
LEMMA StayFits ==
  ASSUME IndexInv, stage = "date", p.stateDate # "dateStart"
  PROVE  Fits(p) /\ i >= 1
  BY DEF IndexInv, ParserTypeOK, Fits, Kept, Least

\* The states of a text that begins with a digit.
LEMMA DigitStep ==
  ASSUME TextLaws, TextLaws', IndexInv, DateDigit
  PROVE  Advance
<1>1. Reading("date") /\ stage = "date" /\ Fits(p) /\ i >= 1
  BY StayFits DEF DateDigit, In, Reading
<1>2. CASE DateDigitDash
  <2> DEFINE q == [p EXCEPT !.stateDate = "dateYearDash", !.yeari = 0, !.yearlen = at,
                            !.moi = at + 1]
  <2>1. Fits(q)
    BY DEF IndexInv, ParserTypeOK, Fits, Kept, IsParser, Least
  <2>2. Fits(To("dateDigitDash"))
    BY ToFits DEF Entered
  <2>3. Mark(IF at = 4 THEN Set(q, 0, "2006") ELSE To("dateDigitDash"))
    BY <1>2 DEF DateDigitDash
  <2> HIDE DEF q
  <2>4. Fits(Set(q, 0, "2006"))
    BY <2>1, WrittenFits
  <2>. QED
    BY <1>1, <2>2, <2>3, <2>4, DateMark
<1>3. CASE DateDigitSlash
  <2> DEFINE q == [To("dateDigitSlashAlpha") EXCEPT !.moi = at + 1, !.daylen = 2, !.dayi = 0]
  <2>1. Fits(q)
    BY ToFits DEF Entered, Fits, Kept, IsParser
  <2>2. Fits(YearFirst("dateDigitYearSlash"))
    BY ToFits, WrittenFits, FieldFits DEF Entered, YearFirst
  <2>3. Fits(MonthFirst(Ambiguous("dateDigitSlash"))) /\ Fits(DayFirst(Ambiguous("dateDigitSlash")))
    BY ToFits, PartFits DEF Entered
  <2>4. \/ Mark(YearFirst("dateDigitYearSlash")) \/ Go(SetDay(q))
        \/ Mark(MonthFirst(Ambiguous("dateDigitSlash")))
        \/ Mark(DayFirst(Ambiguous("dateDigitSlash")))
    BY <1>3 DEF DateDigitSlash
  <2> HIDE DEF q
  <2>5. Fits(SetDay(q))
    BY <2>1, WrittenFits
  <2>. QED
    BY <1>1, <2>2, <2>3, <2>4, <2>5, DateMark, DateGo
<1>4. CASE DateDigitColon
  <2>1. Fits(YearFirst("dateDigitColon"))
    BY ToFits, WrittenFits, FieldFits DEF Entered, YearFirst
  <2>2. Fits(Ambiguous("dateDigitColon")) /\ Fits(MonthFirst(Ambiguous("dateDigitColon")))
    BY ToFits, PartFits DEF Entered
  <2>. QED
    BY <1>1, <1>4, <2>1, <2>2, DateMark DEF DateDigitColon
<1>5. CASE DateDigitDot
  <2>1. Fits(YearFirst("dateDigitDot")) /\ Fits(MonthFirst(Ambiguous("dateDigitDot")))
    BY ToFits, WrittenFits, FieldFits, PartFits DEF Entered, YearFirst
  <2>. QED
    BY <1>1, <1>5, <2>1, DateMark DEF DateDigitDot
<1>6. CASE DateDigitWs
  <2>1. Fits(To("dateDigitSt")) /\ Fits([To("dateDigitWs") EXCEPT !.dayi = 0, !.daylen = at])
    BY ToFits, FieldFits DEF Entered
  <2>. QED
    BY <1>1, <1>6, <2>1, DateMark DEF DateDigitWs
<1>7. Fits(To("dateDigitChineseYear"))
  BY ToFits DEF Entered
<1>8. CASE Fail
  BY <1>1, <1>8, PartFails DEF IndexInv
<1>. QED
  BY <1>1, <1>2, <1>3, <1>4, <1>5, <1>6, <1>7, <1>8, DateMark, DateGo DEF DateDigit

\* The loop over the date ends at the rune or behind it.
LEMMA DateBreak ==
  ASSUME TextLaws, IndexInv, Reading("date"), NEW q, Fits(q) \/ Kept(q),
         NEW k \in {at, at + 1}, Break(q, k) \/ Break(Timed(q), k)
  PROVE  Advance
<1>1. at \in Nat /\ k \in Nat /\ k <= Len(datestr) + 1
  BY RuneEnds DEF IndexInv, ParserTypeOK, TextLaws
<1>2. Kept(q) /\ Kept(Timed(q))
  BY DEF Fits, Kept, IsParser, Timed
<1>. QED
  BY <1>1, <1>2, LoopBreaks

\* It ends where no more can be read.
LEMMA DateFail ==
  ASSUME TextLaws, IndexInv, Reading("date"), Fail
  PROVE  Advance
  BY PartFails DEF Reading

\* The states behind the first separator of a text that begins with a digit.
LEMMA DigitsStep ==
  ASSUME TextLaws, TextLaws', IndexInv,
         \/ DateDigitSt \/ DateYearDash \/ DateYearDashDash \/ DateYearDashDashOffset
         \/ DateYearDashAlphaDash \/ DateDigitDashSecond \/ DateDigitDashAlpha
         \/ DateDigitDashAlphaDash \/ DateDigitYearSlash \/ DateDigitSlashAlpha
         \/ DateDigitSlashSecond \/ DateDigitColonSecond \/ DateDigitWsMonth
         \/ DateDigitWsMoYear \/ DateDigitChineseYear \/ DateDigitDotSecond
         \/ DateRest \/ DateDefault
  PROVE  Advance
<1>1. Reading("date") /\ stage = "date" /\ p.stateDate # "dateStart" /\ p.stateDate # "dateAlpha"
  BY DEF In, Reading, DateDigitSt, DateYearDash, DateYearDashDash, DateYearDashDashOffset,
     DateYearDashAlphaDash, DateDigitDashSecond, DateDigitDashAlpha,
     DateDigitDashAlphaDash, DateDigitYearSlash, DateDigitSlashAlpha,
     DateDigitSlashSecond, DateDigitColonSecond, DateDigitWsMonth,
     DateDigitWsMoYear, DateDigitChineseYear, DateDigitDotSecond, DateRest, DateDefault
<1>2. Fits(p) /\ i >= 1 /\ IsParser(p)
  BY <1>1, StayFits DEF IndexInv
<1>3. \A k \in {at, at + 1} : k \in Nat /\ at >= 1 /\ k <= Len(datestr) + 1
  BY <1>1, <1>2, RuneEnds DEF IndexInv, ParserTypeOK, TextLaws
<1> USE <1>1, <1>2
<1>4. CASE DateDigitSt
  <2>1. SameStates(p, Set(p, 0, "060102"))
    BY SetKeeps
  <2>2. Kept(Timed(Set(p, 0, "060102")))
    BY <2>1 DEF SameStates, Timed, Kept, IsParser
  <2>3. at - 1 \in Nat /\ at - 1 <= Len(datestr) + 1
    BY <1>3, RuneEnds DEF IndexInv, ParserTypeOK, TextLaws
  <2>. QED
    BY <1>4, <2>2, <2>3, LoopBreaks DEF DateDigitSt
<1>5. CASE DateYearDash
  <2>1. Fits(To("dateYearDashAlphaDash")) /\ Fits([To("dateYearDashDash") EXCEPT !.dayi = at + 1])
    BY ToFits, FieldFits DEF Entered
  <2>. QED
    BY <1>5, <2>1, WrittenFits, DateGo DEF DateYearDash
<1>6. CASE DateYearDashDash
  <2>1. /\ Fits([To("dateYearDashDashOffset") EXCEPT !.offseti = at])
        /\ Fits(Timed(To("dateYearDashDashWs"))) /\ Fits(Timed(To("dateYearDashDashT")))
    BY ToFits DEF Entered, Fits, Kept, IsParser
  <2>. QED
    BY <1>6, <2>1, WrittenFits, DateGo, DateBreak DEF DateYearDashDash
<1>7. CASE DateYearDashDashOffset
  BY <1>7, WrittenFits, DateGo DEF DateYearDashDashOffset
<1>8. CASE DateYearDashAlphaDash
  <2>1. Fits([Set(p, p.moi, "Jan") EXCEPT !.molen = at - p.moi, !.dayi = at + 1])
    BY WrittenFits, FieldFits
  <2>. QED
    BY <1>8, <2>1, DateGo DEF DateYearDashAlphaDash
<1>9. CASE DateDigitDashSecond
  <2>1. Fits([To("dateDigitDashAlpha") EXCEPT !.moi = at])
    BY ToFits, FieldFits DEF Entered
  <2>. QED
    BY <1>9, <2>1, DateGo, DateFail DEF DateDigitDashSecond
<1>10. CASE DateDigitDashAlpha
  <2>1. Fits([Set(To("dateDigitDashAlphaDash"), p.moi, "Jan")
                EXCEPT !.molen = at - p.moi, !.yeari = at + 1])
    BY ToFits, WrittenFits, FieldFits DEF Entered
  <2>. QED
    BY <1>10, <2>1, DateGo DEF DateDigitDashAlpha
<1>11. CASE DateDigitDashAlphaDash
  <2>1. Fits(DayMonthYear(at))
    <3> DEFINE q == [p EXCEPT !.ambiguousMD = @ \/ at - (p.moi + p.molen + 1) = 2]
               y == [YearEnds(q, at) EXCEPT !.dayi = 0, !.daylen = p.part1Len]
    <3>1. Fits(q)
      BY DEF Fits, Kept, IsParser
    <3>2. DayMonthYear(at) \in {p, SetDay(y)}
      BY DEF DayMonthYear
    <3> HIDE DEF q
    <3>3. Fits(y)
      BY <3>1, WrittenFits, FieldFits
    <3> HIDE DEF y
    <3>. QED
      BY <3>2, <3>3, WrittenFits
  <2>. QED
    BY <1>11, <2>1, DateGo, DateBreak DEF DateDigitDashAlphaDash
<1>12. CASE DateDigitYearSlash
  <2>1. Fits(DayEnds(p, at)) /\ Fits(MonthFirst(p))
    BY WrittenFits, PartFits
  <2>. QED
    BY <1>12, <2>1, DateGo, DateBreak DEF DateDigitYearSlash
<1>13. CASE DateDigitSlashAlpha
  <2>1. Fits(YearEnds(p, at)) /\ Fits([Set(p, p.moi, "Jan") EXCEPT !.yeari = at + 1])
    BY WrittenFits, FieldFits
  <2>. QED
    BY <1>13, <2>1, DateGo, DateBreak DEF DateDigitSlashAlpha
<1>14. Fits(YearEnds(p, at)) /\ Fits(DayEnds(p, at)) /\ Fits(MonthFirst(p)) /\ Fits(SecondPart)
  BY WrittenFits, FieldFits, PartFits DEF SecondPart
<1>15. CASE DateDigitSlashSecond
  BY <1>14, <1>15, DateGo, DateBreak DEF DateDigitSlashSecond
<1>16. CASE DateDigitColonSecond
  BY <1>14, <1>16, DateGo, DateBreak DEF DateDigitColonSecond
<1>17. CASE DateDigitWsMonth
  <2> DEFINE d == [p EXCEPT !.yeari = at + 1, !.dayi = 0, !.daylen = p.part1Len]
             q == Timed(SetDay(d))
             mo == q.daylen + 1
             m == [q EXCEPT !.stateDate = "dateDigitWsMoYear", !.moi = mo, !.molen = at - mo]
  <2>1. \/ Go(IF at > q.daylen + 4 THEN [q EXCEPT !.stateDate = "dateDigitWsMolong"]
              ELSE Set(m, mo, "Jan"))
        \/ Go(p)
    BY <1>17 DEF DateDigitWsMonth
  <2>2. Fits(d)
    BY DEF Fits, Kept, IsParser
  <2> HIDE DEF d
  <2>3. Fits(SetDay(d))
    BY <2>2, WrittenFits
  <2>4. Kept(q)
    BY <2>3 DEF Fits, Kept, IsParser, Timed
  <2> HIDE DEF q
  <2>5. Fits([q EXCEPT !.stateDate = "dateDigitWsMolong"]) /\ Fits(m)
    BY <2>4 DEF Fits, Kept, IsParser, Least, IndexInv, ParserTypeOK
  <2> HIDE DEF m
  <2>6. Fits(Set(m, mo, "Jan"))
    BY <2>5, WrittenFits
  <2>. QED
    BY <2>1, <2>5, <2>6, DateGo
<1>18. CASE DateDigitWsMoYear
  BY <1>14, <1>18, DateGo, DateBreak DEF DateDigitWsMoYear
<1>19. CASE DateDigitChineseYear
  BY <1>19, ToFits, DateGo DEF DateDigitChineseYear, Entered
<1>20. CASE DateDigitDotSecond
  <2>1. /\ Fits([DayEnds(To("dateDigitDotDot"), at) EXCEPT !.yeari = at + 1])
        /\ Fits(MonthFirst(To("dateDigitDotDot")))
    BY ToFits, WrittenFits, FieldFits, PartFits DEF Entered
  <2>. QED
    BY <1>20, <2>1, DateGo DEF DateDigitDotSecond
<1>21. CASE DateRest
  BY <1>21, DateGo DEF DateRest
<1>22. CASE DateDefault
  BY <1>22, DateBreak DEF DateDefault
<1>. QED
  BY <1>4, <1>5, <1>6, <1>7, <1>8, <1>9, <1>10, <1>11, <1>12, <1>13, <1>15, <1>16, <1>17,
     <1>18, <1>19, <1>20, <1>21, <1>22

\* parseTime starts again behind the day of the week.
LEMMA TailRestarts ==
  ASSUME TextLaws, TextLaws', Reading("date"), i \in Nat, at \in i..Len(datestr),
         NEW prefer, Restart(From(datestr, at + 1), prefer, FALSE)
  PROVE  Advance
<1>1. i < Len(datestr) /\ Len(datestr) \in Nat
  BY DEF TextLaws, Reading
<1>2. Len(datestr) > 0 /\ at + 1 \in 1..Len(datestr) + 1
  BY <1>1
<1>3. Len(From(datestr, at + 1)) < Len(datestr)
  BY <1>2 DEF TextLaws
<1>. QED
  BY <1>3, RestartAdvances

\* It starts again when a part was cut out of the text.
LEMMA CutRestarts ==
  ASSUME TextLaws, TextLaws', NEW j \in 0..Len(datestr), NEW k \in 0..Len(datestr), j < k,
         RestartSame(Upto(datestr, j) \o From(datestr, k))
  PROVE  Advance
<1>1. Len(Upto(datestr, j) \o From(datestr, k)) < Len(datestr)
  BY DEF TextLaws
<1>. QED
  BY <1>1, RestartAdvances DEF RestartSame

\* A text that begins with a name.
LEMMA NameStep ==
  ASSUME TextLaws, TextLaws', IndexInv, DateAlpha
  PROVE  Advance
<1>1. Reading("date") /\ stage = "date" /\ p.stateDate = "dateAlpha"
  BY DEF DateAlpha, In, Reading
<1>2. Fits(p) /\ i >= 1 /\ IsParser(p) /\ p.stateTime = "timeIgnore" /\ i \in Nat
  BY <1>1, StayFits DEF IndexInv, ParserTypeOK
<1>3. at \in i..Len(datestr) /\ Len(datestr) \in Nat
  BY <1>1, <1>2, RuneEnds DEF TextLaws
<1> USE <1>1, <1>2
<1>4. CASE DateAlphaBlank
  <2> DEFINE name == Upto(datestr, at)
             full(s) == [To(s) EXCEPT !.fullMonth = name, !.dayi = at + 1]
  <2>1. Fits(full("dateAlphaWsMonth")) /\ Fits(full("dateAlphaWsMore"))
    BY ToFits DEF Entered, Fits, Kept, IsParser
  <2>2. Fits(To("dateAlphaWs"))
    BY DEF To, Fits, Kept, IsParser, Least
  <2>3. \/ Go(full("dateAlphaWsMonth")) \/ Go(full("dateAlphaWsMore")) \/ Go(p)
        \/ Restart(From(datestr, at + 1), TRUE, FALSE)
        \/ Go(To("dateAlphaWs"))
    BY <1>4 DEF DateAlphaBlank
  <2> HIDE DEF full
  <2>. QED
    BY <1>3, <2>1, <2>2, <2>3, DateGo, TailRestarts
<1>5. CASE DateAlphaComma
  <2> DEFINE q == [To("dateWeekdayComma") EXCEPT !.skip = at + 2]
  <2>1. Fits(To("dateWeekdayAbbrevComma"))
    BY ToFits DEF Entered
  <2>2. Fits(Set(To("dateWeekdayAbbrevComma"), 0, "Mon"))
    BY <2>1, WrittenFits
  <2>3. Fits(q) /\ q.stateTime = "timeIgnore" /\ Least(q.stateDate) = 1
    BY ToFits DEF Entered, Fits, Kept, IsParser, To, Least
  <2>4. Go(Set(To("dateWeekdayAbbrevComma"), 0, "Mon")) \/ Look(q, at + 2)
    BY <1>5 DEF DateAlphaComma
  <2> HIDE DEF q
  <2>. QED
    BY <1>3, <2>2, <2>3, <2>4, DateGo, DateLook
<1>6. CASE DateAlphaPeriod
  <2> DEFINE q == [To("dateAlphaPeriodWsDigit") EXCEPT !.molen = at]
             text == Upto(datestr, at - 1) \o From(datestr, at)
  <2>1. Fits(q)
    BY DEF To, Fits, Kept, IsParser, Least
  <2>2. Go(Set(q, 0, "Jan")) \/ (at = 4 /\ RestartSame(text)) \/ Fail
    BY <1>6 DEF DateAlphaPeriod
  <2>3. at = 4 /\ RestartSame(text) => Advance
    BY <1>3, CutRestarts
  <2> HIDE DEF q, text
  <2>4. Fits(Set(q, 0, "Jan"))
    BY <2>1, WrittenFits
  <2>. QED
    BY <2>2, <2>3, <2>4, DateGo, DateFail
<1>. QED
  BY <1>4, <1>5, <1>6, DateGo DEF DateAlpha

\* What follows a short name of a month or of a day.
LEMMA ShortNameStep ==
  ASSUME TextLaws, TextLaws', IndexInv,
         \/ DateAlphaWs \/ DateAlphaWsDigit \/ DateAlphaWsDigitYearmaybe
         \/ DateAlphaWsDigitMore \/ DateAlphaWsDigitMoreWs \/ DateAlphaPeriodWsDigit
  PROVE  Advance
<1>1. Reading("date") /\ stage = "date" /\ p.stateDate # "dateStart" /\ p.stateDate # "dateAlpha"
  BY DEF In, Reading, DateAlphaWs, DateAlphaWsDigit, DateAlphaWsDigitYearmaybe,
     DateAlphaWsDigitMore, DateAlphaWsDigitMoreWs, DateAlphaPeriodWsDigit
<1>2. Fits(p) /\ i >= 1 /\ IsParser(p) /\ i \in Nat /\ Least(p.stateDate) <= i
  BY <1>1, StayFits DEF IndexInv, ParserTypeOK
<1>3. at \in i..Len(datestr) /\ Len(datestr) \in Nat
  BY <1>1, <1>2, RuneEnds DEF TextLaws
<1> USE <1>1, <1>2
<1>4. CASE DateAlphaWs
  <2> DEFINE d == [To("dateAlphaWsDigit") EXCEPT !.dayi = at]
             w == To("dateAlphaWsAlpha")
  <2>1. i >= 2
    BY <1>4 DEF DateAlphaWs, In, Least
  <2>2. Fits(d) /\ Fits(w)
    BY <2>1, ToFits DEF To, Fits, Kept, IsParser, Least, Entered
  <2>3. Go(Set(Set(w, 0, "Mon"), at, "Jan")) \/ Go(Set(d, 0, "Jan")) \/ Go(p)
    BY <1>4 DEF DateAlphaWs
  <2> HIDE DEF d, w
  <2>4. Fits(Set(Set(w, 0, "Mon"), at, "Jan")) /\ Fits(Set(d, 0, "Jan"))
    BY <2>2, WrittenFits
  <2>. QED
    BY <2>3, <2>4, DateGo
<1>5. CASE DateAlphaWsDigit
  <2> DEFINE y == Timed(To("dateAlphaWsDigitYearmaybe"))
             m == To("dateAlphaWsMonthSuffix")
  <2>1. i >= 3
    BY <1>5 DEF DateAlphaWsDigit, In, Least
  <2>2. Fits(y) /\ Fits(To("dateAlphaWsDigitMore")) /\ Fits(m) /\ Least(m.stateDate) = 1
    BY <2>1, ToFits DEF To, Timed, Fits, Kept, IsParser, Least, Entered
  <2>3. \/ Go(DayEnds(To("dateAlphaWsDigitMore"), at))
        \/ Go([DayEnds(y, at) EXCEPT !.yeari = at + 1])
        \/ Look(m, at) \/ Go(p)
    BY <1>5 DEF DateAlphaWsDigit
  <2>5. p.stateDate = "dateAlphaWsDigit" /\ m.stateDate = "dateAlphaWsMonthSuffix"
    BY <1>5, <2>2 DEF DateAlphaWsDigit, In, To, Fits, Kept, IsParser
  <2> HIDE DEF y, m
  <2>4. Fits(DayEnds(To("dateAlphaWsDigitMore"), at))
        /\ Fits([DayEnds(y, at) EXCEPT !.yeari = at + 1])
    BY <2>2, WrittenFits, FieldFits
  <2>. QED
    BY <1>3, <2>2, <2>3, <2>4, <2>5, DateGo, DateLook
<1>6. CASE DateAlphaWsDigitYearmaybe
  <2>1. i >= 4
    BY <1>6 DEF DateAlphaWsDigitYearmaybe, In, Least
  <2>2. at - 3 \in Nat /\ at - 3 <= Len(datestr) + 1
    BY <1>3, <2>1
  <2>3. Kept([To("dateAlphaWsDigit") EXCEPT !.yeari = 0]) /\ Fits(YearEnds(p, at))
    BY WrittenFits DEF To, Kept, IsParser
  <2>. QED
    BY <1>6, <2>2, <2>3, LoopBreaks, DateGo, DateBreak DEF DateAlphaWsDigitYearmaybe
<1>7. CASE DateAlphaWsDigitMore
  <2>1. Fits([To("dateAlphaWsDigitMoreWs") EXCEPT !.yeari = at + 1])
    BY ToFits, FieldFits DEF Entered
  <2>. QED
    BY <1>7, <2>1, DateGo DEF DateAlphaWsDigitMore
<1>8. CASE DateAlphaWsDigitMoreWs
  <2>1. Fits(YearEnds(Timed(To("dateAlphaWsDigitMoreWsYear")), at))
        /\ Fits([p EXCEPT !.yeari = at + 1])
    BY ToFits, WrittenFits, FieldFits DEF Entered
  <2>. QED
    BY <1>8, <2>1, DateGo, DateBreak DEF DateAlphaWsDigitMoreWs
<1>9. CASE DateAlphaPeriodWsDigit
  <2>1. i >= 2
    BY <1>9 DEF DateAlphaPeriodWsDigit, In, Least
  <2>2. Fits([To("dateAlphaWsDigit") EXCEPT !.dayi = at])
    BY <2>1 DEF To, Fits, Kept, IsParser, Least
  <2>. QED
    BY <1>9, <2>2, DateGo, DateFail DEF DateAlphaPeriodWsDigit
<1>. QED
  BY <1>4, <1>5, <1>6, <1>7, <1>8, <1>9

\* What follows a full name of a month, and dates that begin with the day of the week.
LEMMA LongNameStep ==
  ASSUME TextLaws, TextLaws', IndexInv,
         \/ DateAlphaWsMonth \/ DateAlphaWsMonthMore \/ DateAlphaWsMonthSuffix
         \/ DateAlphaWsMore \/ DateWeekdayComma \/ DateWeekdayAbbrevComma
  PROVE  Advance
<1>1. Reading("date") /\ stage = "date" /\ p.stateDate # "dateStart" /\ p.stateDate # "dateAlpha"
  BY DEF In, Reading, DateAlphaWsMonth, DateAlphaWsMonthMore, DateAlphaWsMonthSuffix,
     DateAlphaWsMore, DateWeekdayComma, DateWeekdayAbbrevComma
<1>2. Fits(p) /\ i >= 1 /\ IsParser(p) /\ i \in Nat
  BY <1>1, StayFits DEF IndexInv, ParserTypeOK
<1>3. at \in i..Len(datestr) /\ Len(datestr) \in Nat
  BY <1>1, <1>2, RuneEnds DEF TextLaws
<1> USE <1>1, <1>2
<1>4. Fits(DayEnds(p, at)) /\ Fits(YearEnds(p, at)) /\ Fits([p EXCEPT !.yeari = at])
  BY WrittenFits, FieldFits
<1>5. CASE DateAlphaWsMonth
  <2> DEFINE m == To("dateAlphaWsMonthSuffix")
  <2>1. Fits(m) /\ Least(m.stateDate) = 1
    BY ToFits DEF Entered, Least
  <2>2. Look(m, at) \/ Go(p) \/ Go(DayEnds(p, at)) \/ Go([p EXCEPT !.yeari = at])
    BY <1>5 DEF DateAlphaWsMonth
  <2>3. p.stateDate = "dateAlphaWsMonth" /\ m.stateDate = "dateAlphaWsMonthSuffix"
    BY <1>5, ToFits DEF DateAlphaWsMonth, In, Entered
  <2> HIDE DEF m
  <2>. QED
    BY <1>3, <1>4, <2>1, <2>2, <2>3, DateGo, DateLook
<1>6. CASE DateAlphaWsMonthMore
  BY <1>4, <1>6, DateGo, DateBreak DEF DateAlphaWsMonthMore
<1>7. CASE DateAlphaWsMonthSuffix
  <2>1. \/ Len(datestr) > at + 2 /\ RestartSame(Upto(datestr, at) \o From(datestr, at + 2))
        \/ Go(p)
    BY <1>7 DEF DateAlphaWsMonthSuffix, AtSuffix
  <2>2. Len(datestr) > at + 2 => /\ at \in 0..Len(datestr) /\ at + 2 \in 0..Len(datestr)
                                /\ at < at + 2
    BY <1>3
  <2>. QED
    BY <2>1, <2>2, DateGo, CutRestarts
<1>8. CASE DateAlphaWsMore
  <2> DEFINE q == DayEnds(p, at)
             more(k) == [q EXCEPT !.yeari = k, !.stateDate = "dateAlphaWsMonthMore"]
             m == [q EXCEPT !.stateDate = "dateAlphaWsMonthSuffix"]
  <2>1. \/ NextIs(at, " ") /\ Look(more(at + 2), at + 2)
        \/ Go(p) \/ Go(more(at + 1)) \/ Look(m, at)
    BY <1>8 DEF DateAlphaWsMore
  <2>2. Kept(q)
    BY <1>4 DEF Fits, Kept
  <2>7. p.stateDate = "dateAlphaWsMore" /\ m.stateDate = "dateAlphaWsMonthSuffix"
    BY <1>8, <2>2 DEF DateAlphaWsMore, In, Kept, IsParser
  <2> HIDE DEF q
  <2>3. /\ Fits(m) /\ Least(m.stateDate) = 1
        /\ \A k \in {at + 1, at + 2} : Fits(more(k)) /\ Least(more(k).stateDate) = 1
    BY <2>2 DEF Fits, Kept, IsParser, Least
  <2> HIDE DEF more, m
  <2>4. CASE NextIs(at, " ") /\ Look(more(at + 2), at + 2)
    <3>1. at \in Nat
      BY <1>3
    <3>2. at + 2 \in Nat /\ at + 2 <= Len(datestr) + 1
      BY <1>3, <2>4, <3>1, NextWithin, Before
    <3>3. Fits(more(at + 2)) /\ Least(more(at + 2).stateDate) <= at + 2
      BY <2>3, <3>1
    <3>4. Look(more(at + 2), at + 2)
      BY <2>4
    <3> DEFINE k == at + 2
    <3> HIDE DEF k
    <3>5. /\ k \in Nat /\ k <= Len(datestr) + 1 /\ Look(more(k), k)
          /\ Fits(more(k)) /\ Least(more(k).stateDate) <= k
      BY <3>2, <3>3, <3>4 DEF k
    <3>6. i < k
      BY <1>3 DEF k
    <3>. QED
      BY <3>5, <3>6, DateLook
  <2>5. CASE Look(m, at)
    BY <1>3, <2>3, <2>5, <2>7, DateLook
  <2>6. CASE Go(p) \/ Go(more(at + 1))
    BY <2>3, <2>6, DateGo
  <2>. QED
    BY <2>1, <2>4, <2>5, <2>6
<1>9. CASE DateWeekdayComma
  <2> DEFINE q == [p EXCEPT !.dayi = IF @ = 0 THEN at ELSE @]
  <2>1. \/ Go(DayEnds([q EXCEPT !.moi = at + 1], at))
        \/ Go(Set([q EXCEPT !.yeari = at + 1, !.molen = at - q.moi], q.moi, "Jan"))
        \/ Break(Timed(q), at) \/ Go(q)
    BY <1>9 DEF DateWeekdayComma
  <2>2. Fits(q)
    BY DEF Fits, Kept, IsParser
  <2> HIDE DEF q
  <2>3. /\ Fits(DayEnds([q EXCEPT !.moi = at + 1], at))
        /\ Fits(Set([q EXCEPT !.yeari = at + 1, !.molen = at - q.moi], q.moi, "Jan"))
    BY <2>2, WrittenFits, FieldFits
  <2>. QED
    BY <2>1, <2>2, <2>3, DateGo, DateBreak
<1>10. CASE DateWeekdayAbbrevComma
  <2>1. /\ Fits([p EXCEPT !.dayi = at + 1]) /\ Fits([DayEnds(p, at) EXCEPT !.moi = at + 1])
        /\ Fits(Set([p EXCEPT !.molen = at - p.moi, !.yeari = at + 1], p.moi, "Jan"))
    BY WrittenFits, FieldFits
  <2>. QED
    BY <1>4, <1>10, <2>1, DateGo, DateBreak DEF DateWeekdayAbbrevComma
<1>. QED
  BY <1>5, <1>6, <1>7, <1>8, <1>9, <1>10

\* The first rune.
LEMMA StartStep ==
  ASSUME TextLaws, IndexInv, DateStart
  PROVE  Advance
<1>1. /\ Reading("date") /\ IsParser(p) /\ p.stateTime = "timeIgnore" /\ i \in Nat
      /\ Go(To("dateDigit")) \/ Go(To("dateAlpha")) \/ Fail
  BY DEF DateStart, In, Reading, IndexInv, ParserTypeOK
<1>2. Fits(To("dateDigit")) /\ Fits(To("dateAlpha"))
  BY <1>1 DEF To, Fits, Kept, IsParser, Least
<1>. QED
  BY <1>1, <1>2, DateGo, DateFail

\* One turn of the loop over the date.
LEMMA DateStep ==
  ASSUME TextLaws, TextLaws', IndexInv, DateLoop
  PROVE  Advance
  BY StartStep, DigitStep, DigitsStep, NameStep, ShortNameStep, LongNameStep DEF DateLoop

(***************************************************************************)
(* The switch over stateTime                                               *)
(***************************************************************************)

\* The loop over the time goes on.
LEMMA TimeLook ==
  ASSUME TextLaws, IndexInv, Reading("time"), NEW q, Kept(q), NEW k \in Nat, Look(q, k),
         i < k, k <= Len(datestr) + 2
  PROVE  Advance
<1>1. /\ p' = q /\ i' = k /\ stage = "time" /\ UNCHANGED <<datestr, stage>> /\ Len(datestr) \in Nat
  BY DEF Look, Reading, TextLaws
<1>2. IndexInv'
  BY <1>1 DEF IndexInv, ParserTypeOK, Kept, IsParser, Units
<1>3. WentOn
  BY <1>1, SameText DEF WentOn, Kept
<1>. QED
  BY <1>2, <1>3 DEF Advance, Down

\* It goes on behind the rune.
LEMMA TimeGo ==
  ASSUME TextLaws, IndexInv, Reading("time"), NEW q, Kept(q), Go(q)
  PROVE  Advance
<1>1. at + 1 \in Nat /\ at + 1 <= Len(datestr) + 2 /\ i < at + 1
  BY RuneEnds DEF IndexInv, ParserTypeOK, TextLaws
<1>. QED
  BY <1>1, TimeLook DEF Go

\* It ends at the rune.
LEMMA TimeBreak ==
  ASSUME TextLaws, IndexInv, Reading("time"), NEW q, Kept(q), Break(q, i)
  PROVE  Advance
<1>1. i \in Nat /\ i <= Len(datestr) + 1
  BY DEF IndexInv, ParserTypeOK, TextLaws, Reading
<1>. QED
  BY <1>1, LoopBreaks

\* The methods of parser leave a parser.
LEMMA WrittenParser ==
  ASSUME NEW q, Kept(q), NEW k, NEW v
  PROVE  /\ Kept(Set(q, k, v)) /\ Kept(CoalesceTime(q, k)) /\ Kept(CoalesceDate(q, k))
         /\ Kept(SetZone(q, k, v)) /\ Kept(TrimExtra(q)) /\ Kept(Cut(q, k))
         /\ Kept(DayEnds(q, k)) /\ Kept(MonthEnds(q, k)) /\ Kept(YearEnds(q, k))
         /\ Kept(SetYear(q)) /\ Kept(SetDay(q))
<1>1. \A s : SameStates(q, s) => Kept(s)
  BY DEF SameStates, Kept
<1>2. IsParser(q)
  BY DEF Kept
<1>. QED
  BY <1>1, <1>2, SetKeeps, CoalesceKeeps, TailKeeps, PartEndsKeeps, SetPartKeeps

\* So does what the cases set before they do anything else.
LEMMA TimeParser ==
  ASSUME Kept(p), NEW s
  PROVE  /\ Kept(Hour0) /\ Kept(ToTime(s)) /\ Kept(ToTime0(s))
  BY DEF Hour0, ToTime, ToTime0, Kept, IsParser

\* A dot in the place of a byte.
LEMMA DotWritten ==
  ASSUME TextLaws, NEW k \in 0..Len(datestr) - 1
  PROVE  LET text == Upto(datestr, k) \o "." \o From(datestr, k + 1)
         IN  /\ Len(text) = Len(datestr)
             /\ {b \in 0..Len(text) - 1 : ByteAt(text, b) = ","} = Commas \ {k}
<1> DEFINE text == Upto(datestr, k) \o "." \o From(datestr, k + 1)
<1>1. /\ Len(text) = Len(datestr)
      /\ \A b \in 0..Len(datestr) - 1 :
           ByteAt(text, b) = IF b = k THEN "." ELSE ByteAt(datestr, b)
  BY DEF TextLaws
<1> HIDE DEF text
<1>2. {b \in 0..Len(text) - 1 : ByteAt(text, b) = ","} = Commas \ {k}
  BY <1>1 DEF Commas
<1>. QED
  BY <1>1, <1>2 DEF text

\* The case that all times begin with.
LEMMA TimeStartStep ==
  ASSUME TextLaws, TextLaws', IndexInv, TimeStart
  PROVE  Advance
<1>1. Reading("time") /\ Kept(p) /\ i \in Nat /\ i < Len(datestr) /\ Len(datestr) \in Nat
  <2>1. Reading("time")
    BY DEF TimeStart, InTime
  <2>2. Len(datestr) \in Nat
    BY DEF TextLaws
  <2>. QED
    BY <2>1, <2>2 DEF Reading, IndexInv, ParserTypeOK, Kept
<1>2. /\ Kept(Hour0) /\ Kept(ToTime0("timeOffset")) /\ Kept(ToTime0("timePeriod"))
      /\ Kept(ToTime0("timeZ"))
  BY <1>1, TimeParser
<1>3. CASE r \in {"-", "+"} /\ Go(ClockEnds([ToTime0("timeOffset") EXCEPT !.offseti = i]))
  <2> DEFINE q == [ToTime0("timeOffset") EXCEPT !.offseti = i]
  <2>1. Kept(q) /\ Go(ClockEnds(q))
    BY <1>2, <1>3 DEF Kept, IsParser
  <2> HIDE DEF q
  <2>2. Kept(ClockEnds(q))
    BY <2>1 DEF ClockEnds, Kept, IsParser
  <2>. QED
    BY <1>1, <2>1, <2>2, TimeGo
<1>4. CASE Go([ToTime0("timePeriod") EXCEPT !.seclen = i - p.seci, !.msi = i + 1])
  <2>1. Kept([ToTime0("timePeriod") EXCEPT !.seclen = i - p.seci, !.msi = i + 1])
    BY <1>2 DEF Kept, IsParser
  <2>. QED
    BY <1>1, <1>4, <2>1, TimeGo
<1>5. CASE TimeZulu
  <2> DEFINE q == ToTime0("timeZ")
             z == IF q.seci = 0 THEN [q EXCEPT !.minlen = i - q.mini]
                                ELSE [q EXCEPT !.seclen = i - q.seci]
  <2>1. Go(z)
    BY <1>5 DEF TimeZulu
  <2> HIDE DEF q
  <2>2. Kept(z)
    BY <1>2 DEF Kept, IsParser, q
  <2>. QED
    BY <1>1, <2>1, <2>2, TimeGo
<1>6. CASE TimeAt
  <2>1. \/ NextIs(i + 1, " ") /\ Look([Hour0 EXCEPT !.houri = 0], i + 3)
        \/ (NextIs(i, "t") \/ NextIs(i, "T")) /\ Look(Hour0, i + 2)
    BY <1>6 DEF TimeAt
  <2>2. Kept([Hour0 EXCEPT !.houri = 0])
    BY <1>2 DEF Kept, IsParser
  <2> DEFINE k == i + 2
             m == i + 3
  <2>3. ASSUME NextIs(i, "t") \/ NextIs(i, "T") PROVE k \in Nat /\ i < k /\ k <= Len(datestr) + 2
    <3>1. k \in Nat /\ i < k
      BY <1>1
    <3>2. k <= Len(datestr) + 2
      BY <1>1, <2>3, NextWithin, Before
    <3>. QED
      BY <3>1, <3>2
  <2>4. ASSUME NextIs(i + 1, " ") PROVE m \in Nat /\ i < m /\ m <= Len(datestr) + 2
    <3> DEFINE n == i + 1
    <3>1. n \in Nat /\ m = n + 2 /\ i < m
      BY <1>1
    <3>2. NextIs(n, " ")
      BY <2>4
    <3> HIDE DEF m, n
    <3>. QED
      BY <1>1, <3>1, <3>2, NextWithin, Before
  <2>5. \/ NextIs(i + 1, " ") /\ Look([Hour0 EXCEPT !.houri = 0], m)
        \/ (NextIs(i, "t") \/ NextIs(i, "T")) /\ Look(Hour0, k)
    BY <2>1
  <2> HIDE DEF k, m
  <2>. QED
    BY <1>1, <1>2, <2>2, <2>3, <2>4, <2>5, TimeLook
<1>7. CASE TimeHalf
  <2> DEFINE half == CASE r = "a" -> "am" [] r = "p" -> "pm" [] OTHER -> "PM"
  <2>1. Go(Set(CoalesceTime(Hour0, i), i, half)) \/ Go(Hour0)
    BY <1>7 DEF TimeHalf
  <2> HIDE DEF half
  <2>2. Kept(CoalesceTime(Hour0, i))
    BY <1>2, WrittenParser
  <2>3. Kept(Set(CoalesceTime(Hour0, i), i, half))
    BY <2>2, WrittenParser
  <2>. QED
    BY <1>1, <1>2, <2>1, <2>3, TimeGo
<1>8. CASE Go([CoalesceTime(Hour0, i) EXCEPT !.stateTime = "timeWs"])
  <2>1. Kept(CoalesceTime(Hour0, i))
    BY <1>2, WrittenParser
  <2>2. Kept([CoalesceTime(Hour0, i) EXCEPT !.stateTime = "timeWs"])
    BY <2>1 DEF Kept, IsParser
  <2>. QED
    BY <1>1, <1>8, <2>2, TimeGo
<1>9. CASE TimeColon
  <2> DEFINE h == [Hour0 EXCEPT !.mini = i + 1, !.hourlen = i - Hour0.houri]
             m == [Hour0 EXCEPT !.seci = i + 1, !.minlen = i - p.mini]
             s == [Hour0 EXCEPT !.seclen = i - p.seci, !.msi = i + 1]
             f == Set(Set(s, p.seci, "05"), i, ".")
  <2>1. Kept(h) /\ Kept(m) /\ Kept(s)
    BY <1>2 DEF Kept, IsParser
  <2>2. \/ Go(h) \/ Go(m)
        \/ /\ p' = f /\ i' = i + 1 /\ UNCHANGED stage
           /\ datestr' = Upto(datestr, i) \o "." \o From(datestr, i + 1)
    BY <1>9 DEF TimeColon
  <2> HIDE DEF h, m, s
  <2>3. Kept(f)
    BY <2>1, WrittenParser
  <2> HIDE DEF f
  <2>4. ASSUME p' = f, i' = i + 1, UNCHANGED stage,
               datestr' = Upto(datestr, i) \o "." \o From(datestr, i + 1)
        PROVE  Advance
    <3>1. i \in 0..Len(datestr) - 1 /\ i + 1 > i
      BY <1>1
    <3>2. Len(datestr') = Len(datestr) /\ Commas' = Commas \ {i}
      BY <2>4, <3>1, DotWritten DEF Commas
    <3>3. stage = "time" /\ i + 1 \in 0..Len(datestr) + 2
      BY <1>1 DEF Reading
    <3>4. IndexInv'
      BY <2>3, <2>4, <3>2, <3>3 DEF IndexInv, ParserTypeOK, Kept, IsParser, Units
    <3>5. i \notin Commas
      BY <1>9 DEF TimeColon, Commas, r
    <3>6. WentOn
      BY <2>3, <2>4, <3>1, <3>2, <3>5 DEF WentOn, Kept
    <3>. QED
      BY <3>4, <3>6 DEF Advance, Down
  <2>. QED
    BY <1>1, <2>1, <2>2, <2>4, TimeGo
<1>10. CASE r = "," /\ RestartSame(Upto(datestr, i) \o "." \o From(datestr, i + 1))
  <2> DEFINE text == Upto(datestr, i) \o "." \o From(datestr, i + 1)
  <2>1. i \in 0..Len(datestr) - 1
    BY <1>1
  <2>2. /\ Len(text) = Len(datestr)
        /\ {b \in 0..Len(text) - 1 : ByteAt(text, b) = ","} = Commas \ {i}
    BY <2>1, DotWritten
  <2>3. i \in Commas
    BY <1>10, <2>1 DEF Commas, r
  <2>4. Restart(text, p.preferMonthFirst, p.retryAmbiguousDateWithSwap)
    BY <1>10 DEF RestartSame
  <2> HIDE DEF text
  <2>. QED
    BY <2>2, <2>3, <2>4, RestartAdvances
<1>11. CASE Go(Hour0)
  BY <1>1, <1>2, <1>11, TimeGo
<1>. QED
  BY <1>3, <1>4, <1>5, <1>6, <1>7, <1>8, <1>9, <1>10, <1>11 DEF TimeStart

\* The cases after the clock and before a fraction.
LEMMA TimeZoneStep ==
  ASSUME TextLaws, TextLaws', IndexInv,
         \/ TimeOffset \/ TimeWs \/ TimeWsAlpha \/ TimeWsAlphaZoneOffset
         \/ TimeWsAlphaZoneOffsetWs \/ TimeWsAlphaZoneOffsetWsYear \/ TimeWsAMPMMaybe
         \/ TimeWsOffset \/ TimeWsOffsetWs \/ TimeWsOffsetColon \/ TimeZ \/ TimeRest
  PROVE  Advance
<1>1. Reading("time")
  BY DEF InTime, TimeOffset, TimeOffsetColon, TimeWs, TimeWsAlpha, TimeWsAlphaZoneOffset,
     TimeWsAlphaZoneOffsetWs, TimeWsAlphaZoneOffsetWsYear, TimeWsAMPMMaybe,
     TimeWsOffset, TimeWsOffsetWs, TimeWsOffsetColon, TimeZ, TimeRest
<1>2. Kept(p) /\ \A s : Kept(ToTime(s))
  BY TimeParser DEF Kept, IndexInv
<1> USE <1>1, <1>2
<1>3. CASE TimeOffset
  BY <1>3, TimeGo DEF TimeOffset, TimeOffsetColon
<1>4. CASE TimeWs
  <2>1. /\ \A s : Kept([ToTime(s) EXCEPT !.tzi = i])
        /\ \A s : Kept([ToTime(s) EXCEPT !.offseti = i])
        /\ \A s : Kept([ToTime(s) EXCEPT !.yeari = i])
    BY DEF Kept, IsParser
  <2>. QED
    BY <1>4, <2>1, TimeGo DEF TimeWs
<1>5. CASE TimeWsAlpha
  <2> DEFINE l == [p EXCEPT !.tzlen = i - p.tzi]
             q == SetZone(l, i - p.tzi, " MST")
  <2>1. \/ Go([q EXCEPT !.stateTime = "timeWsAlphaZoneOffset", !.offseti = i])
        \/ Go([q EXCEPT !.stateTime = "timeWsAlphaWs", !.yeari = i + 1])
        \/ Go(p)
    BY <1>5 DEF TimeWsAlpha
  <2>2. Kept(l)
    BY DEF Kept, IsParser
  <2> HIDE DEF l
  <2>3. Kept(q)
    BY <2>2, WrittenParser
  <2> HIDE DEF q
  <2>4. /\ Kept([q EXCEPT !.stateTime = "timeWsAlphaZoneOffset", !.offseti = i])
        /\ Kept([q EXCEPT !.stateTime = "timeWsAlphaWs", !.yeari = i + 1])
    BY <2>3 DEF Kept, IsParser
  <2>. QED
    BY <2>1, <2>4, TimeGo
<1>6. CASE TimeWsAlphaZoneOffset
  <2> DEFINE q == [ToTime("timeWsAlphaZoneOffsetWs") EXCEPT !.yeari = IF @ = 0 THEN i + 1 ELSE @]
  <2>1. Go(Set(q, p.offseti, "-0700")) \/ Go(p)
    BY <1>6 DEF TimeWsAlphaZoneOffset
  <2>2. Kept(q)
    BY DEF Kept, IsParser
  <2> HIDE DEF q
  <2>. QED
    BY <2>1, <2>2, WrittenParser, TimeGo
<1>7. CASE TimeWsAlphaZoneOffsetWs
  <2>1. Kept([ToTime("timeWsAlphaZoneOffsetWsExtra") EXCEPT !.extra = i - 1])
    BY DEF Kept, IsParser
  <2>. QED
    BY <1>7, <2>1, TimeGo DEF TimeWsAlphaZoneOffsetWs
<1>8. Kept(FourthDigit(p))
  <2> DEFINE y == [p EXCEPT !.yearlen = i - p.yeari + 1]
  <2>1. Kept(y) /\ FourthDigit(p) \in {y, SetYear(y)}
    BY DEF Kept, IsParser, FourthDigit
  <2> HIDE DEF y
  <2>. QED
    BY <2>1, WrittenParser
<1>9. CASE TimeWsAlphaZoneOffsetWsYear
  BY <1>8, <1>9, TimeGo DEF TimeWsAlphaZoneOffsetWsYear
<1>10. CASE TimeWsAMPMMaybe
  <2> DEFINE q == Set(ToTime("timeWsAMPM"), i - 1, "PM")
  <2>1. Go(SetEither(q, p.houri, p.hourlen, "03", "3")) \/ Go(ToTime("timeWsAlpha"))
    BY <1>10 DEF TimeWsAMPMMaybe
  <2>2. Kept(q)
    BY WrittenParser
  <2> HIDE DEF q
  <2>3. Kept(SetEither(q, p.houri, p.hourlen, "03", "3"))
    BY <2>2, SetEitherKeeps DEF SameStates, Kept
  <2>. QED
    BY <2>1, <2>3, TimeGo
<1>11. CASE TimeWsOffset
  <2> DEFINE q == [ToTime("timeWsOffsetWs") EXCEPT !.yeari = i + 1]
  <2>1. Go(ToTime("timeWsOffsetColon")) \/ Go(Set(q, p.offseti, "-0700")) \/ Go(p)
    BY <1>11 DEF TimeWsOffset
  <2>2. Kept(q)
    BY DEF Kept, IsParser
  <2> HIDE DEF q
  <2>. QED
    BY <2>1, <2>2, WrittenParser, TimeGo
<1>12. CASE TimeWsOffsetWs
  <2>1. Kept([p EXCEPT !.tzi = IF @ = 0 THEN i ELSE @])
    BY DEF Kept, IsParser
  <2>2. Kept(Cut(p, i - 2)) /\ Kept(Cut(ToTime("timeWsOffset"), i - 1))
    BY WrittenParser
  <2>. QED
    BY <1>8, <1>12, <2>1, <2>2, TimeGo DEF TimeWsOffsetWs
<1>13. CASE TimeWsOffsetColon
  BY <1>13, TimeGo, TimeBreak DEF TimeWsOffsetColon
<1>14. CASE TimeZ
  BY <1>14, TimeGo DEF TimeZ
<1>15. CASE TimeRest
  BY <1>15, TimeGo DEF TimeRest
<1>. QED
  BY <1>3, <1>4, <1>5, <1>6, <1>7, <1>9, <1>10, <1>11, <1>12, <1>13, <1>14, <1>15

\* The cases after a fraction.
LEMMA TimeFractionStep ==
  ASSUME TextLaws, TextLaws', IndexInv,
         \/ TimePeriod \/ TimePeriodOffsetColon \/ TimePeriodWs \/ TimePeriodWsOffset
         \/ TimePeriodWsOffsetWsAlpha \/ TimePeriodWsOffsetColon
  PROVE  Advance
<1>1. Reading("time")
  BY DEF InTime, TimePeriod, TimePeriodOffsetColon, TimePeriodWs, TimePeriodWsOffset,
     TimePeriodWsOffsetWsAlpha, TimePeriodWsOffsetColon
<1>2. Kept(p) /\ \A s : Kept(ToTime(s))
  BY TimeParser DEF Kept, IndexInv
<1> USE <1>1, <1>2
<1>3. CASE TimePeriod
  <2> DEFINE q == [p EXCEPT !.mslen = i - p.msi]
  <2>1. \/ Go([q EXCEPT !.stateTime = "timePeriodWs"])
        \/ Go([q EXCEPT !.stateTime = "timePeriodOffset", !.offseti = i])
        \/ Go([q EXCEPT !.stateTime = "timePeriodWsAlpha"])
        \/ Go(p)
    BY <1>3 DEF TimePeriod
  <2>2. Kept(q)
    BY DEF Kept, IsParser
  <2> HIDE DEF q
  <2>3. /\ Kept([q EXCEPT !.stateTime = "timePeriodWs"])
        /\ Kept([q EXCEPT !.stateTime = "timePeriodOffset", !.offseti = i])
        /\ Kept([q EXCEPT !.stateTime = "timePeriodWsAlpha"])
    BY <2>2 DEF Kept, IsParser
  <2>. QED
    BY <2>1, <2>3, TimeGo
<1>4. CASE TimePeriodOffsetColon
  <2> DEFINE q == [ToTime("timePeriodOffsetColonWs") EXCEPT !.tzi = i + 1]
  <2>1. Go(Set(q, p.offseti, "-07:00")) \/ Go(p)
    BY <1>4 DEF TimePeriodOffsetColon
  <2>2. Kept(q)
    BY DEF Kept, IsParser
  <2> HIDE DEF q
  <2>. QED
    BY <2>1, <2>2, WrittenParser, TimeGo
<1>5. CASE TimePeriodWs
  <2> DEFINE q == [p EXCEPT !.offseti = IF @ = 0 THEN i ELSE @]
  <2>1. \/ Go([q EXCEPT !.mslen = i - p.msi - 1, !.stateTime = "timePeriodWsOffset"])
        \/ Break([q EXCEPT !.stateTime = "timePeriodWsOffsetWsAlpha"], i)
        \/ Go(q)
    BY <1>5 DEF TimePeriodWs
  <2>2. Kept(q)
    BY DEF Kept, IsParser
  <2> HIDE DEF q
  <2>3. /\ Kept([q EXCEPT !.mslen = i - p.msi - 1, !.stateTime = "timePeriodWsOffset"])
        /\ Kept([q EXCEPT !.stateTime = "timePeriodWsOffsetWsAlpha"])
    BY <2>2 DEF Kept, IsParser
  <2>. QED
    BY <2>1, <2>2, <2>3, TimeGo, TimeBreak
<1>6. CASE TimePeriodWsOffset
  BY <1>6, WrittenParser, TimeGo DEF TimePeriodWsOffset
<1>7. CASE TimePeriodWsOffsetWsAlpha
  BY <1>7, WrittenParser, TimeGo DEF TimePeriodWsOffsetWsAlpha
<1>8. CASE TimePeriodWsOffsetColon
  <2>1. Kept([ToTime("timePeriodWsOffsetColonAlpha") EXCEPT !.tzi = i])
    BY DEF Kept, IsParser
  <2>. QED
    BY <1>8, <2>1, WrittenParser, TimeGo DEF TimePeriodWsOffsetColon
<1>. QED
  BY <1>3, <1>4, <1>5, <1>6, <1>7, <1>8

(***************************************************************************)
(* Before, between and after the loops                                     *)
(***************************************************************************)

\* The time begins within the text or right behind the separator.
LEMMA CoalesceStep ==
  ASSUME TextLaws, IndexInv, Coalesce
  PROVE  Advance
<1> DEFINE start == IF i < Len(p.format) THEN i + 1 ELSE i
<1>1. /\ stage = "coalesce" /\ p' = CoalesceDate(p, i) /\ UNCHANGED datestr
      /\ \/ stage' = "end" /\ i' = i
         \/ /\ p.stateTime = "timeStart" /\ stage' = "time"
            /\ \E k \in start..start + Len(datestr) :
                 (\A b \in start..k - 1 : ByteAt(datestr, b) = " ") /\ i' = k
  BY DEF Coalesce
<1>2. i \in Nat /\ i <= Len(datestr) + 2 /\ Len(datestr) \in Nat /\ Kept(p)
  BY DEF IndexInv, ParserTypeOK, TextLaws, Kept
<1>3. Kept(CoalesceDate(p, i))
  BY <1>2, WrittenParser
<1>4. CASE stage' = "end" /\ i' = i
  BY <1>1, <1>2, <1>3, <1>4, EndsFit DEF Rank
<1>5. ASSUME p.stateTime = "timeStart", stage' = "time",
             NEW k \in start..start + Len(datestr),
             \A b \in start..k - 1 : ByteAt(datestr, b) = " ", i' = k
      PROVE  Advance
  <2>1. start \in Nat /\ start <= Len(datestr) + 2
    <3>1. stage = "coalesce"
      BY <1>1
    <3>2. i <= Len(datestr) + 1
      BY <1>5, <3>1 DEF Kept, IndexInv
    <3>3. i + 1 \in Nat /\ i + 1 <= Len(datestr) + 2
      BY <1>2, <3>2
    <3>. QED
      BY <1>2, <3>3
  <2> HIDE DEF start
  <2>2. k \in Nat
    BY <1>2, <2>1
  <2>3. k <= Len(datestr) + 2
    <3>1. CASE k = start
      BY <2>1, <3>1
    <3>2. CASE k # start
      <4>1. k - 1 \in start..k - 1
        BY <1>2, <2>1, <3>2
      <4>2. ByteAt(datestr, k - 1) = " "
        BY <1>5, <4>1
      <4>3. k - 1 \in 0..Len(datestr) - 1
        BY <4>2 DEF ByteAt
      <4>. QED
        BY <1>2, <2>2, <4>3
    <3>. QED
      BY <3>1, <3>2
  <2>4. i' = k /\ stage' = "time" /\ UNCHANGED datestr /\ Kept(p')
    BY <1>1, <1>3, <1>5
  <2>5. i' \in 0..Len(datestr') + 2
    BY <1>2, <2>2, <2>3, <2>4
  <2>6. IndexInv'
    BY <2>4, <2>5 DEF IndexInv, ParserTypeOK, Kept, IsParser, Units
  <2>7. Rank(stage') < Rank(stage)
    <3>1. stage = "coalesce" /\ stage' = "time"
      BY <1>1, <2>4
    <3>. QED
      BY <3>1 DEF Rank
  <2>8. WentOn
    BY <2>4, <2>7, SameText DEF WentOn, Kept
  <2>. QED
    BY <2>6, <2>8 DEF Advance, Down
<1>. QED
  BY <1>1, <1>4, <1>5

\* The loops end at the end of the text.
LEMMA LoopEndsStep ==
  ASSUME TextLaws, IndexInv, DateEnds \/ TimeEnds
  PROVE  Advance
<1>1. /\ UNCHANGED <<i, datestr, p>>
      /\ \/ stage = "date" /\ stage' = "coalesce"
         \/ stage = "time" /\ stage' = "endtime"
  BY DEF DateEnds, TimeEnds
<1>2. IndexInv'
  BY <1>1 DEF IndexInv, ParserTypeOK
<1>3. WentOn
  BY <1>1, SameText DEF WentOn, Rank
<1>. QED
  BY <1>2, <1>3 DEF Advance, Down

\* Whatever the last field is, a parser is left.
LEMMA LastFieldParser ==
  ASSUME Kept(p)
  PROVE  Kept(LastField)
<1>1. \A k, v : /\ Kept(Set(p, k, v)) /\ Kept(YearEnds(p, k)) /\ Kept(SetZone(p, k, v))
                /\ Kept(Cut(Set(p, k, v), LenFrom(1))) /\ Kept(TrimExtra(p))
  BY WrittenParser
<1>2. \A k : Kept([p EXCEPT !.mslen = k]) /\ Kept([p EXCEPT !.tzlen = k])
  BY DEF Kept, IsParser
<1>3. \A k, v : Kept(SetZone([p EXCEPT !.tzlen = k], k, v))
  BY <1>2, WrittenParser
<1>4. /\ Kept(Set(p, p.tzi, "MST")) /\ Kept(Cut(Set(p, p.tzi, "MST"), LenFrom(1)))
      /\ Kept(Set(p, p.offseti, IF i - p.offseti < 4 THEN "-07" ELSE "-0700"))
      /\ \A v : Kept(Set(p, p.offseti, v))
      /\ Kept(SetZone(p, LenFrom(p.tzi), "MST "))
      /\ Kept(SetZone([p EXCEPT !.tzlen = i - p.tzi], i - p.tzi, "MST "))
      /\ Kept(YearEnds(p, i)) /\ Kept(TrimExtra(p))
      /\ Kept([p EXCEPT !.mslen = i - p.msi])
  BY <1>1, <1>2, <1>3
<1>. QED
  BY <1>4 DEF LastField

\* The time ends.
LEMMA TimeDoneStep ==
  ASSUME TextLaws, IndexInv, TimeDone
  PROVE  Advance
<1>1. \/ Fail
      \/ p' = CoalesceTime(LastField, i) /\ stage' = "end" /\ UNCHANGED <<datestr, i>>
  BY DEF TimeDone
<1>2. Kept(p) /\ Kept(CoalesceTime(LastField, i))
  BY LastFieldParser, WrittenParser DEF Kept, IndexInv
<1>3. stage = "endtime" /\ Rank("end") < Rank("endtime")
  BY DEF TimeDone, Rank
<1>. QED
  BY <1>1, <1>2, <1>3, EndsFit, PartFails

\* parseTime ends.
LEMMA EndStep ==
  ASSUME TextLaws, IndexInv, End
  PROVE  Advance
<1>1. Kept(p)
  BY DEF Kept, IndexInv
<1>2. ASSUME NEW q, Kept(q), Found(q) PROVE Advance
  <2>1. stage = "end"
    BY DEF End, EndDigits, EndOffset, EndField, EndFixed, EndComplete, EndUnknown, Ends
  <2>2. Rank("found") < Rank(stage)
    BY <2>1 DEF Rank
  <2>. QED
    BY <1>2, <2>2, EndsFit DEF Found
<1>3. CASE Fail
  <2>1. stage = "end"
    BY DEF End, EndDigits, EndOffset, EndField, EndFixed, EndComplete, EndUnknown, Ends
  <2>. QED
    BY <1>3, <2>1, PartFails
<1>4. CASE EndDigits
  <2> DEFINE unit == StampUnit(Len(datestr))
             layout == DigitLayout(Len(datestr))
  <2>1. \/ Found([p EXCEPT !.t = unit]) \/ Found([p EXCEPT !.format = layout]) \/ Fail
    BY <1>4 DEF EndDigits
  <2>2. unit \in Units
    BY DEF StampUnit, Units
  <2> HIDE DEF unit, layout
  <2>3. Kept([p EXCEPT !.t = unit]) /\ Kept([p EXCEPT !.format = layout])
    BY <1>1, <2>2 DEF Kept, IsParser
  <2>. QED
    BY <1>2, <1>3, <2>1, <2>3
<1>5. CASE EndOffset
  BY <1>1, <1>2, <1>5, WrittenParser DEF EndOffset
<1>6. CASE EndField
  <2>1. Kept(DayMonthYear(Len(datestr)))
    <3>1. \A b : Kept([p EXCEPT !.ambiguousMD = b])
      BY <1>1 DEF Kept, IsParser
    <3>2. \A b : Kept(YearEnds([p EXCEPT !.ambiguousMD = b], Len(datestr)))
      BY <3>1, WrittenParser
    <3>3. \A q : Kept(q) => Kept([q EXCEPT !.dayi = 0, !.daylen = p.part1Len])
      BY DEF Kept, IsParser
    <3>4. \A b : Kept(SetDay([YearEnds([p EXCEPT !.ambiguousMD = b], Len(datestr))
                                    EXCEPT !.dayi = 0, !.daylen = p.part1Len]))
      BY <3>2, <3>3, WrittenParser
    <3>. QED
      BY <1>1, <3>4 DEF DayMonthYear
  <2>2. \A k : Kept(DayEnds(p, k)) /\ Kept(MonthEnds(p, k)) /\ Kept(YearEnds(p, k))
    BY <1>1, WrittenParser
  <2>. QED
    BY <1>2, <1>6, <2>1, <2>2 DEF EndField
<1>7. CASE EndFixed
  <2> DEFINE layout == FixedLayout
  <2>1. Kept([p EXCEPT !.format = layout])
    BY <1>1 DEF Kept, IsParser
  <2>. QED
    BY <1>2, <1>7, <2>1 DEF EndFixed
<1>8. CASE EndComplete
  BY <1>1, <1>2, <1>8 DEF EndComplete
<1>9. CASE EndUnknown
  BY <1>3, <1>9 DEF EndUnknown
<1>. QED
  BY <1>4, <1>5, <1>6, <1>7, <1>8, <1>9 DEF End

\* The function of the package returns, or calls parseTime once more.
LEMMA ReturnStep ==
  ASSUME TextLaws, TextLaws', IndexInv, RetryWithSwap \/ Return
  PROVE  Advance
<1>1. CASE RetryWithSwap
  BY <1>1, RestartAdvances DEF RetryWithSwap, Swap
<1>2. CASE Return
  <2> DEFINE layout == Layout(p)
  <2>1. p' = [p EXCEPT !.format = layout] /\ stage' = Outcome /\ UNCHANGED <<datestr, i>>
    BY <1>2 DEF Return
  <2>2. Outcome \in {"error", "ambiguous", "parsed"}
    BY DEF Outcome
  <2> HIDE DEF layout
  <2>3. IndexInv'
    BY <2>1, <2>2 DEF IndexInv, ParserTypeOK, Kept, IsParser, Units
  <2>4. Rank(stage') < Rank(stage)
    BY <1>2, <2>1, <2>2 DEF Return, Rank
  <2>5. p'.retryAmbiguousDateWithSwap = p.retryAmbiguousDateWithSwap
    BY <2>1
  <2>. QED
    BY <2>1, <2>3, <2>4, <2>5, SameText DEF Advance, Down, WentOn
<1>. QED
  BY <1>1, <1>2

\* Every step of parseTime keeps the index within the text and the parser a parser, and
\* leaves it less to do.
LEMMA ParseStep ==
  ASSUME TextLaws, TextLaws', IndexInv, parseTime
  PROVE  Advance
<1>1. CASE DateLoop
  BY <1>1, DateStep
<1>2. CASE TimeLoop
  BY <1>2, TimeStartStep, TimeZoneStep, TimeFractionStep DEF TimeLoop
<1>. QED
  BY <1>1, <1>2, CoalesceStep, LoopEndsStep, TimeDoneStep, EndStep, ReturnStep DEF parseTime

(***************************************************************************)
(* The invariant                                                           *)
(***************************************************************************)

\* The clock goes on.
ClockInv == now \in 0..MaxNow /\ started \in 0..now

\* CalculateOffset keeps to its argument.
CallInv ==
  /\ pc \in {"ready", "parse", "use", "compare", "sub", "number", "done"}
  /\ call \in Args \cup Calls
  /\ pc \in {"parse", "compare", "sub", "number"} => call \in Args
  /\ pc = "use" => call \in Calls

\* Before it ends there is no result, and it is past the parser only with what it read.
ReadInv ==
  /\ pc # "done" => res = 0 /\ err = FALSE
  /\ pc \in {"compare", "sub"} => call.unit = "absolute" \/ LooksLikeDate(call)
  /\ pc \in {"compare", "sub"} /\ call.unit = "absolute" => t = call.value
  /\ pc \in {"parse", "number"} => call.text \notin NoShift
  /\ pc = "number" => call.unit # "absolute"

\* A time without a fraction is never taken for one after the clock's fraction.
SignInv ==
  /\ inverted \in BOOLEAN
  /\ pc = "sub" /\ call.unit = "absolute" => inverted = FALSE

OffsetInv == ClockInv /\ CallInv /\ ReadInv /\ OffsetExact

ShownInv == SignInv /\ AbsoluteTimeShown

\* What is computed has its type.
ValueInv == {inverted, err} \subseteq BOOLEAN /\ t \in Int /\ res \in Duration

TypeInv == ClockInv /\ CallInv /\ ValueInv /\ IndexInv

(***************************************************************************)
(* The steps of CalculateOffset                                            *)
(***************************************************************************)

\* At the start nothing was asked for.
LEMMA InitOffsetInv == Init => OffsetInv /\ ShownInv
<1> SUFFICES ASSUME Init PROVE OffsetInv /\ ShownInv
  OBVIOUS
<1>1. call \in Args
  BY ArgAssumption DEF Init
<1>2. /\ pc = "ready" /\ now \in 0..MaxNow /\ started = now
      /\ inverted = FALSE /\ res = 0 /\ err = FALSE
  BY DEF Init
<1>3. ClockInv
  BY <1>2, DurationAssumption DEF ClockInv
<1>. QED
  BY <1>1, <1>2, <1>3
  DEF OffsetInv, CallInv, ReadInv, OffsetExact, ShownInv, SignInv, AbsoluteTimeShown

\* Every step keeps to the argument, and its offset is exact.
LEMMA OffsetStep ==
  ASSUME OffsetInv, TextRead, [Next]_vars
  PROVE  OffsetInv'
<1> USE DEF OffsetInv, ClockInv, CallInv, ReadInv, offsetVars, parserVars
<1>1. ASSUME NEW a \in Args, Ask(a) PROVE OffsetInv'
  <2>1. CASE a.text \in NoShift
    <3>1. /\ pc' = "done" /\ call' = a /\ UNCHANGED <<now, started, t, inverted, res, err>>
          /\ pc = "ready"
      BY <1>1, <2>1 DEF Ask
    <3>2. a.number = 0 /\ a.unit = "s"
      BY <2>1, OffsetAssumption
    <3>3. 0 * Second = 0
      BY DurationAssumption
    <3>. QED
      BY <3>1, <3>2, <3>3 DEF OffsetExact, Meaning
  <2>2. CASE a.text \notin NoShift
    <3>1. /\ pc' = "parse" /\ call' = a /\ UNCHANGED <<now, started, t, inverted, res, err>>
          /\ pc = "ready"
      BY <1>1, <2>2 DEF Ask, Start
    <3>. QED
      BY <2>2, <3>1 DEF OffsetExact
  <2>. QED
    BY <2>1, <2>2
<1>2. ASSUME NEW a \in Calls, Use(a) PROVE OffsetInv'
  BY <1>2 DEF Use, Start, OffsetExact
<1>3. CASE Parse
  BY <1>3, ParseKeepsCall DEF Parse, OffsetExact
<1>4. CASE Parsed
  <2>1. /\ pc \in {"parse", "use"} /\ Returned /\ UNCHANGED <<call, now, started, res, err>>
        /\ pc = "use" => pc' = "done"
        /\ pc = "parse" => pc' = IF stage = "parsed" THEN "compare" ELSE "number"
        /\ stage = "parsed" => t' = TimeOf(call)
    BY <1>4 DEF Parsed
  <2>2. CASE pc = "use"
    <3>1. call \notin Args
      BY <2>2, ArgAssumption
    <3>. QED
      BY <2>1, <2>2, <3>1 DEF OffsetExact
  <2>3. CASE pc = "parse"
    <3>1. /\ stage = "parsed" <=> call.unit = "absolute" \/ LooksLikeDate(call)
          /\ call.unit = "absolute" => TimeOf(call) = call.value
      BY <2>1, <2>3 DEF TextRead
    <3>. QED
      BY <2>1, <2>3, <3>1 DEF OffsetExact
  <2>. QED
    BY <2>1, <2>2, <2>3
<1>5. CASE Compare
  BY <1>5 DEF Compare, OffsetExact
<1>6. CASE Sub
  BY <1>6 DEF Sub, OffsetExact
<1>7. CASE Number
  <2> DEFINE last == Len(call.text) - 1
             letter == ByteAt(call.text, last)
  <2>1. /\ pc = "number" /\ pc' = "done" /\ UNCHANGED <<now, started, call>>
        /\ call \in Args /\ call.text \notin NoShift
    BY <1>7 DEF Number
  <2>2. \/ res' = Wrapped(call.number * UnitOf(letter)) /\ err' = FALSE
        \/ ~AtoiOk(call.text) /\ ~AtoiOk(Upto(call.text, last)) /\ res' = 0 /\ err' = TRUE
    BY <1>7 DEF Number
  <2> SUFFICES ASSUME call.unit \in {"s", "m", "h", "d", "y"},
                      call.number * Meaning(call.unit) \in Duration
               PROVE  err' = FALSE /\ res' = call.number * Meaning(call.unit)
    BY <2>1 DEF OffsetExact
  <2>3. AtoiOk(call.text) \/ AtoiOk(Upto(call.text, last))
    BY <2>1, OffsetAssumption
  <2>4. UnitOf(letter) = Meaning(call.unit)
    BY <2>1, UnitMeaning
  <2>5. call.number * UnitOf(letter) \in Int
    <3>1. call.number \in Int /\ UnitOf(letter) \in Nat
      BY <2>1, ArgAssumption, UnitNatural
    <3>. QED
      BY <3>1
  <2>6. Wrapped(call.number * UnitOf(letter)) = call.number * Meaning(call.unit)
    BY <2>4, <2>5, WrappedDuration
  <2>. QED
    BY <2>2, <2>3, <2>6
<1>8. CASE Tick
  <2>1. /\ pc \in {"compare", "sub"} /\ now < MaxNow /\ now' = now + 1
        /\ UNCHANGED <<pc, started, t, res, err, call>>
    BY <1>8 DEF Tick
  <2>2. ClockInv'
    BY <2>1, DurationAssumption
  <2>. QED
    BY <2>1, <2>2 DEF OffsetExact
<1>9. CASE UNCHANGED vars
  BY <1>9 DEF vars, OffsetExact
<1>. QED
  BY <1>1, <1>2, <1>3, <1>4, <1>5, <1>6, <1>7, <1>8, <1>9 DEF Next

\* An absolute time in whole seconds is shown at the second reading of the clock.
LEMMA ShownStep ==
  ASSUME WholeSeconds, OffsetInv, ShownInv, TextRead, [Next]_vars
  PROVE  ShownInv'
<1> USE DEF ShownInv, SignInv, parserVars, offsetVars
<1>1. ASSUME NEW a \in Args, Ask(a) PROVE ShownInv'
  <2>1. a.text \in NoShift => a.unit = "s"
    BY OffsetAssumption
  <2>. QED
    BY <1>1, <2>1 DEF Ask, Start, AbsoluteTimeShown
<1>2. ASSUME NEW a \in Calls, Use(a) PROVE ShownInv'
  BY <1>2 DEF Use, AbsoluteTimeShown
<1>3. CASE Parse
  BY <1>3 DEF Parse, AbsoluteTimeShown
<1>4. CASE Parsed
  <2>1. /\ pc \in {"parse", "use"} /\ UNCHANGED <<call, inverted>> /\ pc' # "sub"
        /\ pc' = "done" => pc = "use"
    BY <1>4 DEF Parsed
  <2>2. pc = "use" => call \notin Args
    BY ArgAssumption DEF OffsetInv, CallInv
  <2>. QED
    BY <2>1, <2>2 DEF AbsoluteTimeShown
<1>5. CASE Compare
  <2>1. call \in Args /\ now \in Nat /\ (call.unit = "absolute" => t = call.value)
    BY <1>5 DEF Compare, OffsetInv, CallInv, ReadInv, ClockInv
  <2>2. call.unit = "absolute" => Nanosecond(t) = 0 /\ Nanosecond(now) \in Nat
    BY <2>1, DurationAssumption DEF WholeSeconds, Nanosecond
  <2>3. Inverted \in BOOLEAN /\ (call.unit = "absolute" => Inverted = FALSE)
    BY <2>2 DEF Inverted
  <2>4. pc' = "sub" /\ inverted' = Inverted /\ call' = call
    BY <1>5 DEF Compare
  <2>. QED
    BY <2>3, <2>4 DEF AbsoluteTimeShown
<1>6. CASE Sub
  <2>1. /\ pc' = "done" /\ UNCHANGED <<now, started, call, inverted, err>>
        /\ res' = Saturated(IF inverted THEN now - t ELSE t - now)
    BY <1>6 DEF Sub
  <2>2. /\ err = FALSE /\ now \in started..now
        /\ call.unit = "absolute" => inverted = FALSE /\ t = call.value
    BY <1>6 DEF Sub, OffsetInv, ReadInv, ClockInv
  <2>. QED
    BY <2>1, <2>2 DEF AbsoluteTimeShown
<1>7. CASE Number
  <2>1. pc' = "done" /\ call' = call /\ call.unit # "absolute" /\ inverted' = inverted
    BY <1>7 DEF Number, OffsetInv, ReadInv
  <2>. QED
    BY <2>1 DEF AbsoluteTimeShown
<1>8. CASE Tick
  BY <1>8 DEF Tick, AbsoluteTimeShown
<1>9. CASE UNCHANGED vars
  BY <1>9 DEF vars, AbsoluteTimeShown
<1>. QED
  BY <1>1, <1>2, <1>3, <1>4, <1>5, <1>6, <1>7, <1>8, <1>9 DEF Next

\* No text has been given to parseTime at the start.
LEMMA InitTypeInv == Init /\ TextLaws => TypeInv
<1> SUFFICES ASSUME Init, TextLaws PROVE TypeInv
  OBVIOUS
<1>1. ClockInv /\ CallInv
  BY InitOffsetInv DEF OffsetInv
<1>2. ValueInv
  <2>1. t = 0 /\ inverted = FALSE /\ res = 0 /\ err = FALSE
    BY DEF Init
  <2>2. 0 \in Duration
    BY HalfPositive
  <2>3. inverted \in BOOLEAN /\ err \in BOOLEAN
    BY <2>1
  <2>. QED
    BY <2>1, <2>2, <2>3 DEF ValueInv
<1>3. IndexInv
  <2>1. stage = "idle" /\ i = 0 /\ p = newParser("", TRUE, FALSE) /\ Len(datestr) \in Nat
    BY DEF Init, ParserInit, None, TextLaws
  <2>2. IsParser(newParser("", TRUE, FALSE))
    BY DEF newParser, IsParser, Units
  <2>3. IsParser(p)
    BY <2>1, <2>2
  <2>4. 0 \in 0..Len(datestr) + 2
    BY DEF TextLaws
  <2>. QED
    BY <2>1, <2>3, <2>4 DEF IndexInv, ParserTypeOK, IsParser, Units
<1>. QED
  BY <1>1, <1>2, <1>3 DEF TypeInv

\* Whatever has been parsed is a number of nanoseconds.
LEMMA TimeNumber ==
  ASSUME call \in Args \cup Calls, IsParser(p)
  PROVE  TimeOf(call) \in Int
<1>1. call.number \in Int /\ call.value \in Int
  BY ArgAssumption
<1>2. \A k \in Nat : call.number * k \in Int
  BY <1>1
<1>3. Second \in Nat /\ Millisecond \in Nat /\ Microsecond \in Nat
  BY DurationAssumption
<1>4. /\ call.number * Second \in Int /\ call.number * Millisecond \in Int
      /\ call.number * Microsecond \in Int
  BY <1>2, <1>3
<1>. QED
  BY <1>1, <1>4 DEF TimeOf, IsParser, Units

\* Every step keeps the types.
LEMMA TypeStep ==
  ASSUME TextLaws, TextLaws', TypeInv, [Next]_vars
  PROVE  TypeInv'
<1> USE DEF TypeInv, ClockInv, CallInv, ValueInv, offsetVars, parserVars
<1>1. ASSUME UNCHANGED parserVars PROVE IndexInv'
  BY <1>1 DEF IndexInv, ParserTypeOK, IsParser, Units
<1>2. ASSUME NEW a \in Args \cup Calls, Start(a) PROVE IndexInv'
  BY <1>2, NewParserFits DEF Start
<1>3. ASSUME NEW a \in Args, Ask(a) PROVE TypeInv'
  <2>1. IndexInv'
    <3>1. CASE a.text \in NoShift
      BY <1>3, <3>1 DEF Ask, IndexInv, ParserTypeOK, IsParser, Units
    <3>. QED
      BY <1>2, <1>3, <3>1 DEF Ask
  <2>. QED
    BY <1>3, <2>1 DEF Ask, Start
<1>4. ASSUME NEW a \in Calls, Use(a) PROVE TypeInv'
  BY <1>2, <1>4 DEF Use, Start
<1>5. CASE Parse
  BY <1>5, ParseStep, ParseKeepsCall DEF Parse, Advance
<1>6. CASE Parsed
  <2>1. TimeOf(call) \in Int
    BY TimeNumber DEF IndexInv
  <2>2. /\ pc' \in {"done", "compare", "number"} /\ pc \in {"parse", "use"}
        /\ pc = "use" => pc' = "done"
        /\ t' \in {TimeOf(call), 0} /\ UNCHANGED <<call, now, started, inverted, res, err>>
    BY <1>6 DEF Parsed
  <2>3. IndexInv'
    BY <1>6, NewParserFits DEF Parsed, None
  <2>. QED
    BY <2>1, <2>2, <2>3
<1>7. CASE Compare
  BY <1>1, <1>7 DEF Compare, Inverted
<1>8. CASE Sub
  <2>1. now - t \in Int /\ t - now \in Int
    BY DurationAssumption
  <2>2. res' \in Duration
    BY <1>8, <2>1, SaturatedDuration DEF Sub
  <2>. QED
    BY <1>1, <1>8, <2>2 DEF Sub
<1>9. CASE Number
  <2> DEFINE unit == UnitOf(ByteAt(call.text, Len(call.text) - 1))
             shift == call.number * unit
  <2>1. shift \in Int
    <3>1. call.number \in Int /\ unit \in Nat
      BY ArgAssumption, UnitNatural
    <3>. QED
      BY <3>1
  <2>2. /\ res' \in {Wrapped(shift), 0} /\ err' \in BOOLEAN
        /\ pc' = "done" /\ UNCHANGED <<call, now, started, t, inverted, parserVars>>
    BY <1>9 DEF Number
  <2> HIDE DEF shift
  <2>3. 0 \in Duration
    BY HalfPositive
  <2>4. res' \in Duration
    BY <2>1, <2>2, <2>3, WrappedDuration
  <2>. QED
    BY <1>1, <2>2, <2>4
<1>10. CASE Tick
  BY <1>1, <1>10, DurationAssumption DEF Tick
<1>11. CASE UNCHANGED vars
  BY <1>1, <1>11 DEF vars
<1>. QED
  BY <1>3, <1>4, <1>5, <1>6, <1>7, <1>8, <1>9, <1>10, <1>11 DEF Next

(***************************************************************************)
(* The descent                                                             *)
(***************************************************************************)

\* What parseTime has left: a retry, bytes, commas, parts, bytes before the index, and
\* the look at the first letter of a suffix.
Left ==
  <<IF p.retryAmbiguousDateWithSwap THEN 1 ELSE 0,
    Len(datestr),
    Cardinality(Commas),
    Rank(stage),
    Len(datestr) + 2 - i,
    IF p.stateDate = "dateAlphaWsMonthSuffix" THEN 0 ELSE 1>>

\* Six numbers in lexicographic order.
Shorter == LexProductOrdering(OpToRel(<, Nat), Nat, 6)

\* Every step of parseTime leaves it less to do.
ParseDescends == [][Parse => <<Left', Left>> \in Shorter]_vars

\* There is no endless descent in this order.
THEOREM ShorterIsWellFounded == IsWellFoundedOn(Shorter, [1..6 -> Nat])
  BY NatLessThanWellFounded, WFLexProductOrdering DEF Shorter

\* The first number that differs decides.
LEMMA FirstDecides ==
  ASSUME NEW new \in [1..6 -> Nat], NEW old \in [1..6 -> Nat], NEW j \in 1..6,
         new[j] < old[j], \A k \in 1..(j - 1) : new[k] = old[k]
  PROVE  <<new, old>> \in Shorter
<1> DEFINE Less == OpToRel(<, Nat)
<1>1. <<new[j], old[j]>> \in Less
  BY DEF OpToRel
<1> HIDE DEF Less
<1>. QED
  BY <1>1 DEF Shorter, LexProductOrdering, Less

\* What is left is counted by six numbers.
Counted ==
  /\ Left \in [1..6 -> Nat]
  /\ IsFiniteSet(Commas) /\ Len(datestr) \in Nat /\ i \in Nat

\* That is so as long as the index is near the text.
LEMMA LeftCounted ==
  ASSUME TextLaws, IndexInv
  PROVE  Counted
<1>1. Len(datestr) \in Nat /\ i \in 0..Len(datestr) + 2
  BY DEF TextLaws, IndexInv, ParserTypeOK
<1>2. Len(datestr) + 2 - i \in Nat /\ i \in Nat
  BY <1>1
<1>3. IsFiniteSet(Commas)
  <2>1. IsFiniteSet(0..Len(datestr) - 1)
    BY <1>1, FS_Interval
  <2>2. Commas \subseteq 0..Len(datestr) - 1
    BY DEF Commas
  <2>. QED
    BY <2>1, <2>2, FS_Subset
<1>4. Cardinality(Commas) \in Nat
  BY <1>3, FS_CardinalityType
<1>5. Rank(stage) \in Nat
  BY DEF Rank
<1> DEFINE a == IF p.retryAmbiguousDateWithSwap THEN 1 ELSE 0
           l == Len(datestr)
           c == Cardinality(Commas)
           k == Rank(stage)
           b == Len(datestr) + 2 - i
           f == IF p.stateDate = "dateAlphaWsMonthSuffix" THEN 0 ELSE 1
<1>6. a \in Nat /\ f \in Nat
  OBVIOUS
<1>7. Left = <<a, l, c, k, b, f>>
  BY DEF Left
<1>8. l \in Nat /\ c \in Nat /\ k \in Nat /\ b \in Nat
  BY <1>1, <1>2, <1>4, <1>5
<1> HIDE DEF a, l, c, k, b, f
<1>9. Left \in [1..6 -> Nat]
  BY <1>6, <1>7, <1>8
<1>. QED
  BY <1>1, <1>2, <1>3, <1>9 DEF Counted

\* A step that goes down leaves less.
LEMMA DownLeavesLess ==
  ASSUME Counted, Counted', Down
  PROVE  <<Left', Left>> \in Shorter
<1> DEFINE new == Left'
           old == Left
<1>1. new \in [1..6 -> Nat] /\ old \in [1..6 -> Nat]
  BY DEF Counted
<1>2. /\ new[1] = (IF p'.retryAmbiguousDateWithSwap THEN 1 ELSE 0)
      /\ old[1] = (IF p.retryAmbiguousDateWithSwap THEN 1 ELSE 0)
      /\ new[2] = Len(datestr') /\ old[2] = Len(datestr)
      /\ new[3] = Cardinality(Commas') /\ old[3] = Cardinality(Commas)
      /\ new[4] = Rank(stage') /\ old[4] = Rank(stage)
      /\ new[5] = Len(datestr') + 2 - i' /\ old[5] = Len(datestr) + 2 - i
      /\ new[6] = (IF p'.stateDate = "dateAlphaWsMonthSuffix" THEN 0 ELSE 1)
      /\ old[6] = (IF p.stateDate = "dateAlphaWsMonthSuffix" THEN 0 ELSE 1)
  BY DEF Left
<1> HIDE DEF new, old
<1>3. ASSUME NEW j \in 1..6, new[j] < old[j], \A k \in 1..(j - 1) : new[k] = old[k]
      PROVE  <<new, old>> \in Shorter
  BY <1>1, <1>3, FirstDecides
<1>4. CASE Retried
  <2>1. new[1] < old[1] /\ \A k \in 1..(1 - 1) : new[k] = old[k]
    BY <1>2, <1>4 DEF Retried
  <2>. QED
    BY <1>3, <2>1 DEF new, old
<1>5. CASE Shortened
  <2>1. new[1] < old[1] \/ new[1] = old[1]
    BY <1>2, <1>5 DEF Shortened
  <2>2. new[2] < old[2]
    BY <1>2, <1>5 DEF Shortened
  <2>3. CASE new[1] < old[1]
    <3>1. \A k \in 1..(1 - 1) : new[k] = old[k]
      OBVIOUS
    <3>. QED
      BY <1>3, <2>3, <3>1 DEF new, old
  <2>4. CASE new[1] = old[1]
    <3>1. \A k \in 1..(2 - 1) : new[k] = old[k]
      BY <2>4
    <3>. QED
      BY <1>3, <2>2, <3>1 DEF new, old
  <2>. QED
    BY <2>1, <2>3, <2>4
<1>6. ASSUME CommaGone \/ WentOn PROVE new[1] = old[1] /\ new[2] = old[2]
  BY <1>2, <1>6 DEF CommaGone, WentOn
<1>7. CASE CommaGone
  <2>1. PICK k \in Commas : Commas' = Commas \ {k}
    BY <1>7 DEF CommaGone
  <2>2. /\ Cardinality(Commas \ {k}) = Cardinality(Commas) - 1
        /\ Cardinality(Commas) \in Nat
    BY FS_RemoveElement, FS_CardinalityType DEF Counted
  <2>3. new[3] < old[3]
    BY <1>2, <2>1, <2>2
  <2>4. \A n \in 1..(3 - 1) : new[n] = old[n]
    BY <1>6, <1>7
  <2>. QED
    BY <1>3, <2>3, <2>4 DEF new, old
<1>8. CASE WentOn
  <2>1. new[1] = old[1] /\ new[2] = old[2] /\ new[3] = old[3]
    BY <1>2, <1>6, <1>8 DEF WentOn
  <2>2. CASE Rank(stage') < Rank(stage)
    <3>1. new[4] < old[4] /\ \A n \in 1..(4 - 1) : new[n] = old[n]
      BY <1>2, <2>1, <2>2
    <3>. QED
      BY <1>3, <3>1 DEF new, old
  <2>3. ASSUME stage' = stage PROVE \A n \in 1..(5 - 1) : new[n] = old[n]
    <3>1. new[4] = old[4]
      BY <1>2, <2>3
    <3>. QED
      BY <2>1, <3>1
  <2>4. CASE stage' = stage /\ i' > i
    <3>1. i \in Nat /\ i' \in Nat /\ Len(datestr) \in Nat /\ Len(datestr') = Len(datestr)
      BY <1>8 DEF WentOn, Counted
    <3>2. new[5] < old[5]
      BY <1>2, <2>4, <3>1
    <3>. QED
      BY <1>3, <2>3, <2>4, <3>2 DEF new, old
  <2>5. CASE /\ stage' = stage /\ i' = i
             /\ p.stateDate # "dateAlphaWsMonthSuffix"
             /\ p'.stateDate = "dateAlphaWsMonthSuffix"
    <3>1. new[6] < old[6]
      BY <1>2, <2>5
    <3>2. Len(datestr') = Len(datestr)
      BY <1>8 DEF WentOn
    <3>3. new[5] = old[5]
      BY <1>2, <2>5, <3>2
    <3>4. \A n \in 1..(6 - 1) : new[n] = old[n]
      BY <2>3, <2>5, <3>3
    <3>. QED
      BY <1>3, <3>1, <3>4 DEF new, old
  <2>. QED
    BY <1>8, <2>2, <2>4, <2>5 DEF WentOn
<1>. QED
  BY <1>4, <1>5, <1>7, <1>8 DEF Down

(***************************************************************************)
(* Theorems                                                                *)
(***************************************************************************)

\* If parseTime takes no other offset for a date than a bare number that is written like
\* one, CalculateOffset returns every other offset exactly, provided its product with the
\* unit fits in a Duration.
THEOREM OffsetsExact == Spec /\ []TextRead => []OffsetExact
<1>1. OffsetInv /\ TextRead /\ [Next]_vars => OffsetInv'
  BY OffsetStep
<1>2. Init => OffsetInv
  BY InitOffsetInv
<1>3. OffsetInv => OffsetExact
  BY DEF OffsetInv
<1>. QED
  BY <1>1, <1>2, <1>3, PTL DEF Spec

\* If parseTime reads an absolute time in whole seconds right, its shift is right for
\* an instant of the call, however the clock runs between its two readings.
THEOREM TimeShown ==
  ASSUME WholeSeconds
  PROVE  Spec /\ []TextRead => []AbsoluteTimeShown
<1>1. (OffsetInv /\ ShownInv) /\ TextRead /\ [Next]_vars => (OffsetInv /\ ShownInv)'
  BY OffsetStep, ShownStep
<1>2. Init => OffsetInv /\ ShownInv
  BY InitOffsetInv
<1>3. OffsetInv /\ ShownInv => AbsoluteTimeShown
  BY DEF ShownInv
<1>. QED
  BY <1>1, <1>2, <1>3, PTL DEF Spec

\* Whatever text parseTime is given, its index stays within two of the end of the text,
\* through every case of both switches and every restart; and the result of
\* CalculateOffset is a Duration.
THEOREM TypeCorrect == Spec /\ []TextLaws => []TypeOK
<1>1. TypeInv /\ TextLaws /\ TextLaws' /\ [Next]_vars => TypeInv'
  BY TypeStep
<1>2. Init /\ TextLaws => TypeInv
  BY InitTypeInv
<1>3. TypeInv => TypeOK
  BY DEF TypeInv, TypeOK, ClockInv, CallInv, ValueInv, IndexInv
<1>. QED
  BY <1>1, <1>2, <1>3, PTL DEF Spec

\* Whatever text parseTime is given, every step of it, a call of itself with another text
\* included, goes down in a well-founded order: it cannot go round in its switches or in
\* its calls of itself for ever.
THEOREM ParseAdvances == Spec /\ []TextLaws => ParseDescends
<1>1. TypeInv /\ TextLaws /\ TextLaws' /\ [Next]_vars => TypeInv'
  BY TypeStep
<1>2. Init /\ TextLaws => TypeInv
  BY InitTypeInv
<1>3. TypeInv /\ TextLaws => Counted
  BY LeftCounted DEF TypeInv
<1>4. TypeInv /\ TextLaws /\ Counted /\ TextLaws' /\ Counted' /\ [Next]_vars
      => [Parse => <<Left', Left>> \in Shorter]_vars
  <2> SUFFICES ASSUME TypeInv, TextLaws, Counted, TextLaws', Counted', Parse
               PROVE  <<Left', Left>> \in Shorter
    OBVIOUS
  <2>1. IndexInv /\ parseTime
    BY DEF TypeInv, Parse
  <2>2. Down
    BY <2>1, ParseStep DEF Advance
  <2>. QED
    BY <2>2, DownLeavesLess
<1>. QED
  BY <1>1, <1>2, <1>3, <1>4, PTL DEF Spec, ParseDescends
=============================================================================
