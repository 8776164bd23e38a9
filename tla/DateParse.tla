------------------------------ MODULE DateParse ------------------------------
(***************************************************************************)
(* parseTime of date_parse.go: it reads a text from left to right, guesses *)
(* its date format and overlays the text with the layout that time.Parse   *)
(* wants.  Every case of its switches over stateDate and stateTime is an   *)
(* action, which handles one rune.                                         *)
(*                                                                         *)
(* Texts and layouts are strings, indexed from 0 as in the code.  A rune   *)
(* of three bytes is one character followed by two "~": "@~~" stands for   *)
(* the Chinese year sign, "_~~" for the minus sign U+2212.  A parser has   *)
(* the fields of the Go struct; p.datestr is cut together with p.format    *)
(* and is not kept.                                                        *)
(***************************************************************************)
EXTENDS Integers, Sequences

VARIABLES
  call,      \* the call of the package: its text and its options, and how
             \* time.Parse (no part of the repository) reads the text
  datestr,   \* the text, as parseTime has changed it
  i,         \* index of the byte that is looked at
  p,         \* the parser
  stage      \* control of parseTime

parserVars == <<call, datestr, i, p, stage>>

Upto(s, k) == SubSeq(s, 1, k)
From(s, k) == SubSeq(s, k + 1, Len(s))
ByteAt(s, k) == IF k \in 0..Len(s) - 1 THEN SubSeq(s, k + 1, k + 1) ELSE ""

Digits == {"0", "1", "2", "3", "4", "5", "6", "7", "8", "9"}
IsDigit(c) == c \in Digits
IsLetter(c) ==
  c \notin Digits \cup {" ", "-", "+", "/", ":", ".", ",", "'", "(", ")", "=", "_", "~"}

\* Mutant of ParseIntOk: the error is ignored.
ParseIntAlways(s) == TRUE

\* strconv.ParseInt fails on anything but digits.
ParseIntOk(s) == \A k \in 1..Len(s) : IsDigit(SubSeq(s, k, k))

\* Names of days and months, in the letter cases of the texts.
days == {"Mon", "Tue", "Fri", "mon"}
months == {"January", "April", "June", "September"}

newParser(text, prefer, retry) ==
  [preferMonthFirst |-> prefer, retryAmbiguousDateWithSwap |-> retry,
   ambiguousMD |-> FALSE, stateDate |-> "dateStart", stateTime |-> "timeIgnore",
   format |-> text, fullMonth |-> "", skip |-> 0, extra |-> 0, part1Len |-> 0,
   yeari |-> 0, yearlen |-> 0, moi |-> 0, molen |-> 0, dayi |-> 0, daylen |-> 0,
   houri |-> 0, hourlen |-> 0, mini |-> 0, minlen |-> 0, seci |-> 0, seclen |-> 0,
   msi |-> 0, mslen |-> 0, offseti |-> 0, tzi |-> 0, tzlen |-> 0, t |-> "nil"]

(***************************************************************************)
(* The methods of parser that write the layout                             *)
(***************************************************************************)

Set(q, start, val) ==
  IF start < 0 \/ Len(q.format) < start + Len(val) THEN q
  ELSE [q EXCEPT !.format = Upto(@, start) \o val \o From(@, start + Len(val))]

\* A field of one or two digits (of two or four for the year); others are left.
SetEither(q, start, len, two, one) ==
  CASE len = 2 -> Set(q, start, two)
    [] len = 1 -> Set(q, start, one)
    [] OTHER -> q

SetMonth(q) == SetEither(q, q.moi, q.molen, "01", "1")
SetDay(q) == SetEither(q, q.dayi, q.daylen, "02", "2")

SetYear(q) ==
  CASE q.yearlen = 2 -> Set(q, q.yeari, "06")
    [] q.yearlen = 4 -> Set(q, q.yeari, "2006")
    [] OTHER -> q

\* The field that began at dayi (moi, yeari) ends before k.
DayEnds(q, k) == SetDay([q EXCEPT !.daylen = k - q.dayi])
MonthEnds(q, k) == SetMonth([q EXCEPT !.molen = k - q.moi])
YearEnds(q, k) == SetYear([q EXCEPT !.yearlen = k - q.yeari])

CoalesceDate(q, end) ==
  LET y == IF q.yeari <= 0 THEN q
           ELSE IF q.yearlen = 0 THEN YearEnds(q, end) ELSE SetYear(q)
      m == IF y.moi > 0 /\ y.molen = 0 THEN MonthEnds(y, end) ELSE y
  IN IF m.dayi > 0 /\ m.daylen = 0 THEN DayEnds(m, end) ELSE m

LenOr(len, begin, end) == IF begin > 0 /\ len = 0 THEN end - begin ELSE len

CoalesceTime(q, end) ==
  LET l == [q EXCEPT !.minlen = LenOr(@, q.mini, end), !.seclen = LenOr(@, q.seci, end)]
      h == IF l.houri > 0 THEN SetEither(l, l.houri, l.hourlen, "15", "3") ELSE l
      m == IF l.mini > 0 THEN Set(h, l.mini, IF l.minlen = 2 THEN "04" ELSE "4") ELSE h
      s == IF l.seci > 0 THEN Set(m, l.seci, IF l.seclen = 2 THEN "05" ELSE "5") ELSE m
  IN IF l.msi > 0 THEN Set(s, l.msi, Upto("000000000", l.mslen)) ELSE s

\* MST over a zone of three letters; a fourth letter belongs to no layout.
SetZone(q, len, four) ==
  CASE len = 3 -> Set(q, q.tzi, "MST") [] len = 4 -> Set(q, q.tzi, four) [] OTHER -> q

TrimExtra(q) ==
  IF q.extra > 0 /\ Len(q.format) > q.extra THEN [q EXCEPT !.format = Upto(@, q.extra)]
  ELSE q


SetFullMonth(q) ==
  IF q.fullMonth # "" /\ q.moi = 0
    THEN [q EXCEPT !.format = "January" \o From(@, Len(q.fullMonth))]
    ELSE q

\* What parse does to the layout before it calls time.Parse.
Layout(q) ==
  LET f == SetFullMonth(q)
  IN IF f.skip > 0 /\ Len(f.format) > f.skip THEN From(f.format, f.skip) ELSE f.format

(***************************************************************************)
(* Control of parseTime                                                    *)
(***************************************************************************)

\* The parser of no call.
None == newParser("", TRUE, FALSE)

ParserInit == stage = "idle" /\ datestr = "" /\ i = 0 /\ p = None

Start(c) ==
  /\ stage = "idle"
  /\ call' = c /\ datestr' = c.text /\ i' = 0
  /\ p' = newParser(c.text, c.prefer, c.retry)
  /\ stage' = "date"

Reading(loop) == stage = loop /\ i < Len(datestr)

r == ByteAt(datestr, i)
\* The loop over the date moves i to the last byte of the rune.
at == IF ByteAt(datestr, i + 1) = "~" THEN i + 2 ELSE i
NextIs(k, c) == ByteAt(p.format, k + 1) # "" /\ ByteAt(datestr, k + 1) = c

In(s) == Reading("date") /\ p.stateDate = s
InTime(s) == Reading("time") /\ p.stateTime = s

\* The next turn of the loop looks at k.
Look(q, k) == p' = q /\ i' = k /\ UNCHANGED <<call, datestr, stage>>
Go(q) == Look(q, at + 1)
\* The loop ends with i = k.
Break(q, k) ==
  /\ p' = q /\ i' = k
  /\ stage' = IF stage = "date" THEN "coalesce" ELSE "endtime"
  /\ UNCHANGED <<call, datestr>>
\* parseTime calls itself with a changed text.
Restart(text, prefer, retry) ==
  /\ datestr' = text /\ i' = 0
  /\ p' = newParser(text, prefer, retry)
  /\ stage' = "date"
  /\ UNCHANGED call
RestartSame(text) ==
  Restart(text, p.preferMonthFirst, p.retryAmbiguousDateWithSwap)

Found(q) == p' = q /\ stage' = "found" /\ UNCHANGED <<call, datestr, i>>
Fail == stage' = "failed" /\ UNCHANGED <<call, datestr, i, p>>

To(s) == [p EXCEPT !.stateDate = s]
Timed(q) == [q EXCEPT !.stateTime = "timeStart"]

(***************************************************************************)
(* The switch over stateDate                                               *)
(***************************************************************************)

DateStart ==
  /\ In("dateStart")
  /\ \/ IsDigit(r) /\ Go(To("dateDigit"))
     \/ IsLetter(r) /\ Go(To("dateAlpha"))
     \/ ~IsDigit(r) /\ ~IsLetter(r) /\ Fail

\* The first part of the date ends here.
Mark(q) == Go([q EXCEPT !.part1Len = at])

\* A separator after two digits or less: a month or a day, whatever is preferred.
MonthFirst(q) == [MonthEnds(q, at) EXCEPT !.dayi = at + 1]
DayFirst(q) == [DayEnds(q, at) EXCEPT !.moi = at + 1]
Ambiguous(s) == [To(s) EXCEPT !.ambiguousMD = TRUE]
\* A separator after four digits: the year.
YearFirst(s) == [YearEnds(To(s), at) EXCEPT !.moi = at + 1]

DateDigitDash ==
  r \in {"-", "_"} /\
    Mark(IF at = 4 THEN Set([p EXCEPT !.stateDate = "dateYearDash", !.yeari = 0,
                                      !.yearlen = at, !.moi = at + 1], 0, "2006")
                   ELSE To("dateDigitDash"))

DateDigitSlash ==
  /\ r = "/"
  /\ \/ at = 4 /\ Mark(YearFirst("dateDigitYearSlash"))
     \/ /\ at # 4 /\ at + 2 < Len(datestr) /\ IsLetter(ByteAt(datestr, at + 1))
        /\ Go(SetDay([To("dateDigitSlashAlpha") EXCEPT !.moi = at + 1, !.daylen = 2,
                                                       !.dayi = 0]))
     \/ /\ at # 4 /\ ~(at + 2 < Len(datestr) /\ IsLetter(ByteAt(datestr, at + 1)))
        /\ Mark(IF p.preferMonthFirst THEN MonthFirst(Ambiguous("dateDigitSlash"))
                                      ELSE DayFirst(Ambiguous("dateDigitSlash")))

DateDigitColon ==
  /\ r = ":"
  /\ Mark(IF at = 4 THEN YearFirst("dateDigitColon")
          ELSE IF p.preferMonthFirst THEN MonthFirst(Ambiguous("dateDigitColon"))
          ELSE Ambiguous("dateDigitColon"))

DateDigitDot ==
  /\ r = "."
  /\ Mark(IF at = 4 THEN YearFirst("dateDigitDot")
                    ELSE MonthFirst(Ambiguous("dateDigitDot")))

DateDigitWs ==
  /\ r = " "
  /\ Mark(IF at = 6 THEN To("dateDigitSt")
                    ELSE [To("dateDigitWs") EXCEPT !.dayi = 0, !.daylen = at])

DateDigit ==
  /\ In("dateDigit")
  /\ \/ DateDigitDash
     \/ DateDigitSlash
     \/ DateDigitColon
     \/ DateDigitDot
     \/ DateDigitWs
     \/ r = "@" /\ Mark(To("dateDigitChineseYear"))
     \/ r = "," /\ Fail
     \/ r \notin {"-", "_", "/", ":", ".", " ", "@", ","} /\ Go(p)

DateDigitSt ==
  /\ In("dateDigitSt")
  /\ Break(Timed(Set(p, 0, "060102")), at - 1)

DateYearDash ==
  /\ In("dateYearDash")
  /\ \/ r = "-" /\ Go(MonthEnds([To("dateYearDashDash") EXCEPT !.dayi = at + 1], at))
     \/ r # "-" /\ Go(IF IsLetter(r) THEN To("dateYearDashAlphaDash") ELSE p)

DateYearDashDash ==
  /\ In("dateYearDashDash")
  /\ \/ r \in {"+", "-"} /\
          Go(DayEnds([To("dateYearDashDashOffset") EXCEPT !.offseti = at], at))
     \/ r = " " /\ Break(DayEnds(Timed(To("dateYearDashDashWs")), at), at)
     \/ r = "T" /\ Break(DayEnds(Timed(To("dateYearDashDashT")), at), at)
     \/ r \notin {"+", "-", " ", "T"} /\ Go(p)

DateYearDashDashOffset ==
  /\ In("dateYearDashDashOffset")
  /\ Go(IF r = ":" THEN Set(p, p.offseti, "-07:00") ELSE p)

DateYearDashAlphaDash ==
  /\ In("dateYearDashAlphaDash")
  /\ Go(IF r = "-" THEN [Set(p, p.moi, "Jan") EXCEPT !.molen = at - p.moi,
                                                     !.dayi = at + 1]
        ELSE p)

DateDigitDashSecond ==
  /\ In("dateDigitDash")
  /\ \/ IsLetter(r) /\ Go([To("dateDigitDashAlpha") EXCEPT !.moi = at])
     \/ ~IsLetter(r) /\ Fail

DateDigitDashAlpha ==
  /\ In("dateDigitDashAlpha")
  /\ Go(IF r = "-" THEN [Set(To("dateDigitDashAlphaDash"), p.moi, "Jan")
                           EXCEPT !.molen = at - p.moi, !.yeari = at + 1]
        ELSE p)

\* Mutant of DayMonthYear: a year of two digits is taken for a year.
DayMonthYearUnflagged(end) ==
  LET length == end - (p.moi + p.molen + 1)
  IN IF length \notin {2, 4} THEN p
     ELSE SetDay([YearEnds(p, end) EXCEPT !.dayi = 0, !.daylen = p.part1Len])

\* 29-Jun-2016, or 13-Feb-03 with day and year in an order to be guessed.
DayMonthYear(end) ==
  LET length == end - (p.moi + p.molen + 1)
      q == [p EXCEPT !.ambiguousMD = @ \/ length = 2]
  IN IF length \notin {2, 4} THEN p
     ELSE SetDay([YearEnds(q, end) EXCEPT !.dayi = 0, !.daylen = p.part1Len])

DateDigitDashAlphaDash ==
  /\ In("dateDigitDashAlphaDash")
  /\ \/ r = " " /\ Break(Timed(DayMonthYear(at)), at)
     \/ r # " " /\ Go(p)

DateDigitYearSlash ==
  /\ In("dateDigitYearSlash")
  /\ \/ r \in {" ", ":"} /\
          Break(Timed(IF p.daylen = 0 THEN DayEnds(p, at) ELSE p), at)
     \/ r = "/" /\ Go(IF p.molen = 0 THEN MonthFirst(p) ELSE p)
     \/ r \notin {" ", ":", "/"} /\ Go(p)

DateDigitSlashAlpha ==
  /\ In("dateDigitSlashAlpha")
  /\ \/ r = "/" /\ Go(IF p.molen = 0 THEN [Set(p, p.moi, "Jan") EXCEPT !.yeari = at + 1]
                                     ELSE p)
     \/ r \in {" ", ":"} /\
          Break(Timed(IF p.yearlen = 0 THEN YearEnds(p, at) ELSE p), at)
     \/ r \notin {" ", ":", "/"} /\ Go(p)

\* The second separator: the other one of month and day ends.
SecondPart ==
  CASE p.preferMonthFirst /\ p.daylen = 0 -> [DayEnds(p, at) EXCEPT !.yeari = at + 1]
    [] ~p.preferMonthFirst /\ p.molen = 0 -> [MonthEnds(p, at) EXCEPT !.yeari = at + 1]
    [] OTHER -> p

DateDigitSlashSecond ==
  /\ In("dateDigitSlash")
  /\ \/ r = "/" /\ Go(SecondPart)
     \/ r = " " /\ Break(Timed(IF p.yearlen = 0 THEN YearEnds(p, at) ELSE p), at)
     \/ r \notin {"/", " "} /\ Go(p)

DateDigitColonSecond ==
  /\ In("dateDigitColon")
  /\ \/ r = ":" /\ Go(CASE p.yearlen > 0 /\ p.molen = 0 -> MonthFirst(p)
                        [] p.yearlen <= 0 /\ p.preferMonthFirst -> SecondPart
                        [] OTHER -> p)
     \/ r = " " /\ Break(Timed(CASE p.yearlen = 0 -> YearEnds(p, at)
                                 [] p.yearlen # 0 /\ p.daylen = 0 -> DayEnds(p, at)
                                 [] OTHER -> p), at)
     \/ r \notin {":", " "} /\ Go(p)

\* Longer than a blank and three letters: the full name of a month.
DateDigitWsMonth ==
  /\ In("dateDigitWs")
  /\ \/ /\ r = " "
        /\ LET q == Timed(SetDay([p EXCEPT !.yeari = at + 1, !.dayi = 0,
                                           !.daylen = p.part1Len]))
               mo == q.daylen + 1
           IN Go(IF at > q.daylen + 4 THEN [q EXCEPT !.stateDate = "dateDigitWsMolong"]
                 ELSE Set([q EXCEPT !.stateDate = "dateDigitWsMoYear", !.moi = mo,
                                    !.molen = at - mo], mo, "Jan"))
     \/ r # " " /\ Go(p)

DateDigitWsMoYear ==
  /\ In("dateDigitWsMoYear")
  /\ \/ r = "," /\ Break(YearEnds(p, at), at + 1)
     \/ r = " " /\ Break(YearEnds(p, at), at)
     \/ r \notin {",", " "} /\ Go(p)

DateDigitChineseYear ==
  /\ In("dateDigitChineseYear")
  /\ Go(IF r = " " THEN To("dateDigitChineseYearWs") ELSE p)

\* The second dot: the year came first if moi is known.
DateDigitDotSecond ==
  /\ In("dateDigitDot")
  /\ Go(CASE r = "." /\ p.moi = 0 -> [DayEnds(To("dateDigitDotDot"), at)
                                        EXCEPT !.yeari = at + 1]
          [] r = "." /\ p.moi # 0 -> MonthFirst(To("dateDigitDotDot"))
          [] OTHER -> p)

\* States whose runes change nothing.
DateRest ==
  /\ Reading("date")
  /\ p.stateDate \in {"dateDigitWsMolong", "dateDigitDotDot"}
  /\ Go(p)

\* States without a case leave the loop.
DateDefault ==
  /\ Reading("date")
  /\ p.stateDate \in {"dateDigitChineseYearWs", "dateAlphaWsAlpha"}
  /\ Break(p, at)

(***************************************************************************)
(* Texts that begin with a letter                                          *)
(***************************************************************************)

\* A name and a blank: a full month, a day to be skipped, or a short name.
DateAlphaBlank ==
  LET name == Upto(datestr, at) IN
  /\ r = " "
  /\ \/ /\ at > 3 /\ name \in months
        /\ Go([To(IF Len(datestr) - at < 10 THEN "dateAlphaWsMonth" ELSE "dateAlphaWsMore")
                 EXCEPT !.fullMonth = name, !.dayi = at + 1])
     \/ at > 3 /\ name \notin months /\ Go(p)
     \/ at <= 3 /\ name \in days /\ Restart(From(datestr, at + 1), TRUE, FALSE)
     \/ at <= 3 /\ name \notin days /\ Go(To("dateAlphaWs"))

DateAlphaComma ==
  /\ r = ","
  /\ \/ at = 3 /\ Go(Set(To("dateWeekdayAbbrevComma"), 0, "Mon"))
     \/ at # 3 /\ Look([To("dateWeekdayComma") EXCEPT !.skip = at + 2], at + 2)

DateAlphaPeriod ==
  /\ r = "."
  /\ \/ at = 3 /\ Go(Set([To("dateAlphaPeriodWsDigit") EXCEPT !.molen = at], 0, "Jan"))
     \/ at = 4 /\ RestartSame(Upto(datestr, at - 1) \o From(datestr, at))
     \/ at \notin {3, 4} /\ Fail

DateAlpha ==
  /\ In("dateAlpha")
  /\ \/ DateAlphaBlank
     \/ DateAlphaComma
     \/ DateAlphaPeriod
     \/ r \notin {" ", ",", "."} /\ Go(p)

DateAlphaWs ==
  /\ In("dateAlphaWs")
  /\ \/ IsLetter(r) /\ Go(Set(Set(To("dateAlphaWsAlpha"), 0, "Mon"), at, "Jan"))
     \/ IsDigit(r) /\ Go(Set([To("dateAlphaWsDigit") EXCEPT !.dayi = at], 0, "Jan"))
     \/ ~IsLetter(r) /\ ~IsDigit(r) /\ Go(p)

\* A letter after the day is looked at again, as a suffix.
DateAlphaWsDigit ==
  /\ In("dateAlphaWsDigit")
  /\ \/ r = "," /\ Go(DayEnds(To("dateAlphaWsDigitMore"), at))
     \/ r = " " /\ Go([DayEnds(Timed(To("dateAlphaWsDigitYearmaybe")), at)
                         EXCEPT !.yeari = at + 1])
     \/ IsLetter(r) /\ Look(To("dateAlphaWsMonthSuffix"), at)
     \/ r \notin {",", " "} /\ ~IsLetter(r) /\ Go(p)

\* A colon: what was taken for a year is an hour.
DateAlphaWsDigitYearmaybe ==
  /\ In("dateAlphaWsDigitYearmaybe")
  /\ \/ r = ":" /\ Break([To("dateAlphaWsDigit") EXCEPT !.yeari = 0], at - 3)
     \/ r = " " /\ Break(YearEnds(p, at), at)
     \/ r \notin {":", " "} /\ Go(p)

DateAlphaWsDigitMore ==
  /\ In("dateAlphaWsDigitMore")
  /\ Go(IF r = " " THEN [To("dateAlphaWsDigitMoreWs") EXCEPT !.yeari = at + 1] ELSE p)

DateAlphaWsDigitMoreWs ==
  /\ In("dateAlphaWsDigitMoreWs")
  /\ \/ r = "'" /\ Go([p EXCEPT !.yeari = at + 1])
     \/ r \in {" ", ","} /\ Break(YearEnds(Timed(To("dateAlphaWsDigitMoreWsYear")), at), at)
     \/ r \notin {"'", " ", ","} /\ Go(p)

DateAlphaWsMonth ==
  /\ In("dateAlphaWsMonth")
  /\ \/ r \in {" ", ","} /\ Go(IF p.daylen = 0 THEN DayEnds(p, at) ELSE p)
     \/ r \in {"s", "S", "r", "R", "t", "T", "n", "N"} /\
          Look(To("dateAlphaWsMonthSuffix"), at)
     \/ r \notin {" ", ",", "s", "S", "r", "R", "t", "T", "n", "N"} /\
          Go(IF p.daylen > 0 /\ p.yeari = 0 THEN [p EXCEPT !.yeari = at] ELSE p)

DateAlphaWsMonthMore ==
  /\ In("dateAlphaWsMonthMore")
  /\ \/ r = "," /\ Break(Timed(YearEnds(p, at)), at + 1)
     \/ r = " " /\ Break(Timed(YearEnds(p, at)), at)
     \/ r \notin {",", " "} /\ Go(p)

\* th, nd, st and rd after a day are cut out of the text.
Suffixes ==
  ({"t", "T"} \X {"h", "H"}) \cup ({"n", "N", "r", "R"} \X {"d", "D"})
    \cup ({"s", "S"} \X {"t", "T"})
AtSuffix ==
  /\ \E s \in Suffixes : r = s[1] /\ NextIs(at, s[2])
  /\ Len(datestr) > at + 2

DateAlphaWsMonthSuffix ==
  /\ In("dateAlphaWsMonthSuffix")
  /\ \/ AtSuffix /\ RestartSame(Upto(datestr, at) \o From(datestr, at + 2))
     \/ ~AtSuffix /\ Go(p)

DateAlphaWsMore ==
  LET q == DayEnds(p, at) IN
  /\ In("dateAlphaWsMore")
  /\ \/ r = "," /\ NextIs(at, " ") /\
          Look([q EXCEPT !.yeari = at + 2, !.stateDate = "dateAlphaWsMonthMore"], at + 2)
     \/ r = "," /\ ~NextIs(at, " ") /\ Go(p)
     \/ r = " " /\ Go([q EXCEPT !.yeari = at + 1, !.stateDate = "dateAlphaWsMonthMore"])
     \/ IsLetter(r) /\ Look([q EXCEPT !.stateDate = "dateAlphaWsMonthSuffix"], at)
     \/ r \notin {",", " "} /\ ~IsLetter(r) /\ Go(p)

DateAlphaPeriodWsDigit ==
  /\ In("dateAlphaPeriodWsDigit")
  /\ \/ r = " " /\ Go(p)
     \/ IsDigit(r) /\ Go([To("dateAlphaWsDigit") EXCEPT !.dayi = at])
     \/ r # " " /\ ~IsDigit(r) /\ Fail

\* Day, month and year between blanks or dashes, after "Monday, ".
DateWeekdayComma ==
  LET q == [p EXCEPT !.dayi = IF @ = 0 THEN at ELSE @] IN
  /\ In("dateWeekdayComma")
  /\ \/ /\ r \in {" ", "-"} /\ q.moi = 0
        /\ Go(DayEnds([q EXCEPT !.moi = at + 1], at))
     \/ /\ r \in {" ", "-"} /\ q.moi # 0 /\ q.yeari = 0
        /\ Go(Set([q EXCEPT !.yeari = at + 1, !.molen = at - q.moi], q.moi, "Jan"))
     \/ r \in {" ", "-"} /\ q.moi # 0 /\ q.yeari # 0 /\ Break(Timed(q), at)
     \/ r \notin {" ", "-"} /\ Go(q)

\* The same after "Mon,", which stays in the layout.
DateWeekdayAbbrevComma ==
  /\ In("dateWeekdayAbbrevComma")
  /\ \/ r \in {" ", "-"} /\ p.dayi = 0 /\ Go([p EXCEPT !.dayi = at + 1])
     \/ /\ r \in {" ", "-"} /\ p.dayi # 0 /\ p.moi = 0
        /\ Go([DayEnds(p, at) EXCEPT !.moi = at + 1])
     \/ /\ r \in {" ", "-"} /\ p.dayi # 0 /\ p.moi # 0 /\ p.yeari = 0
        /\ Go(Set([p EXCEPT !.molen = at - p.moi, !.yeari = at + 1], p.moi, "Jan"))
     \/ /\ r \in {" ", "-"} /\ p.dayi # 0 /\ p.moi # 0 /\ p.yeari # 0
        /\ Break(Timed(YearEnds(p, at)), at)
     \/ r \notin {" ", "-"} /\ Go(p)

DateLoop ==
  \/ DateStart \/ DateDigit \/ DateDigitSt \/ DateYearDash \/ DateYearDashDash
  \/ DateYearDashDashOffset \/ DateYearDashAlphaDash \/ DateDigitDashSecond
  \/ DateDigitDashAlpha \/ DateDigitDashAlphaDash \/ DateDigitYearSlash
  \/ DateDigitSlashAlpha \/ DateDigitSlashSecond \/ DateDigitColonSecond
  \/ DateDigitWsMonth \/ DateDigitWsMoYear \/ DateDigitChineseYear
  \/ DateDigitDotSecond \/ DateAlpha \/ DateAlphaWs \/ DateAlphaWsDigit
  \/ DateAlphaWsDigitYearmaybe \/ DateAlphaWsDigitMore \/ DateAlphaWsDigitMoreWs
  \/ DateAlphaWsMonth \/ DateAlphaWsMonthMore \/ DateAlphaWsMonthSuffix
  \/ DateAlphaWsMore \/ DateAlphaPeriodWsDigit \/ DateWeekdayComma
  \/ DateWeekdayAbbrevComma \/ DateRest \/ DateDefault

DateEnds ==
  /\ stage = "date" /\ i >= Len(datestr)
  /\ stage' = "coalesce"
  /\ UNCHANGED <<call, datestr, i, p>>

\* The time begins after the separator and any further blanks.
Coalesce ==
  LET start == IF i < Len(p.format) THEN i + 1 ELSE i IN
  /\ stage = "coalesce"
  /\ p' = CoalesceDate(p, i)
  /\ \/ /\ p.stateTime # "timeStart"
        /\ stage' = "end" /\ i' = i
     \/ /\ p.stateTime = "timeStart" /\ stage' = "time"
        /\ \E k \in start..start + Len(datestr) :
             /\ \A b \in start..k - 1 : ByteAt(datestr, b) = " "
             /\ ByteAt(datestr, k) # " "
             /\ i' = k
  /\ UNCHANGED <<call, datestr>>

(***************************************************************************)
(* The switch over stateTime                                               *)
(***************************************************************************)

ToTime(s) == [p EXCEPT !.stateTime = s]

\* The case of timeStart remembers where the hour begins.
Hour0 == [p EXCEPT !.houri = IF @ = 0 THEN i ELSE @]
ToTime0(s) == [Hour0 EXCEPT !.stateTime = s]

\* Minutes or seconds end at the sign of an offset.
ClockEnds(q) ==
  IF q.seci = 0 THEN [q EXCEPT !.minlen = i - q.mini]
  ELSE [q EXCEPT !.seclen = IF @ = 0 THEN i - q.seci ELSE @,
                 !.mslen = IF q.msi > 0 /\ @ = 0 THEN i - q.msi ELSE @]

TimeZulu ==
  r = "Z" /\ Go(LET q == ToTime0("timeZ")
                IN IF q.seci = 0 THEN [q EXCEPT !.minlen = i - q.mini]
                                 ELSE [q EXCEPT !.seclen = i - q.seci])

\* "at " before the time, and a or p, perhaps of am and pm.
TimeAt ==
  /\ r \in {"a", "A"} /\ (NextIs(i, "t") \/ NextIs(i, "T"))
  /\ IF NextIs(i + 1, " ") THEN Look([Hour0 EXCEPT !.houri = 0], i + 3)
                           ELSE Look(Hour0, i + 2)

Half12 == <<r, ByteAt(datestr, i + 1)>>
TimeHalf ==
  /\ r \in {"a", "A", "p", "P"} /\ ~(r \in {"a", "A"} /\ (NextIs(i, "t") \/ NextIs(i, "T")))
  /\ \/ /\ Half12 \in {<<"a", "m">>, <<"p", "m">>, <<"A", "M">>, <<"P", "M">>}
        /\ Go(Set(CoalesceTime(Hour0, i), i,
                  CASE r = "a" -> "am" [] r = "p" -> "pm" [] OTHER -> "PM"))
     \/ Half12 \notin {<<"a", "m">>, <<"p", "m">>, <<"A", "M">>, <<"P", "M">>} /\ Go(Hour0)

\* A third colon stands before a fraction: time.Parse wants a dot there.
TimeColon ==
  /\ r = ":"
  /\ \/ p.mini = 0 /\ Go([Hour0 EXCEPT !.mini = i + 1, !.hourlen = i - Hour0.houri])
     \/ p.mini # 0 /\ p.seci = 0 /\ Go([Hour0 EXCEPT !.seci = i + 1, !.minlen = i - p.mini])
     \/ /\ p.mini # 0 /\ p.seci # 0
        /\ p' = Set(Set([Hour0 EXCEPT !.seclen = i - p.seci, !.msi = i + 1], p.seci, "05"), i, ".")
        /\ datestr' = Upto(datestr, i) \o "." \o From(datestr, i + 1)
        /\ i' = i + 1
        /\ UNCHANGED <<call, stage>>

TimeStart ==
  /\ InTime("timeStart")
  /\ \/ r = "," /\ RestartSame(Upto(datestr, i) \o "." \o From(datestr, i + 1))
     \/ r \in {"-", "+"} /\ Go(ClockEnds([ToTime0("timeOffset") EXCEPT !.offseti = i]))
     \/ r = "." /\ Go([ToTime0("timePeriod") EXCEPT !.seclen = i - p.seci, !.msi = i + 1])
     \/ TimeZulu
     \/ TimeAt
     \/ TimeHalf
     \/ r = " " /\ Go([CoalesceTime(Hour0, i) EXCEPT !.stateTime = "timeWs"])
     \/ TimeColon
     \/ r \notin {",", "-", "+", ".", "Z", "a", "A", "p", "P", " ", ":"} /\ Go(Hour0)

\* A colon in the offset is noted, nothing else.
TimeOffsetColon(s, t) == InTime(s) /\ Go(IF r = ":" THEN ToTime(t) ELSE p)

TimeOffset ==
  \/ TimeOffsetColon("timeOffset", "timeOffsetColon")
  \/ TimeOffsetColon("timePeriodOffset", "timePeriodOffsetColon")

TimeWs ==
  /\ InTime("timeWs")
  /\ \/ r \in {"A", "P"} /\ Go([ToTime("timeWsAMPMMaybe") EXCEPT !.tzi = i])
     \/ r \in {"+", "-"} /\ Go([ToTime("timeWsOffset") EXCEPT !.offseti = i])
     \/ IsLetter(r) /\ r \notin {"A", "P"} /\ Go([ToTime("timeWsAlpha") EXCEPT !.tzi = i])
     \/ IsDigit(r) /\ Go([ToTime("timeWsYear") EXCEPT !.yeari = i])
     \/ ~IsLetter(r) /\ ~IsDigit(r) /\ r \notin {"+", "-"} /\ Go(p)

TimeWsAlpha ==
  LET q == SetZone([p EXCEPT !.tzlen = i - p.tzi], i - p.tzi, " MST") IN
  /\ InTime("timeWsAlpha")
  /\ \/ r \in {"+", "-"} /\ Go([q EXCEPT !.stateTime = "timeWsAlphaZoneOffset", !.offseti = i])
     \/ r = " " /\ Go([q EXCEPT !.stateTime = "timeWsAlphaWs", !.yeari = i + 1])
     \/ r \notin {"+", "-", " "} /\ Go(p)

TimeWsAlphaZoneOffset ==
  /\ InTime("timeWsAlphaZoneOffset")
  /\ Go(IF r = " " THEN Set([ToTime("timeWsAlphaZoneOffsetWs")
                               EXCEPT !.yeari = IF @ = 0 THEN i + 1 ELSE @],
                            p.offseti, "-0700")
        ELSE p)

TimeWsAlphaZoneOffsetWs ==
  /\ InTime("timeWsAlphaZoneOffsetWs")
  /\ Go(IF IsDigit(r) THEN ToTime("timeWsAlphaZoneOffsetWsYear")
        ELSE [ToTime("timeWsAlphaZoneOffsetWsExtra") EXCEPT !.extra = i - 1])

\* The year is set when its fourth digit has been read.
FourthDigit(q) ==
  LET y == [q EXCEPT !.yearlen = i - q.yeari + 1]
  IN IF y.yearlen = 4 THEN SetYear(y) ELSE y

TimeWsAlphaZoneOffsetWsYear ==
  /\ InTime("timeWsAlphaZoneOffsetWsYear")
  /\ Go(IF IsDigit(r) THEN FourthDigit(p) ELSE p)

TimeWsAMPMMaybe ==
  /\ InTime("timeWsAMPMMaybe")
  /\ \/ r = "M" /\ Go(SetEither(Set(ToTime("timeWsAMPM"), i - 1, "PM"),
                                p.houri, p.hourlen, "03", "3"))
     \/ r # "M" /\ Go(ToTime("timeWsAlpha"))

TimeWsOffset ==
  /\ InTime("timeWsOffset")
  /\ \/ r = ":" /\ Go(ToTime("timeWsOffsetColon"))
     \/ r = " " /\ Go(Set([ToTime("timeWsOffsetWs") EXCEPT !.yeari = i + 1],
                          p.offseti, "-0700"))
     \/ r \notin {":", " "} /\ Go(p)

\* What Go prints after the zone, "m=+0.0000", and a repeated offset are cut off.
Monotonic == r = "=" /\ ByteAt(datestr, i - 1) = "m"
Cut(q, k) == TrimExtra([q EXCEPT !.extra = k])

TimeWsOffsetWs ==
  /\ InTime("timeWsOffsetWs")
  /\ \/ r = "=" /\ Go(IF Monotonic THEN Cut(p, i - 2) ELSE p)
     \/ r \in {"+", "-", "("} /\ Go(Cut(ToTime("timeWsOffset"), i - 1))
     \/ IsDigit(r) /\ Go(FourthDigit(p))
     \/ IsLetter(r) /\ Go([p EXCEPT !.tzi = IF @ = 0 THEN i ELSE @])
     \/ r \notin {"=", "+", "-", "("} /\ ~IsDigit(r) /\ ~IsLetter(r) /\ Go(p)

TimeWsOffsetColon ==
  /\ InTime("timeWsOffsetColon")
  /\ \/ IsLetter(r) /\ Break(ToTime("timeWsOffsetColonAlpha"), i)
     \/ ~IsLetter(r) /\ Go(p)

TimePeriod ==
  LET q == [p EXCEPT !.mslen = i - p.msi] IN
  /\ InTime("timePeriod")
  /\ \/ r = " " /\ Go([q EXCEPT !.stateTime = "timePeriodWs"])
     \/ r \in {"+", "-"} /\ Go([q EXCEPT !.stateTime = "timePeriodOffset", !.offseti = i])
     \/ IsLetter(r) /\ Go([q EXCEPT !.stateTime = "timePeriodWsAlpha"])
     \/ r \notin {" ", "+", "-"} /\ ~IsLetter(r) /\ Go(p)

TimePeriodOffsetColon ==
  /\ InTime("timePeriodOffsetColon")
  /\ Go(IF r = " " THEN Set([ToTime("timePeriodOffsetColonWs") EXCEPT !.tzi = i + 1],
                            p.offseti, "-07:00")
        ELSE p)

TimePeriodWs ==
  LET q == [p EXCEPT !.offseti = IF @ = 0 THEN i ELSE @] IN
  /\ InTime("timePeriodWs")
  /\ \/ r \in {"+", "-"} /\ Go([q EXCEPT !.mslen = i - p.msi - 1,
                                         !.stateTime = "timePeriodWsOffset"])
     \/ IsLetter(r) /\ Break([q EXCEPT !.stateTime = "timePeriodWsOffsetWsAlpha"], i)
     \/ r \notin {"+", "-"} /\ ~IsLetter(r) /\ Go(q)

TimePeriodWsOffset ==
  /\ InTime("timePeriodWsOffset")
  /\ \/ r = ":" /\ Go(ToTime("timePeriodWsOffsetColon"))
     \/ r = " " /\ Go(Set(p, p.offseti, "-0700"))
     \/ r \in {"+", "-"} /\ Go(Cut(p, i - 1))
     \/ IsLetter(r) /\ Go(ToTime("timePeriodWsOffsetWsAlpha"))
     \/ r \notin {":", " ", "+", "-"} /\ ~IsLetter(r) /\ Go(p)

TimePeriodWsOffsetWsAlpha ==
  /\ InTime("timePeriodWsOffsetWsAlpha")
  /\ Go(IF Monotonic THEN Cut(p, i - 2) ELSE p)

TimePeriodWsOffsetColon ==
  /\ InTime("timePeriodWsOffsetColon")
  /\ \/ r = " " /\ Go(Set(p, p.offseti, "-07:00"))
     \/ IsLetter(r) /\ Go([ToTime("timePeriodWsOffsetColonAlpha") EXCEPT !.tzi = i])
     \/ r # " " /\ ~IsLetter(r) /\ Go(p)

TimeZ ==
  /\ InTime("timeZ")
  /\ Go(IF IsDigit(r) THEN ToTime("timeZDigit") ELSE p)

\* States whose runes change nothing.
TimeRest ==
  /\ Reading("time")
  /\ p.stateTime \in {"timeWsAlphaWs", "timeWsAlphaZoneOffsetWsExtra", "timeWsAMPM",
                      "timeWsYear", "timeOffsetColon", "timePeriodOffsetColonWs",
                      "timePeriodWsAlpha", "timePeriodWsOffsetColonAlpha", "timeZDigit"}
  /\ Go(p)

TimeLoop ==
  \/ TimeStart \/ TimeOffset \/ TimeWs \/ TimeWsAlpha \/ TimeWsAlphaZoneOffset
  \/ TimeWsAlphaZoneOffsetWs \/ TimeWsAlphaZoneOffsetWsYear \/ TimeWsAMPMMaybe
  \/ TimeWsOffset \/ TimeWsOffsetWs \/ TimeWsOffsetColon \/ TimePeriod
  \/ TimePeriodOffsetColon \/ TimePeriodWs \/ TimePeriodWsOffset
  \/ TimePeriodWsOffsetWsAlpha \/ TimePeriodWsOffsetColon \/ TimeZ \/ TimeRest

TimeEnds ==
  /\ stage = "time" /\ i >= Len(datestr)
  /\ stage' = "endtime"
  /\ UNCHANGED <<call, datestr, i, p>>

(***************************************************************************)
(* After the loops                                                         *)
(***************************************************************************)

LenFrom(k) == Len(p.format) - k

\* The last field of the time.
LastField ==
  LET s == p.stateTime IN
  CASE s = "timeWsAlpha" /\ LenFrom(p.tzi) = 3 -> Set(p, p.tzi, "MST")
    [] s = "timeWsAlpha" /\ LenFrom(p.tzi) = 4 -> Cut(Set(p, p.tzi, "MST"), LenFrom(1))
    [] s \in {"timeWsAlphaWs", "timeWsYear"} -> YearEnds(p, i)
    [] s = "timeWsAlphaZoneOffsetWsExtra" -> TrimExtra(p)
    [] s = "timeWsAlphaZoneOffset" ->
         Set(p, p.offseti, IF i - p.offseti < 4 THEN "-07" ELSE "-0700")
    [] s = "timePeriod" -> [p EXCEPT !.mslen = i - p.msi]
    [] s = "timeOffset" /\ LenFrom(p.offseti) = 3 -> Set(p, p.offseti, "-07")
    [] s = "timeOffset" /\ LenFrom(p.offseti) = 5 -> Set(p, p.offseti, "-0700")
    [] s \in {"timeWsOffset", "timePeriodOffset", "timePeriodWsOffset"} ->
         Set(p, p.offseti, "-0700")
    [] s = "timeWsOffsetWs" /\ p.tzi > 0 -> SetZone(p, LenFrom(p.tzi), "MST ")
    [] s \in {"timeWsOffsetColon", "timeOffsetColon", "timePeriodOffsetColon"} ->
         Set(p, p.offseti, "-07:00")
    [] s = "timePeriodWsOffsetColonAlpha" ->
         SetZone([p EXCEPT !.tzlen = i - p.tzi], i - p.tzi, "MST ")
    [] OTHER -> p

TimeDone ==
  /\ stage = "endtime"
  /\ \/ p.stateTime = "timeOffset" /\ LenFrom(p.offseti) \in {0, 1, 2, 4} /\ Fail
     \/ /\ ~(p.stateTime = "timeOffset" /\ LenFrom(p.offseti) \in {0, 1, 2, 4})
        /\ p' = CoalesceTime(LastField, i)
        /\ stage' = "end"
        /\ UNCHANGED <<call, datestr, i>>

Ends(states) == stage = "end" /\ p.stateDate \in states

\* Nothing but digits: a time stamp or a layout, by their number.
StampUnit(len) ==
  CASE len = 19 -> "ns" [] len = 16 -> "us" [] len = 13 -> "ms" [] len = 10 -> "s"
    [] OTHER -> "nil"
DigitLayout(len) ==
  CASE len = 14 -> "20060102150405" [] len = 8 -> "20060102" [] len = 4 -> "2006"
    [] OTHER -> ""

EndDigits ==
  LET len == Len(datestr)
      stamp == StampUnit(len) # "nil" /\ ParseIntOk(datestr) IN
  /\ Ends({"dateDigit"})
  /\ \/ stamp /\ Found([p EXCEPT !.t = StampUnit(len)])
     \/ DigitLayout(len) # "" /\ Found([p EXCEPT !.format = DigitLayout(len)])
     \/ ~stamp /\ DigitLayout(len) = "" /\ Fail

EndOffset ==
  /\ Ends({"dateYearDashDashOffset"})
  /\ Found(CASE LenFrom(p.offseti) = 5 -> Set(p, p.offseti, "-0700")
             [] LenFrom(p.offseti) = 6 -> Set(p, p.offseti, "-07:00")
             [] OTHER -> p)

EndField ==
  \/ Ends({"dateYearDashAlphaDash"}) /\ Found(DayEnds(p, i))
  \/ Ends({"dateDigitDashAlphaDash"}) /\ Found(DayMonthYear(Len(datestr)))
  \/ Ends({"dateDigitDot"}) /\ Found(MonthEnds(p, i))
  \/ Ends({"dateAlphaWsMonth", "dateAlphaWsDigitMoreWs"}) /\ Found(YearEnds(p, i))

FixedLayout ==
  CASE p.stateDate = "dateDigitWsMolong" ->
         IF p.daylen = 2 THEN "02 January 2006" ELSE "2 January 2006"
    [] p.stateDate = "dateDigitChineseYear" -> "2006@~~01#~~02$~~"
    [] p.stateDate = "dateDigitChineseYearWs" -> "2006@~~01#~~02$~~ 15:04:05"

EndFixed ==
  /\ Ends({"dateDigitWsMolong", "dateDigitChineseYear", "dateDigitChineseYearWs"})
  /\ Found([p EXCEPT !.format = FixedLayout])

Complete ==
  {"dateDigitSt", "dateYearDash", "dateYearDashDash", "dateYearDashDashWs",
   "dateYearDashDashT", "dateDigitDotDot", "dateDigitWsMoYear", "dateAlphaWsMonthMore",
   "dateAlphaWsDigitMoreWsYear", "dateAlphaWsAlpha", "dateAlphaWsDigit",
   "dateAlphaWsDigitYearmaybe", "dateDigitSlash", "dateDigitSlashAlpha",
   "dateDigitYearSlash", "dateDigitColon", "dateWeekdayComma", "dateWeekdayAbbrevComma"}

EndComplete == Ends(Complete) /\ Found(p)

\* The text ended in the middle of a date.
EndUnknown ==
  /\ Ends({"dateStart", "dateDigitWs", "dateDigitDash", "dateDigitDashAlpha", "dateAlpha",
           "dateAlphaWs", "dateAlphaWsDigitMore", "dateAlphaWsMonthSuffix",
           "dateAlphaWsMore", "dateAlphaPeriodWsDigit"})
  /\ Fail

End ==
  EndDigits \/ EndOffset \/ EndField \/ EndFixed \/ EndComplete \/ EndUnknown

(***************************************************************************)
(* The functions of the package                                            *)
(***************************************************************************)

\* time.Parse reads the text with some layouts; with some others a number is no month.
Reads(layout) == layout \in call.reads
MonthOutOfRange(layout) == layout \in call.overflows

\* The deferred function of RetryAmbiguousDateWithSwap.
Swap == p.retryAmbiguousDateWithSwap /\ p.ambiguousMD /\ MonthOutOfRange(Layout(p))

\* Mutant of RetryWithSwap: the option stays on.
RetryForever == stage = "found" /\ Swap /\ Restart(datestr, ~p.preferMonthFirst, TRUE)

\* A call that began again on a changed text has a deferred function, too, which runs after
\* the inner one: it finds the month in range, or tries once more on its own text, with the
\* same outcome.
RetryWithSwap == stage = "found" /\ Swap /\ Restart(datestr, ~p.preferMonthFirst, FALSE)

Outcome ==
  CASE stage = "failed" -> "error"
    [] stage = "found" /\ call.strict /\ p.ambiguousMD -> "ambiguous"
    [] OTHER -> IF p.t # "nil" \/ Reads(Layout(p)) THEN "parsed" ELSE "error"

\* ParseDateAny, ParseDateIn and the others, and ParseDataStrict, end.
Return ==
  /\ stage \in {"found", "failed"} /\ ~(stage = "found" /\ Swap)
  /\ stage' = Outcome
  /\ p' = [p EXCEPT !.format = Layout(p)]
  /\ UNCHANGED <<call, datestr, i>>

parseTime ==
  DateLoop \/ DateEnds \/ Coalesce \/ TimeLoop \/ TimeEnds \/ TimeDone \/ End
    \/ RetryWithSwap \/ Return

Returned == stage \in {"parsed", "error", "ambiguous"}

(***************************************************************************)
(* Properties                                                              *)
(***************************************************************************)

\* The layout never outgrows the text, and the index stays near it.
ParserTypeOK ==
  /\ stage \in {"idle", "date", "coalesce", "time", "endtime", "end", "found", "failed",
                "parsed", "error", "ambiguous"}
  /\ i \in 0..Len(datestr) + 2
  /\ p.t \in {"nil", "s", "ms", "us", "ns"}


\* ParseDataStrict refuses a date if and only if its format is marked ambiguous: month and
\* day in figures, in either order, between slashes, dots or colons, or 13-Feb-03, where
\* the year may come first.  It goes by the format, not by the date: 03/31/2014 is refused
\* although there is no month 31, and Mon, 12-Jan-16 and 1 jan 18 are not.
AmbiguityFlagged ==
  Returned /\ call.strict => (stage = "ambiguous" <=> call.ambiguous)
=============================================================================
