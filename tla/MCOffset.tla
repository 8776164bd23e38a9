------------------------------- MODULE MCOffset -------------------------------
(***************************************************************************)
(* Small instances of Offset for TLC: a second of 4 nanoseconds, a minute  *)
(* of 2 seconds, an hour of 2 minutes.  60 years do not fit in 24 bits.    *)
(* The dates are in formats that the comments of date_parse.go name.       *)
(***************************************************************************)
EXTENDS Offset

Arg(text, number, unit) ==
  [text |-> text, layout |-> "", reads |-> {}, overflows |-> {}, ambiguous |-> FALSE,
   prefer |-> TRUE, retry |-> FALSE, strict |-> FALSE,
   number |-> number, value |-> 0, unit |-> unit]

Stamp(text, number, value) ==
  [Arg(text, number, "absolute") EXCEPT !.value = value]
Date(text, layout) ==
  [Arg(text, 0, "absolute") EXCEPT !.layout = layout, !.reads = {layout}, !.value = 8]

Seconds == {Stamp("1332151919", s, s * Second) : s \in 0..4}
SmallerUnits ==
  {Stamp("1499979795437", 6, 12), Stamp("1499979795437000", 12, 12),
   Stamp("1499979655583057426", 12, 12)}
Nanoseconds == {Stamp("1499979655583057426", n, n) : n \in 0..13}
\* Far enough for Time.Sub to saturate.
FarSeconds == {Stamp("9932151919", 3000000, 3000000 * Second)}

\* A few of the values that a text may stand for.
Numbers == {-60, -59, -1, 1, 59, 60}
Offsets ==
  {Arg("+600", n, "s") : n \in Numbers} \cup {Arg("600s", n, "s") : n \in Numbers}
  \cup {Arg("60M", n, "m") : n \in Numbers} \cup {Arg("-600h", n, "h") : n \in Numbers}
  \cup {Arg("600d", n, "d") : n \in Numbers} \cup {Arg("6y", n, "y") : n \in Numbers}
  \* as long as a time stamp or a date
  \cup {Arg(x, n, "s") : n \in Numbers,
          x \in {"123456789s", "123456789012s", "123456789012345s", "86400", "0020060s"}}
\* Numbers without a sign or a unit: written like a date, and as long as one.
Written(text, number, layouts) == [Arg(text, number, "s") EXCEPT !.reads = layouts]
BareNumbers ==
  {Written(x[1], n, x[2]) : n \in {1, 59, 60},
     x \in {<<"3600", {"2006"}>>, <<"20140601", {"20060102"}>>, <<"31536000", {}>>,
            <<"1705022260", {}>>, <<"86400000000", {}>>}}
NoOffsets == {Arg("", 0, "s"), Arg("0", 0, "s"), Arg("null", 0, "s")}
Rejected ==
  {Arg(x, 0, "none") :
     x \in {"soon", "3,31,2014", "13-01-2014", "8 jan", "1 d", "May x", "Sunda. 3",
            "jan. x", "13-Feb", "May 8,", "April 8x, 2014 y", "13", "Sunday 3",
            "January 02,2006 15:04", "September 17, 2012 at5:00", "2014-04-02 03:00:51a",
            "2013-14-01 22:43:22 +00:00 UTC", "2006-01-02 15:04:05+0", "#~~ 1", "+", "5-", "Tue", "oct. "}}

\* Formats of the comments whose texts are read with no layout, and one whose offset is
\* not read.
Misfits ==
  {Arg("2014-04-26 18:31:59:257", 0, "none"), Arg("2006-01-02T15:04:05Z07:00", 0, "none"),
   Date("2015-02-18 00:12:00 +00:00 UTC", "2006-01-02 15:04:05 +00:00 UTC")}

\* One text or more for each of the other formats, with the layout that reads it
\* (time.Parse takes 15 for an hour with PM, too).
Dates ==
  {Date(d[1], d[2]) : d \in {
    <<"2014", "2006">>, <<"20140601", "20060102">>, <<"20180722105203", "20060102150405">>,
    <<"2013-02", "2006-01">>, <<"2013-2-1", "2006-1-2">>, <<"2013-Feb-03", "2006-Jan-02">>,
    <<"2020-07-20+00:00", "2006-01-02-07:00">>, <<"2020-07-20+0000", "2006-01-02-0700">>,
    <<"2013-04-01 22:43:22", "2006-01-02 15:04:05">>,
    <<"2006-01-02T15:04:05+0000", "2006-01-02T15:04:05-0700">>,
    <<"2009-08-12T22:15:09-07:00", "2006-01-02T15:04:05-07:00">>,
    <<"2009-08-12T22:15:09Z", "2006-01-02T15:04:05Z">>,
    <<"2009-08-12T22:15Z", "2006-01-02T15:04Z">>,
    <<"2014-04-26 22:18+0530", "2006-01-02 15:04-0700">>,
    <<"2014-04-26 22:18:09+01", "2006-01-02 15:04:05-07">>,
    <<"2014-04-26 05:24:37 PM", "2006-01-02 15:04:05 PM">>,
    <<"2014-12-16 06:20:00 UTC", "2006-01-02 15:04:05 MST">>,
    <<"2014-12-16 06:20:00  GMT", "2006-01-02 15:04:05  MST">>,
    <<"2014-12-16 06:20:00 PST", "2006-01-02 15:04:05 MST">>,
    <<"2014-12-16 06:20:00 UTC-05", "2006-01-02 15:04:05 MST-07">>,
    <<"2009-08-12 22:15:09 -0700", "2006-01-02 15:04:05 -0700">>,
    <<"2009-08-12 22:15:09 -07:00", "2006-01-02 15:04:05 -07:00">>,
    <<"2015-02-18 00:12:00 +0000 GMT", "2006-01-02 15:04:05 -0700 MST">>,
    <<"2015-02-18 00:12:00 +0000 CEST", "2006-01-02 15:04:05 -0700 MST ">>,
    <<"2015-02-18 00:12:00 +0000 UTC m=+0.000000001", "2006-01-02 15:04:05 -0700 UTC">>,
    <<"2015-02-18 00:12:00 +0300 +03", "2006-01-02 15:04:05 -0700">>,
    <<"29-Jun-2016", "02-Jan-2006">>, <<"29-Jun-2016 15:24", "02-Jan-2006 15:04">>,
    <<"2014/04/02", "2006/01/02">>, <<"2014/3/31 06:55:38", "2006/1/02 15:04:05">>,
    <<"2014/04/02:06:55:38", "2006/01/02:15:04:05">>,
    <<"06/May/2008", "02/Jan/2006">>,
    <<"06/May/2008:08:11:17 -0700", "02/Jan/2006:15:04:05 -0700">>,
    <<"2014:04:02", "2006:01:02">>, <<"2014:07:10 06:55:38", "2006:01:02 15:04:05">>,
    <<"2014.05", "2006.01">>, <<"2018.09.30", "2006.01.02">>,
    <<"171113 14:14:20", "060102 15:04:05">>,
    <<"18 January 2018", "02 January 2006">>, <<"8 January 2018", "2 January 2006">>,
    <<"8 jan 2018", "2 Jan 2006">>, <<"1 jan 18", "2 Jan 06">>,
    <<"02 Jan 2018 23:59", "02 Jan 2006 15:04">>,
    <<"12 Feb 2006, 19:17:22", "02 Jan 2006, 15:04:05">>,
    <<"2014@~~04#~~08$~~", "2006@~~01#~~02$~~">>,
    <<"2013@~~07#~~18$~~ 10:27:05", "2006@~~01#~~02$~~ 15:04:05">>,
    <<"Mon Jan  2 15:04:05 2016", "Jan  2 15:04:05 2006">>,
    <<"Mon Jan 12 15:04:05 -0800 2016", "Jan 02 15:04:05 -0700 2006">>,
    <<"Mon Aug 10 15:44:11 UTC+0100 2015", "Jan 02 15:04:05 MST-0700 2006">>,
    <<"Tue May 08 17:57:51 GMT 2009", "Jan 02 15:04:05 MST 2006">>,
    <<"Fri Jul 03 2015 18:04:07 GMT+0100 (GMT Daylight Time)",
      "Jan 02 2006 15:04:05 MST-0700">>,
    <<"Tue 05 May 2020, 05:05:05", "02 Jan 2006, 15:04:05">>,
    <<"May 8, 2009 5:57:51 PM", "Jan 2, 2006 3:04:05 PM">>,
    <<"May 8, 2009, 5:57:51 PM", "Jan 2, 2006, 3:04:05 PM">>,
    <<"May 8 2009 5:57:51 PM", "Jan 2 2006 3:04:05 PM">>,
    <<"May 08 17:57:51 2009", "Jan 02 15:04:05 2006">>,
    <<"oct 1, 1970", "Jan 2, 2006">>, <<"oct 7, '70", "Jan 2, '06">>,
    <<"oct. 7, 1970", "Jan. 2, 2006">>, <<"sept. 28, 2017", "Jan. 02, 2006">>,
    <<"May 8th, 2009", "Jan 2, 2006">>,
    <<"April 8, 2009", "January 2, 2006">>, <<"April 8 2009", "January 2 2006">>,
    <<"April 8th, 2009", "January 2, 2006">>, <<"June 3rd 2014", "January 2 2006">>,
    <<"September 22nd, 2012", "January 02, 2006">>, <<"September 1st, 2012", "January 2, 2006">>,
    <<"January 12, 2016, 15:24:05", "January 02, 2006, 15:04:05">>,
    <<"January 12 2016 15:24:05", "January 02 2006 15:04:05">>,
    <<"September 17, 2012 at 5:00pm UTC-05", "January 02, 2006 at 3:04pm MST-07">>,
    <<"September 17, 2012 at 5:00AM UTC-05", "January 02, 2006 at 3:04PM MST-07">>,
    <<"Monday, 12 Jan 2016 15:14:05 MST", "02 Jan 2006 15:04:05 MST">>,
    <<"Monday, 12-Jan-16 15:14:05 MST", "02-Jan-06 15:04:05 MST">>,
    <<"Mon, 12-Jan-16 15:14:05 MST", "Mon, 02-Jan-06 15:04:05 MST">>,
    <<"Thu, 4 Jan 2018 17:53:36 +0000", "Mon, 2 Jan 2006 15:04:05 -0700">>,
    <<"Tue, 11 Jul 2017 16:28:13 +0200 (CEST)", "Mon, 02 Jan 2006 15:04:05 -0700">>}}

\* Not given to CalculateOffset, whose sign is wrong for times with a fraction.
Fractions ==
  {Date(d[1], d[2]) : d \in {
    <<"2014-04-26 17:24:37.3186369", "2006-01-02 15:04:05.0000000">>,
    <<"2014-05-11 08:20:13,787", "2006-01-02 15:04:05.000">>,
    <<"2020-08-17T17:03:04:125+0100", "2006-01-02T15:04:05.000-0700">>,
    <<"2014-04-26 17:24:37.123Z", "2006-01-02 15:04:05.000Z">>,
    <<"2014-04-26 19:55:00.799+0100", "2006-01-02 15:04:05.000-0700">>,
    <<"2014-04-26 19:55:00.799-07:00", "2006-01-02 15:04:05.000-07:00">>,
    <<"2014-04-26 19:55:00.799-07:00 MST", "2006-01-02 15:04:05.000-07:00 MST">>,
    <<"2014-04-26 06:20:07.125 UTC", "2006-01-02 15:04:05.000 UTC">>,
    <<"2014-04-26 06:20:07.125  UTC", "2006-01-02 15:04:05.000  UTC">>,
    <<"2014-04-26 06:20:07.125 +0100", "2006-01-02 15:04:05.000 -0700">>,
    <<"2014-04-26 06:20:07.125 +0300 +03", "2006-01-02 15:04:05.000 -0700">>,
    <<"2014-04-26 06:20:07.125 +0300 UTC m=+0.000000001",
      "2006-01-02 15:04:05.000 -0700 UTC">>,
    <<"2014-04-26 13:31:51.999 +01:00 CET", "2006-01-02 15:04:05.000 -07:00 MST">>,
    <<"2014-04-26 13:31:51.999 +01:00 CEST", "2006-01-02 15:04:05.000 -07:00 MST ">>,
    <<"2014:07:10 06:55:38.156283", "2006:01:02 15:04:05.000000">>}}

\* Day and month in figures: both orders of the layout, the documented one first,
\* and whether the other one reads the text too.
Numeric(text, layout, swapped, both) ==
  [Date(text, layout) EXCEPT !.reads = @ \cup IF both THEN {swapped} ELSE {},
                             !.overflows = IF both THEN {} ELSE {swapped},
                             !.ambiguous = TRUE]

Ambiguities ==
  {Numeric("03/31/2014", "01/02/2006", "02/01/2006", FALSE),
   Numeric("4/8/2014 22:05", "1/2/2006 15:04", "2/1/2006 15:04", TRUE),
   Numeric("08/21/71", "01/02/06", "02/01/06", FALSE),
   Numeric("3.31.2014", "1.02.2006", "2.01.2006", FALSE),
   Numeric("08.21.71", "01.02.06", "02.01.06", FALSE),
   Numeric("03:31:2014", "01:02:2006", "02:01:2006", FALSE),
   Numeric("4:8:2014 22:05", "1:2:2006 15:04", "2:1:2006 15:04", TRUE),
   Numeric("13-Feb-03", "02-Jan-06", "06-Jan-02", TRUE),
   Numeric("03-Feb-13 15:24:05", "02-Jan-06 15:04:05", "06-Jan-02 15:04:05", TRUE)}

DayFirstDates ==
  {Numeric("31/03/2014", "02/01/2006", "01/02/2006", FALSE),
   Numeric("31/3/14 15:24", "02/1/06 15:04", "01/2/06 15:04", FALSE),
   Numeric("31/03/2014 08:20:13,787", "02/01/2006 15:04:05.000",
           "01/02/2006 15:04:05.000", FALSE)}
NoOrder ==
  {[Arg("31/31/2014", 0, "none") EXCEPT !.overflows = {"01/02/2006", "02/01/2006"},
                                        !.ambiguous = TRUE]}
EitherOrder == {Numeric("04/02/2014", "02/01/2006", "01/02/2006", TRUE)}


WholeSeconds ==
  Seconds \cup SmallerUnits \cup FarSeconds \cup Offsets \cup BareNumbers \cup NoOffsets
  \cup Rejected \cup Misfits \cup Dates \cup Ambiguities

\* Every kind of date before every kind of time.
Combined ==
  {Date(d[1] \o time[1], d[2] \o time[2]) :
     d \in {<<"2014-04-26 ", "2006-01-02 ">>, <<"2014-04-26T", "2006-01-02T">>,
            <<"2014/04/26 ", "2006/01/02 ">>, <<"06/May/2008 ", "02/Jan/2006 ">>,
            <<"2014:04:26 ", "2006:01:02 ">>, <<"29-Jun-2016 ", "02-Jan-2006 ">>,
            <<"8 jan 2018 ", "2 Jan 2006 ">>, <<"12 Feb 2006, ", "02 Jan 2006, ">>,
            <<"171113 ", "060102 ">>,
            <<"May 8, 2009 ", "Jan 2, 2006 ">>, <<"May 8 2009 ", "Jan 2 2006 ">>,
            <<"May 8th, 2009 ", "Jan 2, 2006 ">>,
            <<"January 12, 2016 ", "January 02, 2006 ">>,
            <<"September 2nd, 2016, ", "January 2, 2006, ">>,
            <<"Monday, 12 Jan 2016 ", "02 Jan 2006 ">>,
            <<"Mon, 12-Jan-16 ", "Mon, 02-Jan-06 ">>},
     time \in {<<"22:43", "15:04">>, <<"22:43:22", "15:04:05">>, <<"2:43:22", "3:04:05">>,
              <<"2:43pm", "3:04pm">>, <<"2:43:22 PM", "3:04:05 PM">>,
              <<"22:43:22.001", "15:04:05.000">>, <<"22:43:22,001", "15:04:05.000">>,
              <<"22:43:22:001+0100", "15:04:05.000-0700">>,
              <<"22:43:22 UTC", "15:04:05 MST">>, <<"22:43:22 PST", "15:04:05 MST">>,
              <<"22:43:22 +0100", "15:04:05 -0700">>,
              <<"22:43:22 +01:00", "15:04:05 -07:00">>,
              <<"22:43:22+01:00", "15:04:05-07:00">>, <<"22:43:22+0100", "15:04:05-0700">>,
              <<"22:43:22 +0100 CET", "15:04:05 -0700 MST">>,
              <<"22:43:22.001 +0100 CET", "15:04:05.000 -0700 CET">>,
              <<"22:43:22.001 +01:00 CET", "15:04:05.000 -07:00 MST">>,
              <<"22:43:22 UTC-05", "15:04:05 MST-07">>}}

\* ParseDateAny and ParseDataStrict, with the options for day and month.
DateCalls ==
  LET swapping == {[d EXCEPT !.prefer = FALSE] : d \in DayFirstDates \cup EitherOrder}
                    \cup {[d EXCEPT !.retry = TRUE] : d \in DayFirstDates \cup NoOrder \cup Ambiguities}
  IN Fractions \cup Combined \cup swapping
       \cup {[d EXCEPT !.strict = TRUE] : d \in Dates \cup Fractions \cup Ambiguities \cup swapping}
=============================================================================
