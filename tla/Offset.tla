-------------------------------- MODULE Offset --------------------------------
(***************************************************************************)
(* CalculateOffset of date_offset.go, which turns the flag -faketime into  *)
(* the shift that the image adds to the clock.  It gives the text to       *)
(* ParseDateAny (the steps of DateParse) and takes it for an offset if     *)
(* that fails.  An absolute time is turned into a shift by reading the     *)
(* clock twice, and the clock moves on.                                    *)
(***************************************************************************)
EXTENDS DateParse

CONSTANTS
  Microsecond,   \* time.Microsecond and so on, in nanoseconds
  Millisecond,
  Second,
  Minute,
  Hour,
  Width,         \* bits of a Duration (64)
  Args,          \* arguments of CalculateOffset
  Calls,         \* calls of the other functions of the package
  MaxNow         \* bound on the clock

ASSUME DurationAssumption ==
  /\ {Microsecond, Millisecond, Second, Minute, Hour} \subseteq Nat \ {0}
  /\ Width \in Nat \ {0} /\ 2 ^ (Width - 1) \in Nat \ {0} /\ MaxNow \in Nat

\* What a text means: the layout that documents it, if it is a date, and whether day and
\* month may be swapped in it; the layouts that time.Parse reads it with, and those with
\* which it finds no such month; the time it stands for, if it is absolute; its number
\* and unit, if it is an offset.
ASSUME ArgAssumption ==
  /\ Args # {} /\ Args \cap Calls = {}
  /\ \A a \in Args \cup Calls :
       /\ {a.ambiguous, a.prefer, a.retry, a.strict} \subseteq BOOLEAN
       /\ a.layout # "" => a.layout \in a.reads
       /\ a.number \in Int /\ a.value \in Int
       /\ a.unit \in {"absolute", "s", "m", "h", "d", "y", "none"}

VARIABLES
  now,       \* the clock of the host
  pc,        \* control of CalculateOffset
  started,   \* the clock when it was called
  t,         \* the time that was parsed
  inverted,  \* outcome of the first comparison with the clock
  res,       \* its results
  err

offsetVars == <<now, pc, started, t, inverted, res, err>>
vars == <<offsetVars, parserVars>>

Init ==
  /\ now \in 0..MaxNow
  /\ pc = "ready" /\ started = now
  /\ t = 0 /\ inverted = FALSE /\ res = 0 /\ err = FALSE
  /\ call = (CHOOSE a \in Args : TRUE) /\ ParserInit

(***************************************************************************)
(* Durations                                                               *)
(***************************************************************************)

Half == 2 ^ (Width - 1)
Duration == -Half..Half - 1

\* Mutant of Wrapped: Duration is a number of any size.
Unbounded(n) == n

\* The product of two Durations.
Wrapped(n) == ((n + Half) % (2 * Half)) - Half

\* Time.Sub stops at the largest and the smallest Duration.
Saturated(n) == IF n >= Half THEN Half - 1 ELSE IF n < -Half THEN -Half ELSE n

\* Mutant of UnitOf: a day has twelve hours.
UnitOfHalfDays(u) ==
  CASE u \in {"m", "M"} -> Minute [] u \in {"h", "H"} -> Hour
    [] u \in {"d", "D"} -> 12 * Hour [] u \in {"y", "Y"} -> 365 * 12 * Hour
    [] OTHER -> Second

\* By the last letter, lower or upper case; seconds by default.
UnitOf(u) ==
  CASE u \in {"m", "M"} -> Minute
    [] u \in {"h", "H"} -> Hour
    [] u \in {"d", "D"} -> 24 * Hour
    [] u \in {"y", "Y"} -> 365 * 24 * Hour
    [] OTHER -> Second

\* Time.Nanosecond: the part of a second.
Nanosecond(time) == time % Second

(***************************************************************************)
(* CalculateOffset                                                         *)
(***************************************************************************)

NoShift == {"", "0", "null"}

\* The clock goes on while the text is parsed; nothing reads it then.
Ask(a) ==
  /\ pc = "ready"
  /\ IF a.text \in NoShift
       THEN pc' = "done" /\ call' = a /\ UNCHANGED <<datestr, i, p, stage>>
       ELSE pc' = "parse" /\ Start(a)
  /\ UNCHANGED <<now, started, t, inverted, res, err>>

\* Another caller of the package.  It has no use for the clock: one value will do.
Use(a) ==
  /\ pc = "ready" /\ now = 0
  /\ pc' = "use" /\ Start(a)
  /\ UNCHANGED <<now, started, t, inverted, res, err>>

Parse == pc \in {"parse", "use"} /\ parseTime /\ UNCHANGED offsetVars

\* time.Unix of a number of units, or what time.Parse returned.
TimeOf(a) ==
  CASE p.t = "s" -> a.number * Second
    [] p.t = "ms" -> a.number * Millisecond
    [] p.t = "us" -> a.number * Microsecond
    [] p.t = "ns" -> a.number
    [] p.t = "nil" -> a.value

Parsed ==
  /\ pc \in {"parse", "use"} /\ Returned
  /\ pc' = CASE pc = "use" -> "done"
             [] stage = "parsed" /\ pc = "parse" -> "compare"
             [] stage # "parsed" /\ pc = "parse" -> "number"
  /\ t' = IF stage = "parsed" THEN TimeOf(call) ELSE 0
  /\ stage' = "idle" /\ datestr' = "" /\ i' = 0 /\ p' = None
  /\ UNCHANGED <<call, now, started, inverted, res, err>>

\* Mutant of Inverted: compares with >=.
InvertedIfEqual == Nanosecond(t) >= Nanosecond(now)

Inverted == Nanosecond(t) > Nanosecond(now)

Compare ==
  /\ pc = "compare"
  /\ inverted' = Inverted
  /\ pc' = "sub"
  /\ UNCHANGED <<now, started, t, res, err, parserVars>>

Sub ==
  /\ pc = "sub"
  /\ res' = Saturated(IF inverted THEN now - t ELSE t - now)
  /\ pc' = "done"
  /\ UNCHANGED <<now, started, t, inverted, err, parserVars>>

\* strings.ToLower lets both be written.
LettersOf(unit) ==
  [m |-> {"m", "M"}, h |-> {"h", "H"}, d |-> {"d", "D"}, y |-> {"y", "Y"}][unit]

\* strconv.Atoi: digits after an optional sign.
AtoiOk(s) ==
  LET digits == From(s, IF ByteAt(s, 0) \in {"+", "-"} THEN 1 ELSE 0)
  IN digits # "" /\ ParseIntOk(digits)

\* An offset is a number with the letter of its unit, or without one in seconds.
ASSUME OffsetAssumption ==
  \A a \in Args :
    LET last == Len(a.text) - 1
        letter == ByteAt(a.text, last)
    IN /\ a.text \in NoShift => a.number = 0 /\ a.unit = "s"
       /\ a.unit \in {"s", "m", "h", "d", "y"} =>
            /\ \A u \in {"m", "h", "d", "y"} : a.unit = u <=> letter \in LettersOf(u)
            /\ a.text \in NoShift \/ AtoiOk(a.text) \/ AtoiOk(Upto(a.text, last))

\* A number, or a number and one more letter.
Number ==
  LET last == Len(call.text) - 1 IN
  /\ pc = "number"
  /\ \/ /\ AtoiOk(call.text) \/ AtoiOk(Upto(call.text, last))
        /\ res' = Wrapped(call.number * UnitOf(ByteAt(call.text, last)))
        /\ err' = FALSE
     \/ /\ ~AtoiOk(call.text) /\ ~AtoiOk(Upto(call.text, last))
        /\ res' = 0 /\ err' = TRUE
  /\ pc' = "done"
  /\ UNCHANGED <<now, started, t, inverted, parserVars>>

Tick ==
  /\ pc \in {"compare", "sub"} /\ now < MaxNow
  /\ now' = now + 1
  /\ UNCHANGED <<pc, started, t, inverted, res, err, parserVars>>

Next ==
  \/ Parse \/ Parsed \/ Compare \/ Sub \/ Number \/ Tick
  \/ \E a \in Args : Ask(a)
  \/ \E a \in Calls : Use(a)

\* The goroutine of the caller runs.
Spec == Init /\ [][Next]_vars /\ WF_vars(Parse \/ Parsed)

(***************************************************************************)
(* Properties                                                              *)
(***************************************************************************)

\* Every variable keeps its type; the result fits in a Duration.
TypeOK ==
  /\ now \in 0..MaxNow /\ started \in 0..now
  /\ pc \in {"ready", "parse", "use", "compare", "sub", "number", "done"}
  /\ call \in Args \cup Calls
  /\ {inverted, err} \subseteq BOOLEAN
  /\ t \in Int /\ res \in Duration
  /\ ParserTypeOK

\* A number that is written like a date: nothing but digits, as many as a time stamp
\* has or the way that time.Parse reads 2006, 20060102 or 20060102150405.
LooksLikeDate(a) ==
  /\ \A k \in 0..Len(a.text) - 1 : IsDigit(ByteAt(a.text, k))
  /\ Len(a.text) \in {10, 13, 16, 19} \/ a.reads # {}

\* parseTime takes for dates the absolute times, and the numbers that are written like
\* one: 3600 is a year, although a number without a unit is an offset in seconds
\* (date_offset.go:45, README.md:19).  It takes nothing else for a date, and reads the
\* times that the absolute ones stand for.
TextRead ==
  pc = "parse" /\ Returned =>
    /\ stage = "parsed" <=> call.unit = "absolute" \/ LooksLikeDate(call)
    /\ call.unit = "absolute" => TimeOf(call) = call.value

\* For an absolute time, the shift is right for an instant of the call: added
\* to the clock of that instant it shows the time asked for.
AbsoluteTimeShown ==
  pc = "done" /\ call \in Args /\ call.unit = "absolute" =>
    ~err /\ \E n \in started..now : Saturated(call.value - n) = res

\* parseTime ends, however often it starts again on a changed text.
ParseEnds == pc \in {"parse", "use"} ~> pc \notin {"parse", "use"}

\* What the units of an offset mean.
Day == 24 * Hour
Meaning(u) ==
  [s |-> Second, m |-> Minute, h |-> Hour, d |-> Day, y |-> 365 * Day][u]

\* An offset moves the clock by as many units as it says, forwards or backwards, in two
\* cases out of which nothing is said: if that does not fit in a Duration the product
\* wraps silently, and a number without a sign or a unit may be written like a date.
OffsetExact ==
  /\ pc = "done" /\ call \in Args /\ call.unit \in {"s", "m", "h", "d", "y"}
  /\ ~LooksLikeDate(call)
  => LET shift == call.number * Meaning(call.unit)
     IN shift \in Duration => ~err /\ res = shift
=============================================================================
