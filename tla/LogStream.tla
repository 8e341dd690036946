----------------------------- MODULE LogStream ------------------------------
(***************************************************************************)
(* base/LogStream and base/Logging: a log record is put together in a      *)
(* FixedBuffer that never grows.  Text that does not fit is dropped, a     *)
(* number is only attempted while kMaxNumericSize bytes are left, as the   *)
(* digits and a terminating zero are written before their number is known. *)
(* The time stamp of a record is formatted once per second and kept in a   *)
(* thread local buffer.                                                    *)
(*                                                                         *)
(* Text is its length, except for numbers, which are sequences of digits.  *)
(***************************************************************************)
EXTENDS CInteger, SequencesExt

CONSTANTS
    BufferSize,        \* SIZE of FixedBuffer
    kMaxNumericSize,
    TextLengths,       \* lengths of the strings streamed
    Integers32,        \* integers streamed
    WideLengths,       \* lengths of 64 bit integers and of "%.12g"
    Amounts,           \* given to formatSI() and formatIEC(): [unit, value]
    TidLength, NameLength, LineNumberLength,   \* of thread id, file and line
    ErrnoLength,       \* of what strerror_tl() returns
    LastSecond,        \* bound on the clock
    LateZone           \* setTimeZone() after the first record, too

\* staticCheck() leaves ten characters more than any number has digits, and
\* "%.12g" has at most 19.  The amounts are explained at formatSI().
ASSUME LogStreamAssumption ==
    /\ kMaxNumericSize \in Nat /\ kMaxNumericSize - 10 > 18
    /\ BufferSize \in Nat \ {0}
    /\ TextLengths \subseteq Nat
    /\ WideLengths \subseteq 0..20
    /\ Amounts \subseteq [unit : {"one", "scaled", "wide"}, value : Nat]
    /\ \A amount \in Amounts : amount.unit # "one" => amount.value >= 9995
    /\ TidLength \in Nat /\ NameLength \in Nat /\ ErrnoLength \in Nat
    /\ LineNumberLength \in 0..11
    /\ LastSecond \in Nat
    /\ LateZone \in BOOLEAN

VARIABLES
    out,      \* the stream: [cur_, end: one past the last byte ever written, open]
    field,    \* the number written last: [kind, value, digits]
    stamp,    \* thread local [t_lastSecond, t_time]
    logZone,  \* whether g_logTimeZone is valid
    second,   \* the clock
    record    \* the time of the record and the time stamp in its text

logStreamVars == <<out, field, stamp, logZone, second, record>>

\* The table digits[], which is read from its middle: a remainder of C++ has
\* the sign of the dividend.
zero(lsd) == <<9, 8, 7, 6, 5, 4, 3, 2, 1, 0, 1, 2, 3, 4, 5, 6, 7, 8, 9>>[10 + lsd]

\* The values of an int.
INT_MAX == 2147483647
int32 == (-INT_MAX - 1)..INT_MAX

ASSUME IntegersAssumption == Integers32 \subseteq int32

\* The loops of convert() and of convertHex(), least significant digit first.
decimal[i \in int32] ==
    LET rest == Quotient(i, 10)
    IN  <<zero(Remainder(i, 10))>> \o IF rest = 0 THEN <<>> ELSE decimal[rest]

hexadecimal[i \in int32] ==
    LET rest == Quotient(i, 16)
    IN  <<Remainder(i, 16)>> \o IF rest = 0 THEN <<>> ELSE hexadecimal[rest]

convert(value) == [negative |-> value < 0, digits |-> Reverse(decimal[value])]

convertHex(value) == [negative |-> FALSE, digits |-> Reverse(hexadecimal[value])]

avail(s) == BufferSize - s.cur_

\* FixedBuffer::append: all or nothing, and never the last byte.
\* Mutant: the last byte is used.
putToTheEnd(s, len) ==
    IF avail(s) >= len
    THEN [s EXCEPT !.cur_ = @ + len, !.end = s.cur_ + len]
    ELSE s

put(s, len) ==
    IF avail(s) > len
    THEN [s EXCEPT !.cur_ = @ + len, !.end = s.cur_ + len]
    ELSE s

\* len characters and a terminating zero, written in place.
formatNumber(s, len) ==
    IF avail(s) >= kMaxNumericSize
    THEN [s EXCEPT !.cur_ = @ + len, !.end = s.cur_ + len + 1]
    ELSE s

-----------------------------------------------------------------------------
\* formatSI() and formatIEC() print a small amount as it is ("one") and any
\* other in a unit, with the decimals that make three digits; from a bound on the
\* next unit is used.  Such an amount is given in ten thousandths of its unit,
\* rounded down, "scaled" up to 2^53 and "wide" above, where not every int64_t is
\* a double.  printf of a double rounds a tie either way.
ulp(dec) == CASE dec = 2 -> 100 [] dec = 1 -> 1000 [] dec = 0 -> 10000

Plain(count) == [number |-> count, width |-> Len(decimal[count])]

Printed(amount, dec, suffix) ==
    LET half == ulp(dec) \div 2
    IN  {[number |-> n,
          width |-> Len(decimal[n]) + (IF dec > 0 THEN 1 ELSE 0) + suffix] :
            n \in {(amount + half) \div ulp(dec), (amount + half - 1) \div ulp(dec)}}

\* static_cast<double>(s), to the nearest double: the next ten thousandth of a
\* decimal unit is one, and may be the nearest.
double(amount) ==
    IF amount.unit = "wide" THEN {amount.value, amount.value + 1} ELSE {amount.value}

\* The bounds are compared with the integer, and the double is printed.
formatSI(amount) ==
    LET s == amount.value
        print(dec) == UNION {Printed(n, dec, 1) : n \in double(amount)}
    IN  CASE amount.unit = "one" -> IF s < 1000 THEN {Plain(s)} ELSE {}
          [] amount.unit # "one" /\ s < 99950 -> print(2)
          [] amount.unit # "one" /\ 99950 <= s /\ s < 999500 -> print(1)
          [] amount.unit # "one" /\ 999500 <= s /\ s < 9995000 -> print(0)
          [] OTHER -> {}

\* Here all is done with the double, and the amount is that of it.
formatIEC(amount) ==
    LET n == amount.value
    IN  CASE amount.unit = "one" -> IF n < 1024 THEN {Plain(n)} ELSE {}
          [] amount.unit # "one" /\ n < 99950 -> Printed(n, 2, 2)
          [] amount.unit # "one" /\ 99950 <= n /\ n < 999500 -> Printed(n, 1, 2)
          [] amount.unit # "one" /\ 999500 <= n /\ n < 10235000 -> Printed(n, 0, 2)
          [] OTHER -> {}

-----------------------------------------------------------------------------
NoField == [kind |-> "none", value |-> 0, text |-> 0]

LogStreamInit ==
    /\ out = [cur_ |-> 0, end |-> 0, open |-> FALSE]
    /\ field = NoField
    /\ stamp = [t_lastSecond |-> 0, t_time |-> [second |-> 0, local |-> FALSE]]
    /\ logZone = FALSE
    /\ second = 1
    /\ record = [second |-> 0, local |-> FALSE, stamp |-> stamp.t_time]

setTimeZone ==
    /\ stamp.t_lastSecond # 0 => LateZone
    /\ ~logZone
    /\ logZone' = TRUE
    /\ UNCHANGED <<out, field, stamp, second, record>>

NextSecond ==
    /\ second < LastSecond
    /\ second' = second + 1
    /\ UNCHANGED <<out, field, stamp, logZone, record>>

formatTime ==
    IF second # stamp.t_lastSecond
    THEN [t_lastSecond |-> second,
          t_time |-> [second |-> second, local |-> logZone]]
    ELSE stamp

\* Logger::Impl: a new stream, the time with its microseconds, thread id and
\* level, and the error text where an error was saved.
header(local, error) ==
    LET s == put(put([cur_ |-> 0, end |-> 0, open |-> TRUE], 17),
                 IF local THEN 8 ELSE 9)
        t == put(put(s, TidLength), 6)
    IN  IF error
        THEN put(formatNumber(put(put(t, ErrnoLength), 8), 2), 2)
        ELSE t

BeginRecord ==
    /\ ~out.open
    /\ stamp' = formatTime
    /\ record' = [second |-> second, local |-> logZone, stamp |-> stamp'.t_time]
    /\ \E error \in BOOLEAN : out' = header(logZone, error)
    /\ field' = NoField
    /\ UNCHANGED <<logZone, second>>

StreamText ==
    /\ out.open
    /\ \E len \in TextLengths : out' = put(out, len)
    /\ UNCHANGED <<field, stamp, logZone, second, record>>

StreamInteger ==
    /\ out.open
    /\ \E v \in Integers32 :
        LET text == convert(v)
        IN  /\ out' = formatNumber(out, Len(text.digits)
                                        + IF text.negative THEN 1 ELSE 0)
            /\ field' = [kind |-> "int", value |-> v, text |-> text]
    /\ UNCHANGED <<stamp, logZone, second, record>>

StreamPointer ==
    /\ out.open
    /\ \E v \in Integers32 :
        /\ v >= 0
        /\ out' = formatNumber(out, Len(convertHex(v).digits) + 2)
        /\ field' = [kind |-> "hex", value |-> v, text |-> convertHex(v)]
    /\ UNCHANGED <<stamp, logZone, second, record>>

\* Numbers TLC cannot compute with: only their length counts.
StreamWide ==
    /\ out.open
    /\ \E len \in WideLengths : out' = formatNumber(out, len)
    /\ UNCHANGED <<field, stamp, logZone, second, record>>

\* formatSI() and formatIEC() return a string, which is streamed as text.
StreamAmount ==
    /\ out.open
    /\ \E amount \in Amounts :
        \/ \E text \in formatSI(amount) :
            /\ field' = [kind |-> "SI", value |-> amount, text |-> text]
            /\ out' = put(out, text.width)
        \/ \E text \in formatIEC(amount) :
            /\ field' = [kind |-> "IEC", value |-> amount, text |-> text]
            /\ out' = put(out, text.width)
    /\ UNCHANGED <<stamp, logZone, second, record>>

\* Logger::Impl::finish(): " - ", the file, ':', the line and a newline.
finish(s) ==
    put(formatNumber(put(put(put(s, 3), NameLength), 1), LineNumberLength), 1)

\* ~Logger, which hands the record to g_output.
EndRecord ==
    /\ out.open
    /\ out' = [finish(out) EXCEPT !.open = FALSE]
    /\ UNCHANGED <<field, stamp, logZone, second, record>>

LogStreamNext ==
    \/ setTimeZone \/ NextSecond \/ BeginRecord \/ EndRecord
    \/ StreamText \/ StreamInteger \/ StreamPointer \/ StreamWide
    \/ StreamAmount

LogStreamSpec == LogStreamInit /\ [][LogStreamNext]_logStreamVars

-----------------------------------------------------------------------------
\* No byte is written past the buffer, the terminating zero of a number that
\* nearly fills it included, and one is left for the zero of debugString().
InsideBuffer == out.end <= BufferSize /\ out.cur_ < BufferSize

\* The number a reader sees, digit by digit from the left.
Denotes(text, base) ==
    LET digits == text.digits
        number[k \in 0..Len(digits)] ==
            IF k = 0 THEN 0
            ELSE base * number[k - 1] + IF text.negative THEN -digits[k] ELSE digits[k]
    IN  number[Len(digits)]

ThreeDigits(number) == number \in 100..999
UpTo1023(number) == number \in 100..1023

\* A number reads back as the value streamed, the smallest integer included, an
\* amount below the first unit as well, and a larger one has three digits and
\* more: 1.00 to 999 of its unit, or to 1023.
NumbersRead ==
    CASE field.kind = "int" -> Denotes(field.text, 10) = field.value
      [] field.kind = "hex" -> Denotes(field.text, 16) = field.value
      [] field.kind = "SI" ->
            IF field.value.unit = "one" THEN field.text.number = field.value.value
            ELSE ThreeDigits(field.text.number)
      [] field.kind = "IEC" ->
            IF field.value.unit = "one" THEN field.text.number = field.value.value
            ELSE UpTo1023(field.text.number)
      [] OTHER -> TRUE

\* The string that formatSI() returns is at most five characters long, that of
\* formatIEC() six.
AmountsFit ==
    /\ field.kind = "SI" => field.text.width <= 5
    /\ field.kind = "IEC" => field.text.width <= 6

\* The stamp kept from an earlier record is that of the second, and of the
\* zone, of the record it is used in.
StampCurrent ==
    /\ record.stamp.second = record.second
    /\ record.stamp.local = record.local

\* A record stays inside its buffer whatever is streamed into it, its numbers
\* read as the values given in the width promised, and it carries its own time.
RecordsSound == InsideBuffer /\ NumbersRead /\ AmountsFit /\ StampCurrent
=============================================================================
