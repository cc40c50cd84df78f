-------------------------------- MODULE Printf --------------------------------
(***************************************************************************)
(* printf of lib/printf.c: what it sends to uart_putc for a format and its *)
(* arguments.  A character is a string of length one, a text a sequence of *)
(* them; a conversion in a format is one element, "%d", "%x", "%s", or "%" *)
(* for a `%' followed by anything else.                                    *)
(***************************************************************************)
EXTENDS Integers, Sequences, SequencesExt

Numeral == <<"0", "1", "2", "3", "4", "5", "6", "7",
             "8", "9", "a", "b", "c", "d", "e", "f">>

\* The loops that fill `buffer' from the last digit on: num > 0 in the base.
Backwards(num, base) ==
  LET rest[n \in Nat] ==
        IF n = 0 THEN <<>> ELSE <<Numeral[(n % base) + 1]>> \o rest[n \div base]
  IN rest[num]

Forwards(s) == Reverse(s)

\* A negative number is turned round as a long, which has room for -INT_MIN.
IntPrint(num) ==
  IF num = 0 THEN <<"0">>
  ELSE IF num < 0 THEN <<"-">> \o Forwards(Backwards(-num, 10))
  ELSE Forwards(Backwards(num, 10))

HexPrint(num) == IF num = 0 THEN <<"0">> ELSE Forwards(Backwards(num, 16))

\* A string ends in front of its first NUL; an array may go on behind that.
NUL == "NUL"

StrPrint(str) ==
  LET end == Min({i \in 1 .. Len(str) + 1 : i > Len(str) \/ str[i] = NUL})
  IN SubSeq(str, 1, end - 1)

\* The conversions for which printf takes an argument: no others.
Takes(c) == c \in {"%d", "%x", "%s"}

\* How many arguments are gone after the first i elements of the format.
Taken(format, i) == Cardinality({k \in 1 .. i : Takes(format[k])})

\* Each conversion finds an argument of its kind; without, va_arg is undefined.
Matches(format, kinds) ==
  \A i \in 1 .. Len(format) :
    Takes(format[i]) =>
      /\ Taken(format, i) <= Len(kinds)
      /\ (format[i] = "%s") = (kinds[Taken(format, i)] = "str")

\* What element i of the format makes printf send.
Sent(format, args, i) ==
  LET arg == args[Taken(format, i)] IN
  CASE format[i] = "%d" -> IntPrint(arg)
    [] format[i] = "%x" -> <<"0", "x">> \o HexPrint(arg)
    [] format[i] = "%s" -> StrPrint(arg)
    [] format[i] = "%"  -> <<>>
    [] OTHER -> <<format[i]>>

Printed(format, args) ==
  FlattenSeq([i \in 1 .. Len(format) |-> Sent(format, args, i)])
=============================================================================
