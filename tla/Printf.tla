------------------------------ MODULE Printf ------------------------------
(***************************************************************************)
(* __l4_vprintf() of kernel/lib/stdio.c, one character of the format per    *)
(* step, behind the layer filter of kernel/debug.c.  A format is built from *)
(* directives, and what it prints is compared with what they ask for.       *)
(* A word of 32 bits is scaled to HexDigits digits of 4 bits.               *)
(***************************************************************************)
EXTENDS Integers, SequencesExt

CONSTANTS Directives,  \* the directives formats are made of
          MaxDirs,     \* and how many of them at most
          Numbers,     \* numeric arguments, below WordSize
          Strings,     \* string arguments: sequences of characters
          HexDigits    \* 2 * sizeof(val)

VARIABLES dirs, args, enabledLayer,                 \* the call
          fmt, mode, width, pad, va, out            \* its progress

pVars == <<dirs, args, enabledLayer, fmt, mode, width, pad, va, out>>

WordSize == 16 ^ HexDigits
Char == <<"0", "1", "2", "3", "4", "5", "6", "7", "8", "9", "a", "b", "c", "d", "e", "f">>
hexchars(x) == Char[x + 1]
Decimals == {Char[i] : i \in 1 .. 10}
Digit(c) == CHOOSE x \in 0 .. 9 : hexchars(x) = c
Repeat(c, n) == [k \in 1 .. n |-> c]

\* A line feed is preceded by a carriage return.
putchar_nl(c) == IF c = "\n" THEN <<"\r", "\n">> ELSE <<c>>
puts(str) == FlattenSeq([k \in DOMAIN str |-> putchar_nl(str[k])])
puts_x(str, w, p) == puts(str) \o Repeat(p, w - Len(str))

RECURSIVE HexWidth(_, _)
HexWidth(val, n) == IF n < HexDigits /\ val \div 16 ^ n # 0 THEN HexWidth(val, n + 1) ELSE n

put_hex(val, w, p) ==
  LET nwidth == IF HexWidth(val, 0) = 0 THEN 1 ELSE HexWidth(val, 0)
  IN  Repeat(p, w - nwidth)
        \o [k \in 1 .. nwidth |-> hexchars((val \div 16 ^ (nwidth - k)) % 16)]

RECURSIVE Divisor(_, _)
Divisor(val, d) == IF val \div d[1] >= 10 THEN Divisor(val, <<d[1] * 10, d[2] + 1>>) ELSE d
RECURSIVE Digits(_, _)
Digits(val, divisor) ==
  IF divisor = 0 THEN <<>>
  ELSE <<hexchars((val \div divisor) % 10)>> \o Digits(val, divisor \div 10)

put_dec(val, w, p) ==
  LET print(d) == Repeat(p, w - d[2]) \o Digits(val, d[1]) IN print(Divisor(val, <<1, 1>>))

-----------------------------------------------------------------------------
\* The characters of a directive; the arguments that fit any conversion.
CharsOf(d) ==
  IF d.kind = "text" THEN <<d.c>>
  ELSE <<"%">> \o (IF d.zero THEN <<"0">> ELSE <<>>)
         \o (IF d.width = 0 THEN <<>> ELSE Digits(d.width, Divisor(d.width, <<1, 1>>)[1]))
         \o (IF d.kind = "ld" THEN <<"l", "d">> ELSE <<d.kind>>)
Arguments == [num : Numbers, str : {<<>>}, chr : {"A"}] \cup [num : {0}, str : Strings, chr : {"A"}]
Typed == {k \in DOMAIN dirs : dirs[k].kind # "text"}

pInit == /\ dirs \in BoundedSeq(Directives, MaxDirs)
         /\ args \in [Typed -> Arguments]
         /\ enabledLayer \in BOOLEAN
         /\ fmt = FlattenSeq([k \in DOMAIN dirs |-> CharsOf(dirs[k])])
         /\ mode = 0 /\ width = 0 /\ pad = " "
         /\ va = FlattenSeq([k \in DOMAIN dirs |-> IF k \in Typed THEN <<args[k]>> ELSE <<>>])
         /\ out = <<>>

Emit(chars) == out' = out \o chars
Take(chars) == Emit(chars) /\ mode' = 0 /\ va' = Tail(va)
Char1 == Head(fmt)

\* A bug: the width of the directive before is kept.
StartDirective_keep == Char1 = "%" /\ mode' = 1 /\ pad' = " " /\ UNCHANGED <<width, va, out>>

StartDirective == /\ Char1 = "%"
                  /\ mode' = 1 /\ pad' = " " /\ width' = 0 /\ UNCHANGED <<va, out>>
PlainChar == /\ Char1 # "%" /\ mode = 0
             /\ Emit(putchar_nl(Char1)) /\ UNCHANGED <<mode, width, pad, va>>

\* The characters behind a '%': conversions end the directive, others modify it.
Specifier ==
  /\ Char1 # "%" /\ mode = 1
  /\ \/ Char1 = "c" /\ Take(<<Head(va).chr>>) /\ UNCHANGED <<width, pad>>
     \/ Char1 = "s" /\ Take(puts_x(Head(va).str, width, pad)) /\ UNCHANGED <<width, pad>>
     \/ Char1 = "d" /\ Take(put_dec(Head(va).num % WordSize, width, pad)) /\ UNCHANGED <<width, pad>>
     \/ Char1 = "p" /\ Take(put_hex(Head(va).num % WordSize, 8, "0")) /\ width' = 8 /\ pad' = "0"
     \/ Char1 = "x" /\ Take(put_hex(Head(va).num % WordSize, width, pad)) /\ UNCHANGED <<width, pad>>
     \/ /\ Char1 \in Decimals
        /\ pad' = IF Char1 = "0" /\ width = 0 THEN "0" ELSE pad
        /\ width' = width * 10 + Digit(Char1)
        /\ UNCHANGED <<mode, va, out>>
     \/ Char1 = "l" /\ UNCHANGED <<mode, width, pad, va, out>>

\* dbg_vprintf() returns at once when the layer is not enabled.
pNext == /\ enabledLayer /\ fmt # <<>> /\ fmt' = Tail(fmt)
         /\ UNCHANGED <<dirs, args, enabledLayer>>
         /\ StartDirective \/ PlainChar \/ Specifier

-----------------------------------------------------------------------------
\* What a directive asks for: the shortest numeral of the argument in its base,
\* filled up on the left, or the string filled up on the right.
Numeral(val, base) ==
  LET n == CHOOSE k \in 1 .. 4 * HexDigits :
             val < base ^ k /\ (k = 1 \/ val >= base ^ (k - 1))
  IN  [k \in 1 .. n |-> hexchars((val \div base ^ (n - k)) % base)]
Right(s, w, p) == Repeat(p, w - Len(s)) \o s
Wanted(d, a) ==
  LET p == IF d.zero THEN "0" ELSE " "
  IN  CASE d.kind = "c" -> <<a.chr>>
        [] d.kind = "s" -> puts(a.str) \o Repeat(p, d.width - Len(a.str))
        [] d.kind \in {"d", "ld"} -> Right(Numeral(a.num, 10), d.width, p)
        [] d.kind = "x" -> Right(Numeral(a.num, 16), d.width, p)
        [] d.kind = "p" -> Right(Numeral(a.num, 16), 8, "0")

\* A format prints, directive by directive, what its directives ask for, consumes
\* exactly their arguments, and leaves no width or padding behind for the next
\* one (__l4_vprintf()); on a disabled layer nothing is printed (dbg_vprintf()).
PrintsAsAsked ==
  /\ fmt = <<>> => out = FlattenSeq([k \in DOMAIN dirs |-> IF k \in Typed THEN Wanted(dirs[k], args[k])
                                                       ELSE putchar_nl(dirs[k].c)]) /\ va = <<>>
  /\ ~enabledLayer => out = <<>>
=============================================================================
