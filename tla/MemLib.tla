------------------------------ MODULE MemLib ------------------------------
(***************************************************************************)
(* memcpy() and memset() of kernel/lib, shared by the kernel and the        *)
(* loader.  A byte of the source is represented by its address; a copy is   *)
(* described by what it read, what each address it wrote then holds, and    *)
(* whether all its word accesses were aligned.  The bytes are little-endian.*)
(***************************************************************************)
EXTENDS Integers

CONSTANTS Source, Dest,   \* the first addresses of the two areas, far apart
          MaxLen          \* bound on the lengths

ASSUME MemLibAssumption == Source \in Nat /\ Dest \in Nat /\ MaxLen \in Nat

VARIABLES call,    \* the function called and its arguments
          effect   \* where the call is, and what it did so far

mVars == <<call, effect>>

ToWord_plus(a) == a % 4           \* a bug: the sign forgotten
ToWord(a) == (4 - (a % 4)) % 4    \* - a & 3
Bit(n, b) == (n \div b) % 2

-----------------------------------------------------------------------------
(* memcpy: c is the state of the copy, with the C variables d, s, n and w,  *)
(* and in k the case of the switch taken                                    *)

\* What the addresses hold after those of bytes were written.
Stored(wrote, bytes) ==
  [a \in DOMAIN wrote \cup DOMAIN bytes |-> IF a \in DOMAIN bytes THEN bytes[a] ELSE wrote[a]]

Got(c, a) == [c EXCEPT !.read = @ \cup a .. a + 3, !.ok = @ /\ a % 4 = 0]
WordAt(a) == [i \in 0 .. 3 |-> a + i]
PutWord(c, word, off) ==
  [c EXCEPT !.wrote = Stored(@, [a \in c.d + off .. c.d + off + 3 |-> word[a - c.d - off]]),
            !.ok = @ /\ (c.d + off) % 4 = 0]

\* j times *d++ = *s++
CopyBytes(c, j) ==
  [c EXCEPT !.d = @ + j, !.s = @ + j, !.read = @ \cup c.s .. c.s + j - 1,
            !.wrote = Stored(@, [a \in c.d .. c.d + j - 1 |-> a - c.d + c.s])]
\* j words from s to d, then both advance
CopyWords(c, j) == [CopyBytes(c, 4 * j) EXCEPT !.ok = @ /\ (j > 0 => c.s % 4 = 0 /\ c.d % 4 = 0)]

\* (w LS 8 * (4 - k)) | (x RS 8 * k): the last k bytes of w, then the first of x.
Shifted(w, x, k) == [i \in 0 .. 3 |-> IF i < k THEN w[i + 4 - k] ELSE x[i - k]]

\* x = *(u32 *)(s + k + off), and the two words meet at d + off.
Round(c, off) ==
  LET x == WordAt(c.s + c.k + off)
  IN  [PutWord(Got(c, c.s + c.k + off), Shifted(c.w, x, c.k), off) EXCEPT !.w = x]

\* The bytes up to a word boundary of d, and the word they are from.
ShiftStart(c) ==
  LET k == c.d % 4
      loaded == [Got(c, c.s) EXCEPT !.w = WordAt(c.s), !.k = k, !.at = "shift"]
  IN  [CopyBytes(loaded, 4 - k) EXCEPT !.n = @ - (4 - k)]

memcpy ==
  /\ call.fn = "memcpy" /\ effect.at = "call"
  /\ LET head == IF ToWord(call.s) < call.n THEN ToWord(call.s) ELSE call.n
         start == [at |-> "words", d |-> call.d, s |-> call.s, n |-> call.n - head, w |-> WordAt(0),
                   k |-> 0, read |-> {}, wrote |-> [a \in {} |-> a], ok |-> TRUE]
         c == CopyBytes(start, head)
     IN  effect' = IF c.d % 4 = 0 THEN c
                   ELSE IF c.n >= 32 THEN ShiftStart(c) ELSE [c EXCEPT !.at = "rest"]
  /\ UNCHANGED call

\* The loop where both ends are aligned, and what is left after it.
WordLoop ==
  /\ effect.at = "words" /\ effect.n >= 16
  /\ effect' = [CopyWords(effect, 4) EXCEPT !.n = @ - 16]
  /\ UNCHANGED call
WordRest ==
  /\ effect.at = "words" /\ effect.n < 16
  /\ effect' = LET n == effect.n
                   c == CopyWords(effect, 2 * Bit(n, 8) + Bit(n, 4))
               IN  [CopyBytes(c, 2 * Bit(n, 2) + Bit(n, 1)) EXCEPT !.at = "done"]
  /\ UNCHANGED call

\* The loops of the three cases of the switch, four rounds a turn.
ShiftLoop ==
  /\ effect.at = "shift" /\ effect.n >= 16 + effect.k
  /\ effect' = [Round(Round(Round(Round(effect, 0), 4), 8), 12)
                  EXCEPT !.s = @ + 16, !.d = @ + 16, !.n = @ - 16]
  /\ UNCHANGED call

\* After the switch, or without it.
ByteRest ==
  /\ \/ effect.at = "rest"
     \/ effect.at = "shift" /\ effect.n < 16 + effect.k
  /\ effect' = LET n == effect.n
                   left == 16 * Bit(n, 16) + 8 * Bit(n, 8) + 4 * Bit(n, 4) + 2 * Bit(n, 2) + Bit(n, 1)
               IN  [CopyBytes(effect, left) EXCEPT !.at = "done"]
  /\ UNCHANGED call

-----------------------------------------------------------------------------
(* memset: the set of the addresses written *)

Fill(width, as) == UNION {a .. a + width - 1 : a \in as}

\* The bytes at both ends of n from d on; the words of m from s on, a multiple of
\* four; and the double words, 32 bytes a turn.
ByteStores(d, n) == {a \in {d, d + n - 1} : n > 0}
                      \cup {a \in {d + 1, d + 2, d + n - 2, d + n - 3} : n > 2}
                      \cup {a \in {d + 3, d + n - 4} : n > 6}
WordStores(s, m) == {s, s + m - 4}
                      \cup {a \in {s + 4, s + 8, s + m - 12, s + m - 8} : m > 8}
                      \cup {a \in {s + 12, s + 16, s + 20, s + 24, s + m - 28, s + m - 24,
                                   s + m - 20, s + m - 16} : m > 24}
DoubleStores(s, m) ==
  LET k == 24 + 4 * Bit(s, 4)
  IN  {s + k + 32 * i + 8 * j : i \in 0 .. ((m - k) \div 32) - 1, j \in 0 .. 3}

memset(d, n) ==
  LET s == d + ToWord(d)
      m == 4 * ((n - ToWord(d)) \div 4)
      words == {a \in WordStores(s, m) : n > 8}
      doubles == {a \in DoubleStores(s, m) : n > 8 /\ m > 24}
  IN  [at |-> "done", wrote |-> ByteStores(d, n) \cup Fill(4, words) \cup Fill(8, doubles),
       ok |-> (\A a \in words : a % 4 = 0) /\ (\A a \in doubles : a % 8 = 0)]

-----------------------------------------------------------------------------
mInit == /\ call \in [fn : {"memcpy"}, d : Dest .. Dest + 3, s : Source .. Source + 3, n : 0 .. MaxLen]
                      \cup [fn : {"memset"}, d : Dest .. Dest + 7, n : 0 .. MaxLen]
         /\ effect = [at |-> "call"]

Set == /\ call.fn = "memset" /\ effect.at = "call"
       /\ effect' = memset(call.d, call.n) /\ UNCHANGED call

mNext == memcpy \/ WordLoop \/ WordRest \/ ShiftLoop \/ ByteRest \/ Set

\* For every alignment of both ends and every length, memcpy() gives each byte of
\* the destination its own byte of the source, writes nothing else, reads nothing
\* outside the source (the shifted loops read ahead), and keeps its words aligned;
\* memset() fills exactly its area with aligned words.
FillsExactly ==
  effect.at = "done" =>
    /\ effect.ok
    /\ call.fn = "memcpy" =>
         /\ DOMAIN effect.wrote = call.d .. call.d + call.n - 1
         /\ \A a \in DOMAIN effect.wrote : effect.wrote[a] = a - call.d + call.s
         /\ effect.read \subseteq call.s .. call.s + call.n - 1
    /\ call.fn = "memset" => effect.wrote = call.d .. call.d + call.n - 1
=============================================================================
