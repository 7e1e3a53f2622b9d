----------------------------- MODULE Encodings -----------------------------
(***************************************************************************)
(* Words that user level packs (user/include/l4/types.h, message.h, ipc.h) *)
(* and the kernel takes apart (include/l4/ipc.h, include/thread.h,         *)
(* kernel/ipc.c), as functions on numbers, and the flexpages and rights    *)
(* that user level packs and takes apart itself.                           *)
(***************************************************************************)
EXTENDS Integers, FiniteSetsExt

CONSTANTS Periods,     \* microseconds asked for
          Bases,       \* flexpages: addresses
          Sizes,       \* and sizes in bytes
          ThreadNos, Versions

\* One word to be packed: what, and its arguments a and b.
VARIABLE word

\* n bits of w from bit lo on, and w with those bits set to v.
BitsOf(w, lo, n) == (w \div 2^lo) % 2^n
SetBits(w, lo, n, v) == w + ((v % 2^n) - BitsOf(w, lo, n)) * 2^lo

-----------------------------------------------------------------------------
(* Periods: mantissa of 10 bits, exponent of 5 *)

L4_Never == [m |-> 0, e |-> 0]

\* The first of __L4_TRY_EXPONENT(10), ..., (31) that applies, for a constant below
\* 2^31 (from there on it is L4_Never).
TimePeriodConstant(us) ==
  LET fits == {n \in 10 .. 30 : us < 2^n}
  IN  IF fits = {} THEN [m |-> (us \div 2^21) % 2^10, e |-> 21]
      ELSE [m |-> (us \div 2^(Min(fits) - 10)) % 2^10, e |-> Min(fits) - 10]

\* The loop for any other: halved until it fits ten bits.
RECURSIVE Halvings(_, _)
Halvings(man, e) == IF man >= 2^10 THEN Halvings(man \div 2, e + 1) ELSE [m |-> man, e |-> e]

L4_TimePeriod(us) == LET t == Halvings(us, 0) IN IF t.e <= 31 THEN t ELSE L4_Never

\* The two timeouts of a call in one word, and what sys_ipc() takes of it.
Raw(t) == t.m + t.e * 2^10
L4_Timeouts(snd, rcv) == <<Raw(snd), Raw(rcv)>>     \* upper and lower half

\* Ticks: m << e microseconds at 390 to the tick.
MicrosPerTick == 1000000 \div (168000000 \div 65536)
SleepTicks(timeouts) ==
  LET raw == timeouts[2]
  IN  (BitsOf(raw, 0, 10) * 2^BitsOf(raw, 10, 5)) \div MicrosPerTick

-----------------------------------------------------------------------------
(* Flexpages: rwx, extended, s of 6 bits, b *)

__L4_Msb(w) == Max({n \in 0 .. 30 : 2^n <= w})

L4_FpageLog2(base, s) == SetBits(SetBits(base, 4, 6, s), 0, 3, 0)
\* A bug: a size between two powers is rounded down.
L4_Fpage_down(base, size) == L4_FpageLog2(base, __L4_Msb(size))
L4_Fpage(base, size) ==
  LET msb == __L4_Msb(size) IN L4_FpageLog2(base, IF 2^msb < size THEN msb + 1 ELSE msb)

L4_SizeLog2(f) == BitsOf(f, 4, 6)
L4_Size(f) == IF L4_SizeLog2(f) = 0 THEN 0 ELSE 2^L4_SizeLog2(f)
L4_Address(f) == (f \div 2^L4_SizeLog2(f)) * 2^L4_SizeLog2(f)

\* Rights are three bits; or and and-not on them.
RightsOf(rwx) == {r \in 0 .. 2 : BitsOf(rwx, r, 1) = 1}
RightsWord(rights) == MapThenSumSet(LAMBDA r : 2^r, rights)
L4_Rights(f) == BitsOf(f, 0, 3)
L4_Set_Rights(f, rwx) == SetBits(f, 0, 3, rwx)
L4_FpageAddRights(f, rwx) == L4_Set_Rights(f, RightsWord(RightsOf(L4_Rights(f)) \cup RightsOf(rwx)))
L4_FpageRemoveRights(f, rwx) == L4_Set_Rights(f, RightsWord(RightsOf(L4_Rights(f)) \ RightsOf(rwx)))

-----------------------------------------------------------------------------
(* Thread ids and message tags *)

L4_GlobalId(no, version) == SetBits(SetBits(0, 14, 17, no), 0, 14, version)
L4_ThreadNo(id) == BitsOf(id, 14, 18)
L4_Version(id) == BitsOf(id, 0, 14)
GLOBALID_TO_TID(id) == id \div 2^14
TID_TO_GLOBALID(tid) == tid * 2^14

\* L4_MsgTag_t: u, t, flags, label; ipc_msg_tag_t: n_untyped, n_typed, prop,
\* reserved, label.
L4_MsgTag(u, t, label) == SetBits(SetBits(SetBits(0, 0, 6, u), 6, 6, t), 16, 15, label)
KernelTag(raw) == [n_untyped |-> BitsOf(raw, 0, 6), n_typed |-> BitsOf(raw, 6, 6),
                   label |-> BitsOf(raw, 16, 15)]

-----------------------------------------------------------------------------
EncInit == word \in [what : {"period"}, a : Periods, b : {0}]
              \cup [what : {"fpage"}, a : Bases, b : Sizes]
              \cup [what : {"thread"}, a : ThreadNos, b : Versions]
              \cup [what : {"tag"}, a : 0 .. 15, b : 0 .. 15]

\* What is packed on one side is what the other side finds: a sleep is never longer
\* than asked for and shorter by less than a tick and a 512th, whichever way the
\* compiler takes through L4_TimePeriod(); a flexpage is the smallest that holds the
\* size, at its base, with the rights given and not taken away (from 1 KB on, see
\* the README); the kernel sees the thread and the word counts user level meant.
EncodingsAgree ==
  LET a == word.a
      b == word.b
  IN
  /\ word.what = "period" =>
       LET slept == SleepTicks(L4_Timeouts(L4_Never, L4_TimePeriod(a))) * MicrosPerTick
       IN  /\ slept <= a /\ a - slept < MicrosPerTick + a \div 512 + 1
           /\ L4_TimePeriod(a) = TimePeriodConstant(a)
  /\ word.what = "fpage" =>
       LET f == L4_Fpage(a, b)
           g == L4_FpageRemoveRights(L4_FpageAddRights(f, 7), 2)
       IN  /\ L4_Size(f) >= b /\ L4_Size(f) \div 2 < b
           /\ a % L4_Size(f) = 0 => L4_Address(f) = a /\ L4_Address(g) = a
           /\ L4_Rights(f) = 0 /\ L4_Rights(g) = 5 /\ L4_SizeLog2(g) = L4_SizeLog2(f)
  /\ word.what = "thread" =>
       LET id == L4_GlobalId(a, b)
       IN  /\ GLOBALID_TO_TID(id) = a /\ L4_ThreadNo(id) = a /\ L4_Version(id) = b
           /\ L4_ThreadNo(TID_TO_GLOBALID(a)) = a
  /\ word.what = "tag" =>
       LET tag == KernelTag(L4_MsgTag(a, b, 4000 * a))
       IN  tag.n_untyped = a /\ tag.n_typed = b /\ tag.label = (4000 * a) % 2^15
=============================================================================
