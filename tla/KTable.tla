------------------------------ MODULE KTable ------------------------------
(***************************************************************************)
(* A kernel table (kernel/lib/ktable.c): an array of elements with a bitmap *)
(* (include/lib/bitmap.h) of those in use, set by the load-exclusive and    *)
(* store-exclusive pair of platform/bitops.c.  Interrupt handlers never use *)
(* a table, but the exception itself clears the exclusive monitor: the      *)
(* store of an interrupted test-and-set fails and the bit counts as taken.  *)
(***************************************************************************)
EXTENDS Naturals

CONSTANTS Num,       \* elements of the table, kt->num
          Bits,      \* bits of its bitmap array, more than Num (DECLARE_BITMAP)
          WordBits,  \* bits that bitmap_cursor_id() tells apart in the bit band
          Bitband,   \* CONFIG_BITMAP_BITBAND
          NULL

\* The bitmap has a bit for every element and one more; ktable_init() clears
\* whole bytes; and a table in the bit band has fewer elements than the cursor
\* can tell apart (with as many, the loop of ktable_alloc() never ends).
ASSUME KTableAssumption ==
  /\ Num \in Nat /\ Bits \in Nat /\ WordBits \in Nat \ {0} /\ Num < Bits
  /\ Num % 8 = 0 /\ Bitband \in BOOLEAN /\ (Bitband => Num < WordBits)
  /\ NULL \notin Nat

VARIABLES bits,  \* the bitmap: the set of bits that are 1
          held,  \* the elements handed out and not yet freed
          ret,   \* what the last call returned
          intr   \* whether an exception hit one of its exclusive accesses

ktVars == <<bits, held, ret, intr>>

Elements == 0 .. Num - 1
Positions == 0 .. Bits - 1

\* The bits ktable_init() leaves as it finds them: it clears num / 8 bytes.
Uncleared == 8 * (Num \div 8) .. Bits - 1

\* A bug: the bit-band cursor used for a table of any size.
bitmap_cursor_id_band(c) == c % WordBits

bitmap_cursor_id(c) == IF Bitband THEN c % WordBits ELSE c

\* for_each_in_bitmap: the cursors up to the first whose id is not below num.
Visited == {c \in Positions : \A d \in 0 .. c : bitmap_cursor_id(d) < Num}

\* The bits a test-and-set turns from 0 to 1, when the exclusive accesses to
\* the bits of lost are interrupted.
Takes(lost) == {c \in Visited : c \notin bits /\ c \notin lost}

ktInit == /\ bits \in SUBSET Uncleared
          /\ held = {} /\ ret = NULL /\ intr = FALSE

ktable_alloc(lost) ==
  /\ \/ /\ Takes(lost) = {}
        /\ ret' = NULL /\ UNCHANGED <<bits, held>>
     \/ \E c \in Takes(lost) :
          /\ \A d \in Takes(lost) : c <= d
          /\ bits' = bits \cup {c}
          /\ ret' = bitmap_cursor_id(c)
          /\ held' = held \cup {bitmap_cursor_id(c)}
  /\ intr' = (lost # {})

\* ktable_alloc_id() for an index of the table; it would also take Num itself.
ktable_alloc_id(i, lost) ==
  /\ i <= Num
  /\ IF i \in bits \/ lost
     THEN ret' = NULL /\ UNCHANGED <<bits, held>>
     ELSE ret' = i /\ bits' = bits \cup {i} /\ held' = held \cup {i}
  /\ intr' = lost

\* ktable_free() of an element that its owner gives up.
ktable_free(e) ==
  /\ e \in held
  /\ bits' = bits \ {e} /\ held' = held \ {e}
  /\ ret' = NULL /\ intr' = FALSE

ktNext == \/ \E lost \in SUBSET Elements : ktable_alloc(lost)
          \/ \E i \in Elements, lost \in BOOLEAN : ktable_alloc_id(i, lost)
          \/ \E e \in Elements : ktable_free(e)

ktSpec == ktInit /\ [][ktNext]_ktVars

\* The bits of the elements are those of the elements handed out.
BitsAreHeld == /\ bits \subseteq Positions /\ held = bits \cap Elements /\ ret \in Elements \cup {NULL}

P == INSTANCE Pool

\* A table is a pool: it never hands out an element that has an owner, whatever
\* is interrupted, and it fails only when it is full or was interrupted
\* (ktable_alloc(), ktable_alloc_id(), ktable_free()).
TableIsPool == P!PoolSpec
=============================================================================
