----------------------------- MODULE Sampling -----------------------------
(***************************************************************************)
(* The sampling profiler of the kernel debugger: a probe on the timer       *)
(* interrupt stores program counters in a ring (kernel/sampling.c), and the *)
(* command 'p' attributes them to the symbols of the kernel (ksym.c), with  *)
(* the heapsort and the binary search of kernel/lib.                        *)
(***************************************************************************)
EXTENDS Integers, FiniteSetsExt, SequencesExt

CONSTANTS SymbolTables,   \* the tables of symbol addresses considered
          Pcs,            \* the program counters sampled, all positive
          MaxSampling     \* MAX_SAMPLING_COUNT

VARIABLES tbl,        \* __ksym_tbl: addresses in increasing order, from index 0
          prevIndex,  \* prev_index of ksym_lookup()
          sampledPc, sampledCount, enabled, started,
          hitcount, shown

sVars == <<tbl, prevIndex, sampledPc, sampledCount, enabled, started, hitcount, shown>>

ksym_total == Cardinality(DOMAIN tbl)
Slots == 0 .. MaxSampling - 1

-----------------------------------------------------------------------------
(* kernel/lib/sort.c: elements are compared by their keys *)

vecswap(a, i, j) == [a EXCEPT ![i] = a[j], ![j] = a[i]]

RECURSIVE SiftDown(_, _, _, _)
SiftDown(a, r, n, key) ==
  LET left == 2 * r + 1
      c == IF left < n - 1 /\ key[a[left]] < key[a[left + 1]] THEN left + 1 ELSE left
  IN  IF left >= n \/ key[a[r]] >= key[a[c]] THEN a
      ELSE SiftDown(vecswap(a, r, c), c, n, key)

Down(hi, lo) == [k \in 1 .. hi - lo + 1 |-> hi + 1 - k]

sort(base, num, key) ==
  FoldLeft(LAMBDA a, i : SiftDown(vecswap(a, 0, i), 0, i, key),
           FoldLeft(LAMBDA a, i : SiftDown(a, i, num, key), base, Down(num \div 2 - 1, 0)),
           Down(num - 1, 1))

-----------------------------------------------------------------------------
(* kernel/lib/bsearch.c and kernel/ksym.c: -1 stands for NULL *)

cmp_key(addr, p) ==
  IF p = ksym_total - 1 \/ (addr >= tbl[p] /\ addr < tbl[p + 1]) THEN 0
  ELSE addr - tbl[p]

RECURSIVE bsearch(_, _, _)
bsearch(key, base, lim) ==
  LET p == base + lim \div 2
      cmp == cmp_key(key, p)
  IN  IF lim = 0 THEN -1
      ELSE IF cmp = 0 THEN p
      ELSE IF cmp > 0 THEN bsearch(key, p + 1, (lim - 1) \div 2)
      ELSE bsearch(key, base, lim \div 2)

\* A bug: the search never goes back behind the last symbol found.
ksym_lookup_forward(addr, prev) == bsearch(addr, prev, ksym_total - prev)

ksym_lookup(addr, prev) ==
  IF tbl[prev] < addr THEN bsearch(addr, prev, ksym_total - prev)
  ELSE bsearch(addr, 0, ksym_total)

-----------------------------------------------------------------------------
(* kernel/sampling.c and kernel/sampling-kdb.c *)

sInit == /\ tbl \in SymbolTables
         /\ prevIndex = 0 /\ sampledPc = [i \in Slots |-> 0] /\ sampledCount = 0
         /\ enabled = FALSE /\ started = FALSE
         /\ hitcount = [i \in DOMAIN tbl |-> 0] /\ shown = <<>>

\* The first 'p': sampling_init(), sampling_enable(), and the probe is placed.
StartSampling ==
  /\ ~started /\ started' = TRUE /\ enabled' = TRUE
  /\ sampledPc' = [i \in Slots |-> 0] /\ sampledCount' = 0
  /\ UNCHANGED <<tbl, prevIndex, hitcount, shown>>

\* sampling_handler(), called by the probe on ktimer_handler().
sampled_pcpush(pc) ==
  /\ started /\ enabled
  /\ \E at \in {IF sampledCount = MaxSampling THEN 0 ELSE sampledCount} :
       /\ sampledPc' = [sampledPc EXCEPT ![at] = pc]
       /\ sampledCount' = at + 1
  /\ UNCHANGED <<tbl, prevIndex, enabled, started, hitcount, shown>>

\* One round of the counting loop; prev carries ksym_lookup()'s static index.
CountHit(acc, pc) ==
  LET hit(symid) == IF symid < 0 THEN acc
                    ELSE [prev |-> symid, hits |-> [acc.hits EXCEPT ![symid] = @ + 1]]
  IN  hit(ksym_lookup(pc, acc.prev))

\* The lines kdb_show_sampling() prints: it stops at the first symbol without hits.
Show(list, hits) ==
  LET ids == [k \in 1 .. ksym_total |-> list[k - 1]]
      stop == {k \in DOMAIN ids : hits[ids[k]] = 0}
  IN  IF stop = {} THEN ids ELSE SubSeq(ids, 1, Min(stop) - 1)

\* A later 'p': sampling_disable(), sampling_stats(), the lines, sampling_enable().
ShowSampling ==
  /\ started
  /\ \E pcs \in {sort(sampledPc, MaxSampling, [v \in Pcs \cup {0} |-> v])} :
     \E acc \in {FoldLeft(CountHit, [prev |-> prevIndex, hits |-> [i \in DOMAIN tbl |-> 0]],
                          [k \in 1 .. MaxSampling |-> pcs[k - 1]])} :
       /\ sampledPc' = pcs
       /\ prevIndex' = acc.prev
       /\ hitcount' = acc.hits
       /\ shown' = Show(sort([i \in DOMAIN tbl |-> i], ksym_total,
                             [i \in DOMAIN tbl |-> -acc.hits[i]]), acc.hits)
  /\ enabled' = TRUE
  /\ UNCHANGED <<tbl, sampledCount, started>>

sNext == StartSampling \/ (\E pc \in Pcs : sampled_pcpush(pc)) \/ ShowSampling

-----------------------------------------------------------------------------
\* Every symbol that was hit is listed, once, the most frequent first.
ShownByHits ==
  /\ ToSet(shown) = {i \in DOMAIN tbl : hitcount[i] > 0}
  /\ Len(shown) = Cardinality(ToSet(shown))
  /\ \A k \in 2 .. Len(shown) : hitcount[shown[k - 1]] >= hitcount[shown[k]]

\* The symbol that a program counter lies in, as the table says.
SymbolOf(pc) == Max({i \in DOMAIN tbl : tbl[i] <= pc})
HitsOf(i, s) == Cardinality({k \in Slots : s[k] >= tbl[0] /\ SymbolOf(s[k]) = i})

\* Whatever index the lookups before have left in prev_index, sampling_stats()
\* drops no sample that lies at or behind the first symbol, and credits a symbol
\* other than the last with samples of its own only; and the display shows every
\* symbol hit, though kdb_show_sampling() stops at the first zero: that is sound
\* only because the identifiers were sorted by their hits.
CreditedNear ==
  [][ShowSampling =>
       /\ ShownByHits'
       /\ \A i \in DOMAIN tbl : i < ksym_total - 1 => hitcount'[i] <= HitsOf(i, sampledPc)
       /\ MapThenSumSet(LAMBDA i : hitcount'[i], DOMAIN tbl)
            >= Cardinality({k \in Slots : sampledPc[k] >= tbl[0]})]_sVars
=============================================================================
