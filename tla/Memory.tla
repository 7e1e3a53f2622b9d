------------------------------- MODULE Memory -------------------------------
(***************************************************************************)
(* Memory: flexible pages, the address spaces they are listed in, mapping  *)
(* them from one space to another, and the regions of the MPU.             *)
(*                                                                         *)
(* An operation is one action: it runs in the kernel thread or in the      *)
(* fault handler.  The list of a space is a sequence (as_next); map_next   *)
(* and mpu_next are kept as pointers, because they form cycles.  Addresses *)
(* are numbers modulo Mod, the size of the whole address space.            *)
(*                                                                         *)
(* A `status` other than "ok" is an end of the kernel: an assertion or a   *)
(* panic, a pointer that is null or leads to a free page, an endless loop. *)
(***************************************************************************)
EXTENDS Integers, SequencesExt, FiniteSetsExt

CONSTANTS
  Width,      \* bits of an address
  Granule,    \* CONFIG_SMALLEST_FPAGE_SIZE
  MaxPages,   \* CONFIG_MAX_FPAGES
  MaxSpaces,  \* CONFIG_MAX_ADRESS_SPACES
  Regions,    \* regions of the MPU (8)
  Pools,      \* the memory pools that pages are made of, [start, end, user, always]
  Areas,      \* the areas that threads map, [base, size]
  KipArea,    \* the areas of the two kernel interface pages
  Utcb,       \* the area of each new space's UTCB
  Stack,      \* the stack of the thread in each space
  Pc,         \* where all threads run
  Accesses,   \* the addresses that threads access
  MaxOps,     \* bound on the operations and faults of a run
  Outcomes    \* of what C leaves undefined in remove_fpage_from_list(): [end, fault],
              \* the value of `end` at entry, and a write to address 0 is a fault

Mod == 2^Width
Addr == 0..(Mod - 1)
Pages == 1..MaxPages
Spaces == 1..MaxSpaces
Root == 1
KipPages == <<1, 2>>   \* kip_fpage and kip_extra_fpage, which are in no space
Nil == 0
Link == Pages \cup {Nil}

Areas_ == [base : Addr, size : Addr]

ASSUME MemoryAssumption ==
  /\ Width \in Nat /\ Granule \in 1..Mod /\ MaxPages \in Nat /\ MaxSpaces \in Nat \ {0}
  /\ Regions \in Nat \ {0} /\ Pc \in Addr /\ Accesses \subseteq Addr /\ MaxOps \in Nat
  /\ Pools \subseteq [start : Addr, end : Addr, user : BOOLEAN, always : BOOLEAN]
  /\ Areas \subseteq Areas_ /\ KipArea \in [1..2 -> Areas_] /\ Utcb \in [Spaces -> Areas_] /\ Stack \in [Spaces -> Areas_]
  /\ Outcomes \subseteq [end : BOOLEAN, fault : BOOLEAN]

VARIABLES
  page,     \* fpage_table: base, size, flags and map_next of each entry
  mpuNext,  \* mpu_next of each entry
  used,     \* entries of fpage_table in use
  list,     \* the pages of each space, in the order of as_next
  asUsed,   \* entries of as_table in use
  mpu,      \* mpu_first and mpu_stack_first of each space
  region,   \* the MPU: what each region covers
  current,  \* the space of the thread that ran last
  running,  \* that thread has the CPU
  ops,      \* operations and faults so far
  status    \* "ok", or how the kernel came to its end

kvars == <<page, mpuNext, used, list, asUsed, mpu, status>>
vars == <<kvars, region, current, running, ops>>

Off == [base |-> 0, size |-> 0]   \* a region that is not enabled

TypeOK ==
  /\ page \in [Pages -> [base : Addr, size : 0..Mod, always : BOOLEAN, clone : BOOLEAN,
                         map : Link]]
  /\ mpuNext \in [Pages -> Link]
  /\ used \in SUBSET Pages
  /\ list \in [Spaces -> Seq(Pages)]
  /\ asUsed \in SUBSET Spaces
  /\ mpu \in [Spaces -> [first : Link, stack : Link]]
  /\ region \in [0..(Regions - 1) -> [base : Addr, size : 0..Mod]]
  /\ current \in Spaces /\ running \in BOOLEAN /\ ops \in 0..MaxOps
  /\ status \in {"ok", "panic", "wild", "hang"}

-----------------------------------------------------------------------------
(* Pages.  k is a record of the variables that an operation works on.      *)

Now == [page |-> page, mpuNext |-> mpuNext, used |-> used, list |-> list,
        asUsed |-> asUsed, mpu |-> mpu, status |-> status]

FpageEnd(k, p) == (k.page[p].base + k.page[p].size) % Mod
AddrInFpage(k, addr, p, inclEnd) ==
  \/ addr >= k.page[p].base /\ addr < FpageEnd(k, p)
  \/ inclEnd /\ addr = FpageEnd(k, p)

\* addr_align(), for a pool that has pages.
MempoolAlign(addr) == (((addr + Granule - 1) \div Granule) * Granule) % Mod

\* mempool_search()
InPool(base, size) == {m \in Pools : m.start <= base /\ m.end >= (base + size) % Mod}

\* fp_addr_log2(): the lowest bit that is set, and the highest one for zero.
FpAddrLog2(addr) ==
  IF addr = 0 THEN Width - 1 ELSE CHOOSE n \in 0..(Width - 1) : addr % 2^(n + 1) = 2^n

\* The size of the next page of a chain.
Tile(base, size) ==
  LET b == 2^FpAddrLog2(base) IN IF b > size THEN 2^FpAddrLog2(size) ELSE b

\* The pages that create_fpage_chain() makes of an area.
Tiles(base, size) ==
  LET tiles[s \in Addr, b \in Addr] ==
        IF s = 0 THEN <<>>
        ELSE LET t == Tile(b, s)
             IN  <<[base |-> b, size |-> t]>> \o tiles[s - t, (b + t) % Mod]
  IN  tiles[size, base]

\* create_fpage() of each page of the chain; it asserts that the table has room.
CreateFpageChain(k, base, size, always) ==
  LET create(t, ids) ==
        IF Len(t) > Len(ids) THEN [k |-> [k EXCEPT !.status = "panic"], chain |-> <<>>]
        ELSE [k |-> FoldLeft(LAMBDA s, i : [s EXCEPT
                      !.used = @ \cup {ids[i]},
                      !.mpuNext[ids[i]] = Nil,
                      !.page[ids[i]] = [base |-> t[i].base, size |-> t[i].size, always |-> always,
                                        clone |-> FALSE, map |-> ids[i]]],
                    k, [i \in 1..Len(t) |-> i]),
              chain |-> SubSeq(ids, 1, Len(t))]
  IN  create(Tiles(base, size), SelectSeq([p \in Pages |-> p], LAMBDA p : p \notin k.used))

\* insert_fpage_chain_to_as()
InsertChain(k, a, chain) ==
  LET l    == k.list[a]
      base == k.page[Last(chain)].base
      at   == CHOOSE i \in 1..Len(l) :
                /\ i = Len(l) \/ base < k.page[l[i + 1]].base
                /\ \A j \in 1..(i - 1) : base >= k.page[l[j + 1]].base
  IN  [k EXCEPT !.list[a] =
         IF l = <<>> THEN chain
         ELSE IF base < k.page[l[1]].base THEN chain \o l
         ELSE SubSeq(l, 1, at) \o chain \o SubSeq(l, at + 1, Len(l))]

\* remove_fpage_from_list() on the list of the space, which has the page.
RemoveFromAs(k, a, p, ub) ==
  LET l == k.list[a]
      i == CHOOSE j \in DOMAIN l : l[j] = p
  IN  [k EXCEPT !.list[a] = IF ub.end /\ i > 1 THEN <<l[1]>> \o SubSeq(l, i + 1, Len(l))
                            ELSE SubSeq(l, 1, i - 1) \o SubSeq(l, i + 1, Len(l))]

\* The first n pages that the links lead to from p on.
Along(next, p, n) ==
  LET from[m \in 0..n, x \in Link] ==
        IF x = Nil \/ m = 0 THEN <<>> ELSE <<x>> \o from[m - 1, next[x]]
  IN  from[n, p]

\* The same on the MPU's list, which may lack the page: then the null pointer
\* behind the last page is written through, an empty list is read through the
\* null pointer, and on a cycle the loop does not end.
RemoveFromMpu(k, a, p, ub) ==
  LET first == k.mpu[a].first
      remove(on, prev) ==
        IF prev # {} THEN [k EXCEPT !.mpuNext[on[Min(prev)]] = k.mpuNext[p]]
        ELSE IF Len(on) > MaxPages THEN [k EXCEPT !.status = "hang"]
        ELSE IF ub.fault THEN [k EXCEPT !.status = "wild"] ELSE k
      search(on) == remove(on, {i \in DOMAIN on : k.mpuNext[on[i]] = p})
  IN  IF first = p THEN [k EXCEPT !.mpu[a].first = k.mpuNext[p]]
      ELSE IF first = Nil THEN [k EXCEPT !.status = "wild"]
      ELSE IF ub.end THEN [k EXCEPT !.mpuNext[first] = k.mpuNext[p]]
      ELSE search(Along(k.mpuNext, first, MaxPages + 1))

RemoveFpageFromAs(k, a, p, ub) == RemoveFromMpu(RemoveFromAs(k, a, p, ub), a, p, ub)

\* Mutant: the chain on the other side of the split is dropped.
SplitFpageMut(k, a, p, addr, right, ub) ==
  LET split == MempoolAlign(addr)
      base  == k.page[p].base
      keep(c) == [k |-> InsertChain([RemoveFpageFromAs(c.k, a, p, ub) EXCEPT !.used = @ \ {p}],
                                    a, c.chain),
                  fp |-> IF right THEN c.chain[1] ELSE Last(c.chain)]
  IN  IF split \in {base, FpageEnd(k, p)} THEN [k |-> k, fp |-> p]
      ELSE IF k.page[p].map # p THEN [k |-> k, fp |-> Nil]
      ELSE keep(IF right THEN CreateFpageChain(k, split, FpageEnd(k, p) - split, k.page[p].always)
                ELSE CreateFpageChain(k, base, split - base, k.page[p].always))

\* split_fpage(): [k, fp], fp = Nil when the page is shared.
SplitFpage(k, a, p, addr, right, ub) ==
  LET split == MempoolAlign(addr)
      base  == k.page[p].base
      insert(cut, l, r) ==
        [k  |-> InsertChain(InsertChain([cut EXCEPT !.used = @ \ {p}], a, l), a, r),
         fp |-> IF right THEN r[1] ELSE Last(l)]
      both(l, r) ==
        IF r.k.status # "ok" THEN [k |-> r.k, fp |-> Nil]
        ELSE insert(RemoveFpageFromAs(r.k, a, p, ub), l.chain, r.chain)
      left(l) ==
        both(l, CreateFpageChain(l.k, split, (FpageEnd(k, p) - split) % Mod, k.page[p].always))
  IN  IF split \in {base, FpageEnd(k, p)} THEN [k |-> k, fp |-> p]
      ELSE IF k.page[p].map # p THEN [k |-> k, fp |-> Nil]
      ELSE left(CreateFpageChain(k, base, (split - base) % Mod, k.page[p].always))

\* assign_fpages_ext(), one page of the list: what lies before it is made into
\* new pages.  A page that follows such a gap is passed over, and `last` stays
\* in the gap.
AssignStep(s, p) ==
  LET base == s.k.page[p].base
      end  == FpageEnd(s.k, p)
      pass == [s EXCEPT !.out = Append(@, p)]
      fill(gap) ==
        IF gap.k.status # "ok" THEN [s EXCEPT !.k = gap.k]
        ELSE [s EXCEPT !.k = gap.k, !.out = @ \o Append(gap.chain, p),
                       !.first = IF @ = Nil THEN gap.chain[1] ELSE @,
                       !.last = Last(gap.chain), !.base = end]
  IN  IF s.k.status # "ok" \/ s.base >= s.end THEN pass
      ELSE IF s.base < base
        THEN fill(CreateFpageChain(s.k, MempoolAlign(s.base),
                    MempoolAlign((IF s.end < base THEN s.end ELSE base) - s.base), s.always))
      ELSE IF s.base < end
        THEN [pass EXCEPT !.first = IF @ = Nil THEN p ELSE @, !.last = p, !.base = end]
      ELSE pass

\* assign_fpages_ext(): [k, first, last].
AssignFpagesExt(k, a, base, size) ==
  LET pool == InPool(base, size)
      none(m) == [k |-> m, first |-> Nil, last |-> Nil]
      append(s, rest) ==
        IF rest.k.status # "ok" THEN none(rest.k)
        ELSE [k |-> [rest.k EXCEPT !.list[a] = s.out \o rest.chain],
              first |-> IF s.first = Nil THEN rest.chain[1] ELSE s.first,
              last |-> Last(rest.chain)]
      finish(s) ==
        IF s.k.status # "ok" THEN none(s.k)
        ELSE IF s.base >= s.end
          THEN [k |-> [s.k EXCEPT !.list[a] = s.out], first |-> s.first, last |-> s.last]
        ELSE append(s, CreateFpageChain(s.k, MempoolAlign(s.base),
                                        MempoolAlign(s.end - s.base), s.always))
  IN  IF size = 0 \/ pool = {} THEN none(k)
      ELSE finish(FoldLeft(AssignStep,
             [k |-> k, base |-> base, end |-> (base + size) % Mod, out |-> <<>>,
              first |-> Nil, last |-> Nil, always |-> \E m \in pool : m.always],
             k.list[a]))

\* map_fpage(): a null pointer is used when the table is full.  Mapping and
\* granting differ in FPAGE_MAPPED only, which nothing reads.
MapFpage(k, dst, p) ==
  LET q == Min(Pages \ k.used)
  IN  IF k.status # "ok" THEN k
      ELSE IF k.used = Pages THEN [k EXCEPT !.status = "wild"]
      ELSE InsertChain([k EXCEPT
             !.used = @ \cup {q},
             !.mpuNext[q] = Nil,
             !.page[q] = [k.page[p] EXCEPT !.always = FALSE, !.clone = TRUE],
             !.page[p].map = q],
             dst, <<q>>)

\* map_area() for a thread that is not privileged: the first and the last page
\* of the area, if the pages between them leave no gap.
FindStep(s, k, p) ==
  LET first == IF s.first = Nil /\ AddrInFpage(k, s.base, p, FALSE) THEN p ELSE s.first
  IN  IF s.last # Nil \/ s.gap THEN s
      ELSE IF AddrInFpage(k, s.end, p, TRUE) THEN [s EXCEPT !.first = first, !.last = p]
      ELSE IF first = Nil THEN s
      ELSE [s EXCEPT !.first = first, !.gap = ~AddrInFpage(k, s.probe, p, TRUE),
                     !.probe = (@ + k.page[p].size) % Mod]

FindFpages(k, a, base, size) ==
  LET found(s) == [k |-> k, first |-> IF s.gap THEN Nil ELSE s.first, last |-> s.last]
  IN  found(FoldLeft(LAMBDA t, p : FindStep(t, k, p),
              [first |-> Nil, last |-> Nil, base |-> base, end |-> (base + size) % Mod,
               probe |-> base, gap |-> FALSE],
              k.list[a]))

\* map_area(), from the pages found on: split the outer ones and map all.  When
\* the second split takes the page that the first one returned, the loop starts
\* from a page that is free.
MapFound(f, src, dst, base, size, ub) ==
  LET to == (base + size) % Mod
      at(k, p) == CHOOSE i \in DOMAIN k.list[src] : k.list[src][i] = p
      map(first, r) ==
        IF first = Nil \/ r.fp = Nil \/ r.k.status # "ok" THEN r.k
        ELSE IF first \notin Range(r.k.list[src]) THEN [r.k EXCEPT !.status = "wild"]
        ELSE FoldLeft(LAMBDA k, p : MapFpage(k, dst, p), r.k,
                      SubSeq(r.k.list[src], at(r.k, first), at(r.k, r.fp)))
      behind(l, order) ==
        {i \in DOMAIN order : /\ AddrInFpage(l.k, to, order[i], TRUE)
                              /\ \E j \in 1..i : order[j] = l.fp}
      last(l, order, i) == IF f.first = f.last /\ i # {} THEN order[Min(i)] ELSE f.last
      second(l) ==
        IF l.k.status # "ok" THEN l.k
        ELSE map(l.fp, SplitFpage(l.k, src, last(l, l.k.list[src], behind(l, l.k.list[src])),
                                  to, FALSE, ub))
  IN  second(SplitFpage(f.k, src, f.first, base, TRUE, ub))

\* map_area()
MapArea(k, src, dst, base, size, ub) ==
  LET with(f) == IF src = dst \/ f.first = Nil \/ f.last = Nil THEN f.k
                 ELSE MapFound(f, src, dst, base, size, ub)
  IN  IF k.status # "ok" THEN k
      ELSE with(IF src = Root THEN AssignFpagesExt(k, src, base, size)
                ELSE FindFpages(k, src, base, size))

\* unmap_fpage(), for a page that is a clone: the one before it on the cycle of
\* mappings is linked to the one behind it.
UnmapFpage(k, a, p, ub) ==
  LET next == [q \in Pages |-> k.page[q].map]
      unlink(cycle, prev) ==
        IF prev = {} THEN [k EXCEPT !.status = "hang"]
        ELSE [RemoveFpageFromAs([k EXCEPT !.page[cycle[Min(prev)]].map = next[p]], a, p, ub)
                EXCEPT !.used = @ \ {p}]
      from(cycle) == unlink(cycle, {i \in DOMAIN cycle : next[cycle[i]] = p})
  IN  from(Along(next, p, MaxPages))

\* Mutant: the loop ends at the last page.
AsDestroyEarlyMut(k, a, ub) ==
  [FoldLeft(LAMBDA s, p : IF s.status # "ok" THEN s ELSE UnmapFpage(s, a, p, ub), k, Front(k.list[a]))
     EXCEPT !.list[a] = <<>>, !.asUsed = @ \ {a}]

\* as_destroy() of a space that is not shared: it follows the list as it was.
AsDestroy(k, a, ub) ==
  LET one(s, p) == IF s.status # "ok" THEN s
                   ELSE IF s.page[p].clone THEN UnmapFpage(s, a, p, ub)
                   ELSE [s EXCEPT !.used = @ \ {p}]
  IN  [FoldLeft(one, k, k.list[a]) EXCEPT !.list[a] = <<>>, !.asUsed = @ \ {a}]

\* thread_space() for a thread that gets a space of its own: as_create(), the
\* pages of the KIP, and the UTCB from the space of the caller, which for the
\* root thread is its own.  as_create() leaves mpu_first as it was.
ThreadSpace(k, src, ub) ==
  LET a == Min(Spaces \ k.asUsed)
      c == [k EXCEPT !.asUsed = @ \cup {a}, !.list[a] = <<>>]
  IN  IF k.asUsed = Spaces THEN [k EXCEPT !.status = "wild"]
      ELSE MapArea(FoldLeft(LAMBDA s, p : MapFpage(s, a, p), c, KipPages),
                   src, a, Utcb[a].base, Utcb[a].size, ub)

\* as_map_user()
AsMapUser(k, a) ==
  FoldSet(LAMBDA m, s : AssignFpagesExt(s, a, m.start, m.end - m.start).k,
          k, {m \in Pools : m.user})

-----------------------------------------------------------------------------
(* The MPU.                                                                *)

RegionOf(k, p) == [base |-> k.page[p].base, size |-> k.page[p].size]

\* The pages of the stack, from its lower end up to the first gap.
StackPages(k, a) ==
  LET from == Stack[a].base
      step(s, p) == IF Len(s.on) < Regions /\ s.start < from + Stack[a].size
                       /\ AddrInFpage(k, s.start, p, FALSE)
                    THEN [on |-> Append(s.on, p), start |-> FpageEnd(k, p)] ELSE s
  IN  FoldLeft(step, [on |-> <<>>, start |-> from], k.list[a]).on

\* Links along a sequence of pages, set one after the other.
LinkAlong(next, on) ==
  FoldLeft(LAMBDA n, i : [n EXCEPT ![on[i]] = on[i + 1]], next,
           [i \in 1..(Len(on) - 1) |-> i])

\* The MPU's list, made anew when it is empty: the page of the PC, the pages
\* that are always mapped, the others.  The last of the others keeps its link.
MpuList(k, a) ==
  LET class(p) == IF AddrInFpage(k, Pc, p, FALSE) THEN 0 ELSE IF k.page[p].always THEN 1 ELSE 2
      of(c)    == SelectSeq(k.list[a], LAMBDA p : class(p) = c)
      on       == of(0) \o of(1) \o of(2)
      next     == LinkAlong(k.mpuNext, on)
  IN  IF k.mpu[a].first # Nil \/ on = <<>> THEN k
      ELSE [k EXCEPT !.mpu[a].first = on[1],
                     !.mpuNext = IF of(2) = <<>> THEN [next EXCEPT ![Last(on)] = Nil] ELSE next]

\* as_setup_mpu(): [k, region].  With all regions taken by the stack, mpu_first
\* is read from behind the array.
AsSetupMpu(k, a) ==
  LET fuel == Regions * (MaxPages + 1)
      first(on) == IF on = <<>> THEN Nil ELSE on[1]
      set(l, stack, fifo, ended) ==
        [k |-> [l EXCEPT !.mpuNext = LinkAlong(ended, fifo),
                         !.mpu[a] = [first |-> first(fifo), stack |-> first(stack)],
                         !.status = IF Len(stack) = Regions THEN "wild" ELSE @],
         region |-> [i \in 0..(Regions - 1) |->
                       IF i < Len(stack \o fifo) THEN RegionOf(k, (stack \o fifo)[i + 1]) ELSE Off]]
      link(l, stack, fifo, next) ==
        set(l, stack, fifo, IF stack = <<>> THEN next ELSE [next EXCEPT ![Last(stack)] = Nil])
      fill(l, stack, on, rest) ==
        IF Len(rest) < Regions - Len(stack) /\ Len(on) = fuel
        THEN [k |-> [l EXCEPT !.status = "hang"], region |-> region]
        ELSE link(l, stack, SubSeq(rest, 1, Min({Len(rest), Regions - Len(stack)})),
                  LinkAlong(l.mpuNext, stack))
      others(l, stack, on) == fill(l, stack, on, SelectSeq(on, LAMBDA p : p \notin Range(stack)))
      with(l) == others(l, StackPages(k, a), Along(l.mpuNext, l.mpu[a].first, fuel))
  IN  with(MpuList(k, a))

InRegion(r, addr) == addr \in r.base..(r.base + r.size - 1)
Accessible(addr) == \E i \in DOMAIN region : InRegion(region[i], addr)

\* mpu_select_lru(), for an address that a page of the space has: its page goes
\* to the head of the MPU's list, and the regions behind those of the stack are
\* loaded from that list.
MpuSelectLru(k, a, addr) ==
  LET p     == SelectSeq(k.list[a], LAMBDA q : AddrInFpage(k, addr, q, FALSE))[1]
      m     == [k EXCEPT !.mpuNext[p] = k.mpu[a].first, !.mpu[a].first = p]
      stack == Len(Along(m.mpuNext, m.mpu[a].stack, MaxPages + 1))
      on    == Along(m.mpuNext, p, Regions)
  IN  IF stack > MaxPages THEN [k |-> [m EXCEPT !.status = "hang"], region |-> region]
      ELSE [k |-> m, region |-> [i \in DOMAIN region |->
                        IF i - stack \in 0..(Len(on) - 1) THEN RegionOf(k, on[i - stack + 1])
                        ELSE region[i]]]

-----------------------------------------------------------------------------
Commit(k) ==
  /\ page' = k.page /\ mpuNext' = k.mpuNext /\ used' = k.used /\ list' = k.list
  /\ asUsed' = k.asUsed /\ mpu' = k.mpu /\ status' = k.status

\* memory_init(), thread_init_subsys() and create_root_thread()
Empty ==
  [page |-> [p \in Pages |-> [base |-> 0, size |-> 0, always |-> FALSE, clone |-> FALSE,
                              map |-> Nil]],
   mpuNext |-> [p \in Pages |-> Nil], used |-> {}, list |-> [a \in Spaces |-> <<>>],
   asUsed |-> {}, mpu |-> [a \in Spaces |-> [first |-> Nil, stack |-> Nil]], status |-> "ok"]

Booted ==
  LET kip == FoldLeft(LAMBDA k, m : CreateFpageChain(k, MempoolAlign(m.base), MempoolAlign(m.size), FALSE).k,
                      Empty, KipArea)
  IN  AsMapUser(ThreadSpace(kip, Root, [end |-> FALSE, fault |-> FALSE]), Root)

Init ==
  /\ \E k \in {Booted} :
       /\ page = k.page /\ mpuNext = k.mpuNext /\ used = k.used /\ list = k.list
       /\ asUsed = k.asUsed /\ mpu = k.mpu /\ status = k.status
  /\ region = [i \in 0..(Regions - 1) |-> Off]
  /\ current = Root /\ running = FALSE /\ ops = 0

\* The kernel takes the CPU from the thread, and leaves the MPU as it is.
InKernel(k) ==
  /\ ops < MaxOps /\ ops' = ops + 1
  /\ Commit(k) /\ running' = FALSE /\ UNCHANGED <<region, current>>

\* sys_thread_control(): a thread with a space of its own, whose UTCB is in a
\* pool of user memory, and its removal.
CreateSpace ==
  /\ status = "ok"
  /\ \E ub \in Outcomes : InKernel(ThreadSpace(Now, Root, ub))

DestroySpace(a) ==
  /\ status = "ok" /\ a \in asUsed \ {Root}
  /\ \E ub \in Outcomes : InKernel(AsDestroy(Now, a, ub))

Covered(l, pg) == UNION {pg[l[i]].base..(pg[l[i]].base + pg[l[i]].size - 1) : i \in DOMAIN l}
Cells(m) == m.base..(m.base + m.size - 1)

\* What callers keep to: the destination has nothing of the area yet, which
\* insert_fpage_chain_to_as() notes that it does not check, and an area that
\* the root thread hands out is new to it or is all there.
MapRequest(src, dst, m) ==
  /\ Cells(m) \cap Covered(list[dst], page) = {}
  /\ src = Root => \/ Cells(m) \cap Covered(list[src], page) = {}
                   \/ Cells(m) \subseteq Covered(list[src], page)

\* do_ipc() with a map item or a grant item.
MapItem(src, dst, m) ==
  /\ status = "ok" /\ {src, dst} \subseteq asUsed
  /\ src # dst => MapRequest(src, dst, m)
  /\ \E ub \in Outcomes : InKernel(MapArea(Now, src, dst, m.base, m.size, ub))

\* Mutant: the regions are set up only when a thread's space has no list yet.
ThreadSwitchMut(a) ==
  /\ status = "ok" /\ a \in asUsed
  /\ LET s == AsSetupMpu(Now, a)
     IN  IF mpu[a].first = Nil THEN Commit(s.k) /\ region' = s.region
         ELSE UNCHANGED <<kvars, region>>
  /\ current' = a /\ running' = TRUE /\ UNCHANGED ops

\* thread_switch()
ThreadSwitch(a) ==
  /\ status = "ok" /\ a \in asUsed
  /\ LET s == AsSetupMpu(Now, a) IN Commit(s.k) /\ region' = s.region
  /\ current' = a /\ running' = TRUE /\ UNCHANGED ops

\* An exception can be entered: its frame goes to the stack of the thread.
StackAccessible == \E addr \in Cells(Stack[current]) : Accessible(addr)

\* __memmanage_handler(), after an access of the thread.
MemFault(addr) ==
  /\ status = "ok" /\ running /\ StackAccessible /\ ~Accessible(addr)
  /\ ops < MaxOps /\ ops' = ops + 1
  /\ \E i \in DOMAIN list[current] : AddrInFpage(Now, addr, list[current][i], FALSE)
  /\ LET s == MpuSelectLru(Now, current, addr) IN Commit(s.k) /\ region' = s.region
  /\ UNCHANGED <<current, running>>

\* The same when no page of the space has the address or the frame could not be
\* stored: panic().
FatalFault ==
  /\ status = "ok" /\ running
  /\ \/ ~StackAccessible
     \/ \E addr \in Accesses :
          \A i \in DOMAIN list[current] : ~AddrInFpage(Now, addr, list[current][i], FALSE)
  /\ InKernel([Now EXCEPT !.status = "panic"])

Next ==
  \/ CreateSpace
  \/ \E a \in Spaces : DestroySpace(a) \/ ThreadSwitch(a)
  \/ \E src, dst \in Spaces, m \in Areas : MapItem(src, dst, m)
  \/ \E addr \in Accesses : MemFault(addr)
  \/ FatalFault

Spec == Init /\ [][Next]_vars

-----------------------------------------------------------------------------
(* Properties.                                                             *)

Listed(a) == {list[a][i] : i \in DOMAIN list[a]}

\* The pages of a space are in use, aligned, and follow each other without overlap.
SpacesSorted ==
  \A a \in asUsed : \A i \in DOMAIN list[a] :
    LET p == page[list[a][i]]
    IN  /\ list[a][i] \in used
        /\ p.size >= Granule /\ p.base % p.size = 0
        /\ i < Len(list[a]) => p.base + p.size <= page[list[a][i + 1]].base

\* What unmap_fpage() walks: from each page in use, map_next leads through pages
\* in use that describe the same memory back to it, and just one of them is not
\* a clone.
MapCycles ==
  \A p \in used :
    LET cycle == Along([q \in Pages |-> page[q].map], p, MaxPages)
        on    == {cycle[i] : i \in DOMAIN cycle}
    IN  /\ on \subseteq used
        /\ \E q \in on : page[q].map = p
        /\ \A q \in on : page[q].base = page[p].base /\ page[q].size = page[p].size
        /\ Cardinality({q \in on : ~page[q].clone}) = 1

\* Splitting, mapping, filling in and destroying return what they take: each page
\* in use is one of the KIP's or is in the list of exactly one space, once; the
\* lists are the "sorted list of fpages" (memory.c:31), "always size aligned"
\* (README.md), that each region of the MPU needs; and the cycles of mappings
\* are whole, so that unmap_fpage() meets every copy and ends.
NoPageLost ==
  status = "ok" =>
    /\ used = {1, 2} \cup UNION {Listed(a) : a \in asUsed}
    /\ \A a \in asUsed : Cardinality(Listed(a)) = Len(list[a])
    /\ \A a, b \in asUsed : a # b => Listed(a) \cap Listed(b) = {}
    /\ SpacesSorted
    /\ MapCycles

WithinSpace ==
  status = "ok" /\ running =>
    \A i \in DOMAIN region : Cells(region[i]) \subseteq Covered(list[current], page)

\* While a thread runs, the MPU lets it access memory of its space only, although
\* the MPU's lists are cycles after some faults and keep links to pages that
\* were split, freed and used again; and the handler of a memory fault makes the
\* address accessible, so that the thread does not fault there for ever.
RegionsOfSpace ==
  [][ /\ WithinSpace'
      /\ \A addr \in Accesses : MemFault(addr) /\ status' = "ok" => Accessible(addr)'
    ]_vars

\* "If fpage is not exist in as fpages list, does nothing" (fpage.c:105): to take
\* a page off the lists of its space comes to an end, whether it is on them or
\* not.
RemovalEnds == status # "hang"

\* A space gains an area as a whole or nothing of it, and loses memory only when
\* it is destroyed: splitting pages of the source takes nothing from it.
MapExact ==
  [][ status' = "ok" =>
        \A a \in asUsed \cap asUsed' :
          LET was == Covered(list[a], page)
              is  == Covered(list'[a], page')
          IN  /\ was \subseteq is
              /\ is # was /\ a # Root => \E m \in Areas : is \ was = Cells(m)
    ]_vars
=============================================================================
