---------------------------- MODULE Descriptors ----------------------------
(***************************************************************************)
(* The memory descriptors of the kernel information page: memory_init()    *)
(* (kernel/memory.c) writes them from the memory map, the root thread and  *)
(* the applications (user/root_thread.c, user/apps/l4test/threads.c) read  *)
(* from them where free memory is and which sections to map to a thread.   *)
(* A descriptor shares the low six bits of its two words between address   *)
(* and pool, size and tag.                                                 *)
(***************************************************************************)
EXTENDS Integers, Sequences, SequencesExt

CONSTANTS SectionLengths,  \* lengths in bytes of the linked sections
          CcmUsed          \* bytes of core-coupled memory that hold bitmaps

VARIABLES memmap,        \* the table of pools, as linked
          mem_desc       \* the descriptors in the information page

descVars == <<memmap, mem_desc>>

FpageSize == 256
addr_align(addr, size) == ((addr + size - 1) \div size) * size

-----------------------------------------------------------------------------
(* memmap[] on the layout of the linker script *)

Extent(start, len) == [start |-> start, end |-> start + len]
Section(start, len) == Extent(start, addr_align(len, FpageSize))
After(s) == addr_align(s.end, FpageSize)

KTEXT == 0
KDATA == 1
UTEXT == 2
UDATA == 3
AVAILABLE == 4
DEVICES == 5

Area(start, end, tag) == [start |-> start, end |-> end, tag |-> tag]
Tagged(s, tag) == Area(s.start, s.end, tag)

\* Of a build with these lengths of kernel text, user text, kernel data, user data,
\* user bss and bitmaps: for the loader everything is in RAM in the order of
\* f9_sram.ld, otherwise in that of f9_flash.ld, with the kernel's text in flash.
\* The kernel's sections end where they end; the user's are filled up to 256 bytes.
\* Left out: symbols, which are in no pool.  (AHB3DEV ends at A0001000, beyond TLC's
\* numbers.)
Linked(build) ==
  LET ktext == Extent(IF build.loader THEN \h20001000 ELSE \h8001000, build.ktext)
      utextAfter(s) == Section(After(s), build.utext)
      stacks == Extent(IF build.loader THEN utextAfter(ktext).end ELSE \h20000000, \h400)
      kip == Extent(stacks.end, 384)
      kdata == Extent(kip.end, build.kdata)
      kbss == Extent(After(kdata), build.kdata)
      utext == utextAfter(IF build.loader THEN ktext ELSE kbss)
      udata == Section(IF build.loader THEN After(kbss) ELSE utext.end, build.udata)
      ubss == Section(udata.end, build.ubss)
      ccm == \h10000000 + build.ccm
  IN  << Tagged(ktext, KTEXT), Tagged(utext, UTEXT),
         Tagged(kip, KDATA), Tagged(kdata, KDATA), Tagged(kbss, KDATA),
         Tagged(udata, UDATA), Tagged(ubss, UDATA), Area(ubss.end, \h2001c000, AVAILABLE),
         Area(\h10000000, ccm, KDATA), Area(ccm, \h10010000, AVAILABLE),
         Area(\h40000000, \h40007800, DEVICES), Area(\h40010000, \h40013400, DEVICES),
         Area(\h40014000, \h40014c00, DEVICES), Area(\h40020000, \h40022400, DEVICES),
         Area(\h40023c00, \h40040000, DEVICES), Area(\h50000000, \h50061000, DEVICES),
         Area(\h60000000, \h7ffff000, DEVICES) >>

\* The first pool that holds the range, counted from 0; -1 if none does.
mempool_search(base, size) ==
  SelectInSeq(memmap, LAMBDA p : p.start <= base /\ p.end >= base + size) - 1

-----------------------------------------------------------------------------
(* memory_init() writes the descriptors *)

Described == SelectSeq([i \in DOMAIN memmap |-> i],
                       LAMBDA i : memmap[i].tag \in {UTEXT, UDATA, AVAILABLE, DEVICES})

\* A bug: the tag is put into the length before it is rounded.
Descriptor_inside(i) ==
  LET p == memmap[i]
  IN  [base |-> addr_align(p.start, FpageSize) + (i - 1),
       size |-> addr_align(p.end - p.start + p.tag, FpageSize)]
\* The pool and the tag go where alignment left zeros: | is +.
Descriptor(i) ==
  LET p == memmap[i]
  IN  [base |-> addr_align(p.start, FpageSize) + (i - 1),
       size |-> addr_align(p.end - p.start, FpageSize) + p.tag]

memory_init == /\ mem_desc = <<>>
               /\ mem_desc' = [j \in DOMAIN Described |-> Descriptor(Described[j])]
               /\ UNCHANGED memmap

-----------------------------------------------------------------------------
(* User level reads them *)

Low(w) == w % 64
High(w) == w - Low(w)

get_free_base ==
  LET j == SelectInSeq(mem_desc, LAMBDA d : Low(d.size) = 4)
  IN  IF j = 0 THEN 0 ELSE High(mem_desc[j].base)

\* L4_Map() writes the two words of a map item, of header A (a map, not the last of
\* a chain); do_ipc() takes them for map_area().
MapItem(base, size) == <<High(base) + 10, High(size)>>
MapAreaOf(item) == [start |-> High(item[1]), end |-> High(item[1]) + High(item[2])]

map_user_sections ==
  LET user == SelectSeq(mem_desc, LAMBDA d : Low(d.size) \in {2, 3})
  IN  [j \in DOMAIN user |-> MapAreaOf(MapItem(user[j].base, user[j].size))]

-----------------------------------------------------------------------------
DescInit == /\ memmap \in {Linked(build) : build \in
                   [ktext : SectionLengths, utext : SectionLengths, kdata : SectionLengths,
                    udata : SectionLengths, ubss : SectionLengths, ccm : CcmUsed,
                    loader : BOOLEAN]}
            /\ mem_desc = <<>>

DescNext == memory_init

Apart(a, b) == a.end <= b.start \/ b.end <= a.start

\* What user level finds through the descriptors is what was linked, however long
\* the sections are: a new thread gets the three user sections and nothing else, free
\* memory starts behind all sections, and the pool number in a descriptor is that of
\* the pool the kernel finds for its range (for a pool that starts on a page; the
\* bitmaps in core-coupled memory may end off one, see the README).
SectionsFound == mem_desc # <<>> =>
  /\ map_user_sections = [j \in 1 .. 3 |-> LET p == memmap[<<2, 6, 7>>[j]]
                                           IN  [start |-> p.start, end |-> p.end]]
  /\ get_free_base = memmap[8].start
  /\ \A i \in 1 .. 7 : Apart(memmap[i], [start |-> get_free_base, end |-> memmap[8].end])
  /\ \A j \in DOMAIN mem_desc :
       LET d == mem_desc[j]
           p == memmap[Low(d.base) + 1]
       IN  /\ Low(d.size) = p.tag
           /\ p.start % FpageSize = 0 /\ High(d.size) > 0 =>
                mempool_search(High(d.base), High(d.size)) = Low(d.base)
=============================================================================
