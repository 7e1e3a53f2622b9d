------------------------------ MODULE Console ------------------------------
(***************************************************************************)
(* The table of console devices (platform/debug_device.c) and the console  *)
(* in memory (platform/debug_ram.c).  A device is a record of function     *)
(* pointers: a pointer is the name of the function, and a call through it  *)
(* is a call of that function.  The serial line itself is in DbgUart: here *)
(* it is the sequence of the characters handed to it.                      *)
(***************************************************************************)
EXTENDS Integers, Sequences, FiniteSets

CONSTANTS Builds,        \* the devices configured: sequences in the order of dbg_dev_id_t
          BufSize,       \* DBG_RAM_BUFSIZE, scaled
          Chars,         \* the characters printed
          MaxPrinted     \* bound on the characters printed

VARIABLES dbg_dev,       \* the table, index -> device
          cur_dev,       \* index of the current device
          dbg_buf,       \* the console in memory: idx, data
          build,         \* the devices of this build
          flushed,       \* the serial line was told of a panic
          wild,          \* a call through a null pointer was made
          handed         \* history: the characters handed to each function, in order

conVars == <<dbg_dev, cur_dev, dbg_buf, build, flushed, wild, handed>>

ASSUME ConsoleAssumption ==
  /\ Builds \subseteq {<<"uart">>, <<"ram">>, <<"uart", "ram">>}
  /\ BufSize \in Nat \ {0}

Null == "NULL"
Pointers == {"uart", "ram", "default", Null}
DBG_DEV_MAX == Len(build)
Id(name) == (CHOOSE i \in DOMAIN build : build[i] = name) - 1

Zero == [dev_id |-> 0, getchar |-> Null, putchar |-> Null, start_panic |-> Null]
Default == [dev_id |-> DBG_DEV_MAX, getchar |-> "default", putchar |-> "default",
            start_panic |-> "default"]

dbg_dev_uart == [dev_id |-> Id("uart"), getchar |-> "uart", putchar |-> "uart",
                 start_panic |-> "uart"]
\* dbg_ram_init() clears the record and sets only these two.
dbg_dev_ram == [Zero EXCEPT !.dev_id = Id("ram"), !.putchar = "ram"]

Registered(table, device) ==
  IF device.dev_id < DBG_DEV_MAX THEN [table EXCEPT ![device.dev_id] = device] ELSE table

\* The loop stops before the last entry, which stays cleared until it is registered.
dbg_device_init ==
  LET start == [i \in 0 .. DBG_DEV_MAX - 1 |-> IF i < DBG_DEV_MAX - 1 THEN Default ELSE Zero]
      uart == IF \E i \in DOMAIN build : build[i] = "uart"
              THEN Registered(start, dbg_dev_uart) ELSE start
  IN  IF \E i \in DOMAIN build : build[i] = "ram" THEN Registered(uart, dbg_dev_ram) ELSE uart

conInit ==
  /\ build \in Builds /\ dbg_dev = dbg_device_init /\ cur_dev = 0
  /\ dbg_buf = [idx |-> 0, data |-> [i \in 0 .. BufSize - 1 |-> Null]]
  /\ flushed = FALSE /\ wild = FALSE /\ handed = [f \in Pointers |-> <<>>]

-----------------------------------------------------------------------------
\* A bug: the index wraps one character late.
dbg_ram_putchar_late(buf, chr) ==
  [idx |-> IF buf.idx + 1 > BufSize THEN 0 ELSE buf.idx + 1,
   data |-> [i \in DOMAIN buf.data \cup {buf.idx} |->
               IF i = buf.idx THEN chr ELSE buf.data[i]]]
dbg_ram_putchar(buf, chr) ==
  [idx |-> IF buf.idx + 1 = BufSize THEN 0 ELSE buf.idx + 1,
   data |-> [buf.data EXCEPT ![buf.idx] = chr]]

\* dbg_putchar() does not look at the pointer it calls.
dbg_putchar(chr) ==
  LET f == dbg_dev[cur_dev].putchar
  IN  /\ Len(handed["uart"]) + Len(handed["ram"]) < MaxPrinted
      /\ handed' = [handed EXCEPT ![f] = Append(@, chr)]
      /\ dbg_buf' = IF f = "ram" THEN dbg_ram_putchar(dbg_buf, chr) ELSE dbg_buf
      /\ wild' = (wild \/ f = Null)
      /\ UNCHANGED <<dbg_dev, cur_dev, build, flushed>>

\* kdb reads keys: the memory console has no function for that.
dbg_getchar ==
  /\ wild' = (wild \/ dbg_dev[cur_dev].getchar = Null)
  /\ UNCHANGED <<dbg_dev, cur_dev, dbg_buf, build, flushed, handed>>

\* dbg_start_panic() does look at it.
dbg_start_panic ==
  /\ flushed' = (flushed \/ dbg_dev[cur_dev].start_panic = "uart")
  /\ UNCHANGED <<dbg_dev, cur_dev, dbg_buf, build, wild, handed>>

dbg_register_device(device) ==
  /\ dbg_dev' = Registered(dbg_dev, device)
  /\ UNCHANGED <<cur_dev, dbg_buf, build, flushed, wild, handed>>

\* -EINVAL and -ENXIO leave the current device as it is.
dbg_change_device(dev_id) ==
  /\ cur_dev' = IF dev_id < DBG_DEV_MAX /\ dbg_dev[dev_id].dev_id # DBG_DEV_MAX
                THEN dev_id ELSE cur_dev
  /\ UNCHANGED <<dbg_dev, dbg_buf, build, flushed, wild, handed>>

conNext ==
  /\ ~wild
  /\ \/ \E c \in Chars : dbg_putchar(c)
     \/ dbg_getchar
     \/ dbg_start_panic
     \/ dbg_register_device([Default EXCEPT !.dev_id = DBG_DEV_MAX])
     \/ \E i \in 0 .. DBG_DEV_MAX : dbg_change_device(i)

conSpec == conInit /\ [][conNext]_conVars

-----------------------------------------------------------------------------
Smaller(a, b) == IF a < b THEN a ELSE b

\* The memory console holds, oldest at its index once it is full, the last BufSize
\* characters printed while it was the current device, whatever was printed elsewhere
\* in between; and however devices are changed, output is never sent through a null
\* pointer: only reading a key from the memory console is.
MemoryKeepsLast ==
  /\ LET n == Len(handed["ram"])
     IN  \A back \in 1 .. Smaller(n, BufSize) :
           dbg_buf.data[(dbg_buf.idx + BufSize - back) % BufSize] = handed["ram"][n + 1 - back]
  /\ DOMAIN dbg_buf.data = 0 .. BufSize - 1
  /\ handed["default"] = <<>> /\ handed[Null] = <<>>
  /\ wild => dbg_dev[cur_dev].dev_id = Id("ram")
=============================================================================
