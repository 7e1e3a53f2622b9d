------------------------------ MODULE DbgUart -------------------------------
(***************************************************************************)
(* The debug console: two byte queues between the kernel thread and the    *)
(* UART's interrupt handler.                                               *)
(*                                                                         *)
(* The interrupt handler is one action: nothing that it shares data with   *)
(* interrupts it.  What the thread does is cut where the handler can see   *)
(* the difference: a queue's index is advanced, wrapped, and the byte      *)
(* moved, in three steps, and the UART is given a byte, marked busy and    *)
(* its interrupt enabled one after the other.  Bytes are numbered in the   *)
(* order in which they were printed, or came over the line.                *)
(***************************************************************************)
EXTENDS Integers, Sequences

CONSTANTS
  Size,      \* SEND_BUFSIZE and RECV_BUFSIZE
  MaxTx,     \* bytes printed
  MaxRx,     \* bytes received
  TxPending, \* a byte is printed only while fewer than this wait in the queue
  RxPending, \* and one comes over the line only while fewer than this do
  MayPanic   \* the kernel may panic

\* The receive queue never fills: queue_length() does not tell a full one.
ASSUME DbgUartAssumption ==
  /\ Size \in Nat /\ Size > 2 /\ MaxTx \in Nat /\ MaxRx \in Nat
  /\ TxPending \in Nat /\ RxPending \in Nat /\ RxPending < Size - 1 /\ MayPanic \in BOOLEAN

None == -1     \* an empty register
Bytes == 0..(IF MaxTx > MaxRx THEN MaxTx ELSE MaxRx)
Index == 0..(Size - 1)
Beyond == Size \* stands for every index behind the buffer
Queues == [data : [Index -> Bytes], top : 0..Beyond, end : 0..Beyond]

VARIABLES
  tx, rx,   \* dbg_uart.tx, dbg_uart.rx
  ready,    \* dbg_uart.ready
  txe,      \* the TXE interrupt is enabled
  tdr,      \* the transmit data register
  rdr,      \* the receive data register
  kdb,      \* the KDB softirq is pending
  pc,       \* where the kernel thread is
  printed,  \* the number of the byte printed last
  arrived,  \* the number of the byte received last
  wire,     \* history: the first MaxTx bytes sent, in order
  got       \* the bytes that dbg_uart_getchar() returned, in order

txVars == <<tx, ready, txe, tdr, wire>>
rxVars == <<rx, rdr, kdb, arrived, got>>
vars == <<txVars, rxVars, pc, printed>>

Steps == {"idle", "mark", "enable", "push", "push wrap", "push store",
          "pop wrap", "pop load",
          "flush", "flush wrap", "flush load", "flush wait", "panicked"}

TypeOK ==
  /\ tx \in Queues /\ rx \in Queues
  /\ ready \in BOOLEAN /\ txe \in BOOLEAN /\ kdb \in BOOLEAN
  /\ tdr \in Bytes \cup {None} /\ rdr \in Bytes \cup {None}
  /\ pc \in Steps
  /\ printed \in 0..MaxTx /\ arrived \in 0..MaxRx
  /\ wire \in Seq(Bytes) /\ got \in Seq(Bytes)

\* queue_init() and dbg_uart_init()
QueueInit == [data |-> [i \in Index |-> 0], top |-> 0, end |-> 0]

Init ==
  /\ tx = QueueInit /\ rx = QueueInit
  /\ ready = TRUE /\ txe = FALSE /\ kdb = FALSE
  /\ tdr = None /\ rdr = None
  /\ pc = "idle" /\ printed = 0 /\ arrived = 0
  /\ wire = <<>> /\ got = <<>>

-----------------------------------------------------------------------------
(* lib/queue.c                                                             *)

QueueLength(q) ==
  IF q.end >= q.top THEN q.end - q.top ELSE Size + q.top - q.end

\* What is really in a queue, of which Size - 1 places are ever used.
Waiting(q) == (q.end - q.top) % (Size - 1)

\* An index that was advanced past the place where it is compared stays
\* behind the buffer; what is read there is some byte.
Advance(i) == IF i = Beyond THEN Beyond ELSE i + 1
Wrap(i) == IF i = Size - 1 THEN 0 ELSE i
DataAt(q, i) == IF i \in Index THEN q.data[i] ELSE 0

\* Mutant: the byte is stored before the index is advanced.
QueuePushMut(q, x) == [q EXCEPT !.end = Wrap(Advance(@)), !.data[q.end] = x]

\* queue_push() and queue_pop() without interruption.
QueuePush(q, x) ==
  IF QueueLength(q) = Size THEN q
  ELSE LET e == Wrap(Advance(q.end))
       IN  [q EXCEPT !.end = e, !.data[e] = x]

QueuePop(q) == [q EXCEPT !.top = Wrap(Advance(@))]

-----------------------------------------------------------------------------
(* The UART and its interrupt handler                                      *)

\* The transmitter takes the byte from its register.
Transmit ==
  /\ tdr # None
  /\ wire' = IF Len(wire) < MaxTx THEN Append(wire, tdr) ELSE wire
  /\ tdr' = None
  /\ UNCHANGED <<tx, ready, txe, rxVars, pc, printed>>

\* A byte comes over the line; while the last one has not been fetched it is
\* lost in the receiver.
Receive ==
  /\ arrived < MaxRx /\ Waiting(rx) < RxPending
  /\ arrived' = arrived + 1
  /\ rdr' = IF rdr = None THEN arrived' ELSE rdr
  /\ UNCHANGED <<txVars, rx, kdb, got, pc, printed>>

\* Mutant: with nothing left to send the UART is not marked ready.
DbgUartSendMut ==
  /\ IF QueueLength(tx) # 0
       THEN LET q == QueuePop(tx) IN
            tx' = q /\ tdr' = DataAt(q, q.top) /\ txe' = TRUE
       ELSE txe' = FALSE /\ UNCHANGED <<tx, tdr>>
  /\ UNCHANGED <<ready, wire, rxVars>>

\* Mutant: a queue with one byte counts as empty.
DbgUartSend_last ==
  /\ IF QueueLength(tx) > 1
       THEN LET q == QueuePop(tx) IN
            tx' = q /\ tdr' = DataAt(q, q.top) /\ ready' = FALSE /\ txe' = TRUE
       ELSE ready' = TRUE /\ txe' = FALSE /\ UNCHANGED <<tx, tdr>>
  /\ UNCHANGED <<wire, rxVars>>

\* dbg_uart_send(1)
DbgUartSend ==
  /\ IF QueueLength(tx) # 0
       THEN LET q == QueuePop(tx) IN
            tx' = q /\ tdr' = DataAt(q, q.top) /\ ready' = FALSE /\ txe' = TRUE
       ELSE ready' = TRUE /\ txe' = FALSE /\ UNCHANGED <<tx, tdr>>
  /\ UNCHANGED <<wire, rxVars>>

\* dbg_uart_recv()
DbgUartRecv ==
  /\ rx' = QueuePush(rx, rdr) /\ rdr' = None
  /\ kdb' = TRUE
  /\ UNCHANGED <<txVars, arrived, got>>

\* __uart_irq_handler(): an enabled TXE interrupt counts as one that happened,
\* because usart_interrupt_status() reads the enable bit.
UartIrqHandler ==
  /\ pc # "panicked"
  /\ (txe /\ tdr = None) \/ rdr # None
  /\ IF txe THEN DbgUartSend ELSE DbgUartRecv
  /\ UNCHANGED <<pc, printed>>

-----------------------------------------------------------------------------
(* The kernel thread                                                       *)

\* dbg_async_putchar(): straight into the UART, or into the queue.  Once `ready` has
\* been found set the handler does not touch it, so the byte goes out with the test.
AsyncPutchar ==
  /\ pc = "idle" /\ printed < MaxTx /\ Waiting(tx) < TxPending
  /\ printed' = printed + 1
  /\ IF ready
       THEN pc' = "mark" /\ tdr' = printed'
       ELSE pc' = "push" /\ UNCHANGED tdr
  /\ UNCHANGED <<tx, ready, txe, wire, rxVars>>

\* The UART is marked busy before its TXE interrupt is enabled: between the two the
\* handler serves what comes over the line.
PutcharMark ==
  /\ pc = "mark" /\ pc' = "enable"
  /\ ready' = FALSE
  /\ UNCHANGED <<tx, txe, tdr, wire, rxVars, printed>>

PutcharEnable ==
  /\ pc = "enable" /\ pc' = "idle"
  /\ txe' = TRUE
  /\ UNCHANGED <<tx, ready, tdr, wire, rxVars, printed>>

\* queue_push() of the byte, tried until there is room.
PushAdvance ==
  /\ pc = "push" /\ QueueLength(tx) # Size
  /\ tx' = [tx EXCEPT !.end = Advance(@)]
  /\ pc' = "push wrap"
  /\ UNCHANGED <<ready, txe, tdr, wire, rxVars, printed>>

PushWrap ==
  /\ pc = "push wrap"
  /\ tx' = [tx EXCEPT !.end = Wrap(@)]
  /\ pc' = "push store"
  /\ UNCHANGED <<ready, txe, tdr, wire, rxVars, printed>>

PushStore ==
  /\ pc = "push store"
  /\ tx' = [tx EXCEPT !.data[tx.end] = printed]
  /\ pc' = "idle"
  /\ UNCHANGED <<ready, txe, tdr, wire, rxVars, printed>>

\* debug_kdb_handler() calls dbg_uart_getchar() once for each softirq.
GetcharAdvance ==
  /\ pc = "idle" /\ kdb
  /\ IF QueueLength(rx) = 0
       THEN kdb' = FALSE /\ UNCHANGED <<rx, pc>>
       ELSE rx' = [rx EXCEPT !.top = Advance(@)] /\ pc' = "pop wrap" /\ UNCHANGED kdb
  /\ UNCHANGED <<txVars, rdr, arrived, got, printed>>

PopWrap ==
  /\ pc = "pop wrap"
  /\ rx' = [rx EXCEPT !.top = Wrap(@)]
  /\ pc' = "pop load"
  /\ UNCHANGED <<txVars, rdr, kdb, arrived, got, printed>>

\* The byte is there; softirq_execute() clears the flag after the handler.
PopLoad ==
  /\ pc = "pop load"
  /\ got' = Append(got, DataAt(rx, rx.top))
  /\ kdb' = FALSE
  /\ pc' = "idle"
  /\ UNCHANGED <<txVars, rx, rdr, arrived, printed>>

\* panic_impl() calls dbg_uart_start_panic().
StartPanic ==
  /\ MayPanic /\ pc = "idle" /\ pc' = "flush"
  /\ UNCHANGED <<txVars, rxVars, printed>>

\* dbg_uart_start_panic(): empties the queue, with interrupts still enabled;
\* then panic_impl() disables them.
FlushAdvance ==
  /\ pc = "flush"
  /\ IF QueueLength(tx) = 0
       THEN pc' = "panicked" /\ UNCHANGED tx
       ELSE pc' = "flush wrap" /\ tx' = [tx EXCEPT !.top = Advance(@)]
  /\ UNCHANGED <<ready, txe, tdr, wire, rxVars, printed>>

FlushWrap ==
  /\ pc = "flush wrap" /\ pc' = "flush load"
  /\ tx' = [tx EXCEPT !.top = Wrap(@)]
  /\ UNCHANGED <<ready, txe, tdr, wire, rxVars, printed>>

\* dbg_sync_putchar(): the byte, and a wait until the transmitter is done.
FlushLoad ==
  /\ pc = "flush load" /\ pc' = "flush wait"
  /\ tdr' = DataAt(tx, tx.top)
  /\ UNCHANGED <<tx, ready, txe, wire, rxVars, printed>>

FlushWait ==
  /\ pc = "flush wait" /\ tdr = None /\ pc' = "flush"
  /\ UNCHANGED <<txVars, rxVars, printed>>

Thread ==
  \/ AsyncPutchar \/ PutcharMark \/ PutcharEnable \/ PushAdvance \/ PushWrap \/ PushStore
  \/ GetcharAdvance \/ PopWrap \/ PopLoad
  \/ StartPanic \/ FlushAdvance \/ FlushWrap \/ FlushLoad \/ FlushWait

Next == Thread \/ Transmit \/ Receive \/ UartIrqHandler

Spec == Init /\ [][Next]_vars

\* The UART sends, its interrupts are taken, and the thread goes on with what
\* it has begun.
FairSpec ==
  /\ Spec /\ WF_vars(Transmit) /\ WF_vars(UartIrqHandler)
  /\ WF_vars(PutcharMark \/ PutcharEnable \/ PushAdvance \/ PushWrap \/ PushStore
             \/ PopWrap \/ PopLoad
             \/ FlushAdvance \/ FlushWrap \/ FlushLoad \/ FlushWait)

-----------------------------------------------------------------------------
(* Properties.                                                             *)

\* dbg_async_putchar() queues a byte because it found the UART busy, and before the
\* byte is in the queue the handler may find the queue empty, mark the UART ready and
\* switch its interrupt off: the byte then stays in the queue until the next one is
\* printed.  That is all that can be left behind: a ready UART never has more than
\* one byte waiting behind it.
AtMostOneStranded == ready /\ pc = "idle" => Waiting(tx) <= 1

\* The bytes in the receive queue, with the one that queue_pop() has begun to
\* take as long as it has not been loaded.
RxContent ==
  LET begun == IF pc \in {"pop wrap", "pop load"} THEN 1 ELSE 0
  IN  [i \in 1..(Waiting(rx) + begun) |-> rx.data[(rx.top + i - begun) % (Size - 1)]]

\* The receive queue, filled by the interrupt handler and emptied by the
\* kernel thread, is the queue that lib/queue.h describes.
RxQueue == INSTANCE Fifo WITH Elements <- Bytes, buf <- RxContent, got <- got
RxIsFifo == RxQueue!Spec

Panicking == pc \in {"flush", "flush wrap", "flush load", "flush wait", "panicked"}

\* A busy UART becomes ready again, unless the kernel panics: though the handler can
\* see an index of the queue between its advance and its wrap, and then send bytes
\* that were sent before, neither it nor the thread leaves the other waiting.
BusyEnds == ~ready ~> (ready \/ Panicking)

\* "Previous characters in debug queue must be flushed out first"
\* (platform/debug_device.c): the panic gets to its message.
FlushEnds == Panicking ~> pc = "panicked"

\* "If UART is busy, try to put chr into queue until slot is freed, else write
\* directly into UART" (platform/debug_uart.c): the line carries what was
\* printed, in that order.
SentInOrder == \A i \in 1..Len(wire) : wire[i] = i

=============================================================================
