-------------------------------- MODULE Apps --------------------------------
(***************************************************************************)
(* The user level that runs on the kernel: the root thread, which creates  *)
(* and starts the applications of the image, and the applications l4test   *)
(* (two threads that try out IPC, and their pager) and pingpong.  Each     *)
(* thread is a program, a sequence of system calls and of checks on what   *)
(* it has received.  The calls are those of Ipc and the thread control of  *)
(* the kernel; schedule() follows every call and every pass of             *)
(* ipc_deliver(), which the timer may bring at any moment.                 *)
(***************************************************************************)
EXTENDS Ipc, SequencesExt

CONSTANTS Images,      \* applications linked in, in the order of .user_runtime
          NumWords     \* L4_NumMRs()

\* In the order of their ids: pingpong has tid 0, l4test 256.
PMain == 2
Ping  == 3
Pong  == 4
LMain == 5
T1    == 6
T2    == 7

\* utcb->t_pager, as passed to L4_ThreadControl(): whoever creates the thread.
PagerOf == <<Root, Root, PMain, PMain, Root, LMain, LMain>>

MainOf == [pingpong |-> PMain, l4test |-> LMain]

VARIABLES
  image,      \* the image
  alive,      \* threads in thread_map
  children,   \* per thread: its children, t_child and then t_sibling
  slot,       \* ss_scheduled of SSI_IPC_THREAD and SSI_NORMAL_THREAD, 0: none
  current,    \* the thread that runs, 0: idle
  pc,         \* per thread: position in its program
  tag,        \* per thread: label and count of the message in its registers
  from,       \* per thread: R0 after a call, the sender
  threads,    \* pingpong: threads[]
  to_kill,    \* l4test: threads_to_kill
  ipc_ok,     \* l4test: no check of the test that runs has failed
  free,       \* free_mem and free_page: per allocating thread
  areas,      \* history: memory handed out, [by, base, size, page]
  beat        \* history: parity of the threads' steps and of the timer's passes

appVars == <<image, alive, children, slot, current, pc, tag, from, threads, to_kill,
             ipc_ok, free, areas, beat>>

UTCB_SIZE == 128
STACK_SIZE == 256       \* of pingpong; also a page of l4test
ROOT_STACK_SIZE == 512
FpageOf == [pingpong |-> 2 * UTCB_SIZE + 2 * STACK_SIZE,
            l4test |-> 4 * (UTCB_SIZE + STACK_SIZE)]

-----------------------------------------------------------------------------
(* Programs *)

\* L4_Ipc(to, from) with a message of the given label and number of words; an
\* empty msg is what is in the registers.
IpcCall(to, src, msg) == [op |-> "ipc", to |-> to, src |-> src, msg |-> msg]
L4_Send(to, msg) == IpcCall(to, NIL, msg)
L4_Receive(src) == IpcCall(NIL, src, <<>>)
L4_Wait == IpcCall(NIL, ANY, <<>>)
\* A bug: the reply is not waited for.
L4_Call_send(to, msg) == IpcCall(to, NIL, msg)
L4_Call(to, msg) == IpcCall(to, to, msg)
L4_ReplyWait(to, msg) == IpcCall(to, ANY, msg)
printf == L4_Send(LOG, <<0, 2>>)
print_result == <<printf, printf>>

\* L4_ThreadControl() for a new thread: size bytes taken, its UTCB first.
L4_ThreadControl(t, size) == [op |-> "create", thr |-> t, size |-> size]
\* size bytes taken, and mapped: a message with a typed item.
L4_Map(t, size, page) == [op |-> "map", thr |-> t, size |-> size, page |-> page]
\* The descriptors of the user's text, data and bss.
map_user_sections(t) == [i \in 1 .. 3 |-> L4_Map(t, 0, FALSE)]
\* ip, sp and stack size in three words.
start_thread(t) == L4_Send(t, <<0, 3>>)
\* ipc_ok = true
Begin == [op |-> "begin"]
\* The message in the registers has this label and words 1..n; otherwise the test has
\* failed.  With a wrong label it goes on at `to`, with a wrong word only if that is
\* to end the loop as well.
Check(label, n, to, ends) == [op |-> "check", label |-> label, n |-> n, to |-> to, ends |-> ends]
Sleep(t) == L4_Receive(t)

RootEntry(app) ==
  LET t == MainOf[app]
  IN  <<L4_ThreadControl(t, UTCB_SIZE)>> \o map_user_sections(t)
        \o <<L4_Map(t, ROOT_STACK_SIZE, FALSE), L4_Map(t, FpageOf[app], TRUE), start_thread(t)>>

__root_thread == FlattenSeq([i \in DOMAIN image |-> RootEntry(image[i])]) \o <<Sleep(Root)>>

\* create_thread() of pingpong; the child's id is known once it returns.
PingpongCreate(t) ==
  <<L4_ThreadControl(t, UTCB_SIZE + STACK_SIZE), start_thread(t), [op |-> "assign", thr |-> t]>>
pingpong_main == PingpongCreate(Ping) \o PingpongCreate(Pong) \o <<Sleep(PMain)>>

\* L4_Send(threads[PONG_THREAD]) and L4_Receive(threads[PING_THREAD]), for ever.
ping_thread == <<[op |-> "ping"]>>
pong_thread == <<[op |-> "pong"]>>

create_thread(t) == <<L4_ThreadControl(t, STACK_SIZE)>>
l4test_start_thread(t) == <<L4_Map(t, STACK_SIZE, FALSE), start_thread(t)>>

\* main(), and setup_ipc_threads() up to its loop, which is "pager".
l4test_main == <<printf, printf>> \o create_thread(T1) \o create_thread(T2)
                 \o l4test_start_thread(T1) \o l4test_start_thread(T2)
                 \o <<L4_Wait, [op |-> "pager"], Sleep(LMain)>>

\* The loops of the first thread over messages of 0 .. w - 1 words: label 0xf00f, then
\* 0xf00d; a wrong label ends the loop, a wrong word the first one.
ReceiveWords(w) ==
  FlattenSeq([n \in 1 .. w |-> <<L4_Receive(T2), Check(15, n - 1, 2 * w + 2, TRUE)>>])
ReplyWords(w) ==
  LET check(n) == Check(13, n - 1, 4 * w + 5, FALSE)
  IN  <<L4_Call(T2, <<>>)>>
        \o FlattenSeq([n \in 1 .. w - 1 |-> <<check(n), L4_ReplyWait(T2, <<>>)>>]) \o <<check(w)>>
\* "Get oneself killed"
GetKilled == L4_Call(LMain, <<0, 0>>)

\* The sender of the last message is compared with L4_LocalIdOf(ipc_t2), which is what
\* the stub L4_ExchangeRegisters() returns, an uninitialised value: either outcome may
\* come, and a difference is printed.
CompareLocalId == <<[op |-> "local"], printf>>

simple_ipc_t1_l ==
  <<Begin>> \o ReceiveWords(NumWords) \o print_result
    \o <<Begin>> \o ReplyWords(NumWords) \o print_result
    \o <<L4_Wait, Begin>> \o CompareLocalId \o print_result
    \o <<L4_Send(T2, <<0, 0>>), GetKilled>>

SendWords(w) == [n \in 1 .. w |-> L4_Send(T1, <<15, n - 1>>)]
AnswerWords(w) == [n \in 1 .. w |-> IF n = w THEN L4_Send(T1, <<13, n - 1>>)
                                    ELSE L4_ReplyWait(T1, <<13, n - 1>>)]
simple_ipc_t2_l ==
  SendWords(NumWords) \o <<L4_Receive(T1)>> \o AnswerWords(NumWords)
    \o <<L4_Send(T1, <<0, 0>>), L4_Receive(T1), GetKilled>>

Program(t) == CASE t = Root -> __root_thread [] t = PMain -> pingpong_main
                [] t = Ping -> ping_thread   [] t = Pong -> pong_thread
                [] t = LMain -> l4test_main  [] t = T1 -> simple_ipc_t1_l
                [] t = T2 -> simple_ipc_t2_l

AppInit ==
  /\ Init
  /\ image \in Images
  /\ alive = {Root} /\ children = [t \in Ids |-> <<>>]
  /\ slot = [ipc |-> 0, normal |-> 0] /\ current = Root
  /\ pc = [t \in Ids |-> 1] /\ tag = [t \in Ids |-> <<0, 0>>] /\ from = [t \in Ids |-> NIL]
  /\ threads = [ping |-> NIL, pong |-> NIL]
  /\ to_kill = 2 /\ ipc_ok = FALSE
  /\ free = [t \in Ids |-> 0] /\ areas = {} /\ beat = [run |-> 0, timer |-> 0]

-----------------------------------------------------------------------------
(* The scheduler *)

\* A bug: children come before their parent.
Preorder_post(ch, t) ==
  FlattenSeq([i \in DOMAIN ch[t] |-> ch[ch[t][i]] \o <<ch[t][i]>>])

\* A bug: the walk ends with the first child.
Preorder_first(ch, t) ==
  IF ch[t] = <<>> THEN <<>> ELSE <<ch[t][1]>> \o (IF ch[ch[t][1]] = <<>> THEN <<>> ELSE <<ch[ch[t][1]][1]>>)

\* The threads below t in the order of thread_select()'s walk.
RECURSIVE Preorder(_, _)
Preorder(ch, t) == FlattenSeq([i \in DOMAIN ch[t] |-> <<ch[t][i]>> \o Preorder(ch, ch[t][i])])

thread_select(tcbs, ch) ==
  LET order == SelectSeq(Preorder(ch, Root), LAMBDA t : tcbs[t].state = "RUNNABLE")
  IN  IF order = <<>> THEN 0 ELSE order[1]

\* schedule_select(): the slots in their order, with SSI_IDLE last.
schedule_select(tcbs, ch, s) ==
  LET runs(t) == t # 0 /\ tcbs[t].state = "RUNNABLE"
      other == thread_select(tcbs, ch)
  IN  IF runs(Root) THEN [slot |-> s, thr |-> Root]
      ELSE IF runs(s.ipc) THEN [slot |-> s, thr |-> s.ipc]
      ELSE IF runs(s.normal) THEN [slot |-> s, thr |-> s.normal]
      ELSE IF other # 0 THEN [slot |-> [s EXCEPT !.normal = other], thr |-> other]
      ELSE [slot |-> s, thr |-> 0]

\* Transfers between threads that have been started: do_ipc() goes on to dispatch
\* both, and to tell the receiver the sender.
Complete == SelectSeq(moved', LAMBDA m : tcb[m[1]].ctx /\ tcb[m[2]].ctx)
Dispatched == IF Complete = <<>> THEN slot
              ELSE [ipc |-> Last(Complete)[2], normal |-> Last(Complete)[1]]

schedule ==
  \E s \in {schedule_select(tcb', children', Dispatched)} : slot' = s.slot /\ current' = s.thr

\* What the transfers of a step leave in registers that hold m before.
Received(m) == tag' = FoldLeft(LAMBDA r, x : [r EXCEPT ![x[2]] = r[x[1]]], m, moved')
Senders == from' = FoldLeft(LAMBDA r, x : [r EXCEPT ![x[2]] = x[1]], from, Complete)

-----------------------------------------------------------------------------
(* Steps of the current thread *)

Advance(t) == pc' = [pc EXCEPT ![t] = IF @ < Len(Program(t)) THEN @ + 1 ELSE @]

\* L4_Ipc(): registers loaded, the call, the scheduler.
Ipc(t, to, src, msg) ==
  LET loaded == IF msg = <<>> THEN tag ELSE [tag EXCEPT ![t] = msg]
      dest == IF to \in Ids \ alive THEN ABSENT ELSE to
  IN  /\ SysIpc(t, dest, src, "none", IF loaded[t] = <<0, 3>> THEN "start" ELSE "words")
      /\ Received(loaded) /\ Senders
      /\ UNCHANGED <<image, alive, children, threads, to_kill, ipc_ok>>
      /\ schedule

StepIpc(t, i) ==
  i.op = "ipc" /\ Ipc(t, i.to, i.src, i.msg) /\ Advance(t) /\ UNCHANGED <<free, areas>>

StepPing(t, i) == i.op = "ping" /\ Ipc(t, threads.pong, NIL, <<0, 0>>) /\ UNCHANGED <<pc, free, areas>>
StepPong(t, i) == i.op = "pong" /\ Ipc(t, NIL, threads.ping, <<>>) /\ UNCHANGED <<pc, free, areas>>

\* free_mem += size, get_pages(); memory without a size was there before.
Take(t, size, page) ==
  /\ areas' = areas \cup (IF size = 0 THEN {} ELSE {[by |-> t, base |-> free[t], size |-> size, page |-> page]})
  /\ free' = [free EXCEPT ![t] = @ + size]

\* The flexpage of an application is where its own allocation begins.
TakeFor(t, i) ==
  IF i.page THEN /\ areas' = areas \cup {[by |-> t, base |-> free[t], size |-> i.size, page |-> TRUE]}
                 /\ free' = [free EXCEPT ![t] = @ + i.size, ![i.thr] = free[t]]
  ELSE Take(t, i.size, FALSE)

StepMap(t, i) == i.op = "map" /\ Ipc(t, i.thr, NIL, <<0, 0>>) /\ Advance(t) /\ TakeFor(t, i)

\* sys_thread_control(), creation: inactive, last of the caller's children.
StepCreate(t, i) ==
  /\ i.op = "create"
  /\ alive' = alive \cup {i.thr}
  /\ children' = [children EXCEPT ![t] = Append(@, i.thr)]
  /\ moved' = <<>> /\ Take(t, i.size, FALSE) /\ Advance(t)
  /\ UNCHANGED <<tcb, call, intended, mr, timed, leaked, image, tag, from, threads, to_kill, ipc_ok>>
  /\ schedule

StepAssign(t, i) ==
  /\ i.op = "assign"
  /\ threads' = IF i.thr = Ping THEN [threads EXCEPT !.ping = Ping] ELSE [threads EXCEPT !.pong = Pong]
  /\ Advance(t)
  /\ UNCHANGED <<vars, image, alive, children, slot, current, tag, from, to_kill, ipc_ok, free, areas>>

\* What the test threads do without a system call.
Computes ==
  UNCHANGED <<vars, image, alive, children, slot, current, tag, from, threads, to_kill, free, areas>>

StepBegin(t, i) == i.op = "begin" /\ ipc_ok' = TRUE /\ Advance(t) /\ Computes

StepCheck(t, i) ==
  LET label == tag[t][1] = i.label
      words == tag[t][2] >= i.n
  IN  /\ i.op = "check"
      /\ ipc_ok' = (ipc_ok /\ label /\ words)
      /\ IF label /\ (words \/ ~i.ends) THEN Advance(t) ELSE pc' = [pc EXCEPT ![t] = i.to]
      /\ Computes

StepLocal(t, i) ==
  /\ i.op = "local"
  /\ \E same \in BOOLEAN :
       /\ ipc_ok' = (ipc_ok /\ same)
       /\ pc' = [pc EXCEPT ![t] = IF same THEN @ + 2 ELSE @ + 1]
  /\ Computes

\* setup_ipc_threads(), a message at the pager: two words are a page fault, and
\* answered unless it is at address 0, which ipc_pf_abort_address and
\* ipc_pf_block_address are; anything else has its sender killed.  After an answer the
\* next message is there, otherwise it is back to L4_Wait() while a thread is left.
StepPager(t, i) ==
  /\ i.op = "pager"
  /\ IF tag[t] = <<0, 2>>
     THEN \/ Ipc(t, from[t], ANY, <<0, 0>>) /\ UNCHANGED <<pc, free, areas>>
          \/ pc' = [pc EXCEPT ![t] = @ - 1] /\ Computes /\ UNCHANGED ipc_ok
     ELSE LET dead == from[t]
          IN  /\ alive' = alive \ {dead}
              /\ children' = [children EXCEPT ![t] = SelectSeq(@, LAMBDA x : x # dead)]
              /\ tcb' = [tcb EXCEPT ![dead] = [state |-> "INACTIVE", ipc_from |-> NIL, ctx |-> FALSE]]
              /\ moved' = <<>>
              /\ to_kill' = to_kill - 1
              /\ pc' = [pc EXCEPT ![t] = IF to_kill = 1 THEN @ + 1 ELSE @ - 1]
              /\ UNCHANGED <<call, intended, mr, timed, leaked, image, tag, from, threads, ipc_ok,
                             free, areas>>
              /\ schedule

Run == /\ \E t \in {current} \ {0} : \E i \in {Program(t)[pc[t]]} :
            \/ StepIpc(t, i) \/ StepPing(t, i) \/ StepPong(t, i) \/ StepMap(t, i)
            \/ StepCreate(t, i) \/ StepAssign(t, i) \/ StepPager(t, i)
            \/ StepBegin(t, i) \/ StepCheck(t, i) \/ StepLocal(t, i)
       /\ beat' = [beat EXCEPT !.run = 1 - @]

\* The timer's softirq, and the scheduler after it.
Deliver == /\ IpcDeliver /\ Received(tag) /\ Senders
           /\ UNCHANGED <<image, alive, children, pc, threads, to_kill, ipc_ok, free, areas>>
           /\ schedule
           /\ beat' = [beat EXCEPT !.timer = 1 - @]

AppNext == Run \/ Deliver

\* The thread that is current gets on, and ipc_deliver(), which asks to be called
\* again, is called again: weak fairness of Run, which is enabled unless the idle
\* thread runs, and of Deliver, which always is.
AppFairness ==
  /\ []<>(beat.timer = 0) /\ []<>(beat.timer = 1)
  /\ []<>(current = 0) \/ ([]<>(beat.run = 0) /\ []<>(beat.run = 1))

AppSpec == AppInit /\ [][AppNext]_<<vars, appVars>> /\ AppFairness

-----------------------------------------------------------------------------
(* Properties *)

\* What one thread takes from its memory never overlaps, and what an application
\* takes lies in the flexpage that its declaration asks for.
MemoryDisjoint ==
  /\ \A a, b \in areas : a.by = b.by /\ a # b =>
       a.base + a.size <= b.base \/ b.base + b.size <= a.base
  /\ \A a \in areas : a.by # Root =>
       \E p \in areas : p.page /\ p.base <= a.base /\ a.base + a.size <= p.base + p.size

\* Where the first thread compares the local id.
LocalCheck == 4 * NumWords + 9

\* Every message the test threads receive is the one the test expects, in the order
\* of its loops, whenever the timer's pass delivers it and whoever runs meanwhile: no
\* check fails before the local id is compared, and the message whose sender is
\* compared then came from the second thread.  The stacks and UTCBs of the threads
\* (root_thread.c, get_pages()) do not overlap.
TestsPass ==
  /\ pc[T1] \in 2 .. LocalCheck => ipc_ok
  /\ pc[T1] = LocalCheck => from[T1] = T2
  /\ MemoryDisjoint

\* ping does not run before main has stored pong's id, though it is started first:
\* only the scheduler's order makes it so.
PingHasPong == current = Ping => threads.pong # NIL

\* The test comes to its end, both threads killed, and pong goes on receiving, each
\* alone on the system or both together; and a thread that can run does so in the
\* end, though a slot keeps its thread as long as it is runnable and nobody has a
\* timeslice: in these images the transfers of ipc_deliver() move the slots on.
AppsProgress ==
  /\ (\E i \in DOMAIN image : image[i] = "l4test") ~> to_kill = 0
  /\ (\E i \in DOMAIN image : image[i] = "pingpong") =>
       []<>(moved # <<>> /\ Last(moved)[2] = Pong)
  /\ \A t \in Ids : []<>(tcb[t].state # "RUNNABLE" \/ current = t)
=============================================================================
