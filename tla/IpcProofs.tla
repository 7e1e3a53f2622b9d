----------------------------- MODULE IpcProofs ------------------------------
(***************************************************************************)
(* Proofs about Ipc, for any number of threads, any pagers and any size of *)
(* the timer table: blocked threads have a context and a partner, a phase  *)
(* of a call ends with its transfer, and a call transfers at most once.    *)
(***************************************************************************)
EXTENDS Ipc, Induction

Tcb == [state : States, ipc_from : Sources, ctx : BOOLEAN]

\* What a step's working state can be.
Working == [tcb : [Ids -> Tcb], call : [Ids -> [to : Targets, from : Sources]],
            mr : [Ids -> [from : Ids, kind : Kinds]], moved : Seq(Ids \X Ids)]

\* The types, without the bound that the table puts on events.
Typed ==
  /\ tcb \in [Ids -> Tcb]
  /\ call \in [Ids -> [to : Targets, from : Sources]]
  /\ mr \in [Ids -> [from : Ids, kind : Kinds]]
  /\ timed \in [Ids -> Nat]
  /\ leaked \in Nat

\* BlockedHasContext, of the threads of a working state.
Sound(threads) ==
  \A t \in Ids :
    /\ threads[t].state # "INACTIVE" => threads[t].ctx
    /\ threads[t].state = "RECV_BLOCKED" => threads[t].ipc_from # NIL

\* ipc_timeout() makes only threads runnable that have a context.
SleepersHaveContext == \A t \in Ids : timed[t] > 0 => tcb[t].ctx

IInv == Typed /\ BlockedHasContext /\ SleepersHaveContext

-----------------------------------------------------------------------------
(* The operators on a working state                                        *)

\* r is k with the state of thread t set to st.
StateSet(k, r, t, st) ==
  /\ r \in Working
  /\ r.call = k.call /\ r.mr = k.mr /\ r.moved = k.moved
  /\ \A u \in Ids : u # t => r.tcb[u] = k.tcb[u]
  /\ r.tcb[t].state = st
  /\ r.tcb[t].ipc_from = k.tcb[t].ipc_from
  /\ r.tcb[t].ctx = k.tcb[t].ctx

\* thread->state = st changes that thread's state and nothing else.
LEMMA SetStateFacts ==
  ASSUME NEW k \in Working, NEW t \in Ids, NEW st \in States
  PROVE  StateSet(k, SetState(k, t, st), t, st)
  <1> DEFINE set == [k.tcb[t] EXCEPT !.state = st]
             threads == [k.tcb EXCEPT ![t] = set]
             r == SetState(k, t, st)
  <1>1. k.tcb \in [Ids -> Tcb] BY DEF Working
  <1>2. k.tcb[t] \in Tcb BY <1>1
  <1>3. /\ set \in Tcb /\ set.state = st
        /\ set.ipc_from = k.tcb[t].ipc_from /\ set.ctx = k.tcb[t].ctx
    BY <1>2 DEF Tcb
  <1>4. r = [k EXCEPT !.tcb = threads] BY DEF SetState
  <1> HIDE DEF set
  <1>5. threads \in [Ids -> Tcb] /\ threads[t] = set /\ \A u \in Ids : u # t => threads[u] = k.tcb[u]
    BY <1>1, <1>3
  <1> HIDE DEF threads, r
  <1>6. r \in Working /\ r.tcb = threads /\ r.call = k.call /\ r.mr = k.mr /\ r.moved = k.moved
    BY <1>4, <1>5 DEF Working
  <1>7. StateSet(k, r, t, st) BY <1>3, <1>5, <1>6 DEF StateSet
  <1> QED BY <1>7 DEF r

\* The same for thread->ipc_from = f.
FromSet(k, r, t, f) ==
  /\ r \in Working
  /\ r.call = k.call /\ r.mr = k.mr /\ r.moved = k.moved
  /\ \A u \in Ids : u # t => r.tcb[u] = k.tcb[u]
  /\ r.tcb[t].ipc_from = f
  /\ r.tcb[t].state = k.tcb[t].state
  /\ r.tcb[t].ctx = k.tcb[t].ctx

LEMMA SetFromFacts ==
  ASSUME NEW k \in Working, NEW t \in Ids, NEW f \in Sources
  PROVE  FromSet(k, [k EXCEPT !.tcb[t].ipc_from = f], t, f)
  <1> DEFINE set == [k.tcb[t] EXCEPT !.ipc_from = f]
             threads == [k.tcb EXCEPT ![t] = set]
             r == [k EXCEPT !.tcb[t].ipc_from = f]
  <1>1. k.tcb \in [Ids -> Tcb] BY DEF Working
  <1>2. k.tcb[t] \in Tcb BY <1>1
  <1>3. /\ set \in Tcb /\ set.ipc_from = f
        /\ set.state = k.tcb[t].state /\ set.ctx = k.tcb[t].ctx
    BY <1>2 DEF Tcb
  <1>4. r = [k EXCEPT !.tcb = threads] OBVIOUS
  <1> HIDE DEF set
  <1>5. threads \in [Ids -> Tcb] /\ threads[t] = set /\ \A u \in Ids : u # t => threads[u] = k.tcb[u]
    BY <1>1, <1>3
  <1> HIDE DEF threads, r
  <1>6. r \in Working /\ r.tcb = threads /\ r.call = k.call /\ r.mr = k.mr /\ r.moved = k.moved
    BY <1>4, <1>5 DEF Working
  <1>7. FromSet(k, r, t, f) BY <1>3, <1>5, <1>6 DEF FromSet
  <1> QED BY <1>7 DEF r

\* The copy of a message: r has it in to's registers and in its history.
Copied(k, r, from, to) ==
  /\ r \in Working
  /\ r.tcb = k.tcb /\ r.call = k.call
  /\ r.moved = Append(k.moved, <<from, to>>)

LEMMA CopyFacts ==
  ASSUME NEW k \in Working, NEW from \in Ids, NEW to \in Ids
  PROVE  Copied(k, [k EXCEPT !.mr[to] = k.mr[from], !.moved = Append(k.moved, <<from, to>>)],
                from, to)
  <1> DEFINE regs == [k.mr EXCEPT ![to] = k.mr[from]]
             m == Append(k.moved, <<from, to>>)
             r == [k EXCEPT !.mr[to] = k.mr[from], !.moved = Append(k.moved, <<from, to>>)]
  <1>1. /\ k.mr \in [Ids -> [from : Ids, kind : Kinds]] /\ k.moved \in Seq(Ids \X Ids)
    BY DEF Working
  <1>2. regs \in [Ids -> [from : Ids, kind : Kinds]] /\ m \in Seq(Ids \X Ids) BY <1>1
  <1>3. r = [k EXCEPT !.mr = regs, !.moved = m] OBVIOUS
  <1> HIDE DEF regs, m, r
  <1>4. r \in Working /\ r.tcb = k.tcb /\ r.call = k.call /\ r.moved = m
    BY <1>2, <1>3 DEF Working
  <1>5. Copied(k, r, from, to) BY <1>4 DEF Copied, m
  <1> QED BY <1>5 DEF r

\* r is k after a transfer from `from` to `to`; rcv is the receive phase of
\* the sender's call.
Transferred(k, r, from, to, rcv) ==
  /\ r \in Working
  /\ r.call = k.call
  /\ r.moved = Append(k.moved, <<from, to>>)
  /\ \A u \in Ids : r.tcb[u].ctx = k.tcb[u].ctx
  /\ \A u \in Ids : u \notin {from, to} => r.tcb[u] = k.tcb[u]
  /\ to # from => r.tcb[to].state = "RUNNABLE"
  /\ r.tcb[from].state = IF rcv = NIL THEN "RUNNABLE" ELSE "RECV_BLOCKED"
  /\ rcv # NIL => r.tcb[from].ipc_from = rcv

\* do_ipc() between two threads that have contexts: the message is copied, the
\* receiver runs, and the sender runs or waits for its receive phase.
LEMMA DoIpcTransfers ==
  ASSUME NEW k \in Working, NEW c \in Ids, NEW from \in Ids, NEW to \in Ids, NEW rcv \in Sources,
         k.mr[from].kind # "overflow", k.tcb[to].ctx, k.tcb[from].ctx
  PROVE  Transferred(k, DoIpc(k, c, from, to, rcv), from, to, rcv)
  <1> DEFINE copied == [k EXCEPT !.mr[to] = k.mr[from], !.moved = Append(k.moved, <<from, to>>)]
             st == IF rcv = NIL THEN "RUNNABLE" ELSE "RECV_BLOCKED"
             fr == IF rcv # NIL THEN rcv ELSE IF from = to THEN NIL ELSE k.tcb[from].ipc_from
             r1 == SetState(copied, to, "RUNNABLE")
             r2 == [r1 EXCEPT !.tcb[to].ipc_from = NIL]
             r3 == SetState(r2, from, st)
             r4 == [r3 EXCEPT !.tcb[from].ipc_from = fr]
  <1>1. DoIpc(k, c, from, to, rcv) = r4 BY DEF DoIpc, SetState
  <1>2. "RUNNABLE" \in States /\ st \in States /\ NIL \in Sources BY DEF States, Sources
  <1>3. fr \in Sources
    <2>1. k.tcb[from].ipc_from \in Sources BY DEF Working, Tcb
    <2> QED BY <1>2, <2>1
  <1>4. Copied(k, copied, from, to) BY CopyFacts
  <1> HIDE DEF copied, st, fr
  <1>5. StateSet(copied, r1, to, "RUNNABLE") BY <1>2, <1>4, SetStateFacts DEF Copied
  <1> HIDE DEF r1
  <1>6. FromSet(r1, r2, to, NIL) BY <1>2, <1>5, SetFromFacts DEF StateSet
  <1> HIDE DEF r2
  <1>7. StateSet(r2, r3, from, st) BY <1>2, <1>6, SetStateFacts DEF FromSet
  <1> HIDE DEF r3
  <1>8. FromSet(r3, r4, from, fr) BY <1>3, <1>7, SetFromFacts DEF StateSet
  <1> HIDE DEF r4
  <1>9. r4 \in Working /\ r4.call = k.call /\ r4.moved = Append(k.moved, <<from, to>>)
    BY <1>4, <1>5, <1>6, <1>7, <1>8 DEF Copied, StateSet, FromSet
  <1>10. \A u \in Ids : /\ u # to => r2.tcb[u] = k.tcb[u]
                        /\ r2.tcb[to].state = "RUNNABLE" /\ r2.tcb[to].ctx = k.tcb[to].ctx
    BY <1>4, <1>5, <1>6 DEF Copied, StateSet, FromSet
  <1>11. /\ \A u \in Ids : u # from => r4.tcb[u] = r2.tcb[u]
         /\ r4.tcb[from].state = st /\ r4.tcb[from].ipc_from = fr
         /\ r4.tcb[from].ctx = r2.tcb[from].ctx
    BY <1>7, <1>8 DEF StateSet, FromSet
  <1>12. \A u \in Ids : r4.tcb[u].ctx = k.tcb[u].ctx BY <1>10, <1>11
  <1>13. \A u \in Ids : u \notin {from, to} => r4.tcb[u] = k.tcb[u] BY <1>10, <1>11
  <1>14. to # from => r4.tcb[to].state = "RUNNABLE" BY <1>10, <1>11
  <1>15. /\ r4.tcb[from].state = IF rcv = NIL THEN "RUNNABLE" ELSE "RECV_BLOCKED"
         /\ rcv # NIL => r4.tcb[from].ipc_from = rcv
    BY <1>11 DEF st, fr
  <1>16. Transferred(k, r4, from, to, rcv)
    BY <1>9, <1>12, <1>13, <1>14, <1>15 DEF Transferred
  <1> QED BY <1>1, <1>16

-----------------------------------------------------------------------------
(* The pass of ipc_deliver()                                               *)

Sends(m, t) == \E j \in DOMAIN m : m[j][1] = t
Receives(m, t) == \E j \in DOMAIN m : m[j][2] = t

\* No two transfers have the same sender or the same receiver.
AllDifferent(m) ==
  \A i, j \in DOMAIN m : i # j => m[i][1] # m[j][1] /\ m[i][2] # m[j][2]

\* What holds of the working state k after every iteration: who has received
\* runs and stays so, who has sent is not a sender again, and a thread whose
\* state is not what it was has made the transfer that it waited for.
PassInv(k) ==
  /\ k \in Working /\ k.call = call
  /\ Sound(k.tcb)
  /\ \A t \in Ids : tcb[t].ctx => k.tcb[t].ctx
  /\ \A j \in DOMAIN k.moved :
       /\ k.tcb[k.moved[j][1]].state # "SEND_BLOCKED"
       /\ k.tcb[k.moved[j][2]].state = "RUNNABLE"
  /\ AllDifferent(k.moved)
  /\ \A t \in Ids :
       k.tcb[t].state # tcb[t].state =>
         /\ tcb[t].state = "RECV_BLOCKED" => Receives(k.moved, t)
         /\ tcb[t].state = "SEND_BLOCKED" => Sends(k.moved, t)

\* A transfer between a blocked sender and a blocked receiver keeps it.
LEMMA TransferStep ==
  ASSUME NEW k, PassInv(k), NEW c \in Ids, NEW f \in Ids, NEW t \in Ids,
         k.tcb[f].state = "SEND_BLOCKED", k.tcb[t].state = "RECV_BLOCKED"
  PROVE  PassInv(DoIpc(k, c, f, t, k.call[f].from))
  <1> DEFINE rcv == k.call[f].from
             r == DoIpc(k, c, f, t, rcv)
  <1>1. CASE k.mr[f].kind = "overflow"
    <2>1. r = k BY <1>1 DEF DoIpc
    <2> QED BY <2>1
  <1>2. CASE k.mr[f].kind # "overflow"
    <2>1. /\ k \in Working /\ k.tcb \in [Ids -> Tcb] /\ k.moved \in Seq(Ids \X Ids) /\ f # t
          /\ rcv \in Sources
      BY DEF PassInv, Working
    <2>2. k.tcb[f].ctx /\ k.tcb[t].ctx BY DEF PassInv, Sound
    <2> HIDE DEF rcv
    <2>3. /\ r \in Working
          /\ r.call = k.call
          /\ r.moved = Append(k.moved, <<f, t>>)
          /\ \A u \in Ids : r.tcb[u].ctx = k.tcb[u].ctx
          /\ \A u \in Ids : u \notin {f, t} => r.tcb[u] = k.tcb[u]
          /\ r.tcb[t].state = "RUNNABLE"
          /\ r.tcb[f].state = IF rcv = NIL THEN "RUNNABLE" ELSE "RECV_BLOCKED"
          /\ rcv # NIL => r.tcb[f].ipc_from = rcv
      <3>1. Transferred(k, r, f, t, rcv) BY <1>2, <2>1, <2>2, DoIpcTransfers
      <3> HIDE DEF r
      <3> QED BY <3>1, <2>1 DEF Transferred
    <2> HIDE DEF r
    <2> DEFINE n == Len(k.moved) + 1
    <2>4. /\ DOMAIN k.moved = 1..(n - 1) /\ DOMAIN r.moved = 1..n /\ n \in Nat \ {0}
          /\ r.moved[n] = <<f, t>>
          /\ \A j \in 1..(n - 1) : r.moved[j] = k.moved[j] /\ k.moved[j] \in Ids \X Ids
      BY <2>1, <2>3
    <2> HIDE DEF n
    <2>5. \A j \in 1..(n - 1) : /\ k.moved[j][1] \in Ids /\ k.moved[j][2] \in Ids
                                /\ k.moved[j][1] # f /\ k.moved[j][2] # t /\ k.moved[j][2] # f
      BY <2>4 DEF PassInv
    <2>6. Sound(r.tcb)
      <3> SUFFICES ASSUME NEW u \in Ids
                   PROVE  /\ r.tcb[u].state # "INACTIVE" => r.tcb[u].ctx
                          /\ r.tcb[u].state = "RECV_BLOCKED" => r.tcb[u].ipc_from # NIL
        BY DEF Sound
      <3>1. CASE u \in {f, t} BY <3>1, <2>1, <2>2, <2>3
      <3>2. CASE u \notin {f, t} BY <3>2, <2>3 DEF PassInv, Sound
      <3> QED BY <3>1, <3>2
    <2>7. \A j \in DOMAIN r.moved : /\ r.tcb[r.moved[j][1]].state # "SEND_BLOCKED"
                                    /\ r.tcb[r.moved[j][2]].state = "RUNNABLE"
      <3> TAKE j \in DOMAIN r.moved
      <3>1. CASE j = n BY <3>1, <2>3, <2>4
      <3>2. CASE j # n
        <4>1. j \in 1..(n - 1) BY <3>2, <2>4
        <4>2. k.tcb[k.moved[j][1]].state # "SEND_BLOCKED" /\ k.tcb[k.moved[j][2]].state = "RUNNABLE"
          BY <4>1, <2>4 DEF PassInv
        <4>3. r.moved[j] = k.moved[j] /\ k.moved[j][1] \in Ids /\ k.moved[j][2] \in Ids
          BY <4>1, <2>4, <2>5
        <4>4. r.tcb[k.moved[j][1]].state # "SEND_BLOCKED" BY <4>2, <4>3, <2>3
        <4>5. r.tcb[k.moved[j][2]].state = "RUNNABLE" BY <4>1, <4>2, <4>3, <2>3, <2>5
        <4> QED BY <4>3, <4>4, <4>5
      <3> QED BY <3>1, <3>2
    <2>8. AllDifferent(r.moved)
      <3> SUFFICES ASSUME NEW i \in 1..n, NEW j \in 1..n, i # j
                   PROVE  r.moved[i][1] # r.moved[j][1] /\ r.moved[i][2] # r.moved[j][2]
        BY <2>4 DEF AllDifferent
      <3>1. CASE i = n BY <3>1, <2>4, <2>5
      <3>2. CASE j = n BY <3>2, <2>4, <2>5
      <3>3. CASE i # n /\ j # n
        <4>1. i \in 1..(n - 1) /\ j \in 1..(n - 1) BY <3>3, <2>4
        <4>2. k.moved[i][1] # k.moved[j][1] /\ k.moved[i][2] # k.moved[j][2]
          BY <4>1, <2>4 DEF PassInv, AllDifferent
        <4> QED BY <4>1, <4>2, <2>4
      <3> QED BY <3>1, <3>2, <3>3
    <2>9. \A u \in Ids : (Receives(k.moved, u) \/ u = t => Receives(r.moved, u))
                      /\ (Sends(k.moved, u) \/ u = f => Sends(r.moved, u))
      <3>1. n \in 1..n /\ r.moved[n][1] = f /\ r.moved[n][2] = t BY <2>4
      <3>2. \A j \in 1..(n - 1) : j \in 1..n /\ r.moved[j] = k.moved[j] BY <2>4
      <3>3. DOMAIN k.moved = 1..(n - 1) /\ DOMAIN r.moved = 1..n BY <2>4
      <3> QED BY <3>1, <3>2, <3>3, Zenon DEF Receives, Sends
    <2>10. ASSUME NEW u \in Ids, r.tcb[u].state # tcb[u].state
           PROVE  /\ tcb[u].state = "RECV_BLOCKED" => Receives(r.moved, u)
                  /\ tcb[u].state = "SEND_BLOCKED" => Sends(r.moved, u)
      <3>1. CASE k.tcb[u].state # tcb[u].state BY <3>1, <2>9 DEF PassInv
      <3>2. CASE k.tcb[u].state = tcb[u].state BY <3>2, <2>3, <2>9, <2>10
      <3> QED BY <3>1, <3>2
    <2>11. r.call = call BY <2>3 DEF PassInv
    <2>12. \A u \in Ids : tcb[u].ctx => r.tcb[u].ctx BY <2>3 DEF PassInv
    <2>13. PassInv(r) BY <2>3, <2>6, <2>7, <2>8, <2>10, <2>11, <2>12 DEF PassInv
    <2> QED BY <2>13 DEF r, rcv
  <1> QED BY <1>1, <1>2

\* One iteration keeps it.
LEMMA IterationStep ==
  ASSUME Typed, NEW k, PassInv(k), NEW t \in Ids
  PROVE  PassInv(DeliverOne(k, t))
  <1> DEFINE f == k.tcb[t].ipc_from
             to == intended[t]
  <1>1. CASE k.tcb[t].state = "RECV_BLOCKED" /\ f \in Ids /\ k.tcb[f].state = "SEND_BLOCKED"
    <2>1. DeliverOne(k, t) = DoIpc(k, t, f, t, k.call[f].from) BY <1>1 DEF DeliverOne
    <2> QED BY <1>1, <2>1, TransferStep
  <1>2. CASE /\ ~(k.tcb[t].state = "RECV_BLOCKED" /\ f \in Ids /\ k.tcb[f].state = "SEND_BLOCKED")
             /\ k.tcb[t].state = "SEND_BLOCKED" /\ to \in Ids /\ k.tcb[to].state = "RECV_BLOCKED"
    <2>1. DeliverOne(k, t) = DoIpc(k, t, t, to, k.call[t].from) BY <1>2 DEF DeliverOne
    <2> QED BY <1>2, <2>1, TransferStep
  <1>3. CASE /\ ~(k.tcb[t].state = "RECV_BLOCKED" /\ f \in Ids /\ k.tcb[f].state = "SEND_BLOCKED")
             /\ ~(k.tcb[t].state = "SEND_BLOCKED" /\ to \in Ids /\ k.tcb[to].state = "RECV_BLOCKED")
    <2>1. DeliverOne(k, t) = k BY <1>3 DEF DeliverOne
    <2> QED BY <2>1
  <1> QED BY <1>1, <1>2, <1>3

\* The loop is the function that its recursive definition describes.
LEMMA DeliveredUnfolds ==
  /\ Delivered[0] = Now
  /\ \A i \in 1..N : Delivered[i] = DeliverOne(Delivered[i - 1], i)
  <1> DEFINE Step(g, i) == IF i = 0 THEN Now ELSE DeliverOne(g[i - 1], i)
             S == {n \in Nat : \E g : g = [i \in 0..n |-> Step(g, i)]}
  <1>1. N \in Nat BY IpcAssumption
  <1>2. 0 \in S
    <2> DEFINE g == [i \in 0..0 |-> Now]
    <2>1. g = [i \in 0..0 |-> Step(g, i)] BY SMT
    <2> QED BY <2>1
  <1>3. ASSUME NEW n \in 0..(N - 1), n \in S PROVE n + 1 \in S
    <2>1. PICK g : g = [i \in 0..n |-> Step(g, i)] BY <1>3
    <2> DEFINE h == [i \in 0..(n + 1) |-> IF i = n + 1 THEN DeliverOne(g[n], n + 1) ELSE g[i]]
    <2>2. h = [i \in 0..(n + 1) |-> Step(h, i)]
      <3> SUFFICES ASSUME NEW i \in 0..(n + 1) PROVE h[i] = Step(h, i) BY Zenon
      <3>1. CASE i = 0 BY <3>1, <2>1
      <3>2. CASE i = n + 1 BY <3>2, <2>1
      <3>3. CASE i # 0 /\ i # n + 1 
        <4>1. i \in 1..n BY <3>3
        <4> QED BY <4>1, <2>1
      <3> QED BY <3>1, <3>2, <3>3
    <2>3. n + 1 \in Nat OBVIOUS
    <2> QED BY <2>2, <2>3, Zenon
  <1>4. N \in S
    <2> HIDE DEF S
    <2>1. \A i \in 0..N : i \in S BY <1>1, <1>2, <1>3, UpTo
    <2> QED BY <1>1, <2>1
  <1>5. Delivered = [i \in 0..N |-> Step(Delivered, i)]
    BY <1>4, Zenon DEF Delivered
  <1> QED BY <1>1, <1>5

\* The pass keeps it: induction over the iterations.
LEMMA PassStep ==
  ASSUME IInv
  PROVE  PassInv(Delivered[N])
  <1> DEFINE S == {i \in 0..N : PassInv(Delivered[i])}
  <1>1. N \in Nat BY IpcAssumption
  <1>2. PassInv(Now)
    BY DEF PassInv, Now, IInv, Typed, BlockedHasContext, Working, Sound, AllDifferent
  <1>3. 0 \in S BY <1>1, <1>2, DeliveredUnfolds
  <1>4. ASSUME NEW i \in 0..(N - 1), i \in S PROVE i + 1 \in S
    <2>1. i + 1 \in 1..N /\ (i + 1) - 1 = i BY <1>1
    <2>2. Delivered[i + 1] = DeliverOne(Delivered[i], i + 1) BY <2>1, DeliveredUnfolds
    <2>3. PassInv(Delivered[i]) BY <1>4
    <2>4. PassInv(DeliverOne(Delivered[i], i + 1))
      BY <2>1, <2>3, IterationStep DEF Ids, IInv
    <2>5. i + 1 \in 0..N BY <2>1, <1>1
    <2> QED BY <2>2, <2>4, <2>5
  <1> HIDE DEF S
  <1>5. \A i \in 0..N : i \in S BY <1>1, <1>3, <1>4, UpTo
  <1>6. N \in S BY <1>1, <1>5
  <1> QED BY <1>6 DEF S

-----------------------------------------------------------------------------
(* The steps                                                               *)

\* A working state that a step may end with; the threads of `excused` may
\* leave a phase without a transfer.
Fine(k, excused) ==
  /\ k \in Working
  /\ Sound(k.tcb)
  /\ \A t \in Ids : tcb[t].ctx => k.tcb[t].ctx
  /\ AllDifferent(k.moved)
  /\ \A t \in Ids \ excused :
       k.tcb[t].state # tcb[t].state =>
         /\ tcb[t].state = "RECV_BLOCKED" => Receives(k.moved, t)
         /\ tcb[t].state = "SEND_BLOCKED" => Sends(k.moved, t)

\* The working state of a system call of thread c, before its transfer.
Entered(k, c) ==
  /\ k \in Working /\ k.moved = <<>>
  /\ k.tcb[c].state = "SVC_BLOCKED" /\ k.tcb[c].ctx
  /\ \A u \in Ids \ {c} : k.tcb[u] = tcb[u]

LEMMA TrappedEntered ==
  ASSUME IInv, NEW c \in Ids, tcb[c].state = "RUNNABLE",
         NEW to \in Targets, NEW from \in Sources, NEW kind \in Kinds
  PROVE  Entered(Trapped(c, to, from, kind), c)
  <1> DEFINE k == SetState(Now, c, "SVC_BLOCKED")
             r == [k EXCEPT !.call[c] = [to |-> to, from |-> from],
                            !.mr[c] = [from |-> c, kind |-> kind]]
  <1>1. Now \in Working /\ Now.moved = <<>> /\ Now.tcb = tcb
    BY DEF Now, Working, IInv, Typed
  <1>2. "SVC_BLOCKED" \in States BY DEF States
  <1>3. tcb[c].ctx BY DEF IInv, BlockedHasContext
  <1> HIDE DEF k
  <1>4. /\ k \in Working /\ k.moved = <<>>
        /\ \A u \in Ids : u # c => k.tcb[u] = tcb[u]
        /\ k.tcb[c].state = "SVC_BLOCKED" /\ k.tcb[c].ctx
    <2>1. StateSet(Now, k, c, "SVC_BLOCKED") BY <1>1, <1>2, SetStateFacts DEF k
    <2> QED BY <1>1, <1>3, <2>1 DEF StateSet
  <1>5. r \in Working /\ r.tcb = k.tcb /\ r.moved = k.moved
    BY <1>4 DEF Working
  <1>6. Trapped(c, to, from, kind) = r BY DEF Trapped, k
  <1> HIDE DEF r
  <1> QED BY <1>4, <1>5, <1>6 DEF Entered

\* A system call that only sets the caller's state.
LEMMA CallerSets ==
  ASSUME IInv, NEW c \in Ids, tcb[c].state = "RUNNABLE", NEW k, Entered(k, c),
         NEW st \in States \ {"RECV_BLOCKED"}
  PROVE  Fine(SetState(k, c, st), {})
  <1> DEFINE r == SetState(k, c, st)
  <1>1. /\ r \in Working /\ r.moved = <<>>
        /\ \A u \in Ids : u # c => r.tcb[u] = tcb[u]
        /\ r.tcb[c].state = st /\ r.tcb[c].ctx
    <2>1. StateSet(k, r, c, st) BY SetStateFacts DEF Entered
    <2> HIDE DEF r
    <2> QED BY <2>1 DEF StateSet, Entered
  <1> HIDE DEF r
  <1>2. Sound(r.tcb) BY <1>1 DEF Sound, IInv, BlockedHasContext
  <1>3. AllDifferent(r.moved) BY <1>1 DEF AllDifferent
  <1>4. Fine(r, {}) BY <1>1, <1>2, <1>3 DEF Fine
  <1> QED BY <1>4 DEF r

\* A system call that waits to receive.
LEMMA CallerReceives ==
  ASSUME IInv, NEW c \in Ids, tcb[c].state = "RUNNABLE", NEW k, Entered(k, c),
         NEW from \in Sources \ {NIL}
  PROVE  Fine([SetState(k, c, "RECV_BLOCKED") EXCEPT !.tcb[c].ipc_from = from], {})
  <1> DEFINE r == SetState(k, c, "RECV_BLOCKED")
             w == [r EXCEPT !.tcb[c].ipc_from = from]
  <1>0. "RECV_BLOCKED" \in States BY DEF States
  <1>1. /\ r \in Working /\ r.moved = <<>>
        /\ \A u \in Ids : u # c => r.tcb[u] = tcb[u]
        /\ r.tcb[c].state = "RECV_BLOCKED" /\ r.tcb[c].ctx
    <2>1. StateSet(k, r, c, "RECV_BLOCKED") BY <1>0, SetStateFacts DEF Entered
    <2> HIDE DEF r
    <2> QED BY <2>1 DEF StateSet, Entered
  <1> HIDE DEF r
  <1>2. /\ w \in Working /\ w.moved = <<>>
        /\ \A u \in Ids : u # c => w.tcb[u] = tcb[u]
        /\ w.tcb[c].state = "RECV_BLOCKED" /\ w.tcb[c].ctx /\ w.tcb[c].ipc_from = from
    <2>1. FromSet(r, w, c, from) BY <1>1, SetFromFacts
    <2> HIDE DEF w
    <2> QED BY <1>1, <2>1 DEF FromSet
  <1> HIDE DEF w
  <1>3. Sound(w.tcb) BY <1>2 DEF Sound, IInv, BlockedHasContext
  <1>4. AllDifferent(w.moved) BY <1>2 DEF AllDifferent
  <1>5. Fine(w, {}) BY <1>2, <1>3, <1>4 DEF Fine
  <1> QED BY <1>5 DEF w, r

\* A system call whose destination waits, or is the caller.
LEMMA CallerTransfers ==
  ASSUME IInv, NEW c \in Ids, tcb[c].state = "RUNNABLE", NEW k, Entered(k, c),
         NEW to \in Ids, k.tcb[to].state = "RECV_BLOCKED" \/ to = c, NEW from \in Sources
  PROVE  Fine(DoIpc(k, c, c, to, from), {})
  <1> DEFINE r == DoIpc(k, c, c, to, from)
  <1>1. CASE k.mr[c].kind = "overflow"
    <2>1. r = k BY <1>1 DEF DoIpc
    <2>2. Sound(k.tcb) BY DEF Sound, Entered, IInv, BlockedHasContext
    <2>3. AllDifferent(k.moved) BY DEF Entered, AllDifferent
    <2> QED BY <2>1, <2>2, <2>3 DEF Fine, Entered
  <1>2. CASE k.mr[c].kind # "overflow"
    <2>1. k \in Working /\ k.tcb[c].ctx /\ k.tcb[to].ctx /\ k.moved = <<>>
      BY DEF Entered, IInv, BlockedHasContext
    <2>2. /\ r \in Working
          /\ r.moved = Append(k.moved, <<c, to>>)
          /\ \A u \in Ids : r.tcb[u].ctx = k.tcb[u].ctx
          /\ \A u \in Ids : u \notin {c, to} => r.tcb[u] = k.tcb[u]
          /\ to # c => r.tcb[to].state = "RUNNABLE"
          /\ r.tcb[c].state = IF from = NIL THEN "RUNNABLE" ELSE "RECV_BLOCKED"
          /\ from # NIL => r.tcb[c].ipc_from = from
      <3>1. Transferred(k, r, c, to, from) BY <1>2, <2>1, DoIpcTransfers
      <3> HIDE DEF r
      <3> QED BY <3>1 DEF Transferred
    <2> HIDE DEF r
    <2>3. r.moved = <<<<c, to>>>> BY <2>1, <2>2
    <2>4. Sound(r.tcb) BY <2>1, <2>2 DEF Sound, Entered, IInv, BlockedHasContext
    <2>5. AllDifferent(r.moved) BY <2>3 DEF AllDifferent
    <2>6. Receives(r.moved, to) BY <2>3 DEF Receives
    <2>7. \A u \in Ids : u \notin {c, to} => r.tcb[u] = tcb[u] BY <2>2 DEF Entered
    <2>8. Fine(r, {}) BY <2>2, <2>4, <2>5, <2>6, <2>7 DEF Fine, Entered
    <2> QED BY <2>8 DEF r
  <1> QED BY <1>1, <1>2

\* A pager's start message: the destination gets a context and runs.
LEMMA CallerStarts ==
  ASSUME IInv, NEW c \in Ids, tcb[c].state = "RUNNABLE", NEW k, Entered(k, c),
         NEW to \in Ids, k.tcb[to].state = "INACTIVE"
  PROVE  Fine([SetState(SetState(k, c, "RUNNABLE"), to, "RUNNABLE") EXCEPT !.tcb[to].ctx = TRUE], {})
  <1> DEFINE q == SetState(k, c, "RUNNABLE")
             r == SetState(q, to, "RUNNABLE")
             w == [r EXCEPT !.tcb[to].ctx = TRUE]
  <1>0. "RUNNABLE" \in States /\ to # c /\ tcb[to].state = "INACTIVE" BY DEF States, Entered
  <1>1. /\ q \in Working /\ q.moved = <<>>
        /\ \A u \in Ids : u # c => q.tcb[u] = tcb[u]
        /\ q.tcb[c].state = "RUNNABLE" /\ q.tcb[c].ctx
    <2>1. StateSet(k, q, c, "RUNNABLE") BY <1>0, SetStateFacts DEF Entered
    <2> HIDE DEF q
    <2> QED BY <2>1 DEF StateSet, Entered
  <1> HIDE DEF q
  <1>2. /\ r \in Working /\ r.moved = <<>>
        /\ \A u \in Ids : u \notin {c, to} => r.tcb[u] = tcb[u]
        /\ r.tcb[c].state = "RUNNABLE" /\ r.tcb[c].ctx
        /\ r.tcb[to].state = "RUNNABLE"
    <2>1. StateSet(q, r, to, "RUNNABLE") BY <1>0, <1>1, SetStateFacts
    <2> HIDE DEF r
    <2> QED BY <1>0, <1>1, <2>1 DEF StateSet
  <1> HIDE DEF r
  <1>3. /\ w \in Working /\ w.moved = <<>>
        /\ \A u \in Ids : u \notin {c, to} => w.tcb[u] = tcb[u]
        /\ w.tcb[c].state = "RUNNABLE" /\ w.tcb[c].ctx
        /\ w.tcb[to].state = "RUNNABLE" /\ w.tcb[to].ctx
    <2> DEFINE given == [r.tcb[to] EXCEPT !.ctx = TRUE]
    <2>1. r.tcb \in [Ids -> Tcb] BY <1>2 DEF Working
    <2>2. given \in Tcb /\ given.state = r.tcb[to].state /\ given.ctx BY <2>1 DEF Tcb
    <2>3. w = [r EXCEPT !.tcb = [r.tcb EXCEPT ![to] = given]] OBVIOUS
    <2> HIDE DEF given
    <2>4. /\ [r.tcb EXCEPT ![to] = given] \in [Ids -> Tcb] /\ [r.tcb EXCEPT ![to] = given][to] = given
          /\ \A u \in Ids : u # to => [r.tcb EXCEPT ![to] = given][u] = r.tcb[u]
      BY <2>1, <2>2
    <2>5. w \in Working /\ w.moved = <<>> /\ w.tcb = [r.tcb EXCEPT ![to] = given]
      BY <1>2, <2>3, <2>4 DEF Working
    <2> HIDE DEF w
    <2> QED BY <1>0, <1>2, <2>2, <2>4, <2>5
  <1> HIDE DEF w
  <1>4. Sound(w.tcb) BY <1>3 DEF Sound, IInv, BlockedHasContext
  <1>5. AllDifferent(w.moved) BY <1>3 DEF AllDifferent
  <1>6. Fine(w, {}) BY <1>0, <1>3, <1>4, <1>5 DEF Fine
  <1> QED BY <1>6 DEF w, r, q

\* A pager's other messages to a thread that does not run: the message is
\* copied, the destination stays as it is.
LEMMA CallerPaged ==
  ASSUME IInv, NEW c \in Ids, tcb[c].state = "RUNNABLE", NEW k, Entered(k, c),
         NEW to \in Ids, k.tcb[to].state = "INACTIVE", NEW from \in Sources
  PROVE  Fine(SetState(DoIpc(k, c, c, to, from), to, "INACTIVE"), {})
  <1> DEFINE d == DoIpc(k, c, c, to, from)
             w == SetState(d, to, "INACTIVE")
  <1>0. /\ "RUNNABLE" \in States /\ "INACTIVE" \in States /\ to # c /\ tcb[to].state = "INACTIVE"
        /\ k \in Working /\ k.tcb[c].ctx /\ k.moved = <<>>
        /\ \A u \in Ids : u # c => k.tcb[u] = tcb[u]
    BY DEF States, Entered
  <1>1. /\ d \in Working /\ AllDifferent(d.moved)
        /\ \A u \in Ids : u \notin {c, to} => d.tcb[u] = tcb[u]
        /\ d.tcb[c].ctx
        /\ d.tcb[c].state = "RECV_BLOCKED" => d.tcb[c].ipc_from # NIL
        /\ tcb[to].ctx => d.tcb[to].ctx
    <2>1. CASE k.mr[c].kind = "overflow"
      <3>1. d = k BY <2>1 DEF DoIpc
      <3>2. AllDifferent(d.moved) BY <3>1, <1>0 DEF AllDifferent
      <3>3. d.tcb[c].state = "SVC_BLOCKED" BY <3>1 DEF Entered
      <3> HIDE DEF d
      <3> QED BY <1>0, <3>1, <3>2, <3>3
    <2>2. CASE k.mr[c].kind # "overflow" /\ k.tcb[to].ctx
      <3>1. /\ d \in Working
            /\ d.moved = Append(k.moved, <<c, to>>)
            /\ \A u \in Ids : d.tcb[u].ctx = k.tcb[u].ctx
            /\ \A u \in Ids : u \notin {c, to} => d.tcb[u] = k.tcb[u]
            /\ d.tcb[c].state = IF from = NIL THEN "RUNNABLE" ELSE "RECV_BLOCKED"
            /\ from # NIL => d.tcb[c].ipc_from = from
        <4>1. Transferred(k, d, c, to, from) BY <1>0, <2>2, DoIpcTransfers
        <4> HIDE DEF d
        <4> QED BY <4>1 DEF Transferred
      <3> HIDE DEF d
      <3>2. d.moved = <<<<c, to>>>> BY <1>0, <3>1
      <3> QED BY <1>0, <3>1, <3>2 DEF AllDifferent
    <2>3. CASE k.mr[c].kind # "overflow" /\ ~k.tcb[to].ctx
      <3> DEFINE copied == [k EXCEPT !.mr[to] = k.mr[c],
                                     !.moved = Append(k.moved, <<c, to>>)]
      <3>1. d = SetState(copied, c, "RUNNABLE") BY <2>3 DEF DoIpc
      <3>2. Copied(k, copied, c, to) BY <1>0, CopyFacts
      <3> HIDE DEF copied
      <3>3. StateSet(copied, d, c, "RUNNABLE") BY <1>0, <3>1, <3>2, SetStateFacts DEF Copied
      <3> HIDE DEF d
      <3>4. d \in Working /\ d.moved = copied.moved BY <3>3 DEF StateSet
      <3>5. copied.moved = <<<<c, to>>>> BY <1>0, <3>2 DEF Copied
      <3>6. AllDifferent(d.moved) BY <3>4, <3>5 DEF AllDifferent
      <3>7. \A u \in Ids : u # c => d.tcb[u] = k.tcb[u] BY <3>2, <3>3 DEF Copied, StateSet
      <3>8. d.tcb[c].ctx /\ d.tcb[c].state = "RUNNABLE" BY <1>0, <3>2, <3>3 DEF Copied, StateSet
      <3> QED BY <1>0, <3>4, <3>6, <3>7, <3>8
    <2> QED BY <2>1, <2>2, <2>3
  <1> HIDE DEF d
  <1>2. /\ w \in Working /\ AllDifferent(w.moved)
        /\ \A u \in Ids : u \notin {c, to} => w.tcb[u] = tcb[u]
        /\ w.tcb[to].state = "INACTIVE" /\ w.tcb[c] = d.tcb[c] /\ w.tcb[to].ctx = d.tcb[to].ctx
    <2>1. StateSet(d, w, to, "INACTIVE") BY <1>0, <1>1, SetStateFacts
    <2> HIDE DEF w
    <2> QED BY <1>0, <1>1, <2>1 DEF StateSet
  <1> HIDE DEF w
  <1>3. Sound(w.tcb) BY <1>1, <1>2 DEF Sound, IInv, BlockedHasContext
  <1>4. Fine(w, {}) BY <1>0, <1>1, <1>2, <1>3 DEF Fine
  <1> QED BY <1>4 DEF w, d

\* A step ends with the working state k: a thread is excused only when one of
\* its sleep events expires.
EndsWith(k, excused) ==
  /\ Fine(k, excused) /\ Commit(k)
  /\ \A t \in excused : timed'[t] < timed[t]
  /\ \A t \in Ids : timed'[t] > 0 => k.tcb[t].ctx

FineStep == (\E k, excused : EndsWith(k, excused)) /\ timed' \in [Ids -> Nat] /\ leaked' \in Nat

LEMMA QuietStep ==
  ASSUME IInv, NEW k, Fine(k, {}), Commit(k), UNCHANGED <<timed, leaked>>
  PROVE  FineStep
  <1>1. \A t \in Ids : timed'[t] > 0 => k.tcb[t].ctx
    <2>1. timed' = timed OBVIOUS
    <2>2. \A t \in Ids : tcb[t].ctx => k.tcb[t].ctx BY DEF Fine
    <2> QED BY <2>1, <2>2 DEF IInv, SleepersHaveContext
  <1>2. timed' \in [Ids -> Nat] /\ leaked' \in Nat BY DEF IInv, Typed
  <1>3. \A t \in {} : timed'[t] < timed[t] OBVIOUS
  <1>4. EndsWith(k, {}) BY <1>1, <1>3 DEF EndsWith
  <1> QED BY <1>2, <1>4 DEF FineStep

\* sys_ipc() to a destination.
LEMMA SendStep ==
  ASSUME IInv, NEW c \in Ids, tcb[c].state = "RUNNABLE", NEW k, Entered(k, c),
         NEW to \in Targets \ {NIL}, NEW from \in Sources, SysIpcSend(c, k, to, from)
  PROVE  FineStep
  <1> DEFINE waiting == to \in Ids /\ (k.tcb[to].state = "RECV_BLOCKED" \/ to = c)
             paged == to \in Ids /\ k.tcb[to].state = "INACTIVE" /\ Pager[to] = c
  <1>0. /\ \A x : Fine(x, {}) /\ Commit(x) => FineStep
        /\ {"RUNNABLE", "SEND_BLOCKED"} \subseteq States \ {"RECV_BLOCKED"}
    <2>1. UNCHANGED <<timed, leaked>> BY DEF SysIpcSend
    <2>2. \A x : Fine(x, {}) /\ Commit(x) => FineStep BY <2>1, QuietStep
    <2> QED BY <2>2 DEF States
  <1>1. CASE to = LOG
    <2>1. Commit(SetState(k, c, "RUNNABLE")) BY <1>1 DEF SysIpcSend
    <2>2. Fine(SetState(k, c, "RUNNABLE"), {}) BY <1>0, CallerSets
    <2> QED BY <1>0, <2>1, <2>2
  <1>2. CASE to # LOG /\ waiting
    <2>1. Commit(DoIpc(k, c, c, to, from)) BY <1>2 DEF SysIpcSend
    <2>2. Fine(DoIpc(k, c, c, to, from), {}) BY <1>2, CallerTransfers
    <2> QED BY <1>0, <2>1, <2>2
  <1>3. CASE to # LOG /\ ~waiting /\ paged /\ k.mr[c].kind = "start"
    <2> DEFINE w == [SetState(SetState(k, c, "RUNNABLE"), to, "RUNNABLE") EXCEPT !.tcb[to].ctx = TRUE]
    <2>1. Commit(w) BY <1>3 DEF SysIpcSend
    <2>2. Fine(w, {}) BY <1>3, CallerStarts
    <2> HIDE DEF w
    <2> QED BY <1>0, <2>1, <2>2
  <1>4. CASE to # LOG /\ ~waiting /\ paged /\ k.mr[c].kind # "start"
    <2> DEFINE w == SetState(DoIpc(k, c, c, to, from), to, "INACTIVE")
    <2>1. Commit(w) BY <1>4 DEF SysIpcSend
    <2>2. Fine(w, {}) BY <1>4, CallerPaged
    <2> HIDE DEF w
    <2> QED BY <1>0, <2>1, <2>2
  <1>5. CASE to # LOG /\ ~waiting /\ ~paged
    <2>1. Commit(SetState(k, c, "SEND_BLOCKED")) BY <1>5 DEF SysIpcSend
    <2>2. Fine(SetState(k, c, "SEND_BLOCKED"), {}) BY <1>0, CallerSets
    <2> QED BY <1>0, <2>1, <2>2
  <1> QED BY <1>1, <1>2, <1>3, <1>4, <1>5

\* sys_ipc() as a whole.
LEMMA SysIpcStep ==
  ASSUME IInv, NEW c \in Ids, NEW to \in Targets, NEW from \in Sources, NEW timeout \in Timeouts \cup {"none"},
         NEW kind \in Kinds, SysIpc(c, to, from, timeout, kind)
  PROVE  FineStep
  <1> DEFINE k == Trapped(c, to, from, kind)
  <1>0. tcb[c].state = "RUNNABLE" BY DEF SysIpc
  <1>1. Entered(k, c) BY <1>0, TrappedEntered
  <1>2. /\ to = NIL /\ timeout # "none" => SysIpcSleep(c, k, timeout)
        /\ to # NIL => SysIpcSend(c, k, to, from)
        /\ to = NIL /\ timeout = "none" => SysIpcReceive(c, k, from)
    BY DEF SysIpc
  <1>3. {"INACTIVE", "SEND_BLOCKED"} \subseteq States \ {"RECV_BLOCKED"} BY DEF States
  <1> HIDE DEF k
  <1>4. CASE to = NIL /\ timeout # "none"
    <2>1. Commit(SetState(k, c, "INACTIVE")) /\ EventCreate(c, timeout) BY <1>2, <1>4 DEF SysIpcSleep
    <2>2. Fine(SetState(k, c, "INACTIVE"), {}) BY <1>0, <1>1, <1>3, CallerSets
    <2>3. timed' \in [Ids -> Nat] /\ leaked' \in Nat BY <2>1 DEF EventCreate, IInv, Typed
    <2>4. \A t \in Ids : timed'[t] > 0 => t = c \/ timed[t] > 0
      BY <2>1 DEF EventCreate, IInv, Typed
    <2>5. tcb[c].ctx BY <1>0 DEF IInv, BlockedHasContext
    <2>6. \A t \in Ids : timed'[t] > 0 => SetState(k, c, "INACTIVE").tcb[t].ctx
      BY <2>2, <2>4, <2>5 DEF Fine, IInv, SleepersHaveContext
    <2>7. EndsWith(SetState(k, c, "INACTIVE"), {}) BY <2>1, <2>2, <2>6 DEF EndsWith
    <2> QED BY <2>3, <2>7 DEF FineStep
  <1>5. CASE to # NIL
    BY <1>0, <1>1, <1>2, <1>5, SendStep
  <1>6. CASE to = NIL /\ timeout = "none"
    <2>0. SysIpcReceive(c, k, from) BY <1>2, <1>6
    <2>1. \A x : Fine(x, {}) /\ Commit(x) => FineStep
      <3>1. UNCHANGED <<timed, leaked>> BY <2>0 DEF SysIpcReceive
      <3> QED BY <3>1, QuietStep
    <2>2. CASE from # NIL
      <3> DEFINE w == [SetState(k, c, "RECV_BLOCKED") EXCEPT !.tcb[c].ipc_from = from]
      <3>1. Commit(w) BY <2>0, <2>2 DEF SysIpcReceive
      <3>2. Fine(w, {}) BY <1>0, <1>1, <2>2, CallerReceives
      <3> HIDE DEF w
      <3> QED BY <2>1, <3>1, <3>2
    <2>3. CASE from = NIL
      <3>1. Commit(SetState(k, c, "SEND_BLOCKED")) BY <2>0, <2>3 DEF SysIpcReceive
      <3>2. Fine(SetState(k, c, "SEND_BLOCKED"), {}) BY <1>0, <1>1, <1>3, CallerSets
      <3> QED BY <2>1, <3>1, <3>2
    <2> QED BY <2>2, <2>3
  <1> QED BY <1>4, <1>5, <1>6

\* ipc_timeout(): the thread whose event expires is excused.
LEMMA TimeoutStep ==
  ASSUME IInv, NEW t \in Ids, IpcTimeout(t)
  PROVE  FineStep
  <1> DEFINE r == SetState(Now, t, "RUNNABLE")
  <1>1. Now \in Working /\ Now.moved = <<>> /\ Now.tcb = tcb
    BY DEF Now, Working, IInv, Typed
  <1>2. "RUNNABLE" \in States BY DEF States
  <1>3. StateSet(Now, r, t, "RUNNABLE") BY <1>1, <1>2, SetStateFacts
  <1>4. Commit(r) /\ timed[t] > 0 /\ timed' = [timed EXCEPT ![t] = @ - 1] /\ leaked' = leaked
    BY DEF IpcTimeout
  <1> HIDE DEF r
  <1>5. timed' \in [Ids -> Nat] /\ timed'[t] < timed[t] /\ leaked' \in Nat
    BY <1>4 DEF IInv, Typed
  <1>6. tcb[t].ctx BY <1>4 DEF IInv, SleepersHaveContext
  <1>7. /\ r \in Working /\ r.moved = <<>>
        /\ \A u \in Ids : u # t => r.tcb[u] = tcb[u]
        /\ r.tcb[t].state = "RUNNABLE" /\ r.tcb[t].ctx
    BY <1>1, <1>3, <1>6 DEF StateSet
  <1>8. Sound(r.tcb) BY <1>7 DEF Sound, IInv, BlockedHasContext
  <1>9. AllDifferent(r.moved) BY <1>7 DEF AllDifferent
  <1>10. Fine(r, {t}) BY <1>6, <1>7, <1>8, <1>9 DEF Fine
  <1>11. \A u \in Ids : timed'[u] > 0 => r.tcb[u].ctx
    BY <1>4, <1>7 DEF IInv, Typed, SleepersHaveContext
  <1>12. EndsWith(r, {t}) BY <1>4, <1>5, <1>10, <1>11 DEF EndsWith
  <1> QED BY <1>5, <1>12 DEF FineStep

\* ipc_deliver(): the pass ends with such a working state.
LEMMA DeliverStep ==
  ASSUME IInv, IpcDeliver
  PROVE  FineStep
  <1>1. Commit(Delivered[N]) /\ UNCHANGED <<timed, leaked>> BY DEF IpcDeliver
  <1>2. PassInv(Delivered[N]) BY PassStep
  <1>3. Fine(Delivered[N], {}) BY <1>2 DEF PassInv, Fine
  <1> QED BY <1>1, <1>3, QuietStep

LEMMA NextStep ==
  ASSUME IInv, Next
  PROVE  FineStep
  <1>1. CASE \E c \in Ids, to \in Targets \ {NIL}, from \in Sources, kind \in Kinds :
               SysIpc(c, to, from, "none", kind)
    BY <1>1, SysIpcStep
  <1>2. CASE \E c \in Ids, from \in Sources, timeout \in Timeouts, kind \in Kinds :
               SysIpc(c, NIL, from, timeout, kind)
    <2>1. NIL \in Targets BY DEF Targets
    <2> QED BY <1>2, <2>1, SysIpcStep
  <1>3. CASE \E t \in Ids : IpcTimeout(t) BY <1>3, TimeoutStep
  <1>4. CASE IpcDeliver BY <1>4, DeliverStep
  <1> QED BY <1>1, <1>2, <1>3, <1>4 DEF Next

-----------------------------------------------------------------------------
(* Theorems                                                                *)

\* What every step leaves true, and what it may not do.
LEMMA StepFacts ==
  ASSUME IInv, Next
  PROVE  /\ IInv'
         /\ AllDifferent(moved')
         /\ \A t \in Ids :
              tcb'[t].state # tcb[t].state =>
                \/ /\ tcb[t].state = "RECV_BLOCKED" => Receives(moved', t)
                   /\ tcb[t].state = "SEND_BLOCKED" => Sends(moved', t)
                \/ timed'[t] < timed[t]
  <1>1. FineStep BY NextStep
  <1>11. PICK k, excused : EndsWith(k, excused) BY <1>1 DEF FineStep
  <1>2. /\ Fine(k, excused) /\ Commit(k)
        /\ \A t \in excused : timed'[t] < timed[t]
        /\ \A t \in Ids : timed'[t] > 0 => k.tcb[t].ctx
    BY <1>11 DEF EndsWith
  <1>3. tcb' = k.tcb /\ moved' = k.moved BY <1>2 DEF Commit
  <1>4. /\ k.tcb \in [Ids -> Tcb] /\ k.call \in [Ids -> [to : Targets, from : Sources]]
        /\ k.mr \in [Ids -> [from : Ids, kind : Kinds]]
    BY <1>2 DEF Fine, Working
  <1>5. Typed'
    <2>1. call' \in [Ids -> [to : Targets, from : Sources]]
      <3>1. NoCall \in [to : Targets, from : Sources] BY DEF NoCall, Targets, Sources
      <3> QED BY <1>2, <1>4, <3>1 DEF Commit
    <2>2. mr' \in [Ids -> [from : Ids, kind : Kinds]]
      <3>1. \A t \in Ids : Unused(t) \in [from : Ids, kind : Kinds] BY IpcAssumption DEF Unused
      <3> QED BY <1>2, <1>4, <3>1 DEF Commit
    <2> QED BY <1>1, <1>3, <1>4, <2>1, <2>2 DEF Typed, FineStep
  <1>6. BlockedHasContext' BY <1>2, <1>3 DEF BlockedHasContext, Fine, Sound
  <1>7. SleepersHaveContext' BY <1>2, <1>3 DEF SleepersHaveContext
  <1>8. AllDifferent(moved') BY <1>2, <1>3 DEF Fine
  <1>9. ASSUME NEW t \in Ids, tcb'[t].state # tcb[t].state
        PROVE  \/ /\ tcb[t].state = "RECV_BLOCKED" => Receives(moved', t)
                  /\ tcb[t].state = "SEND_BLOCKED" => Sends(moved', t)
               \/ timed'[t] < timed[t]
    BY <1>2, <1>3, <1>9 DEF Fine
  <1> QED BY <1>5, <1>6, <1>7, <1>8, <1>9 DEF IInv

LEMMA InitInv == Init => IInv
  <1> SUFFICES ASSUME Init PROVE IInv OBVIOUS
  <1>1. Typed
    BY IpcAssumption
    DEF Init, Typed, Tcb, States, Sources, Targets, NoCall, Unused
  <1>2. BlockedHasContext BY DEF Init, BlockedHasContext
  <1>3. SleepersHaveContext BY DEF Init, SleepersHaveContext
  <1> QED BY <1>1, <1>2, <1>3 DEF IInv

LEMMA StutterInv == IInv /\ UNCHANGED vars => IInv'
  BY DEF IInv, vars, Typed, BlockedHasContext, SleepersHaveContext

LEMMA Inductive == Spec => []IInv
  BY InitInv, StepFacts, StutterInv, PTL DEF Spec

\* No blocked thread is without a context, and none waits to receive from
\* nobody: what do_ipc() tests for and ipc_deliver() relies on.
THEOREM ContextOfBlocked == Spec => []BlockedHasContext
  <1>1. IInv => BlockedHasContext BY DEF IInv
  <1> QED BY <1>1, Inductive, PTL

\* In one step of the kernel no thread sends twice or receives twice, however
\* ipc_deliver() meets them in its pass.
THEOREM OneTransfer == Spec => OneTransferPerCall
  <1>1. IInv /\ [Next]_vars =>
          [\A i, j \in DOMAIN moved' :
             i # j => moved'[i][1] # moved'[j][1] /\ moved'[i][2] # moved'[j][2]]_vars
    BY StepFacts DEF AllDifferent
  <1> QED BY <1>1, Inductive, PTL DEF Spec, OneTransferPerCall

\* A thread leaves a blocked phase through the transfer it waited for, or when
\* one of its sleep events expires.
THEOREM PhaseEnds == Spec => PhaseEndsWithTransfer
  <1>1. IInv /\ [Next]_vars =>
          [\A t \in Ids :
             tcb'[t].state # tcb[t].state =>
               \/ /\ tcb[t].state = "RECV_BLOCKED" => \E i \in DOMAIN moved' : moved'[i][2] = t
                  /\ tcb[t].state = "SEND_BLOCKED" => \E i \in DOMAIN moved' : moved'[i][1] = t
               \/ timed'[t] < timed[t]]_vars
    BY StepFacts DEF Sends, Receives
  <1> QED BY <1>1, Inductive, PTL DEF Spec, PhaseEndsWithTransfer
=============================================================================
