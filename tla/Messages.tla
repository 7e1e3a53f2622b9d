------------------------------ MODULE Messages ------------------------------
(***************************************************************************)
(* The message library of user level (user/include/l4/message.h) and the   *)
(* virtual registers it loads (platform/vregs.h): a message object is an   *)
(* array of words whose first is the tag; its words go through message     *)
(* registers that are processor registers up to NumRegs and words of the   *)
(* UTCB from there on, on both sides of the kernel's do_ipc().             *)
(* A word is a tuple: its kind, then the fields of the bitfield.           *)
(***************************************************************************)
EXTENDS Integers, Sequences

CONSTANTS NumMRs,      \* __L4_NUM_MRS, scaled
          NumRegs,     \* message registers in r4..r11
          NumBRs,      \* __L4_NUM_BRS
          MaxStr,      \* words of a string item under construction
          Values,      \* untyped words
          Lengths,     \* of strings
          Addrs        \* string addresses, flexpages, bases

VARIABLES msg,         \* an L4_Msg_t: [0 .. NumMRs - 1 -> word]
          str,         \* an L4_StringItem_t and the words behind it
          rmsg,        \* the receiver's L4_Msg_t
          buf,         \* an L4_MsgBuffer_t
          br,          \* buffer registers
          strings,     \* history: the strings appended to buf
          accepted     \* history: what is accepted, into which strings

msgVars == <<msg, str, rmsg>>
bufVars == <<buf, br, strings, accepted>>

Nothing == <<"nothing">>
Tag(u, t, label) == <<"tag", u, t, label>>
U(m) == m[0][2]
T(m) == m[0][3]
Label(m) == m[0][4]

\* Header of a string item: continuation bits C (another item) and c (another
\* substring), j + 1 addresses behind it.
Hdr(C, j, c, len) == <<"str", C, j, c, len>>
IsStringItem(w) == w[1] = "str"
IsZero(w) == w \in {Hdr(0, 0, 0, 0), <<"zero">>}

L4_MapItem(base, f) == << <<"item", 4, base>>, <<"fpage", f>> >>
L4_GrantItem(base, f) == << <<"item", 5, base>>, <<"fpage", f>> >>
L4_StringItem(len, addr) == << Hdr(0, 0, 0, len), <<"ptr", addr>> >>

\* Words put into memory from position p on.
Store(mem, p, ws) == [i \in DOMAIN mem |-> IF i \in p .. p + Len(ws) - 1 THEN ws[i - p + 1] ELSE mem[i]]
Load(mem, p, n) == [i \in 1 .. n |-> mem[p + i - 1]]

-----------------------------------------------------------------------------
(* Walking over strings *)

\* __L4_EndOfString(): the word behind the string at s, its last substring.
RECURSIVE EndOfString(_, _)
EndOfString(mem, s) ==
  LET e == s + mem[s][3] + 2
  IN  IF mem[s][4] = 1 THEN EndOfString(mem, e) ELSE [end |-> e, last |-> s]

\* A bug: it is the last item itself that is found.
EndOfStrings_last(mem, s) == [end |-> s, last |-> s]

\* __L4_EndOfStrings(): the same over items chained by C; last is an item.
RECURSIVE EndOfStrings(_, _)
EndOfStrings(mem, s) ==
  LET e == EndOfString(mem, s).end
  IN  IF mem[s][2] = 1 THEN EndOfStrings(mem, e) ELSE [end |-> e, last |-> s]

\* __L4_Copy_String()
TheString(mem, s) == Load(mem, s, EndOfString(mem, s).end - s)

SetField(w, f, v) == [w EXCEPT ![f] = v]

L4_AddSubstringTo(sub) ==
  LET e == EndOfString(str, 1)
  IN  /\ Len(str) + Len(sub) <= MaxStr
      /\ str' = SetField(str, e.last, SetField(str[e.last], 4, 1)) \o sub
      /\ UNCHANGED <<msg, rmsg>>

L4_AddSubstringAddressTo(addr) ==
  LET e == EndOfString(str, 1)
  IN  /\ Len(str) < MaxStr
      /\ str' = Append(SetField(str, e.last, SetField(str[e.last], 3, str[e.last][3] + 1)),
                       <<"ptr", addr>>)
      /\ UNCHANGED <<msg, rmsg>>

NewString(len, addr) == str' = L4_StringItem(len, addr) /\ UNCHANGED <<msg, rmsg>>

\* What L4_MsgAppendSimpleStringItem() makes of the argument.
Simple(s) == <<SetField(SetField(s[1], 3, 0), 4, 0), s[2]>>

-----------------------------------------------------------------------------
(* Building a message.  That it fits is the caller's affair. *)

Fits(n) == U(msg) + T(msg) + n < NumMRs

L4_MsgClear == msg' = [msg EXCEPT ![0] = Tag(0, 0, 0)] /\ UNCHANGED <<str, rmsg>>

L4_Set_MsgLabel(l) ==
  msg' = [msg EXCEPT ![0] = Tag(U(msg), T(msg), l)] /\ UNCHANGED <<str, rmsg>>

\* A bug: the typed items are not moved out of the way.
L4_MsgAppendWord_over(w) ==
  /\ Fits(1)
  /\ msg' = [msg EXCEPT ![0] = Tag(U(msg) + 1, T(msg), Label(msg)), ![U(msg) + 1] = w]
  /\ UNCHANGED <<str, rmsg>>

\* Typed items move one up.
L4_MsgAppendWord(w) ==
  /\ Fits(1)
  /\ LET u == U(msg)
         moved(i) == IF T(msg) # 0 /\ i \in u + 2 .. u + T(msg) + 1 THEN msg[i - 1] ELSE msg[i]
     IN  msg' = [i \in DOMAIN msg |-> IF i = 0 THEN Tag(u + 1, T(msg), Label(msg))
                                      ELSE IF i = u + 1 THEN w ELSE moved(i)]
  /\ UNCHANGED <<str, rmsg>>

AppendItem(ws) ==
  /\ Fits(Len(ws))
  /\ msg' = [Store(msg, U(msg) + T(msg) + 1, ws) EXCEPT
               ![0] = Tag(U(msg), T(msg) + Len(ws), Label(msg))]
  /\ UNCHANGED <<str, rmsg>>

L4_MsgAppendMapItem(base, f) == AppendItem(L4_MapItem(base, f))
L4_MsgAppendGrantItem(base, f) == AppendItem(L4_GrantItem(base, f))
L4_MsgAppendSimpleStringItem == AppendItem(Simple(str))
L4_MsgAppendStringItem == AppendItem(TheString(str, 1))

L4_MsgPutWord(u, w) ==
  u < U(msg) /\ msg' = [msg EXCEPT ![u + 1] = w] /\ UNCHANGED <<str, rmsg>>

\* The words of the item at word t of the typed part.
ItemAt(m, t) ==
  LET p == U(m) + t + 1
  IN  IF IsStringItem(m[p]) THEN TheString(m, p) ELSE Load(m, p, 2)

RECURSIVE ItemStarts(_, _)
ItemStarts(m, t) ==
  IF t >= T(m) THEN <<>> ELSE <<t>> \o ItemStarts(m, t + Len(ItemAt(m, t)))

\* An item is put where one of its size was.
PutItem(t, ws) ==
  /\ \E i \in DOMAIN ItemStarts(msg, 0) : ItemStarts(msg, 0)[i] = t
  /\ Len(ItemAt(msg, t)) = Len(ws)
  /\ msg' = Store(msg, U(msg) + t + 1, ws) /\ UNCHANGED <<str, rmsg>>

L4_MsgPutMapItem(t, base, f) == PutItem(t, L4_MapItem(base, f))
L4_MsgPutGrantItem(t, base, f) == PutItem(t, L4_GrantItem(base, f))
L4_MsgPutSimpleStringItem(t) == PutItem(t, Simple(str))
L4_MsgPutStringItem(t) == PutItem(t, TheString(str, 1))

L4_MsgPut(l, untyped, typed) ==
  /\ Len(untyped) + Len(typed) < NumMRs
  /\ msg' = [Store(msg, 1, untyped \o typed) EXCEPT ![0] = Tag(Len(untyped), Len(typed), l)]
  /\ UNCHANGED <<str, rmsg>>

-----------------------------------------------------------------------------
(* Message registers *)

\* Registers and UTCB of a thread, with whatever was in them.
AnyMRs == [regs |-> [i \in 0 .. NumRegs - 1 |-> Nothing],
           utcb |-> [i \in 0 .. NumMRs - NumRegs - 1 |-> Nothing]]

\* Where L4_LoadMRs(i, k, w) and L4_StoreMRs() have the j-th word: the switch runs
\* through the registers from i on, and then the UTCB from its first word.
Slot(i, j) == IF i + j < NumRegs THEN <<"regs", i + j>>
              ELSE <<"utcb", IF i > NumRegs THEN j ELSE i + j - NumRegs>>

L4_LoadMRs(mrs, i, ws) ==
  IF i < 0 \/ ws = <<>> \/ i + Len(ws) > NumMRs THEN mrs
  ELSE LET of(part, n) == {j \in DOMAIN ws : Slot(i, j - 1) = <<part, n>>}
           new(part, n) == IF of(part, n) = {} THEN mrs[part][n]
                           ELSE ws[CHOOSE j \in of(part, n) : TRUE]
       IN  [regs |-> [n \in DOMAIN mrs.regs |-> new("regs", n)],
            utcb |-> [n \in DOMAIN mrs.utcb |-> new("utcb", n)]]

L4_StoreMRs(mrs, i, k, old) ==
  IF i < 0 \/ k <= 0 \/ i + k > NumMRs THEN old
  ELSE [j \in DOMAIN old |-> IF j \in 1 .. k THEN mrs[Slot(i, j - 1)[1]][Slot(i, j - 1)[2]]
                             ELSE old[j]]

\* The kernel's side: message register i of a thread that has trapped.
ipc_read_mr(mrs, i) == IF i >= NumRegs THEN mrs.utcb[i - NumRegs] ELSE mrs.regs[i]
ipc_write_mr(mrs, i, w) ==
  IF i >= NumRegs THEN [mrs EXCEPT !.utcb[i - NumRegs] = w] ELSE [mrs EXCEPT !.regs[i] = w]

\* do_ipc(): tag, untyped words, typed words.
do_ipc(from, to) ==
  LET tag == ipc_read_mr(from, 0)
      copied[i \in 0 .. NumMRs] ==
        IF i = 0 THEN to ELSE ipc_write_mr(copied[i - 1], i - 1, ipc_read_mr(from, i - 1))
  IN  IF tag[2] + tag[3] + 1 > NumMRs THEN to ELSE copied[tag[2] + tag[3] + 1]

L4_MsgLoad(m) == L4_LoadMRs(AnyMRs, 0, Load(m, 0, U(m) + T(m) + 1))

\* L4_MsgStore(): the tag comes from L4_Ipc(), the rest from the registers.
L4_MsgStore(mrs) ==
  LET tag == mrs.regs[0]
      k == tag[2] + tag[3]
      ws == L4_StoreMRs(mrs, 1, k, [j \in 1 .. k |-> Nothing])
  IN  [i \in 0 .. NumMRs - 1 |-> IF i = 0 THEN tag ELSE IF i \in DOMAIN ws THEN ws[i] ELSE Nothing]

\* L4_MsgLoad(), the transfer, the receiver's L4_MsgStore(): each works on what
\* one thread has to itself.
Transfer == /\ rmsg' = L4_MsgStore(do_ipc(L4_MsgLoad(msg), AnyMRs))
            /\ UNCHANGED <<msg, str>>

-----------------------------------------------------------------------------
(* Reading: L4_MsgWord(), L4_MsgGetMapItem() and the like *)

L4_MsgWord(m, u) == m[u + 1]
WordsOf(m) == [i \in 1 .. U(m) |-> L4_MsgWord(m, i - 1)]
ItemsOf(m) == LET at == ItemStarts(m, 0) IN [i \in DOMAIN at |-> ItemAt(m, at[i])]
Read(m) == [label |-> Label(m), words |-> WordsOf(m), items |-> ItemsOf(m)]

-----------------------------------------------------------------------------
(* Acceptors and receive buffers *)

\* An L4_Acceptor_t: strings, control transfer, receive window (0: none).
Acceptor(s, c, win) == <<"acceptor", s, c, win>>

\* Bit 1 of the flexpage, its write permission, stays where c is.
L4_MapGrantItems(win, writable) == Acceptor(0, writable, win)
L4_StringItemsAcceptor == Acceptor(1, 0, 0)

L4_AddAcceptor(l, r) ==
  Acceptor(IF l[2] + r[2] > 0 THEN 1 ELSE 0, 0, IF r[4] # 0 THEN r[4] ELSE l[4])
L4_AddAcceptorTo(l, r) ==
  Acceptor(IF l[2] + r[2] > 0 THEN 1 ELSE 0, l[3], IF r[4] # 0 THEN r[4] ELSE l[4])
L4_RemoveAcceptor(l, r) ==
  Acceptor(IF r[2] = 1 THEN 0 ELSE l[2], l[3], IF r[4] # 0 THEN 0 ELSE l[4])

\* L4_HasStringItems(), L4_HasMapGrantItems()
Accepts(a) == (IF a[2] = 1 THEN {"strings"} ELSE {}) \cup (IF a[4] # 0 THEN {"pages"} ELSE {})

Acceptors == {L4_StringItemsAcceptor} \cup {L4_MapGrantItems(w, 1) : w \in Addrs}

BufWords == NumBRs - 1
BufUsed == ~IsZero(buf[0]) \/ ~IsZero(buf[2])

L4_MsgBufferClear ==
  /\ buf' = [buf EXCEPT ![0] = <<"zero">>, ![2] = <<"zero">>] /\ strings' = <<>>
  /\ UNCHANGED <<br, accepted>>

\* The string s put behind the others, whose last is marked as continued.
Chain(mem, s) ==
  LET e == EndOfStrings(mem, 0)
  IN  Store([mem EXCEPT ![e.last] = SetField(@, 2, 1)], e.end, s)
Room(s) == IF BufUsed THEN EndOfStrings(buf, 0).end + Len(s) <= BufWords ELSE TRUE

\* An empty string is only told from no string by the mark in raw[2], which a
\* second one overwrites: strings after the first are not empty.
Tellable(s) == s[1][5] > 0 \/ (strings = <<>> /\ Len(s) = 2)

L4_MsgBufferAppendSimpleRcvString(s) ==
  /\ Room(Simple(s)) /\ Tellable(s)
  /\ buf' = IF BufUsed THEN Chain(buf, Simple(s))
            ELSE Store([buf EXCEPT ![2] = <<"ones">>], 0, Simple(s))
  /\ strings' = Append(strings, Simple(s)) /\ UNCHANGED <<br, accepted>>

L4_MsgBufferAppendRcvString(s) ==
  /\ Room(s) /\ s[1][5] > 0
  /\ buf' = IF BufUsed THEN Chain(buf, s) ELSE Store(buf, 0, s)
  /\ strings' = Append(strings, s) /\ UNCHANGED <<br, accepted>>

L4_LoadBRs(b, i, ws) ==
  IF i < 0 \/ ws = <<>> \/ i + Len(ws) > NumBRs THEN b ELSE Store(b, i, ws)

\* The loops of L4_AcceptStrings(), from the string at s on.
RECURSIVE LoadStrings(_, _)
LoadStrings(b, s) ==
  LET e == EndOfString(buf, s).end
      loaded == L4_LoadBRs(b, s + 1, TheString(buf, s))
  IN  IF buf[s][2] = 1 THEN LoadStrings(loaded, e) ELSE loaded

L4_AcceptStrings(a, what) ==
  /\ strings # <<>>
  /\ br' = LoadStrings(L4_LoadBRs(br, 0, <<a>>), 0)
  /\ accepted' = <<what, strings>> /\ UNCHANGED <<buf, strings>>

\* Another acceptor for the strings there are.
L4_Accept(a, what) ==
  /\ accepted # <<>>
  /\ br' = L4_LoadBRs(br, 0, <<a>>)
  /\ accepted' = <<what, accepted[2]>> /\ UNCHANGED <<buf, strings>>

L4_Accepted == br[0]

\* The strings that buffer registers describe.
RECURSIVE StringsAt(_, _)
StringsAt(mem, s) ==
  LET e == EndOfString(mem, s).end
      one == <<[TheString(mem, s) EXCEPT ![1] = SetField(@, 2, 0)]>>
  IN  IF mem[s][2] = 1 THEN one \o StringsAt(mem, e) ELSE one

-----------------------------------------------------------------------------
MsgInit == /\ msg = [i \in 0 .. NumMRs - 1 |-> IF i = 0 THEN Tag(0, 0, 0) ELSE Nothing]
           /\ rmsg = [i \in 0 .. NumMRs - 1 |-> IF i = 0 THEN Tag(0, 0, 0) ELSE Nothing]
           /\ str = L4_StringItem(1, CHOOSE a \in Addrs : TRUE)

BufInit == /\ buf = [i \in 0 .. BufWords - 1 |-> <<"zero">>]
           /\ br = [i \in 0 .. NumBRs - 1 |-> Nothing]
           /\ strings = <<>> /\ accepted = <<>>

WordSet == {<<"word", v>> : v \in Values}
PageItems == {L4_MapItem(1, f) : f \in Addrs} \cup {L4_GrantItem(1, f) : f \in Addrs}
PutContents == {[label |-> 1, words |-> ws, items |-> is] :
                  ws \in {<<>>} \cup {<<w>> : w \in WordSet}, is \in {<<>>} \cup {<<x>> : x \in PageItems}}

StrNext == \/ \E len \in Lengths, a \in Addrs : NewString(len, a)
           \/ \E a \in Addrs : L4_AddSubstringTo(L4_StringItem(1, a))
           \/ \E a \in Addrs : L4_AddSubstringAddressTo(a)

\* Each message is sent once: what is in the registers before makes no difference.
Unsent == Read(rmsg) = [label |-> 0, words |-> <<>>, items |-> <<>>]

MsgNext == /\ Unsent /\ UNCHANGED bufVars
           /\ \/ StrNext \/ L4_MsgClear \/ L4_Set_MsgLabel(1) \/ Transfer
              \/ \E w \in WordSet : L4_MsgAppendWord(w) \/ \E u \in 0 .. NumMRs : L4_MsgPutWord(u, w)
              \/ \E f \in Addrs : L4_MsgAppendMapItem(1, f) \/ L4_MsgAppendGrantItem(1, f)
              \/ L4_MsgAppendSimpleStringItem \/ L4_MsgAppendStringItem
              \/ \E t \in 0 .. NumMRs : \/ \E f \in Addrs : \/ L4_MsgPutMapItem(t, 1, f)
                                                            \/ L4_MsgPutGrantItem(t, 1, f)
                                        \/ L4_MsgPutSimpleStringItem(t) \/ L4_MsgPutStringItem(t)
              \/ \E c \in PutContents :
                   L4_MsgPut(c.label, c.words, IF c.items = <<>> THEN <<>> ELSE c.items[1])

\* The same goes for a buffer: it is accepted once.
BufNext == \/ /\ accepted = <<>>
              /\ \/ L4_MsgBufferClear /\ UNCHANGED msgVars
                 \/ L4_MsgBufferAppendSimpleRcvString(str) /\ UNCHANGED msgVars
                 \/ L4_MsgBufferAppendRcvString(TheString(str, 1)) /\ UNCHANGED msgVars
                 \/ StrNext /\ UNCHANGED bufVars
                 \/ \E l, r \in Acceptors :
                      /\ L4_AcceptStrings(L4_AddAcceptor(l, r), Accepts(l) \cup Accepts(r))
                      /\ UNCHANGED msgVars
           \/ /\ \E r \in Acceptors :
                   \/ L4_Accept(L4_AddAcceptorTo(L4_Accepted, r), accepted[1] \cup Accepts(r))
                   \/ L4_Accept(L4_RemoveAcceptor(L4_Accepted, r), accepted[1] \ Accepts(r))
              /\ UNCHANGED msgVars

-----------------------------------------------------------------------------
\* Appending, putting and clearing in any order, strings of several substrings
\* included, is what it is on sequences of words and items, and what the receiver
\* reads is what the message was, though words move when others are appended, and
\* pass through processor registers, UTCB and kernel on the way.
Sequences_ == INSTANCE MsgSpec WITH
  Words <- WordSet, Items <- PageItems, Labels <- {1}, Contents <- PutContents,
  NoMessage <- [label |-> 0, words |-> <<>>, items |-> <<>>],
  label <- Label(msg), words <- WordsOf(msg), items <- ItemsOf(msg),
  string <- str, received <- Read(rmsg)
MessageIsSequences == Sequences_!Spec

\* The buffer registers accept what the acceptors added up and taken away do, and
\* describe the strings that were in the buffer, substrings and all, when
\* L4_AcceptStrings() was called, however the buffer was filled and cleared before.
BuffersAsAppended ==
  accepted # <<>> => Accepts(L4_Accepted) = accepted[1] /\ StringsAt(br, 1) = accepted[2]
=============================================================================
