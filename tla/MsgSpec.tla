------------------------------- MODULE MsgSpec -------------------------------
(***************************************************************************)
(* What a message is to a thread that uses l4/message.h: a label, a        *)
(* sequence of untyped words and a sequence of typed items, built up in    *)
(* any order, and read by the receiver as they were when it was sent.      *)
(***************************************************************************)
EXTENDS Sequences

CONSTANTS Words,       \* untyped words
          Items,       \* map and grant items
          Labels,
          Contents,    \* messages put together in one call
          NoMessage

VARIABLES label, words, items,   \* the message being built
          string,                \* the string item in hand
          received

vars == <<label, words, items, string, received>>

Content == [label |-> label, words |-> words, items |-> items]

\* A string without its further substrings and addresses.
FirstOf(s) == <<[s[1] EXCEPT ![3] = 0, ![4] = 0], s[2]>>
AllItems == Items \cup {string, FirstOf(string)}

Init == label = 0 /\ words = <<>> /\ items = <<>> /\ received = NoMessage

AppendWord == /\ UNCHANGED <<label, items, string, received>>
              /\ \E w \in Words : words' = Append(words, w)
AppendItem == /\ UNCHANGED <<label, words, string, received>>
              /\ \E x \in AllItems : items' = Append(items, x)
PutWord == /\ UNCHANGED <<label, items, string, received>>
           /\ \E i \in DOMAIN words, w \in Words : words' = [words EXCEPT ![i] = w]
PutItem == /\ UNCHANGED <<label, words, string, received>>
           /\ \E i \in DOMAIN items, x \in AllItems : items' = [items EXCEPT ![i] = x]
SetLabel == label' \in Labels /\ UNCHANGED <<words, items, string, received>>
Clear == label' = 0 /\ words' = <<>> /\ items' = <<>> /\ UNCHANGED <<string, received>>
Put == Content' \in Contents /\ UNCHANGED <<string, received>>
String == UNCHANGED <<label, words, items, received>>
Transfer == received' = Content /\ UNCHANGED <<label, words, items, string>>

Next == \/ AppendWord \/ AppendItem \/ PutWord \/ PutItem
        \/ SetLabel \/ Clear \/ Put \/ String \/ Transfer

Spec == Init /\ [][Next]_vars
=============================================================================
