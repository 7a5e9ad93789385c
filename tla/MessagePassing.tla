--------------------------- MODULE MessagePassing ---------------------------
(***************************************************************************)
(* What a message center promises those who name messages by numbers: it   *)
(* is as if packets carried their messages.  A packet on its way to a      *)
(* place carries a message sent to that place; a message waiting for an    *)
(* answer is the one last sent there; both may be lost, never exchanged.   *)
(*                                                                         *)
(* The messages of a type are told apart by the order they were made in.   *)
(* OspfMessageCenter implements this specification while its ids do not    *)
(* wrap around.  It justifies that packets carry their contents in         *)
(* OspfAdjacency.                                                          *)
(***************************************************************************)
EXTENDS Integers

CONSTANTS Type, Slot

VARIABLES
  made,    \* made[t]: how many messages of type t were made
  flight,  \* packets on their way: type, message, destination
  open     \* open[t][s]: the message unanswered at s, or 0

vars == <<made, flight, open>>

Packet == [type : Type, msg : Nat \ {0}, to : Slot]

Init ==
  /\ made = [t \in Type |-> 0]
  /\ flight = {}
  /\ open = [t \in Type |-> [s \in Slot |-> 0]]

(* Open messages may be lost: o is open with some of them missing.         *)
Weaker(o) == \A t \in Type, s \in Slot : o[t][s] \in {open[t][s], 0}

(* A new message is sent to some places and may be kept for repetition.    *)
(* Older messages may be lost to make room for it.                         *)
Send(t, S) ==
  /\ made' = [made EXCEPT ![t] = @ + 1]
  /\ flight' \subseteq flight \cup {[type |-> t, msg |-> made'[t], to |-> s] : s \in S}
  /\ \A u \in Type, s \in Slot :
       open'[u][s] \in {open[u][s], 0} \cup (IF u = t /\ s \in S THEN {made'[t]} ELSE {})

(* Packets arrive or are lost; messages are answered or given up.          *)
Settle ==
  /\ flight' \subseteq flight
  /\ Weaker(open')
  /\ UNCHANGED made

Repeat(t, s) ==
  /\ open[t][s] # 0
  /\ flight' = flight \cup {[type |-> t, msg |-> open[t][s], to |-> s]}
  /\ UNCHANGED <<made, open>>

Next ==
  \/ \E t \in Type, S \in SUBSET Slot : Send(t, S)
  \/ Settle
  \/ \E t \in Type, s \in Slot : Repeat(t, s)

Spec == Init /\ [][Next]_vars
=============================================================================
