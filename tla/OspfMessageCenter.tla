-------------------------- MODULE OspfMessageCenter --------------------------
(***************************************************************************)
(* OspfMessageCenter, the one storage of messages all agents share, with   *)
(* those that name its messages by number: packets on the links and the    *)
(* records of OspfRetransmissionManager.  There is a store for each type   *)
(* of message.  A full store makes room by erasing the message with the    *)
(* smallest id, and ids start again at 1 after OSPF_WRAPAROUND_THRESHOLD.  *)
(*                                                                         *)
(* The contents of a message is its place in the order in which messages   *)
(* of its type were made: only which message it is matters here.  A slot   *)
(* is a place a message is sent to and, for types that are repeated until  *)
(* answered, the record kept for it: an agent and a neighbour, and the     *)
(* originator too for UpdateMap_.                                          *)
(***************************************************************************)
EXTENDS Integers, FiniteSets

CONSTANTS
  Type,       \* the types of message looked at
  Slot,
  MaxSize,    \* max_size
  Threshold,  \* OSPF_WRAPAROUND_THRESHOLD
  MaxMade     \* bound: messages made, by type

AllTypes == {"hello", "dd", "request", "update", "ack"}

(* The types messageOut makes a record of.                                 *)
Recorded == {"dd", "request", "update"} \cap Type

ASSUME CenterAssumption ==
  /\ Type \subseteq AllTypes
  /\ MaxSize \in Nat \ {0} /\ Threshold \in Nat \ {0}
  /\ MaxMade \in [Type -> Nat]

VARIABLES
  current,  \* current[t], the id given last; LS_INVALID_MESSAGE_ID is 0
  store,    \* store[t], a map from ids to messages
  made,     \* made[t], the number of messages made of type t
  links,    \* the packets on the links: type, id, slot
  record,   \* record[t][s], the id to be sent again, or 0
  halted    \* ls_error has been called

vars == <<current, store, made, links, record, halted>>

Id == 1..Threshold
NoId == 0

Header == [type : Type, msgId : Id, to : Slot]

-----------------------------------------------------------------------------
Init ==
  /\ current = [t \in Type |-> NoId]
  /\ store = [t \in Type |-> [i \in {} |-> 0]]
  /\ made = [t \in Type |-> 0]
  /\ links = {}
  /\ record = [t \in Type |-> [s \in Slot |-> NoId]]
  /\ halted = FALSE

(* Mutant of NextId: the number of messages stored gives the next id.      *)
NextIdBySize(t) == Cardinality(DOMAIN store[t]) + 1

NextId(t) == IF current[t] = Threshold THEN 1 ELSE current[t] + 1

(* Mutant of Kept: nothing is recycled.                                    *)
KeptAll(t) == DOMAIN store[t]

(* Mutant of Kept: the last message is recycled instead of the first.      *)
KeptFirst(t) ==
  LET ids == DOMAIN store[t] IN
  IF Cardinality(ids) >= MaxSize THEN {i \in ids : \E j \in ids : j > i} ELSE ids

(* The ids that stay when a message is added: max_size reached, recycle.   *)
Kept(t) ==
  LET ids == DOMAIN store[t] IN
  IF Cardinality(ids) >= MaxSize THEN {i \in ids : \E j \in ids : j < i} ELSE ids

(* newMessage, and what the sending functions do with the id: one packet   *)
(* for every destination, and a record where messageOut makes one.  A      *)
(* hello goes to every peer; a description packet is recorded only by the  *)
(* master of an exchange that has begun; a request and an update always.   *)
(* When the id is in use, insert returns end() and ls_error is called.     *)
NewMessage(t, S, recorded) ==
  /\ ~halted
  /\ made[t] < MaxMade[t]
  /\ IF NextId(t) \in Kept(t)
     THEN halted' = TRUE /\ UNCHANGED <<current, store, made, links, record>>
     ELSE /\ made' = [made EXCEPT ![t] = @ + 1]
          /\ current' = [current EXCEPT ![t] = NextId(t)]
          /\ store' = [store EXCEPT ![t] =
               [i \in Kept(t) \cup {NextId(t)} |->
                  IF i = NextId(t) THEN made'[t] ELSE store[t][i]]]
          /\ links' = links \cup {[type |-> t, msgId |-> NextId(t), to |-> s] : s \in S}
          /\ record' = [record EXCEPT ![t] =
               [s \in Slot |-> IF recorded /\ s \in S THEN NextId(t) ELSE @[s]]]
          /\ UNCHANGED halted

Destinations(t) == IF t = "hello" THEN SUBSET Slot \ {{}} ELSE {{s} : s \in Slot}

Recording(t) ==
  CASE t \in {"hello", "ack"} -> {FALSE}
    [] t = "dd" -> BOOLEAN
    [] t \in {"request", "update"} -> {TRUE}

Send == \E t \in Type : \E S \in Destinations(t), recorded \in Recording(t) :
          NewMessage(t, S, recorded)

(* receiveMessage: an acknowledgement is deleted once received, other      *)
(* messages stay until they are recycled.  A message that is not there is  *)
(* passed over.                                                            *)
ReceiveMessage(p) ==
  /\ ~halted
  /\ links' = links \ {p}
  /\ IF p.type = "ack"
     THEN store' = [store EXCEPT !["ack"] =
            [i \in DOMAIN store["ack"] \ {p.msgId} |-> store["ack"][i]]]
     ELSE UNCHANGED store
  /\ UNCHANGED <<current, made, record, halted>>

Lose(p) ==
  /\ ~halted
  /\ links' = links \ {p}
  /\ UNCHANGED <<current, store, made, record, halted>>

(* messageIn and cancelTimer: records are cleared.                         *)
Answered(t, S) ==
  /\ ~halted
  /\ record' = [record EXCEPT ![t] = [s \in Slot |-> IF s \in S THEN NoId ELSE @[s]]]
  /\ UNCHANGED <<current, store, made, links, halted>>

(* Mutant of Resend: the id given last is sent instead of the one recorded. *)
ResendCurrent(t, s) ==
  /\ ~halted
  /\ record[t][s] # NoId
  /\ links' = links \cup {[type |-> t, msgId |-> current[t], to |-> s]}
  /\ UNCHANGED <<current, store, made, record, halted>>

(* resendMessages: a header with the id recorded, whatever it names now.   *)
Resend(t, s) ==
  /\ ~halted
  /\ record[t][s] # NoId
  /\ links' = links \cup {[type |-> t, msgId |-> record[t][s], to |-> s]}
  /\ UNCHANGED <<current, store, made, record, halted>>

Next ==
  \/ Send
  \/ \E p \in links : ReceiveMessage(p)
  \/ \E p \in links : Lose(p)
  \/ \E t \in Recorded, S \in SUBSET Slot : Answered(t, S)
  \/ \E t \in Recorded, s \in Slot : Resend(t, s)

Spec == Init /\ [][Next]_vars

-----------------------------------------------------------------------------
TypeOK ==
  /\ current \in [Type -> 0..Threshold]
  /\ \A t \in Type :
       /\ DOMAIN store[t] \subseteq Id /\ IsFiniteSet(DOMAIN store[t])
       /\ \A i \in DOMAIN store[t] : store[t][i] \in 1..MaxMade[t]
       /\ Cardinality(DOMAIN store[t]) <= MaxSize
  /\ DOMAIN made = Type /\ \A t \in Type : made[t] \in 0..MaxMade[t]
  /\ links \subseteq Header
  /\ record \in [Type -> [Slot -> Id \cup {NoId}]]
  /\ halted \in BOOLEAN

(* What an id names now.                                                   *)
Named(t, i) == IF i \in DOMAIN store[t] THEN store[t][i] ELSE 0

(* An id names the message it was given to or none at all, as long as the  *)
(* ids have not wrapped around: packets might as well carry their          *)
(* messages, some of which are lost.                                       *)
Carried ==
  {[type |-> p.type, msg |-> Named(p.type, p.msgId), to |-> p.to] :
     p \in {q \in links : q.msgId \in DOMAIN store[q.type]}}

Messages == INSTANCE MessagePassing WITH
  made <- made, flight <- Carried,
  open <- [t \in Type |-> [s \in Slot |-> Named(t, record[t][s])]]

ImplementsPassing == Messages!Spec

(* The newest messages are there, a storage full of them, except those     *)
(* deleted on receipt: a message cannot be recycled while fewer than       *)
(* MaxSize newer ones have been made.                                      *)
NewestAreKept ==
  \A t \in Type \ {"ack"} : \A m \in 1..made[t] :
    m > made[t] - MaxSize => \E i \in DOMAIN store[t] : store[t][i] = m

(* ls_error is not called before the ids have been used up once.           *)
FirstCycleIsSafe == halted => \E t \in Type : made[t] >= Threshold

-----------------------------------------------------------------------------
(* What the comments of the code expect, and the code does not do: each    *)
(* has a counterexample.                                                   *)

(* An unanswered message can be sent again: "the message must be in the    *)
(* messageCenter".                                                         *)
UnansweredAreStored ==
  \A t \in Recorded, s \in Slot :
    record[t][s] # NoId => record[t][s] \in DOMAIN store[t]

(* "Can't insert new message" never happens.                               *)
InsertSucceeds == ~halted
=============================================================================
