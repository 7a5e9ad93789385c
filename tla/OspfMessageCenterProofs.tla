----------------------- MODULE OspfMessageCenterProofs -----------------------
(***************************************************************************)
(* OspfMessageCenter implements MessagePassing, for any types of message,  *)
(* any places and any size of the storage, while the ids do not wrap       *)
(* around; until then no insertion fails, and the newest messages are all  *)
(* there.                                                                  *)
(***************************************************************************)
EXTENDS OspfMessageCenter, FiniteSetTheorems, TLAPS

(* Before the wrap-around an id is the place of its message in the order   *)
(* of making, so what an id names never changes.                           *)
IdsAreInOrder ==
  /\ current \in [Type -> Nat] /\ made = current
  /\ DOMAIN store = Type
  /\ \A t \in Type : \A i \in DOMAIN store[t] :
       i \in Nat \ {0} /\ i <= current[t] /\ store[t][i] = i
  /\ \A p \in links : /\ p.type \in Type /\ p.to \in Slot
                      /\ p.msgId \in Nat \ {0} /\ p.msgId <= current[p.type]
  /\ record \in [Type -> [Slot -> Nat]]
  /\ \A t \in Type, s \in Slot : record[t][s] <= current[t]

-----------------------------------------------------------------------------
LEMMA InOrderInit == Init => IdsAreInOrder
BY DEF Init, IdsAreInOrder, NoId

(* What newMessage does when the id is one more than the last.             *)
LEMMA NewMessageFacts ==
  ASSUME IdsAreInOrder, NEW t \in Type, made[t] < Threshold, NEW S \in SUBSET Slot,
         NEW recorded, NewMessage(t, S, recorded)
  PROVE  LET n == current[t] + 1 IN
         /\ n \in Nat \ {0} /\ n > current[t]
         /\ made' = [made EXCEPT ![t] = n] /\ current' = made' /\ halted' = halted
         /\ DOMAIN store' = Type
         /\ \A u \in Type : u # t => store'[u] = store[u]
         /\ DOMAIN store'[t] \subseteq DOMAIN store[t] \cup {n}
         /\ n \in DOMAIN store'[t]
         /\ \A i \in DOMAIN store'[t] : store'[t][i] = i
         /\ links' = links \cup {[type |-> t, msgId |-> n, to |-> s] : s \in S}
         /\ record' \in [Type -> [Slot -> Nat]]
         /\ \A u \in Type, s \in Slot :
              record'[u][s] = record[u][s] \/ (u = t /\ s \in S /\ record'[u][s] = n)
<1> DEFINE n == current[t] + 1
<1>1. /\ current \in [Type -> Nat] /\ made = current /\ made[t] < MaxMade[t]
      /\ record \in [Type -> [Slot -> Nat]] /\ DOMAIN store = Type
  BY DEF IdsAreInOrder, NewMessage
<1>2. current[t] \in Nat /\ n \in Nat \ {0} /\ n > current[t] /\ NextId(t) = n
  BY <1>1, CenterAssumption DEF NextId
<1>4. Kept(t) \subseteq DOMAIN store[t]
  BY DEF Kept
<1>9. NextId(t) \notin Kept(t)
  BY <1>2, <1>4 DEF IdsAreInOrder
<1>3. /\ made' = [made EXCEPT ![t] = @ + 1] /\ current' = [current EXCEPT ![t] = n]
      /\ halted' = halted
      /\ store' = [store EXCEPT ![t] =
           [i \in Kept(t) \cup {n} |-> IF i = n THEN made'[t] ELSE store[t][i]]]
      /\ links' = links \cup {[type |-> t, msgId |-> n, to |-> s] : s \in S}
      /\ record' = [record EXCEPT ![t] =
           [s \in Slot |-> IF recorded /\ s \in S THEN n ELSE record[t][s]]]
  BY <1>2, <1>9 DEF NewMessage
<1>5. made'[t] = n /\ made' = [made EXCEPT ![t] = n] /\ current' = made'
  BY <1>1, <1>3
<1>6. /\ store'[t] = [i \in Kept(t) \cup {n} |-> IF i = n THEN n ELSE store[t][i]]
      /\ DOMAIN store' = Type /\ \A u \in Type : u # t => store'[u] = store[u]
  BY <1>1, <1>3, <1>5
<1>7. \A i \in DOMAIN store'[t] : store'[t][i] = i
  BY <1>4, <1>6 DEF IdsAreInOrder
<1>8. /\ record' \in [Type -> [Slot -> Nat]]
      /\ \A u \in Type, s \in Slot :
              record'[u][s] = record[u][s] \/ (u = t /\ s \in S /\ record'[u][s] = n)
  BY <1>1, <1>2, <1>3
<1> QED BY <1>2, <1>3, <1>4, <1>5, <1>6, <1>7, <1>8

-----------------------------------------------------------------------------
(* The mapping: what a packet carries and what a record names.             *)
Open == [t \in Type |-> [s \in Slot |-> Named(t, record[t][s])]]

(* A step that makes no message and adds no packet or record but drops     *)
(* some of them, and messages with them, is a step of Settle.              *)
LEMMA DroppingSettles ==
  ASSUME IdsAreInOrder, UNCHANGED <<current, made>>, links' \subseteq links,
         DOMAIN store' = Type, record' \in [Type -> [Slot -> Nat]],
         \A t \in Type : /\ DOMAIN store'[t] \subseteq DOMAIN store[t]
                         /\ \A i \in DOMAIN store'[t] : store'[t][i] = store[t][i],
         \A t \in Type, s \in Slot : record'[t][s] = record[t][s] \/ record'[t][s] = 0
  PROVE  IdsAreInOrder' /\ Messages!Settle
<1>1. IdsAreInOrder'
  BY DEF IdsAreInOrder
<1>2. Carried' \subseteq Carried
  <2>1. \A p \in links' : p.type \in Type
    BY DEF IdsAreInOrder
  <2> QED BY <2>1 DEF Carried, Named
<1>3. \A t \in Type, s \in Slot : Open'[t][s] \in {Open[t][s], 0}
  <2> TAKE t \in Type, s \in Slot
  <2>1. 0 \notin DOMAIN store[t] /\ 0 \notin DOMAIN store'[t]
    BY DEF IdsAreInOrder
  <2>2. Open'[t][s] = Named(t, record[t][s])' /\ Open[t][s] = Named(t, record[t][s])
    BY DEF Open
  <2> QED BY <2>1, <2>2 DEF Named
<1> QED BY <1>1, <1>2, <1>3 DEF Messages!Settle, Messages!Weaker, Open

LEMMA NewMessageSends ==
  ASSUME IdsAreInOrder, NEW t \in Type, made[t] < Threshold, NEW S \in SUBSET Slot,
         NEW recorded, NewMessage(t, S, recorded)
  PROVE  IdsAreInOrder' /\ Messages!Send(t, S)
<1> DEFINE n == current[t] + 1
<1>1. /\ n \in Nat \ {0} /\ n > current[t]
      /\ made' = [made EXCEPT ![t] = n] /\ current' = made'
      /\ DOMAIN store' = Type
      /\ \A u \in Type : u # t => store'[u] = store[u]
      /\ DOMAIN store'[t] \subseteq DOMAIN store[t] \cup {n}
      /\ n \in DOMAIN store'[t]
      /\ \A i \in DOMAIN store'[t] : store'[t][i] = i
      /\ links' = links \cup {[type |-> t, msgId |-> n, to |-> s] : s \in S}
      /\ record' \in [Type -> [Slot -> Nat]]
      /\ \A u \in Type, s \in Slot :
           record'[u][s] = record[u][s] \/ (u = t /\ s \in S /\ record'[u][s] = n)
  BY NewMessageFacts, ZenonT(60)
<1>2. /\ current \in [Type -> Nat] /\ made = current /\ DOMAIN store = Type
      /\ \A u \in Type : \A i \in DOMAIN store[u] :
           i \in Nat \ {0} /\ i <= current[u] /\ store[u][i] = i
      /\ \A p \in links : /\ p.type \in Type /\ p.to \in Slot
                          /\ p.msgId \in Nat \ {0} /\ p.msgId <= current[p.type]
      /\ record \in [Type -> [Slot -> Nat]]
      /\ \A u \in Type, s \in Slot : record[u][s] <= current[u]
  BY DEF IdsAreInOrder
<1>3. /\ made'[t] = n /\ current' \in [Type -> Nat]
      /\ \A u \in Type : current[u] \in Nat /\ current[u] <= current'[u]
  BY <1>1, <1>2
<1>4. \A u \in Type : \A i \in DOMAIN store'[u] :
        i \in Nat \ {0} /\ i <= current'[u] /\ store'[u][i] = i
  <2> TAKE u \in Type
  <2> TAKE i \in DOMAIN store'[u]
  <2>1. CASE u = t
    BY <1>1, <1>2, <1>3, <2>1
  <2>2. CASE u # t
    BY <1>1, <1>2, <1>3, <2>2
  <2> QED BY <2>1, <2>2
<1>5. \A p \in links' : /\ p.type \in Type /\ p.to \in Slot
                        /\ p.msgId \in Nat \ {0} /\ p.msgId <= current'[p.type]
  BY <1>1, <1>2, <1>3
<1>6. \A u \in Type, s \in Slot : record'[u][s] <= current'[u]
  BY <1>1, <1>2, <1>3
<1>7. IdsAreInOrder'
  BY <1>1, <1>3, <1>4, <1>5, <1>6 DEF IdsAreInOrder
<1>8. Carried' \subseteq Carried \cup {[type |-> t, msg |-> made'[t], to |-> s] : s \in S}
  <2> SUFFICES ASSUME NEW p \in links', p.msgId \in DOMAIN store'[p.type]
               PROVE  [type |-> p.type, msg |-> store'[p.type][p.msgId], to |-> p.to]
                        \in Carried \cup {[type |-> t, msg |-> made'[t], to |-> s] : s \in S}
    BY DEF Carried, Named
  <2>1. CASE p \in links
    <3>1. p.msgId \in DOMAIN store[p.type] /\ store'[p.type][p.msgId] = store[p.type][p.msgId]
      <4>1. p.type \in Type /\ p.msgId <= current[p.type] /\ p.msgId \in Nat
        BY <1>2, <2>1
      <4>2. CASE p.type = t
        BY <1>1, <1>2, <4>1, <4>2
      <4>3. CASE p.type # t
        BY <1>1, <4>1, <4>3
      <4> QED BY <4>2, <4>3
    <3> QED BY <2>1, <3>1 DEF Carried, Named
  <2>2. CASE p \notin links
    <3>1. PICK s \in S : p = [type |-> t, msgId |-> n, to |-> s]
      BY <1>1, <2>2
    <3>2. store'[p.type][p.msgId] = made'[t]
      BY <3>1, <1>1, <1>3
    <3> QED BY <3>1, <3>2
  <2> QED BY <2>1, <2>2
<1>9. \A u \in Type, s \in Slot :
        Open'[u][s] \in {Open[u][s], 0} \cup (IF u = t /\ s \in S THEN {made'[t]} ELSE {})
  <2> TAKE u \in Type, s \in Slot
  <2>1. Open'[u][s] = Named(u, record[u][s])' /\ Open[u][s] = Named(u, record[u][s])
    BY DEF Open
  <2>2. CASE record'[u][s] = record[u][s]
    <3>1. record[u][s] <= current[u] /\ record[u][s] \in Nat /\ current[u] \in Nat
      BY <1>2
    <3>2. \/ record[u][s] \notin DOMAIN store'[u]
          \/ /\ record[u][s] \in DOMAIN store[u]
             /\ store'[u][record[u][s]] = store[u][record[u][s]]
      <4>1. CASE u = t
        BY <1>1, <1>2, <3>1, <4>1
      <4>2. CASE u # t
        BY <1>1, <4>2
      <4> QED BY <4>1, <4>2
    <3> QED BY <2>1, <2>2, <3>2 DEF Named
  <2>3. CASE u = t /\ s \in S /\ record'[u][s] = n
    BY <1>1, <1>3, <2>1, <2>3 DEF Named
  <2> QED BY <1>1, <2>2, <2>3
<1>10. made' = [made EXCEPT ![t] = made[t] + 1]
  BY <1>1, <1>2
<1> QED BY <1>7, <1>8, <1>9, <1>10 DEF Messages!Send, Open

(* Every other step keeps the order and makes nothing.                     *)
LEMMA RestKeepsOrder ==
  ASSUME IdsAreInOrder, [Next]_vars, ~Send
  PROVE  IdsAreInOrder' /\ [Messages!Next]_(Messages!vars) /\ halted' = halted
<1>3. ASSUME NEW p \in links, ReceiveMessage(p) \/ Lose(p)
      PROVE  IdsAreInOrder' /\ Messages!Next
  <2>1. /\ DOMAIN store = Type /\ record \in [Type -> [Slot -> Nat]]
        /\ links' \subseteq links /\ UNCHANGED <<current, made, record>>
    BY <1>3 DEF IdsAreInOrder, ReceiveMessage, Lose
  <2>2. /\ DOMAIN store' = Type
        /\ \A t \in Type : /\ DOMAIN store'[t] \subseteq DOMAIN store[t]
                           /\ \A i \in DOMAIN store'[t] : store'[t][i] = store[t][i]
    <3>1. CASE store' = store
      BY <2>1, <3>1
    <3>2. CASE store' = [store EXCEPT !["ack"] =
            [i \in DOMAIN store["ack"] \ {p.msgId} |-> store["ack"][i]]]
      BY <2>1, <3>2
    <3> QED BY <1>3, <3>1, <3>2 DEF ReceiveMessage, Lose
  <2> QED BY <2>1, <2>2, DroppingSettles DEF Messages!Next
<1>4. ASSUME NEW t \in Recorded, NEW S \in SUBSET Slot, Answered(t, S)
      PROVE  IdsAreInOrder' /\ Messages!Next
  <2>1. /\ DOMAIN store = Type /\ record \in [Type -> [Slot -> Nat]] /\ t \in Type
        /\ UNCHANGED <<current, made, links, store>>
        /\ record' = [record EXCEPT ![t] =
             [s \in Slot |-> IF s \in S THEN 0 ELSE record[t][s]]]
    BY <1>4 DEF IdsAreInOrder, Answered, Recorded, NoId
  <2>2. /\ record' \in [Type -> [Slot -> Nat]]
        /\ \A u \in Type, s \in Slot : record'[u][s] = record[u][s] \/ record'[u][s] = 0
    BY <2>1
  <2> QED BY <2>1, <2>2, DroppingSettles DEF Messages!Next
<1>5. ASSUME NEW t \in Recorded, NEW s \in Slot, Resend(t, s)
      PROVE  IdsAreInOrder' /\ [Messages!Next]_(Messages!vars)
  <2> DEFINE p == [type |-> t, msgId |-> record[t][s], to |-> s]
  <2>1. /\ record[t][s] \in Nat \ {0} /\ record[t][s] <= current[t] /\ t \in Type
        /\ links' = links \cup {p} /\ UNCHANGED <<current, made, record, store>>
    BY <1>5 DEF IdsAreInOrder, Resend, Recorded, NoId
  <2>2. IdsAreInOrder'
    BY <2>1 DEF IdsAreInOrder
  <2>3. CASE record[t][s] \in DOMAIN store[t]
    <3>1. Carried' = Carried \cup {[type |-> t, msg |-> store[t][record[t][s]], to |-> s]}
      <4> DEFINE Held(S) == {q \in S : q.msgId \in DOMAIN store[q.type]}
                 Read(q) == [type |-> q.type, msg |-> store[q.type][q.msgId], to |-> q.to]
      <4>1. Carried = {Read(q) : q \in Held(links)}
        BY DEF Carried, Named
      <4>2. Carried' = {Read(q) : q \in Held(links \cup {p})}
        BY <2>1 DEF Carried, Named
      <4>3. Held(links \cup {p}) = Held(links) \cup {p}
        BY <2>3
      <4>4. Read(p) = [type |-> t, msg |-> store[t][record[t][s]], to |-> s]
        OBVIOUS
      <4> HIDE DEF Held, Read, p
      <4> QED BY <4>1, <4>2, <4>3, <4>4
    <3>2. Open[t][s] = store[t][record[t][s]] /\ store[t][record[t][s]] # 0
      BY <2>1, <2>3 DEF Open, Named, IdsAreInOrder
    <3>3. Open' = Open
      BY <2>1 DEF Open, Named
    <3>4. Messages!Repeat(t, s)
      BY <2>1, <3>1, <3>2, <3>3 DEF Messages!Repeat, Open
    <3> QED BY <2>1, <2>2, <3>4 DEF Messages!Next
  <2>4. CASE record[t][s] \notin DOMAIN store[t]
    <3>1. Carried' = Carried
      BY <2>1, <2>4 DEF Carried, Named
    <3> QED BY <2>1, <2>2, <3>1 DEF Messages!vars, Named
  <2> QED BY <2>3, <2>4
<1>6. ASSUME UNCHANGED vars
      PROVE  IdsAreInOrder' /\ UNCHANGED Messages!vars
  BY <1>6 DEF vars, IdsAreInOrder, Messages!vars, Carried, Named
<1>7. halted' = halted
  BY DEF Next, vars, ReceiveMessage, Lose, Answered, Resend
<1> QED BY <1>3, <1>4, <1>5, <1>6, <1>7 DEF Next

(* Whatever the type, sending is newMessage with some places and a choice  *)
(* of recording it.                                                        *)
LEMMA SendIsNewMessage ==
  ASSUME Send
  PROVE  \E t \in Type, S \in SUBSET Slot, recorded \in BOOLEAN : NewMessage(t, S, recorded)
<1>1. PICK t \in Type : \E S \in Destinations(t), recorded \in Recording(t) :
                            NewMessage(t, S, recorded)
  BY DEF Send
<1>2. Destinations(t) \subseteq SUBSET Slot
  BY DEF Destinations
<1>3. Recording(t) \subseteq BOOLEAN
  BY CenterAssumption DEF Recording, AllTypes
<1> QED BY <1>1, <1>2, <1>3

LEMMA RefinementStep ==
  ASSUME IdsAreInOrder, \A t \in Type : MaxMade[t] <= Threshold, [Next]_vars
  PROVE  IdsAreInOrder' /\ [Messages!Next]_(Messages!vars)
<1>1. CASE Send
  <2>1. PICK t \in Type, S \in SUBSET Slot, recorded \in BOOLEAN : NewMessage(t, S, recorded)
    BY <1>1, SendIsNewMessage
  <2>2. made[t] < Threshold
    BY <2>1, CenterAssumption DEF NewMessage, IdsAreInOrder
  <2> QED BY <2>1, <2>2, NewMessageSends DEF Messages!Next
<1>2. CASE ~Send
  BY <1>2, RestKeepsOrder
<1> QED BY <1>1, <1>2

(* ImplementsPassing: while no id is given twice, naming messages by       *)
(* number is as good as sending them, whatever is recycled, deleted,       *)
(* repeated or lost.                                                       *)
THEOREM MessagesAreNeverMixedUp ==
  ASSUME \A t \in Type : MaxMade[t] <= Threshold
  PROVE  Spec => ImplementsPassing
<1>1. Init => Messages!Init
  BY DEF Init, Messages!Init, Carried, Named, NoId
<1>2. IdsAreInOrder /\ [Next]_vars => IdsAreInOrder' /\ [Messages!Next]_(Messages!vars)
  BY RefinementStep
<1> QED BY <1>1, <1>2, InOrderInit, PTL DEF Spec, ImplementsPassing, Messages!Spec

-----------------------------------------------------------------------------
(* Until the ids of some type have been used up they stay in order, and    *)
(* nothing has failed.                                                     *)
FirstCycle ==
  /\ DOMAIN made = Type
  /\ \A t \in Type : made[t] \in Nat
  /\ \/ \E t \in Type : made[t] >= Threshold
     \/ IdsAreInOrder /\ ~halted

LEMMA FirstCycleStep == FirstCycle /\ [Next]_vars => FirstCycle'
<1> SUFFICES ASSUME FirstCycle, [Next]_vars PROVE FirstCycle'
  OBVIOUS
<1>1. /\ DOMAIN made' = Type
      /\ \A t \in Type : made'[t] \in Nat /\ made'[t] >= made[t]
  <2>1. CASE Send
    <3>1. PICK t \in Type, S \in SUBSET Slot, recorded \in BOOLEAN : NewMessage(t, S, recorded)
      BY <2>1, SendIsNewMessage
    <3>2. made' = made \/ made' = [made EXCEPT ![t] = @ + 1]
      BY <3>1 DEF NewMessage
    <3> QED BY <3>2 DEF FirstCycle
  <2>2. CASE ~Send
    <3>1. made' = made
      BY <2>2 DEF Next, vars, ReceiveMessage, Lose, Answered, Resend
    <3> QED BY <3>1 DEF FirstCycle
  <2> QED BY <2>1, <2>2
<1>2. CASE \E t \in Type : made[t] >= Threshold
  BY <1>1, <1>2, CenterAssumption DEF FirstCycle
<1>3. CASE \A t \in Type : made[t] < Threshold
  <2>1. IdsAreInOrder /\ ~halted
    BY <1>3, CenterAssumption DEF FirstCycle
  <2>2. CASE Send
    <3>1. PICK t \in Type, S \in SUBSET Slot, recorded \in BOOLEAN : NewMessage(t, S, recorded)
      BY <2>2, SendIsNewMessage
    <3>2. IdsAreInOrder' /\ halted' = halted
      BY <1>3, <2>1, <3>1, NewMessageFacts, NewMessageSends
    <3> QED BY <1>1, <2>1, <3>2 DEF FirstCycle
  <2>3. CASE ~Send
    <3>1. IdsAreInOrder' /\ halted' = halted
      BY <2>1, <2>3, RestKeepsOrder
    <3> QED BY <1>1, <2>1, <3>1 DEF FirstCycle
  <2> QED BY <2>2, <2>3
<1> QED BY <1>2, <1>3, CenterAssumption DEF FirstCycle

(* FirstCycleIsSafe: newMessage finds its id free until all ids of a type  *)
(* have been given, for any size of the storage and however many messages  *)
(* are made.                                                               *)
THEOREM NothingFailsBefore == Spec => []FirstCycleIsSafe
<1>1. Init => FirstCycle
  BY InOrderInit, CenterAssumption DEF Init, FirstCycle
<1>2. FirstCycle => FirstCycleIsSafe
  BY DEF FirstCycle, FirstCycleIsSafe
<1> QED BY <1>1, <1>2, FirstCycleStep, PTL DEF Spec

-----------------------------------------------------------------------------
(* What stays in a store, whatever its ids are.                            *)
LEMMA SmallestOf ==
  ASSUME NEW S, S \subseteq Nat, S # {}
  PROVE  \E n \in S : \A m \in S : n <= m
<1> DEFINE T == {0..n : n \in S}
<1>1. IsWellFoundedOn(StrictSubsetOrdering(Nat), FiniteSubsetsOf(Nat))
  BY FS_StrictSubsetOrderingWellFounded
<1>2. T \subseteq FiniteSubsetsOf(Nat) /\ T # {}
  <2>1. \A n \in S : 0..n \in SUBSET Nat /\ IsFiniteSet(0..n)
    BY FS_Interval
  <2> QED BY <2>1 DEF FiniteSubsetsOf
<1> HIDE DEF T
<1>3. PICK A \in T : \A B \in T : <<B, A>> \notin StrictSubsetOrdering(Nat)
  BY <1>1, <1>2, WFMin
<1>4. PICK n \in S : A = 0..n
  BY <1>3 DEF T
<1>5. ASSUME NEW m \in S, m < n PROVE FALSE
  <2>1. 0..m \in T
    BY DEF T
  <2>2. n \in 0..n /\ n \notin 0..m /\ 0..m \subseteq 0..n /\ 0..n \in SUBSET Nat
    BY <1>5
  <2>3. <<0..m, 0..n>> \in StrictSubsetOrdering(Nat)
    BY <2>2 DEF StrictSubsetOrdering
  <2> QED BY <1>3, <1>4, <2>1, <2>3
<1> QED BY <1>5

(* A full store loses a message, so there is room for the new one.         *)
LEMMA KeptLeavesRoom ==
  ASSUME NEW t \in Type, DOMAIN store[t] \subseteq Id, IsFiniteSet(DOMAIN store[t]),
         Cardinality(DOMAIN store[t]) <= MaxSize
  PROVE  /\ Kept(t) \subseteq DOMAIN store[t] /\ IsFiniteSet(Kept(t))
         /\ Cardinality(Kept(t)) \in Nat /\ Cardinality(Kept(t)) < MaxSize
<1> DEFINE ids == DOMAIN store[t]
<1>1. Cardinality(ids) \in Nat /\ MaxSize \in Nat \ {0}
  BY FS_CardinalityType, CenterAssumption
<1>2. /\ Kept(t) \subseteq ids /\ IsFiniteSet(Kept(t)) /\ Cardinality(Kept(t)) \in Nat
      /\ Cardinality(Kept(t)) <= Cardinality(ids)
      /\ Cardinality(ids) = Cardinality(Kept(t)) => ids = Kept(t)
  <2>1. Kept(t) \in SUBSET ids
    BY DEF Kept
  <2> QED BY <2>1, FS_Subset, FS_CardinalityType
<1>3. CASE Cardinality(ids) < MaxSize
  BY <1>1, <1>2, <1>3
<1>4. CASE Cardinality(ids) >= MaxSize
  <2>1. ids # {} /\ ids \subseteq Nat
    BY <1>1, <1>4, FS_EmptySet, CenterAssumption DEF Id
  <2>2. PICK n \in ids : \A m \in ids : n <= m
    BY <2>1, SmallestOf
  <2>3. Kept(t) = {i \in ids : \E j \in ids : j < i}
    BY <1>4 DEF Kept
  <2>4. n \notin Kept(t)
    BY <2>1, <2>2, <2>3
  <2> QED BY <1>1, <1>2, <2>2, <2>4
<1> QED BY <1>1, <1>3, <1>4

LEMMA NewMessageKeepsType ==
  ASSUME TypeOK, DOMAIN store = Type, NEW t \in Type, NEW S \in SUBSET Slot,
         NEW recorded, NewMessage(t, S, recorded)
  PROVE  TypeOK' /\ DOMAIN store' = Type
<1>1. NextId(t) \in Id
  <2>1. current[t] \in 0..Threshold /\ Threshold \in Nat \ {0}
    BY CenterAssumption DEF TypeOK
  <2> QED BY <2>1 DEF NextId, Id
<1>2. CASE NextId(t) \in Kept(t)
  BY <1>2 DEF NewMessage, TypeOK
<1>3. CASE NextId(t) \notin Kept(t)
  <2> DEFINE n == NextId(t)
             kept == Kept(t) \cup {n}
  <2>1. /\ made' = [made EXCEPT ![t] = @ + 1] /\ made[t] < MaxMade[t]
        /\ current' = [current EXCEPT ![t] = n] /\ halted' = halted
        /\ store' = [store EXCEPT ![t] =
             [i \in kept |-> IF i = n THEN made'[t] ELSE store[t][i]]]
        /\ links' = links \cup {[type |-> t, msgId |-> n, to |-> s] : s \in S}
        /\ record' = [record EXCEPT ![t] =
             [s \in Slot |-> IF recorded /\ s \in S THEN n ELSE record[t][s]]]
    BY <1>3 DEF NewMessage
  <2>2. /\ Kept(t) \subseteq DOMAIN store[t] /\ IsFiniteSet(Kept(t))
        /\ Cardinality(Kept(t)) \in Nat /\ Cardinality(Kept(t)) < MaxSize
    BY KeptLeavesRoom DEF TypeOK
  <2>3. kept \subseteq Id /\ IsFiniteSet(kept) /\ Cardinality(kept) <= MaxSize
    <3>1. IsFiniteSet(kept) /\ Cardinality(kept) = Cardinality(Kept(t)) + 1
      BY <1>3, <2>2, FS_AddElement
    <3>2. kept \subseteq Id
      BY <1>1, <2>2 DEF TypeOK
    <3> QED BY <2>2, <3>1, <3>2, CenterAssumption
  <2>4. \A u \in Type : u # t => store'[u] = store[u] /\ made'[u] = made[u]
    BY <2>1
  <2>5. /\ DOMAIN store' = Type /\ DOMAIN store'[t] = kept
        /\ store'[t] = [i \in kept |-> IF i = n THEN made'[t] ELSE store[t][i]]
    BY <2>1
  <2>6. /\ DOMAIN made' = Type /\ made'[t] = made[t] + 1 /\ made[t] \in Nat
        /\ MaxMade[t] \in Nat /\ made'[t] \in 1..MaxMade[t]
    <3>1. DOMAIN made = Type /\ made[t] \in 0..MaxMade[t] /\ MaxMade[t] \in Nat
      BY CenterAssumption DEF TypeOK
    <3>2. DOMAIN made' = Type /\ made'[t] = made[t] + 1
      BY <2>1, <3>1
    <3> QED BY <2>1, <3>1, <3>2
  <2>7. \A i \in kept : store'[t][i] \in 1..MaxMade[t]
    <3> TAKE i \in kept
    <3>1. i = n \/ (i \in DOMAIN store[t] /\ store[t][i] \in 1..MaxMade[t])
      BY <2>2 DEF TypeOK
    <3> QED BY <2>5, <2>6, <3>1
  <2>8. \A u \in Type :
          /\ DOMAIN store'[u] \subseteq Id /\ IsFiniteSet(DOMAIN store'[u])
          /\ \A i \in DOMAIN store'[u] : store'[u][i] \in 1..MaxMade[u]
          /\ Cardinality(DOMAIN store'[u]) <= MaxSize
    <3> TAKE u \in Type
    <3>1. CASE u = t
      BY <2>3, <2>5, <2>7, <3>1
    <3>2. CASE u # t
      BY <2>4, <3>2 DEF TypeOK
    <3> QED BY <3>1, <3>2
  <2>9. \A u \in Type : made'[u] \in 0..MaxMade[u]
    BY <2>4, <2>6 DEF TypeOK
  <2>10. links' \subseteq Header
    BY <1>1, <2>1 DEF TypeOK, Header
  <2>11. record' \in [Type -> [Slot -> Id \cup {NoId}]]
    <3>1. [s \in Slot |-> IF recorded /\ s \in S THEN n ELSE record[t][s]]
            \in [Slot -> Id \cup {NoId}]
      BY <1>1 DEF TypeOK
    <3> QED BY <2>1, <3>1 DEF TypeOK
  <2>12. current' \in [Type -> 0..Threshold] /\ halted' \in BOOLEAN
    <3>1. n \in 0..Threshold
      BY <1>1, CenterAssumption DEF Id
    <3> QED BY <2>1, <3>1 DEF TypeOK
  <2> QED BY <2>5, <2>6, <2>8, <2>9, <2>10, <2>11, <2>12 DEF TypeOK
<1> QED BY <1>2, <1>3

LEMMA TypeStep ==
  ASSUME TypeOK, DOMAIN store = Type, [Next]_vars
  PROVE  TypeOK' /\ DOMAIN store' = Type
<1>1. CASE Send
  <2>1. PICK t \in Type, S \in SUBSET Slot, recorded \in BOOLEAN : NewMessage(t, S, recorded)
    BY <1>1, SendIsNewMessage
  <2> QED BY <2>1, NewMessageKeepsType
<1>2. ASSUME NEW p \in links, ReceiveMessage(p)
      PROVE  TypeOK' /\ DOMAIN store' = Type
  <2>1. links' \subseteq links /\ UNCHANGED <<current, made, record, halted>>
    BY <1>2 DEF ReceiveMessage
  <2>2. CASE store' = store
    BY <2>1, <2>2 DEF TypeOK
  <2>3. CASE store' = [store EXCEPT !["ack"] =
                 [i \in DOMAIN store["ack"] \ {p.msgId} |-> store["ack"][i]]]
    <3>1. /\ DOMAIN store' = Type /\ \A u \in Type : u # "ack" => store'[u] = store[u]
          /\ "ack" \in Type =>
               store'["ack"] = [i \in DOMAIN store["ack"] \ {p.msgId} |-> store["ack"][i]]
      BY <2>3
    <3>2. \A u \in Type :
            /\ DOMAIN store'[u] \subseteq Id /\ IsFiniteSet(DOMAIN store'[u])
            /\ \A i \in DOMAIN store'[u] : store'[u][i] \in 1..MaxMade[u]
            /\ Cardinality(DOMAIN store'[u]) <= MaxSize
      <4> TAKE u \in Type
      <4>1. CASE u = "ack"
        <5> DEFINE ids == DOMAIN store["ack"]
        <5>1. /\ ids \subseteq Id /\ IsFiniteSet(ids) /\ Cardinality(ids) <= MaxSize
              /\ \A i \in ids : store["ack"][i] \in 1..MaxMade["ack"]
          BY <4>1 DEF TypeOK
        <5>2. ids \ {p.msgId} \in SUBSET ids
          OBVIOUS
        <5>3. IsFiniteSet(ids \ {p.msgId}) /\ Cardinality(ids \ {p.msgId}) <= Cardinality(ids)
          BY <5>1, <5>2, FS_Subset
        <5>4. /\ Cardinality(ids) \in Nat /\ Cardinality(ids \ {p.msgId}) \in Nat
              /\ MaxSize \in Nat
          BY <5>1, <5>3, FS_CardinalityType, CenterAssumption
        <5>5. Cardinality(ids \ {p.msgId}) <= MaxSize
          BY <5>1, <5>3, <5>4
        <5>6. DOMAIN store'["ack"] = ids \ {p.msgId}
          BY <3>1, <4>1
        <5>7. \A i \in DOMAIN store'["ack"] : store'["ack"][i] \in 1..MaxMade["ack"]
          BY <3>1, <4>1, <5>1
        <5> QED BY <4>1, <5>1, <5>3, <5>5, <5>6, <5>7
      <4>2. CASE u # "ack"
        BY <3>1, <4>2 DEF TypeOK
      <4> QED BY <4>1, <4>2
    <3> QED BY <2>1, <3>1, <3>2 DEF TypeOK
  <2> QED BY <1>2, <2>2, <2>3 DEF ReceiveMessage
<1>3. ASSUME NEW p \in links, Lose(p)
      PROVE  TypeOK' /\ DOMAIN store' = Type
  BY <1>3 DEF Lose, TypeOK
<1>4. ASSUME NEW t \in Recorded, NEW S \in SUBSET Slot, Answered(t, S)
      PROVE  TypeOK' /\ DOMAIN store' = Type
  <2>1. [s \in Slot |-> IF s \in S THEN NoId ELSE record[t][s]] \in [Slot -> Id \cup {NoId}]
    BY DEF TypeOK, Recorded
  <2>2. record' \in [Type -> [Slot -> Id \cup {NoId}]]
    BY <1>4, <2>1 DEF Answered, TypeOK
  <2> QED BY <1>4, <2>2 DEF Answered, TypeOK
<1>5. ASSUME NEW t \in Recorded, NEW s \in Slot, Resend(t, s)
      PROVE  TypeOK' /\ DOMAIN store' = Type
  <2>1. record[t][s] \in Id /\ t \in Type
    BY <1>5 DEF Resend, TypeOK, Recorded
  <2>2. links' \subseteq Header
    BY <1>5, <2>1 DEF Resend, TypeOK, Header
  <2> QED BY <1>5, <2>2 DEF Resend, TypeOK
<1>6. CASE UNCHANGED vars
  BY <1>6 DEF vars, TypeOK
<1> QED BY <1>1, <1>2, <1>3, <1>4, <1>5, <1>6 DEF Next

LEMMA TypeInit == Init => TypeOK /\ DOMAIN store = Type
<1> SUFFICES ASSUME Init PROVE TypeOK /\ DOMAIN store = Type
  OBVIOUS
<1>1. \A t \in Type : DOMAIN store[t] = {}
  BY DEF Init
<1>2. IsFiniteSet({}) /\ Cardinality({}) = 0
  BY FS_EmptySet
<1>3. MaxSize \in Nat /\ Threshold \in Nat /\ \A t \in Type : MaxMade[t] \in Nat
  BY CenterAssumption
<1>4. \A t \in Type :
        /\ DOMAIN store[t] \subseteq Id /\ IsFiniteSet(DOMAIN store[t])
        /\ \A i \in DOMAIN store[t] : store[t][i] \in 1..MaxMade[t]
        /\ Cardinality(DOMAIN store[t]) <= MaxSize
  BY <1>1, <1>2, <1>3
<1>5. DOMAIN made = Type /\ \A t \in Type : made[t] \in 0..MaxMade[t]
  BY <1>3 DEF Init
<1>6. current \in [Type -> 0..Threshold]
  BY <1>3 DEF Init, NoId
<1>7. record \in [Type -> [Slot -> Id \cup {NoId}]]
  BY DEF Init
<1>8. DOMAIN store = Type /\ links \subseteq Header /\ halted \in BOOLEAN
  BY DEF Init
<1> QED BY <1>4, <1>5, <1>6, <1>7, <1>8 DEF TypeOK

(* TypeOK: a store never holds more than MaxSize messages, nor an id that  *)
(* is none, wrapped around or not.                                         *)
THEOREM TypeCorrect == Spec => []TypeOK
<1> DEFINE Typed == TypeOK /\ DOMAIN store = Type
<1>1. Init => Typed
  BY TypeInit
<1>2. Typed /\ [Next]_vars => Typed'
  BY TypeStep
<1>3. Typed => TypeOK
  OBVIOUS
<1> QED BY <1>1, <1>2, <1>3, PTL DEF Spec

-----------------------------------------------------------------------------
(* While the ids are in order, a store that nothing is deleted from holds  *)
(* the last MaxSize of them, or all.                                       *)
Latest(n) == {i \in 1..n : i > n - MaxSize}

LatestAreKept ==
  /\ IdsAreInOrder
  /\ \A t \in Type \ {"ack"} : DOMAIN store[t] = Latest(made[t])

LEMMA KeptOfLatest ==
  ASSUME NEW t \in Type, made[t] \in Nat, DOMAIN store[t] = Latest(made[t])
  PROVE  Kept(t) \cup {made[t] + 1} = Latest(made[t] + 1)
<1> DEFINE n == made[t]
<1>1. n \in Nat /\ MaxSize \in Nat \ {0}
  BY CenterAssumption
<1>2. CASE n < MaxSize
  <2>1. DOMAIN store[t] = 1..n
    BY <1>1, <1>2 DEF Latest
  <2>2. Cardinality(DOMAIN store[t]) = n
    <3>1. Cardinality(1..n) = IF 1 > n THEN 0 ELSE n - 1 + 1
      BY <1>1, FS_Interval
    <3> QED BY <1>1, <2>1, <3>1
  <2>3. Kept(t) = 1..n
    BY <1>1, <1>2, <2>1, <2>2 DEF Kept
  <2> QED BY <1>1, <1>2, <2>3 DEF Latest
<1>3. CASE n >= MaxSize
  <2> DEFINE a == n - MaxSize + 1
  <2>1. a \in Nat /\ a >= 1 /\ a <= n /\ DOMAIN store[t] = a..n
    BY <1>1, <1>3 DEF Latest
  <2>2. Cardinality(DOMAIN store[t]) = MaxSize
    <3>1. a \in Int /\ n \in Int /\ n - a + 1 = MaxSize
      BY <1>1, <2>1
    <3> HIDE DEF a, n
    <3>2. Cardinality(a..n) = IF a > n THEN 0 ELSE n - a + 1
      BY <3>1, FS_Interval
    <3> QED BY <1>1, <2>1, <3>1, <3>2
  <2>3. Kept(t) = {i \in a..n : \E j \in a..n : j < i}
    BY <1>1, <2>1, <2>2 DEF Kept
  <2>4. Kept(t) = (a + 1)..n
    <3>1. ASSUME NEW i \in (a + 1)..n PROVE i \in a..n /\ a \in a..n /\ a < i
      BY <1>1, <2>1
    <3>2. ASSUME NEW i \in a..n, NEW j \in a..n, j < i PROVE i \in (a + 1)..n
      BY <1>1, <2>1, <3>2
    <3> HIDE DEF a, n
    <3> QED BY <2>3, <3>1, <3>2
  <2> QED BY <1>1, <1>3, <2>4 DEF Latest
<1> QED BY <1>1, <1>2, <1>3

LEMMA LatestStep ==
  ASSUME LatestAreKept, \A t \in Type : MaxMade[t] <= Threshold, [Next]_vars
  PROVE  LatestAreKept'
<1>0. IdsAreInOrder /\ IdsAreInOrder'
  BY RefinementStep DEF LatestAreKept
<1>1. CASE Send
  <2>1. PICK t \in Type, S \in SUBSET Slot, recorded \in BOOLEAN : NewMessage(t, S, recorded)
    BY <1>1, SendIsNewMessage
  <2>2. made = current /\ current[t] \in Nat /\ made[t] < MaxMade[t] /\ DOMAIN store = Type
        /\ DOMAIN made = Type
    BY <1>0, <2>1 DEF IdsAreInOrder, NewMessage
  <2>3. NextId(t) = made[t] + 1 /\ NextId(t) \notin Kept(t)
    <3>1. made[t] < Threshold
      BY <2>2, CenterAssumption
    <3>2. NextId(t) = made[t] + 1
      BY <2>2, <3>1, CenterAssumption DEF NextId
    <3>3. Kept(t) \subseteq DOMAIN store[t]
      BY DEF Kept
    <3> QED BY <1>0, <2>2, <3>2, <3>3 DEF IdsAreInOrder
  <2>4. /\ made' = [made EXCEPT ![t] = @ + 1]
        /\ store' = [store EXCEPT ![t] =
             [i \in Kept(t) \cup {NextId(t)} |->
                IF i = NextId(t) THEN made'[t] ELSE store[t][i]]]
    BY <2>1, <2>3 DEF NewMessage
  <2>5. made'[t] = made[t] + 1 /\ DOMAIN store'[t] = Kept(t) \cup {made[t] + 1}
    BY <2>2, <2>3, <2>4
  <2>6. ASSUME NEW u \in Type \ {"ack"} PROVE DOMAIN store'[u] = Latest(made'[u])
    <3>1. CASE u = t
      <4>1. DOMAIN store[t] = Latest(made[t]) /\ made[t] \in Nat
        BY <2>2, <2>6, <3>1 DEF LatestAreKept
      <4>2. DOMAIN store'[t] = Latest(made[t] + 1)
        BY <2>5, <4>1, KeptOfLatest
      <4> QED BY <2>5, <3>1, <4>2
    <3>2. CASE u # t
      BY <2>2, <2>4, <2>6, <3>2 DEF LatestAreKept
    <3> QED BY <3>1, <3>2
  <2> QED BY <1>0, <2>6 DEF LatestAreKept
<1>2. CASE ~Send
  <2>1. made' = made /\ \A u \in Type \ {"ack"} : store'[u] = store[u]
    <3>1. DOMAIN store = Type
      BY <1>0 DEF IdsAreInOrder
    <3> QED
      BY <1>2, <3>1 DEF Next, vars, ReceiveMessage, Lose, Answered, Resend
  <2> QED BY <1>0, <2>1 DEF LatestAreKept
<1> QED BY <1>1, <1>2

(* NewestAreKept: before the wrap-around recycling erases none of the last *)
(* MaxSize messages of a type, whatever is sent, repeated or lost.         *)
THEOREM NewestStay ==
  ASSUME \A t \in Type : MaxMade[t] <= Threshold
  PROVE  Spec => []NewestAreKept
<1>1. Init => LatestAreKept
  BY InOrderInit DEF Init, LatestAreKept, Latest
<1>2. LatestAreKept => NewestAreKept
  BY DEF LatestAreKept, Latest, NewestAreKept, IdsAreInOrder
<1>3. LatestAreKept /\ [Next]_vars => LatestAreKept'
  BY LatestStep
<1> QED BY <1>1, <1>2, <1>3, PTL DEF Spec
=============================================================================
