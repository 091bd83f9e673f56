--------------------------- MODULE TELink_proofs ---------------------------
(* Proofs about TELink, for every set of commands, every answer length and *)
(* every number of calls, with answers that come at any time or never and  *)
(* rx_task reading the same UART.                                          *)
EXTENDS TELink, TLAPS

LEMMA Sizes == DataSize \in Nat \ {0} /\ RxSize \in Nat \ {0}
BY DEF DataSize, RxSize

(***************************************************************************)
(* The queues: what the TE has to answer and what is in the ring.          *)
(***************************************************************************)

(* The elements of a queue, and of what is left when the first is taken.   *)
LEMMA QueueElements ==
  ASSUME NEW S, NEW q \in Seq(S)
  PROVE  /\ Len(q) \in Nat /\ DOMAIN q = 1..Len(q)
         /\ \A i \in DOMAIN q : q[i] \in S
         /\ q # <<>> => /\ Head(q) \in S /\ Tail(q) \in Seq(S)
                        /\ 1 \in DOMAIN q /\ q[1] = Head(q)
                        /\ Len(Tail(q)) = Len(q) - 1
                        /\ \A i \in DOMAIN Tail(q) :
                             i + 1 \in DOMAIN q /\ Tail(q)[i] = q[i + 1]
<1>1. Len(q) \in Nat /\ DOMAIN q = 1..Len(q) /\ \A i \in DOMAIN q : q[i] \in S
  OBVIOUS
<1>2. ASSUME q # <<>>
      PROVE  /\ Head(q) \in S /\ Tail(q) \in Seq(S)
             /\ 1 \in DOMAIN q /\ q[1] = Head(q)
             /\ Len(Tail(q)) = Len(q) - 1
  BY <1>2
<1>3. ASSUME q # <<>>, NEW i \in DOMAIN Tail(q)
      PROVE  i + 1 \in DOMAIN q /\ Tail(q)[i] = q[i + 1]
  BY <1>3
<1>4. QED
  BY <1>1, <1>2, <1>3, Zenon

(* The elements of a queue one was appended to.                            *)
LEMMA AppendElements ==
  ASSUME NEW S, NEW q \in Seq(S), NEW e \in S
  PROVE  /\ Append(q, e) \in Seq(S) /\ Len(Append(q, e)) = Len(q) + 1
         /\ DOMAIN Append(q, e) = 1..(Len(q) + 1)
         /\ Append(q, e)[Len(q) + 1] = e
         /\ \A i \in DOMAIN q : Append(q, e)[i] = q[i]
OBVIOUS

(* What an answer in the ring carries.                                     *)
LEMMA AnswerFields ==
  ASSUME NEW a \in Answers
  PROVE  a.of \in Calls /\ a.of \in 0..MaxExchanges /\ a.len \in Nat \ {0}
BY BoundAssumption DEF Answers, Calls

(* A read takes at least a byte and no more than it has room for; the      *)
(* answers left in the ring are those that were there, in their order,     *)
(* perhaps without the first.                                              *)
LEMMA TakeKeepsOrder ==
  ASSUME TypeOK, ring # <<>>, NEW room \in Nat \ {0}, Take(Copied(room))
  PROVE  /\ Copied(room) \in Nat \ {0} /\ Copied(room) <= room
         /\ ring' \in Seq(Answers)
         /\ \E s \in {0, 1} :
              /\ s = 0 => Copied(room) = room
              /\ Len(ring') = Len(ring) - s
              /\ \A i \in DOMAIN ring' :
                   i + s \in DOMAIN ring /\ ring'[i].of = ring[i + s].of
<1>1. /\ ring \in Seq(Answers) /\ Head(ring) \in Answers
      /\ Len(ring) \in Nat /\ DOMAIN ring = 1..Len(ring) /\ 1 \in DOMAIN ring
      /\ ring[1] = Head(ring) /\ \A i \in DOMAIN ring : ring[i] \in Answers
      /\ Tail(ring) \in Seq(Answers) /\ Len(Tail(ring)) = Len(ring) - 1
      /\ \A i \in DOMAIN Tail(ring) :
           i + 1 \in DOMAIN ring /\ Tail(ring)[i] = ring[i + 1]
  BY QueueElements DEF TypeOK
<1>2. Head(ring).len \in Nat \ {0}
  BY <1>1, AnswerFields
<1>3. Copied(room) \in Nat \ {0} /\ Copied(room) <= room /\ Copied(room) <= Head(ring).len
  BY <1>2 DEF Copied
<1>4. CASE Copied(room) = Head(ring).len
  <2>1. ring' = Tail(ring)
    BY <1>4 DEF Take
  <2>2. Len(ring') = Len(ring) - 1
    BY <1>1, <2>1
  <2>3. \A i \in DOMAIN ring' : i + 1 \in DOMAIN ring /\ ring'[i].of = ring[i + 1].of
    BY <1>1, <2>1
  <2>4. ring' \in Seq(Answers)
    BY <1>1, <2>1
  <2>5. 1 \in {0, 1} /\ (1 = 0 => Copied(room) = room)
    OBVIOUS
  <2>6. QED
    BY <1>3, <2>2, <2>3, <2>4, <2>5, Zenon
<1>5. CASE Copied(room) # Head(ring).len
  <2>1. ring' = [ring EXCEPT ![1].len = @ - Copied(room)] /\ Copied(room) = room
    BY <1>5 DEF Take, Copied
  <2>2. DOMAIN ring' = DOMAIN ring
    BY <1>1, <2>1
  <2>3. ASSUME NEW i \in DOMAIN ring
        PROVE  ring'[i] \in Answers /\ ring'[i].of = ring[i].of
    <3>1. CASE i = 1
      <4>1. ring'[1] = [ring[1] EXCEPT !.len = @ - Copied(room)]
        BY <1>1, <2>1
      <4>2. Head(ring).len - Copied(room) \in Nat \ {0}
        BY <1>2, <1>3, <1>5
      <4>3. ring[1] \in Answers /\ ring[1].len - Copied(room) \in Nat \ {0}
        BY <1>1, <4>2
      <4>4. QED
        BY <3>1, <4>1, <4>3 DEF Answers
    <3>2. CASE i # 1
      BY <1>1, <2>1, <3>2
    <3>3. QED
      BY <3>1, <3>2
  <2>4. ring' \in Seq(Answers) /\ Len(ring') = Len(ring)
    <3>1. ring' = [i \in 1..Len(ring) |-> ring'[i]]
      BY <1>1, <2>1
    <3>2. QED
      BY <1>1, <2>3, <3>1
  <2>5. \A i \in DOMAIN ring' : i + 0 \in DOMAIN ring /\ ring'[i].of = ring[i + 0].of
    <3>1. \A i \in DOMAIN ring : i + 0 = i
      BY <1>1
    <3>2. QED
      BY <2>2, <2>3, <3>1
  <2>6. Len(ring') = Len(ring) - 0
    BY <1>1, <2>4
  <2>7. QED
    BY <1>3, <2>1, <2>4, <2>5, <2>6
<1>6. QED
  BY <1>4, <1>5

(* The places a command reads are places of data[].                        *)
LEMMA ReadPlaces ==
  ASSUME NEW c \in Commands, NEW i \in 0..LastRead[c]
  PROVE  i \in Places
<1>1. LastRead[c] \in 0..(DataSize - 1)
  BY CommandsAssumption
<1>2. i \in 0..(DataSize - 1) /\ i <= LastRead[c]
  BY <1>1, Sizes
<1>3. QED
  BY <1>2 DEF Places

(***************************************************************************)
(* Type correctness.                                                       *)
(***************************************************************************)
LEMMA InitType == Init => TypeOK
<1>1. \A i \in Places : 0 \in 0..MaxExchanges
  BY BoundAssumption
<1>2. QED
  BY <1>1, BoundAssumption DEF Init, TypeOK, Calls, Answers

LEMMA NextType == TypeOK /\ [Next]_vars => TypeOK'
<1> SUFFICES ASSUME TypeOK, [Next]_vars PROVE TypeOK'
  OBVIOUS
<1>t. /\ \A i \in DOMAIN te : te[i] \in Calls
      /\ te # <<>> => Head(te) \in Calls /\ Tail(te) \in Seq(Calls)
      /\ \A i \in DOMAIN ring : ring[i] \in Answers
      /\ ring # <<>> => Head(ring) \in Answers
  BY QueueElements DEF TypeOK
<1>w. Waiting \subseteq Calls
  BY <1>t, AnswerFields DEF Waiting
<1> USE DEF TypeOK, teVars, rxVars, resultVars
<1>1. ASSUME NEW c \in Commands, Send(c) PROVE TypeOK'
  <2>1. calls' \in Calls /\ calls' \in 0..MaxExchanges
    BY <1>1, BoundAssumption DEF Send, Calls
  <2>2. te' \in Seq(Calls)
    <3>1. Append(te, calls') \in Seq(Calls)
      BY <2>1, AppendElements
    <3>2. QED
      BY <1>1, <3>1 DEF Send
  <2>3. pending' \subseteq Calls
    BY <1>1, <1>w DEF Send
  <2>4. QED
    BY <1>1, <2>1, <2>2, <2>3 DEF Send
<1>2. CASE TakeMux
  BY <1>2 DEF TakeMux
<1>3. CASE MuxTimeout
  BY <1>3 DEF MuxTimeout
<1>4. CASE ReceiveAnswer
  <2>1. DataSize - len \in Nat \ {0} /\ ring # <<>> /\ Take(Copied(DataSize - len))
    BY <1>4, Sizes DEF ReceiveAnswer
  <2>2. Copied(DataSize - len) \in Nat \ {0} /\ ring' \in Seq(Answers)
    BY <2>1, TakeKeepsOrder
  <2>3. Head(ring).of \in 0..MaxExchanges
    BY <2>1, <1>t, AnswerFields
  <2>4. len' \in Nat /\ data' \in [Places -> 0..MaxExchanges]
    BY <1>4, <2>2, <2>3 DEF ReceiveAnswer
  <2>5. QED
    BY <1>4, <2>2, <2>4 DEF ReceiveAnswer
<1>5. CASE ReadTimeout
  <2>1. \A i \in 0..LastRead[cmd] : i \in Places
    BY ReadPlaces
  <2>2. {data[i] : i \in 0..LastRead[cmd]} \subseteq 0..MaxExchanges
    BY <2>1
  <2>3. QED
    BY <1>5, <2>2 DEF ReadTimeout, Judge
<1>6. CASE RxStep
  <2>1. CASE RxReceive
    <3>1. RxSize - rxlen \in Nat \ {0} /\ ring # <<>> /\ Take(Copied(RxSize - rxlen))
      BY <2>1, Sizes DEF RxReceive
    <3>2. Copied(RxSize - rxlen) \in Nat \ {0} /\ ring' \in Seq(Answers)
      BY <3>1, TakeKeepsOrder
    <3>3. rxlen' \in Nat
      BY <2>1, <3>2 DEF RxReceive
    <3>4. taken' \subseteq Calls
      BY <2>1, <3>1, <1>t, AnswerFields DEF RxReceive
    <3>5. QED
      BY <2>1, <3>2, <3>3, <3>4 DEF RxReceive
  <2>2. CASE RxTakeMux
    BY <2>2 DEF RxTakeMux
  <2>3. CASE RxMuxTimeout
    BY <2>3 DEF RxMuxTimeout
  <2>4. CASE RxReadTimeout
    BY <2>4 DEF RxReadTimeout
  <2>5. CASE RxDelay
    BY <2>5 DEF RxDelay
  <2>6. QED
    BY <1>6, <2>1, <2>2, <2>3, <2>4, <2>5 DEF RxStep
<1>7. CASE Answer
  <2>1. Head(te) \in Calls /\ Tail(te) \in Seq(Calls)
    BY <1>7, <1>t DEF Answer
  <2>2. ring' \in Seq(Answers)
    <3>1. PICK n \in AnswerLengths :
            ring' = Append(ring, [of |-> Head(te), len |-> n])
      BY <1>7 DEF Answer
    <3>2. [of |-> Head(te), len |-> n] \in Answers
      BY <2>1, AnswersAssumption DEF Answers
    <3>3. QED
      BY <3>1, <3>2, AppendElements
  <2>3. QED
    BY <1>7, <2>1, <2>2 DEF Answer
<1>8. CASE Silence
  BY <1>8, <1>t DEF Silence
<1>9. CASE UNCHANGED vars
  BY <1>9 DEF vars
<1>10. QED
  BY <1>1, <1>2, <1>3, <1>4, <1>5, <1>6, <1>7, <1>8, <1>9
  DEF Next, CommandStep, TEStep, Done

(* TypeOK for every instance of TELink.                                    *)
THEOREM TypeCorrect == Spec => []TypeOK
BY InitType, NextType, PTL DEF Spec

(***************************************************************************)
(* The order of the line: requests are answered and answers read in the    *)
(* order of the calls, and nothing on the line is younger than the last    *)
(* call.                                                                   *)
(***************************************************************************)
Order ==
  /\ \A i, j \in DOMAIN te : i <= j => te[i] <= te[j]
  /\ \A i, j \in DOMAIN ring : i <= j => ring[i].of <= ring[j].of
  /\ \A i \in DOMAIN ring, j \in DOMAIN te : ring[i].of <= te[j]
  /\ \A w \in Waiting : w <= calls

(* A step of a reader takes from the front of the ring.                    *)
RingShift ==
  \E s \in {0, 1} : /\ Len(ring') = Len(ring) - s
                    /\ \A i \in DOMAIN ring' :
                         i + s \in DOMAIN ring /\ ring'[i].of = ring[i + s].of

LEMMA ShiftKeepsOrder ==
  ASSUME TypeOK, TypeOK', RingShift, te' = te
  PROVE  Waiting' \subseteq Waiting /\ (Order /\ calls' = calls => Order')
<1>1. PICK s \in {0, 1} :
        \A i \in DOMAIN ring' : i + s \in DOMAIN ring /\ ring'[i].of = ring[i + s].of
  BY DEF RingShift
<1>2. Waiting' \subseteq Waiting
  BY <1>1 DEF Waiting
<1>3. ASSUME Order, calls' = calls PROVE Order'
  <2>1. \A i, j \in DOMAIN ring' : i <= j => ring'[i].of <= ring'[j].of
    <3>1. DOMAIN ring' = 1..Len(ring') /\ Len(ring') \in Nat
      BY QueueElements DEF TypeOK
    <3>2. ASSUME NEW i \in DOMAIN ring', NEW j \in DOMAIN ring', i <= j
          PROVE  ring'[i].of <= ring'[j].of
      <4>1. i + s <= j + s
        BY <3>1, <3>2
      <4>2. QED
        BY <1>1, <1>3, <4>1 DEF Order
    <3>3. QED
      BY <3>2
  <2>2. \A i \in DOMAIN ring', j \in DOMAIN te' : ring'[i].of <= te'[j]
    BY <1>1, <1>3 DEF Order
  <2>3. QED
    BY <1>2, <1>3, <2>1, <2>2 DEF Order
<1>4. QED
  BY <1>2, <1>3

(* An answer moves from the TE to the end of the ring, or is lost.         *)
LEMMA TEKeepsOrder ==
  ASSUME TypeOK, TEStep
  PROVE  /\ Waiting' \subseteq Waiting /\ (Order /\ calls' = calls => Order')
         /\ \A i \in DOMAIN ring : i \in DOMAIN ring' /\ ring'[i] = ring[i]
<1>1. /\ te # <<>> /\ te \in Seq(Calls) /\ ring \in Seq(Answers) /\ te' = Tail(te)
  BY DEF TEStep, Answer, Silence, TypeOK
<1>2. /\ Head(te) \in Calls /\ 1 \in DOMAIN te /\ te[1] = Head(te)
      /\ DOMAIN te = 1..Len(te) /\ Len(te) \in Nat
      /\ \A i \in DOMAIN te : te[i] \in Calls
      /\ \A i \in DOMAIN te' : i + 1 \in DOMAIN te /\ te'[i] = te[i + 1]
      /\ Tail(te) \in Seq(Calls)
  BY <1>1, QueueElements
<1>3. DOMAIN te' = 1..Len(te') /\ Len(te') \in Nat
  BY <1>1, <1>2, QueueElements
<1>4. Order => \A i, j \in DOMAIN te' : i <= j => te'[i] <= te'[j]
  <2>1. ASSUME Order, NEW i \in DOMAIN te', NEW j \in DOMAIN te', i <= j
        PROVE  te'[i] <= te'[j]
    <3>1. i + 1 <= j + 1
      BY <1>3, <2>1
    <3>2. QED
      BY <1>2, <2>1, <3>1 DEF Order
  <2>2. QED
    BY <2>1
<1>5. CASE ring' = ring
  <2>1. Waiting' \subseteq Waiting
    BY <1>2, <1>5 DEF Waiting
  <2>2. QED
    BY <1>2, <1>4, <1>5, <2>1 DEF Order
<1>6. ASSUME NEW n \in AnswerLengths,
             ring' = Append(ring, [of |-> Head(te), len |-> n])
      PROVE  /\ Waiting' \subseteq Waiting /\ (Order /\ calls' = calls => Order')
             /\ \A i \in DOMAIN ring : i \in DOMAIN ring' /\ ring'[i] = ring[i]
  <2> DEFINE a == [of |-> Head(te), len |-> n]
  <2>1. a \in Answers /\ a.of = te[1]
    BY <1>2, AnswersAssumption DEF Answers
  <2>2. /\ DOMAIN ring = 1..Len(ring) /\ Len(ring) \in Nat
        /\ DOMAIN ring' = 1..(Len(ring) + 1) /\ ring'[Len(ring) + 1] = a
        /\ \A i \in DOMAIN ring : i \in DOMAIN ring' /\ ring'[i] = ring[i]
    <3>1. DOMAIN ring = 1..Len(ring) /\ Len(ring) \in Nat
      BY <1>1, QueueElements
    <3>2. /\ DOMAIN ring' = 1..(Len(ring) + 1) /\ ring'[Len(ring) + 1] = a
          /\ \A i \in DOMAIN ring : ring'[i] = ring[i]
      BY <1>1, <1>6, <2>1, AppendElements
    <3>3. QED
      BY <3>1, <3>2
  <2>3. \A i \in DOMAIN ring' : \/ i \in DOMAIN ring /\ ring'[i].of = ring[i].of
                                \/ i = Len(ring) + 1 /\ ring'[i].of = te[1]
    BY <2>1, <2>2
  <2>4. Waiting' \subseteq Waiting
    BY <1>2, <2>3 DEF Waiting
  <2>5. ASSUME Order, calls' = calls PROVE Order'
    <3>1. ASSUME NEW i \in DOMAIN ring', NEW j \in DOMAIN ring', i <= j
          PROVE  ring'[i].of <= ring'[j].of
      <4>1. CASE i \in DOMAIN ring /\ j \in DOMAIN ring
        BY <2>2, <2>5, <3>1, <4>1 DEF Order
      <4>2. CASE i \in DOMAIN ring /\ ring'[j].of = te[1]
        BY <1>2, <2>2, <2>5, <4>2 DEF Order
      <4>3. CASE ring'[i].of = te[1] /\ i = Len(ring) + 1
        <5>1. j = i
          BY <2>2, <3>1, <4>3
        <5>2. te[1] <= te[1]
          BY <1>2 DEF Calls
        <5>3. QED
          BY <4>3, <5>1, <5>2
      <4>4. QED
        BY <2>3, <4>1, <4>2, <4>3
    <3>2. ASSUME NEW i \in DOMAIN ring', NEW j \in DOMAIN te'
          PROVE  ring'[i].of <= te'[j]
      <4>1. j + 1 \in DOMAIN te /\ te'[j] = te[j + 1] /\ 1 <= j + 1
        BY <1>2
      <4>2. CASE i \in DOMAIN ring /\ ring'[i].of = ring[i].of
        BY <2>5, <4>1, <4>2 DEF Order
      <4>3. CASE ring'[i].of = te[1]
        BY <1>2, <2>5, <4>1, <4>3 DEF Order
      <4>4. QED
        BY <2>3, <4>2, <4>3
    <3>3. QED
      BY <1>4, <2>4, <2>5, <3>1, <3>2 DEF Order
  <2>6. QED
    BY <2>2, <2>4, <2>5
<1>7. ring' = ring \/ \E n \in AnswerLengths :
                        ring' = Append(ring, [of |-> Head(te), len |-> n])
  BY DEF TEStep, Answer, Silence
<1>8. QED
  BY <1>5, <1>6, <1>7

(* What a reader takes, and what it leaves.                                *)
LEMMA ReadersTake ==
  ASSUME TypeOK, ReceiveAnswer \/ RxReceive
  PROVE  /\ RingShift /\ te' = te /\ calls' = calls
         /\ ring # <<>> /\ 1 \in DOMAIN ring /\ ring[1] = Head(ring)
<1>1. PICK room \in Nat \ {0} : Take(Copied(room))
  <2>1. CASE ReceiveAnswer
    BY <2>1, Sizes DEF ReceiveAnswer, TypeOK
  <2>2. CASE RxReceive
    BY <2>2, Sizes DEF RxReceive, TypeOK
  <2>3. QED
    BY <2>1, <2>2
<1>2. ring # <<>> /\ te' = te /\ calls' = calls
  BY DEF ReceiveAnswer, RxReceive, teVars
<1>3. RingShift
  BY <1>1, <1>2, TakeKeepsOrder DEF RingShift
<1>4. 1 \in DOMAIN ring /\ ring[1] = Head(ring)
  BY <1>2, QueueElements DEF TypeOK
<1>5. QED
  BY <1>2, <1>3, <1>4

(* Every step but Send.                                                    *)
LEMMA LineStep ==
  ASSUME TypeOK, [Next]_vars, ~ \E c \in Commands : Send(c)
  PROVE  calls' = calls /\ Waiting' \subseteq Waiting /\ (Order => Order')
<1>t. TypeOK'
  BY NextType
<1>1. CASE ReceiveAnswer \/ RxReceive
  BY <1>1, <1>t, ReadersTake, ShiftKeepsOrder
<1>2. CASE TEStep
  <2>1. calls' = calls
    BY <1>2 DEF TEStep, Answer, Silence
  <2>2. QED
    BY <1>2, <2>1, TEKeepsOrder
<1>3. CASE UNCHANGED <<te, ring, calls>>
  BY <1>3 DEF Order, Waiting
<1>4. \/ ReceiveAnswer \/ RxReceive \/ TEStep
      \/ UNCHANGED <<te, ring, calls>>
  BY DEF Next, CommandStep, RxStep, TakeMux, MuxTimeout, ReadTimeout, RxTakeMux,
         RxMuxTimeout, RxReadTimeout, RxDelay, Done, vars, teVars
<1>5. QED
  BY <1>1, <1>2, <1>3, <1>4

(* A request goes to the end of the line.                                  *)
LEMMA SendOrder ==
  ASSUME TypeOK, NEW c \in Commands, Send(c)
  PROVE  /\ calls' = calls + 1 /\ calls' \in Calls
         /\ Waiting' \subseteq Waiting \cup {calls'}
         /\ Order => Order'
<1>1. /\ calls' = calls + 1 /\ calls' \in Calls /\ calls \in Nat /\ ring' = ring
      /\ te' = te \/ te' = Append(te, calls')
      /\ te \in Seq(Calls) /\ ring \in Seq(Answers)
  BY BoundAssumption DEF Send, TypeOK, Calls
<1>2. /\ DOMAIN te = 1..Len(te) /\ Len(te) \in Nat
      /\ \A i \in DOMAIN te : te[i] \in Calls
      /\ \A i \in DOMAIN ring : ring[i] \in Answers
  BY <1>1, QueueElements
<1>3. \A w \in Waiting : w \in Calls
  BY <1>2, AnswerFields DEF Waiting
<1>4. CASE te' = te
  <2>1. Waiting' = Waiting
    BY <1>1, <1>4 DEF Waiting
  <2>2. ASSUME Order PROVE \A w \in Waiting : w <= calls'
    <3>1. \A w \in Waiting : w <= calls
      BY <2>2 DEF Order
    <3>2. QED
      BY <1>1, <1>3, <3>1 DEF Calls
  <2>3. QED
    BY <1>1, <1>4, <2>1, <2>2 DEF Order
<1>5. CASE te' = Append(te, calls')
  <2>1. /\ DOMAIN te' = 1..(Len(te) + 1) /\ te'[Len(te) + 1] = calls'
        /\ \A i \in DOMAIN te : te'[i] = te[i]
    BY <1>1, <1>5, AppendElements
  <2>2. \A i \in DOMAIN te' : \/ i \in DOMAIN te /\ te'[i] = te[i]
                              \/ i = Len(te) + 1 /\ te'[i] = calls'
    BY <1>2, <2>1
  <2>3. Waiting' \subseteq Waiting \cup {calls'}
    BY <1>1, <2>2 DEF Waiting
  <2>4. ASSUME Order PROVE Order'
    <3>1. \A w \in Waiting \cup {calls'} : w <= calls'
      <4>1. \A w \in Waiting : w <= calls
        BY <2>4 DEF Order
      <4>2. QED
        BY <1>1, <1>3, <4>1 DEF Calls
    <3>2. \A w \in Waiting' : w <= calls'
      BY <2>3, <3>1
    <3>3. \A i \in DOMAIN te : te[i] <= calls'
      BY <3>1 DEF Waiting
    <3>4. \A i, j \in DOMAIN te' : i <= j => te'[i] <= te'[j]
      <4>1. ASSUME NEW i \in DOMAIN te', NEW j \in DOMAIN te', i <= j
            PROVE  te'[i] <= te'[j]
        <5>1. CASE i \in DOMAIN te /\ j \in DOMAIN te
          BY <2>1, <2>4, <4>1, <5>1 DEF Order
        <5>2. CASE i \in DOMAIN te /\ te'[j] = calls'
          BY <2>1, <3>3, <5>2
        <5>3. CASE i = Len(te) + 1 /\ te'[i] = calls'
          <6>1. j = i
            BY <1>2, <2>1, <4>1, <5>3
          <6>2. calls' <= calls'
            BY <1>1
          <6>3. QED
            BY <5>3, <6>1, <6>2
        <5>4. QED
          BY <2>2, <5>1, <5>2, <5>3
      <4>2. QED
        BY <4>1
    <3>5. \A i \in DOMAIN ring', j \in DOMAIN te' : ring'[i].of <= te'[j]
      <4>1. \A i \in DOMAIN ring : ring[i].of <= calls'
        BY <3>1 DEF Waiting
      <4>2. QED
        BY <1>1, <2>2, <2>4, <4>1 DEF Order
    <3>6. QED
      BY <1>1, <2>4, <3>2, <3>4, <3>5 DEF Order
  <2>5. QED
    BY <1>1, <2>3, <2>4
<1>6. QED
  BY <1>1, <1>4, <1>5

LEMMA NextOrder == TypeOK /\ Order /\ [Next]_vars => Order'
BY LineStep, SendOrder

LEMMA InitOrder == Init => Order /\ Waiting = {}
BY DEF Init, Order, Waiting

(***************************************************************************)
(* Where the answer of a call is.                                          *)
(***************************************************************************)
InRing(c) == \E i \in DOMAIN ring : ring[i].of = c

ReadInv ==
  /\ pc # "idle" => verdict = "none"
  /\ \A c \in answered : c <= calls
  /\ (pc # "idle" \/ verdict = "nodata") /\ calls \in answered =>
       calls \in taken \/ InRing(calls) \/ (pc = "reading" /\ len > 0)

LEMMA NextRead == TypeOK /\ Order /\ ReadInv /\ [Next]_vars => ReadInv'
<1> SUFFICES ASSUME TypeOK, Order, ReadInv, [Next]_vars PROVE ReadInv'
  OBVIOUS
<1>q. /\ ring \in Seq(Answers) /\ te \in Seq(Calls) /\ len \in Nat
      /\ calls \in Nat /\ answered \subseteq Calls
  BY BoundAssumption DEF TypeOK
<1>a. ring # <<>> => 1 \in DOMAIN ring /\ ring[1] = Head(ring) /\ Head(ring) \in Answers
  BY <1>q, QueueElements
<1>1. ASSUME NEW c \in Commands, Send(c) PROVE ReadInv'
  <2>1. calls' = calls + 1 /\ answered' = answered /\ verdict' = "none"
    BY <1>1 DEF Send
  <2>2. \A d \in answered : d <= calls' /\ d # calls'
    BY <1>q, <2>1 DEF ReadInv, Calls
  <2>3. QED
    BY <2>1, <2>2 DEF ReadInv
<1>2. CASE TakeMux
  BY <1>2 DEF TakeMux, ReadInv, InRing, teVars, rxVars, resultVars
<1>3. CASE MuxTimeout
  BY <1>3 DEF MuxTimeout, ReadInv, InRing, teVars, rxVars
<1>4. CASE ReceiveAnswer
  <2>1. DataSize - len \in Nat \ {0} /\ ring # <<>> /\ Take(Copied(DataSize - len))
    BY <1>4, <1>q, Sizes DEF ReceiveAnswer
  <2>2. Copied(DataSize - len) \in Nat \ {0}
    BY <2>1, TakeKeepsOrder
  <2>3. /\ len' > 0 /\ pc' = "reading"
        /\ UNCHANGED <<pc, calls, answered, verdict>>
    BY <1>4, <1>q, <2>2 DEF ReceiveAnswer, teVars, resultVars
  <2>4. QED
    BY <2>3 DEF ReadInv
<1>5. CASE ReadTimeout
  <2>1. /\ pc = "reading" /\ pc' = "idle" /\ Judge
        /\ UNCHANGED <<calls, answered, ring, taken, len>>
    BY <1>5 DEF ReadTimeout, teVars, rxVars
  <2>2. verdict' = "nodata" => ~ (len > 0)
    BY <2>1, <1>q DEF Judge
  <2>3. InRing(calls)' = InRing(calls)
    BY <2>1 DEF InRing
  <2>4. QED
    BY <2>1, <2>2, <2>3 DEF ReadInv
<1>6. CASE RxReceive
  <2>1. RingShift /\ ring # <<>>
    BY <1>6, ReadersTake
  <2>2. /\ UNCHANGED <<pc, calls, answered, len, verdict>>
        /\ taken' = taken \cup {Head(ring).of}
        /\ Take(Copied(RxSize - rxlen))
    BY <1>6 DEF RxReceive, teVars, resultVars
  <2>3. ASSUME NEW i \in DOMAIN ring
        PROVE  ring[i].of \in taken' \/ \E k \in DOMAIN ring' : ring'[k].of = ring[i].of
    <3>1. CASE i = 1
      BY <1>a, <2>1, <2>2, <3>1
    <3>2. CASE i # 1
      <4>1. DOMAIN ring = 1..Len(ring) /\ Len(ring) \in Nat
        BY <1>q, QueueElements
      <4>2. PICK s \in {0, 1} : /\ Len(ring') = Len(ring) - s
                                /\ \A k \in DOMAIN ring' : ring'[k].of = ring[k + s].of
        BY <2>1 DEF RingShift
      <4>3. DOMAIN ring' = 1..Len(ring')
        <5>1. TypeOK'
          BY NextType
        <5>2. QED
          BY <5>1, QueueElements DEF TypeOK
      <4>4. i - s \in DOMAIN ring' /\ (i - s) + s = i
        BY <3>2, <4>1, <4>2, <4>3
      <4>5. ring'[i - s].of = ring[i].of
        BY <4>2, <4>4
      <4>6. QED
        BY <4>4, <4>5
    <3>3. QED
      BY <3>1, <3>2
  <2>4. InRing(calls) => calls \in taken' \/ InRing(calls)'
    BY <2>2, <2>3 DEF InRing
  <2>5. QED
    BY <2>2, <2>4 DEF ReadInv
<1>7. CASE RxTakeMux \/ RxMuxTimeout \/ RxReadTimeout \/ RxDelay
  BY <1>7 DEF RxTakeMux, RxMuxTimeout, RxReadTimeout, RxDelay, ReadInv, InRing,
              teVars, resultVars
<1>8. CASE Answer
  <2>1. \A i \in DOMAIN ring : i \in DOMAIN ring' /\ ring'[i] = ring[i]
    BY <1>8, TEKeepsOrder DEF TEStep
  <2>2. /\ te # <<>> /\ answered' = answered \cup {Head(te)}
        /\ UNCHANGED <<pc, calls, taken, len, verdict>>
    BY <1>8 DEF Answer, rxVars, resultVars
  <2>3. Head(te) \in Waiting /\ Head(te) \in Calls
    BY <1>q, <2>2, QueueElements DEF Waiting
  <2>4. \A c \in answered' : c <= calls'
    BY <2>2, <2>3 DEF ReadInv, Order
  <2>5. \E i \in DOMAIN ring' : ring'[i].of = Head(te)
    <3>1. PICK n \in AnswerLengths : ring' = Append(ring, [of |-> Head(te), len |-> n])
      BY <1>8 DEF Answer
    <3>2. [of |-> Head(te), len |-> n] \in Answers
      BY <2>3, AnswersAssumption DEF Answers
    <3>3. /\ Len(ring) + 1 \in DOMAIN ring'
          /\ ring'[Len(ring) + 1] = [of |-> Head(te), len |-> n]
      <4>1. Len(ring) \in Nat
        BY <1>q, QueueElements
      <4>2. QED
        BY <1>q, <3>1, <3>2, <4>1, AppendElements
    <3>4. QED
      BY <3>3
  <2>6. InRing(calls) => InRing(calls)'
    BY <2>1, <2>2 DEF InRing
  <2>7. calls = Head(te) => InRing(calls)'
    BY <2>2, <2>5 DEF InRing
  <2>8. QED
    BY <2>2, <2>4, <2>6, <2>7 DEF ReadInv
<1>9. CASE Silence
  BY <1>9 DEF Silence, ReadInv, InRing, rxVars, resultVars
<1>10. CASE UNCHANGED vars
  BY <1>10 DEF vars, ReadInv, InRing
<1>11. QED
  BY <1>1, <1>2, <1>3, <1>4, <1>5, <1>6, <1>7, <1>8, <1>9, <1>10
  DEF Next, CommandStep, RxStep, TEStep, Done

(* AnsweredIsRead: whoever reads and whenever the TE answers, an answer a  *)
(* command did not get is with rx_task or still in the ring.               *)
THEOREM AnsweredIsReadHolds == Spec => []AnsweredIsRead
<1>1. Init => TypeOK /\ Order /\ ReadInv
  BY InitType, InitOrder DEF Init, ReadInv
<1>2. TypeOK /\ Order /\ ReadInv /\ [Next]_vars => (TypeOK /\ Order /\ ReadInv)'
  BY NextType, NextOrder, NextRead
<1>3. TypeOK /\ Order /\ ReadInv => AnsweredIsRead
  BY DEF ReadInv, AnsweredIsRead, InRing
<1>4. QED
  BY <1>1, <1>2, <1>3, PTL DEF Spec

(***************************************************************************)
(* What a command prints: what is under way while it executes was under    *)
(* way when it was sent or answers it, and nothing it has read so far is   *)
(* younger than what is still under way.                                   *)
(***************************************************************************)
Known == pending \cup {calls}

KnownInv ==
  /\ pc # "idle" => calls \in Calls
  /\ Waiting \subseteq Known
  /\ \A i \in Places : i < len =>
       data[i] \in Known /\ \A w \in Waiting : data[i] <= w
  /\ \A d \in used : d \in Known /\ \A w \in Waiting : d <= w

(* The front of the ring is the oldest answer under way.                   *)
LEMMA FrontIsOldest ==
  ASSUME TypeOK, Order, ring # <<>>
  PROVE  Head(ring).of \in Waiting /\ \A w \in Waiting : Head(ring).of <= w
<1>1. /\ 1 \in DOMAIN ring /\ ring[1] = Head(ring)
      /\ DOMAIN ring = 1..Len(ring) /\ Len(ring) \in Nat
  BY QueueElements DEF TypeOK
<1>2. \A i \in DOMAIN ring : 1 <= i
  BY <1>1
<1>3. \A i \in DOMAIN ring : ring[1].of <= ring[i].of
  BY <1>1, <1>2 DEF Order
<1>4. \A j \in DOMAIN te : ring[1].of <= te[j]
  BY <1>1 DEF Order
<1>5. QED
  BY <1>1, <1>3, <1>4 DEF Waiting

LEMMA SendKnown ==
  ASSUME TypeOK, NEW c \in Commands, Send(c)
  PROVE  KnownInv'
<1>1. calls' \in Calls /\ Waiting' \subseteq Waiting \cup {calls'}
  BY SendOrder
<1>2. pending' = Waiting /\ len' = 0 /\ used' = {}
  BY DEF Send
<1>3. \A i \in Places : ~ (i < 0)
  BY Sizes DEF Places
<1>4. QED
  BY <1>1, <1>2, <1>3 DEF KnownInv, Known

LEMMA ReceiveKnown ==
  ASSUME TypeOK, Order, KnownInv, ReceiveAnswer
  PROVE  KnownInv'
<1> DEFINE n == Copied(DataSize - len)
<1>1. /\ pc = "reading" /\ ring # <<>> /\ Take(n) /\ len \in Nat
      /\ DataSize - len \in Nat \ {0}
      /\ data' = [i \in Places |->
                    IF i \in len..(len + n - 1) THEN Head(ring).of ELSE data[i]]
      /\ len' = len + n
      /\ UNCHANGED <<pc, calls, te, used, pending>>
  BY Sizes DEF ReceiveAnswer, teVars, resultVars, TypeOK
<1>2. n \in Nat \ {0}
  BY <1>1, TakeKeepsOrder
<1>3. Waiting' \subseteq Waiting
  <2>1. TypeOK'
    <3>1. [Next]_vars
      BY DEF Next, CommandStep
    <3>2. QED
      BY <3>1, NextType
  <2>2. QED
    BY <2>1, ReadersTake, ShiftKeepsOrder
<1>4. Head(ring).of \in Waiting /\ \A w \in Waiting : Head(ring).of <= w
  BY <1>1, FrontIsOldest
<1>5. ASSUME NEW i \in Places, i < len'
      PROVE  data'[i] \in Known /\ \A w \in Waiting : data'[i] <= w
  <2>1. i \in Nat
    BY Sizes DEF Places
  <2>2. CASE i < len
    <3>1. data'[i] = data[i]
      BY <1>1, <1>2, <2>1, <2>2
    <3>2. QED
      BY <2>2, <3>1 DEF KnownInv
  <2>3. CASE ~ (i < len)
    <3>1. i \in len..(len + n - 1)
      BY <1>1, <1>2, <1>5, <2>1, <2>3
    <3>2. data'[i] = Head(ring).of
      BY <1>1, <3>1
    <3>3. QED
      BY <1>4, <3>2 DEF KnownInv
  <2>4. QED
    BY <2>2, <2>3
<1>6. QED
  BY <1>1, <1>3, <1>5 DEF KnownInv, Known

(* A command whose length check covers what it prints prints what this     *)
(* read has put there.                                                     *)
LEMMA TimeoutKnown ==
  ASSUME \A c \in Commands : LastRead[c] < Guard[c],
         TypeOK, KnownInv, ReadTimeout
  PROVE  KnownInv'
<1>1. /\ pc' = "idle" /\ Judge
      /\ UNCHANGED <<calls, te, ring, pending, data, len>>
  BY DEF ReadTimeout, teVars
<1>2. ASSUME NEW d \in used'
      PROVE  d \in Known /\ \A w \in Waiting : d <= w
  <2>1. ~ (len < Guard[cmd]) /\ used' = {data[i] : i \in 0..LastRead[cmd]}
    BY <1>1, <1>2 DEF Judge
  <2>2. cmd \in Commands /\ len \in Nat
    BY DEF TypeOK
  <2>3. LastRead[cmd] \in Nat /\ Guard[cmd] \in Nat /\ LastRead[cmd] < Guard[cmd]
    <3>1. LastRead[cmd] \in 0..(DataSize - 1) /\ Guard[cmd] \in Nat \ {0}
      BY <2>2, CommandsAssumption
    <3>2. QED
      BY <2>2, <3>1, Sizes
  <2>4. \A i \in 0..LastRead[cmd] : i \in Places /\ i < len
    BY <2>1, <2>2, <2>3, ReadPlaces
  <2>5. PICK i \in 0..LastRead[cmd] : d = data[i]
    BY <1>2, <2>1
  <2>6. QED
    BY <2>4, <2>5 DEF KnownInv
<1>3. Waiting' = Waiting /\ Known' = Known
  BY <1>1 DEF Waiting, Known
<1>4. QED
  BY <1>1, <1>2, <1>3 DEF KnownInv

LEMMA NextKnown ==
  ASSUME \A c \in Commands : LastRead[c] < Guard[c],
         TypeOK, Order, KnownInv, [Next]_vars
  PROVE  KnownInv'
<1>1. CASE \E c \in Commands : Send(c)
  BY <1>1, SendKnown
<1>2. CASE ReceiveAnswer
  BY <1>2, ReceiveKnown
<1>3. CASE ReadTimeout
  BY <1>3, TimeoutKnown
<1>4. CASE ~ (\E c \in Commands : Send(c)) /\ ~ ReceiveAnswer /\ ~ ReadTimeout
  <2>1. UNCHANGED <<data, len, used, pending>>
    BY <1>4 DEF Next, CommandStep, TakeMux, MuxTimeout, RxStep, RxTakeMux,
       RxMuxTimeout, RxReceive, RxReadTimeout, RxDelay, TEStep, Answer, Silence,
       Done, vars, resultVars
  <2>2. pc' # "idle" => pc # "idle"
    BY <1>4 DEF Next, CommandStep, TakeMux, MuxTimeout, RxStep, RxTakeMux,
       RxMuxTimeout, RxReceive, RxReadTimeout, RxDelay, TEStep, Answer, Silence,
       Done, vars
  <2>3. calls' = calls /\ Waiting' \subseteq Waiting
    BY <1>4, LineStep
  <2>4. QED
    BY <2>1, <2>2, <2>3 DEF KnownInv, Known
<1>5. QED
  BY <1>1, <1>2, <1>3, <1>4

LEMMA KnownHolds ==
  ASSUME \A c \in Commands : LastRead[c] < Guard[c]
  PROVE  Spec => [](TypeOK /\ Order /\ KnownInv)
<1>1. Init => TypeOK /\ Order /\ KnownInv
  <2>1. Init => KnownInv
    <3>1. \A i \in Places : ~ (i < 0)
      BY Sizes DEF Places
    <3>2. QED
      BY <3>1, InitOrder DEF Init, KnownInv
  <2>2. QED
    BY <2>1, InitType, InitOrder
<1>2. TypeOK /\ Order /\ KnownInv /\ [Next]_vars => (TypeOK /\ Order /\ KnownInv)'
  BY NextType, NextOrder, NextKnown
<1>3. QED
  BY <1>1, <1>2, PTL DEF Spec

(* NoForgottenAnswer: however late the TE answers and whatever rx_task     *)
(* takes, a command never prints a field of an exchange that was over.     *)
THEOREM NoForgottenAnswerHolds ==
  ASSUME \A c \in Commands : LastRead[c] < Guard[c]
  PROVE  Spec => []NoForgottenAnswer
<1>1. KnownInv => NoForgottenAnswer
  BY DEF KnownInv, Known, NoForgottenAnswer
<1>2. QED
  BY <1>1, KnownHolds, PTL

(***************************************************************************)
(* The link implements the abstract exchange: Send is a Call, the end of   *)
(* the wait a Return, everything else stutters.                            *)
(***************************************************************************)
LEMMA ExchangeMapsStep ==
  ASSUME \A c \in Commands : LastRead[c] < Guard[c],
         TypeOK, Order, KnownInv, [Next]_vars
  PROVE  [Exchange!Next]_(Exchange!vars)
<1> USE DEF Exchange!vars, Exchange!Next
<1>1. ASSUME NEW c \in Commands, Send(c) PROVE Exchange!Call
  <2>1. Waiting \subseteq Calls
    <3>1. /\ \A i \in DOMAIN te : te[i] \in Calls
          /\ \A i \in DOMAIN ring : ring[i] \in Answers
      BY QueueElements DEF TypeOK
    <3>2. QED
      BY <3>1, AnswerFields DEF Waiting
  <2>2. Waiting \subseteq Exchange!Left
    <3>1. ASSUME NEW w \in Waiting, NEW d \in used PROVE w >= d
      <4>1. d <= w
        BY <3>1 DEF KnownInv
      <4>2. w \in Calls /\ d \in 0..MaxExchanges
        BY <2>1 DEF TypeOK
      <4>3. QED
        BY <4>1, <4>2, BoundAssumption DEF Calls
    <3>2. QED
      BY <2>1, <3>1 DEF KnownInv, Known, Exchange!Left
  <2>3. calls' \in Calls
    BY <1>1, SendOrder
  <2>4. (pending' \cup {calls'}) \cap Calls = Waiting \cup {calls'}
    BY <1>1, <2>1, <2>3 DEF Send
  <2>5. /\ pc = "idle" /\ calls < MaxExchanges /\ calls' = calls + 1
        /\ used' = {} /\ pc' # "idle"
    BY <1>1 DEF Send
  <2>6. QED
    BY <2>2, <2>4, <2>5 DEF Exchange!Call
<1>2. CASE ReadTimeout
  <2>1. /\ pc = "reading" /\ pc' = "idle" /\ UNCHANGED <<calls, pending>>
    BY <1>2 DEF ReadTimeout
  <2>2. used' \subseteq (pending \cup {calls}) \cap Calls
    <3>1. KnownInv'
      BY <1>2, TimeoutKnown
    <3>2. used' \subseteq pending \cup {calls}
      BY <2>1, <3>1 DEF KnownInv, Known
    <3>3. calls \in Calls /\ pending \subseteq Calls
      BY <2>1 DEF KnownInv, TypeOK
    <3>4. QED
      BY <3>2, <3>3
  <2>3. QED
    BY <2>1, <2>2 DEF Exchange!Return
<1>3. CASE MuxTimeout
  <2>1. /\ pc = "mutex" /\ pc' = "idle" /\ UNCHANGED <<calls, pending, used>>
    BY <1>3 DEF MuxTimeout
  <2>2. used \subseteq (pending \cup {calls}) \cap Calls
    <3>1. calls \in Calls /\ pending \subseteq Calls
      BY <2>1 DEF KnownInv, TypeOK
    <3>2. QED
      BY <3>1 DEF KnownInv, Known
  <2>3. QED
    BY <2>1, <2>2 DEF Exchange!Return
<1>4. CASE UNCHANGED <<calls, used, pending>> /\ ((pc' = "idle") <=> (pc = "idle"))
  BY <1>4
<1>5. \/ \E c \in Commands : Send(c)
      \/ ReadTimeout \/ MuxTimeout
      \/ UNCHANGED <<calls, used, pending>> /\ ((pc' = "idle") <=> (pc = "idle"))
  BY DEF Next, CommandStep, TakeMux, ReceiveAnswer, RxStep, RxTakeMux,
     RxMuxTimeout, RxReceive, RxReadTimeout, RxDelay, TEStep, Answer, Silence,
     Done, vars, resultVars
<1>6. QED
  BY <1>1, <1>2, <1>3, <1>4, <1>5

(* The safety part of ImplementsExchange: what a caller of a TE command    *)
(* observes, with late answers and rx_task, is a behaviour of TEExchange.  *)
THEOREM LinkImplementsExchange ==
  ASSUME \A c \in Commands : LastRead[c] < Guard[c]
  PROVE  Spec => Exchange!Init /\ [][Exchange!Next]_(Exchange!vars)
<1>1. Init => Exchange!Init
  BY DEF Init, Exchange!Init, Calls
<1>2. TypeOK /\ Order /\ KnownInv /\ [Next]_vars => [Exchange!Next]_(Exchange!vars)
  BY ExchangeMapsStep
<1>3. QED
  BY <1>1, <1>2, KnownHolds, PTL DEF Spec

(***************************************************************************)
(* What ends every call, with any TE and whatever rx_task does.            *)
(***************************************************************************)

(* rx_mux is held by a task that reads, and by it alone.                   *)
MuxInv ==
  /\ mux = "command" <=> pc = "reading"
  /\ mux = "rx" <=> rxpc = "reading"

LEMMA NextMux == MuxInv /\ [Next]_vars => MuxInv'
BY DEF MuxInv, Next, Send, CommandStep, TakeMux, MuxTimeout, ReceiveAnswer,
       ReadTimeout, RxStep, RxTakeMux, RxMuxTimeout, RxReceive, RxReadTimeout,
       RxDelay, TEStep, Answer, Silence, Done, vars, rxVars

(* The receive mutex has one holder and is given back: when a command      *)
(* waits for it, rx_task is reading or it is free.                         *)
THEOREM MutexHasOneHolder == Spec => []MuxInv
<1>1. Init => MuxInv
  BY DEF Init, MuxInv
<1>2. QED
  BY <1>1, NextMux, PTL DEF Spec

(* Steps a call has ahead of it, at most, its own and the TE's: an answer  *)
(* takes one to be given and one to be read, and a read that fills data[]  *)
(* one more.                                                               *)
Phase == IF pc = "mutex" THEN 3 ELSE IF len < DataSize THEN 2 ELSE 1
Ahead == 2 * Len(te) + Len(ring) + Phase

(* A call returns or comes closer to it with each step of its own and of   *)
(* the TE, and rx_task does not take it back.                              *)
ComesCloser ==
  pc # "idle" => \/ pc' = "idle"
                 \/ /\ Ahead' <= Ahead
                    /\ CommandStep \/ TEStep => Ahead' < Ahead

LEMMA QueueLengths ==
  ASSUME TypeOK
  PROVE  /\ Len(te) \in Nat /\ Len(ring) \in Nat
         /\ te # <<>> => Len(Tail(te)) = Len(te) - 1
         /\ Phase \in Nat /\ Ahead \in Nat
<1>1. /\ Len(te) \in Nat /\ Len(ring) \in Nat
      /\ te # <<>> => Len(Tail(te)) = Len(te) - 1
  BY QueueElements DEF TypeOK
<1>2. Phase \in Nat
  BY DEF Phase
<1>3. QED
  BY <1>1, <1>2 DEF Ahead

LEMMA NextCloser == TypeOK /\ [Next]_vars => [ComesCloser]_vars
<1> SUFFICES ASSUME TypeOK, Next, pc # "idle"
             PROVE  \/ pc' = "idle"
                    \/ /\ Ahead' <= Ahead
                       /\ CommandStep \/ TEStep => Ahead' < Ahead
  BY DEF ComesCloser
<1>1. /\ Len(te) \in Nat /\ Len(ring) \in Nat
      /\ te # <<>> => Len(Tail(te)) = Len(te) - 1
      /\ Phase \in Nat /\ Ahead \in Nat
  BY QueueLengths
<1>2. CASE MuxTimeout \/ ReadTimeout
  BY <1>2 DEF MuxTimeout, ReadTimeout
<1>3. CASE TakeMux
  <2>1. Phase' < Phase /\ Phase' \in Nat
    BY <1>3 DEF TakeMux, Phase
  <2>2. UNCHANGED <<te, ring>>
    BY <1>3 DEF TakeMux, teVars
  <2>3. QED
    BY <1>1, <2>1, <2>2 DEF Ahead
<1>4. CASE ReceiveAnswer
  <2>1. /\ pc = "reading" /\ pc' = pc /\ te' = te
        /\ len < DataSize /\ len' = len + Copied(DataSize - len)
        /\ DataSize - len \in Nat \ {0} /\ len \in Nat
        /\ ring # <<>> /\ Take(Copied(DataSize - len))
    BY <1>4, Sizes DEF ReceiveAnswer, teVars, TypeOK
  <2>2. PICK s \in {0, 1} : /\ s = 0 => Copied(DataSize - len) = DataSize - len
                            /\ Len(ring') = Len(ring) - s
    BY <2>1, TakeKeepsOrder
  <2>3. Phase = 2 /\ Phase' \in {1, 2}
    BY <2>1 DEF Phase
  <2>4. s = 0 => Phase' = 1
    <3>1. s = 0 => len' = DataSize
      BY <2>1, <2>2, Sizes
    <3>2. ~ (DataSize < DataSize)
      BY Sizes
    <3>3. QED
      BY <2>1, <3>1, <3>2 DEF Phase
  <2>5. QED
    BY <1>1, <2>1, <2>2, <2>3, <2>4 DEF Ahead
<1>5. CASE Answer
  <2>1. Len(ring') = Len(ring) + 1
    BY <1>5 DEF Answer, TypeOK
  <2>2. Phase' = Phase /\ te # <<>> /\ te' = Tail(te)
    BY <1>5 DEF Answer, Phase
  <2>3. QED
    BY <1>1, <2>1, <2>2 DEF Ahead
<1>6. CASE Silence
  <2>1. Phase' = Phase /\ te # <<>> /\ te' = Tail(te) /\ ring' = ring
    BY <1>6 DEF Silence, Phase
  <2>2. QED
    BY <1>1, <2>1 DEF Ahead
<1>7. CASE RxStep
  <2>1. UNCHANGED <<pc, te, len, calls>>
    BY <1>7 DEF RxStep, RxTakeMux, RxMuxTimeout, RxReceive, RxReadTimeout, RxDelay,
       teVars
  <2>2. Phase' = Phase
    BY <2>1 DEF Phase
  <2>3. Len(ring') \in Nat /\ Len(ring') <= Len(ring)
    <3>1. CASE RxReceive
      <4>1. PICK s \in {0, 1} : Len(ring') = Len(ring) - s
        BY <3>1, ReadersTake DEF RingShift
      <4>2. Len(ring') \in Nat
        <5>1. TypeOK'
          BY NextType
        <5>2. QED
          BY <5>1, QueueElements DEF TypeOK
      <4>3. QED
        BY <1>1, <4>1, <4>2
    <3>2. CASE ring' = ring
      BY <1>1, <3>2
    <3>3. QED
      BY <1>7, <3>1, <3>2 DEF RxStep, RxTakeMux, RxMuxTimeout, RxReadTimeout, RxDelay
  <2>4. Ahead' <= Ahead
    BY <1>1, <2>1, <2>2, <2>3 DEF Ahead
  <2>5. ~ CommandStep
    <3>1. ~ TakeMux /\ ~ MuxTimeout /\ ~ ReadTimeout
      BY <2>1 DEF TakeMux, MuxTimeout, ReadTimeout
    <3>2. ~ ReceiveAnswer
      <4>1. SUFFICES ASSUME ReceiveAnswer PROVE FALSE
        OBVIOUS
      <4>2. /\ DataSize - len \in Nat \ {0} /\ ring # <<>> /\ len \in Nat
            /\ Take(Copied(DataSize - len)) /\ len' = len + Copied(DataSize - len)
        BY <4>1, Sizes DEF ReceiveAnswer, TypeOK
      <4>3. Copied(DataSize - len) \in Nat \ {0}
        BY <4>2, TakeKeepsOrder
      <4>4. QED
        BY <2>1, <4>2, <4>3
    <3>3. QED
      BY <3>1, <3>2 DEF CommandStep
  <2>6. ~ TEStep
    BY <1>1, <2>1 DEF TEStep, Answer, Silence
  <2>7. QED
    BY <2>4, <2>5, <2>6
<1>8. QED
  BY <1>2, <1>3, <1>4, <1>5, <1>6, <1>7 DEF Next, Send, CommandStep, TEStep, Done

(* Whatever the TE answers and when, a call ends after a bounded number of *)
(* steps of its own and of the TE, and rx_task cannot make it longer.      *)
THEOREM CallsComeCloser ==
  Spec => [](Ahead \in Nat) /\ [][ComesCloser]_vars
<1>1. TypeOK => Ahead \in Nat
  BY QueueLengths
<1>2. QED
  BY <1>1, NextCloser, TypeCorrect, PTL DEF Spec

=============================================================================
