----------------------------- MODULE Dps_proofs -----------------------------
(* Proofs about Dps, for any number of connections, requests delivered     *)
(* again, refusals and polls, and so for queues of any length.             *)
EXTENDS Dps, FiniteSetTheorems, TLAPS

(***************************************************************************)
(* Queues: what a message appended or taken changes.                       *)
(***************************************************************************)
Holds(q, kind) == \E i \in DOMAIN q : q[i] \in kind

(* a comes before b in q.                                                  *)
Ordered(q, a, b) == \E i, j \in DOMAIN q : i < j /\ q[i] = a /\ q[j] = b

LEMMA AppendKeeps ==
  ASSUME NEW S, NEW q \in Seq(S), NEW e \in S
  PROVE  /\ Append(q, e) \in Seq(S)
         /\ Len(q) + 1 \in DOMAIN Append(q, e)
         /\ Append(q, e)[Len(q) + 1] = e
         /\ \A i \in DOMAIN q : /\ i \in DOMAIN Append(q, e)
                                /\ Append(q, e)[i] = q[i]
         /\ \A kind : Holds(q, kind) => Holds(Append(q, e), kind)
         /\ \A kind : e \in kind => Holds(Append(q, e), kind)
         /\ \A a, b : Ordered(q, a, b) => Ordered(Append(q, e), a, b)
<1>1. /\ Append(q, e) \in Seq(S)
      /\ Len(q) + 1 \in DOMAIN Append(q, e)
      /\ Append(q, e)[Len(q) + 1] = e
  OBVIOUS
<1>2. \A i \in DOMAIN q : i \in DOMAIN Append(q, e) /\ Append(q, e)[i] = q[i]
  OBVIOUS
<1>3. \A kind : Holds(q, kind) => Holds(Append(q, e), kind)
  BY <1>2, Zenon DEF Holds
<1>4. \A kind : e \in kind => Holds(Append(q, e), kind)
  BY <1>1, Zenon DEF Holds
<1>5. \A a, b : Ordered(q, a, b) => Ordered(Append(q, e), a, b)
  BY <1>2, Zenon DEF Ordered
<1>6. QED
  BY <1>1, <1>2, <1>3, <1>4, <1>5

LEMMA TailKeeps ==
  ASSUME NEW S, NEW q \in Seq(S), q # <<>>
  PROVE  /\ Tail(q) \in Seq(S)
         /\ Head(q) \in S
         /\ \A kind : Head(q) \notin kind /\ Holds(q, kind)
                        => Holds(Tail(q), kind)
         /\ \A a, b : Head(q) # a /\ Ordered(q, a, b) => Ordered(Tail(q), a, b)
         /\ \A a, b : a # b /\ Ordered(q, a, b) => Holds(Tail(q), {b})
<1>1. Tail(q) \in Seq(S) /\ Head(q) \in S
  OBVIOUS
<1>2. \A i \in DOMAIN q : i # 1 => /\ i - 1 \in DOMAIN Tail(q)
                                   /\ Tail(q)[i - 1] = q[i]
  OBVIOUS
<1>3. ASSUME NEW kind, Head(q) \notin kind, Holds(q, kind)
      PROVE  Holds(Tail(q), kind)
  <2>1. PICK i \in DOMAIN q : q[i] \in kind
    BY <1>3 DEF Holds
  <2>2. i # 1
    BY <2>1, <1>3
  <2>3. QED
    BY <2>1, <2>2, <1>2, Zenon DEF Holds
<1>4. ASSUME NEW a, NEW b, Head(q) # a, Ordered(q, a, b)
      PROVE  Ordered(Tail(q), a, b)
  <2>1. PICK i, j \in DOMAIN q : i < j /\ q[i] = a /\ q[j] = b
    BY <1>4 DEF Ordered
  <2>2. i # 1 /\ j # 1 /\ i - 1 < j - 1
    BY <2>1, <1>4
  <2>3. QED
    BY <2>1, <2>2, <1>2, Zenon DEF Ordered
<1>5. ASSUME NEW a, NEW b, Ordered(q, a, b)
      PROVE  Holds(Tail(q), {b})
  <2>1. PICK i, j \in DOMAIN q : i < j /\ q[i] = a /\ q[j] = b
    BY <1>5 DEF Ordered
  <2>2. j # 1
    BY <2>1
  <2>3. QED
    BY <2>1, <2>2, <1>2, Zenon DEF Holds
<1>6. QED
  BY <1>1, <1>3, <1>4, <1>5, Zenon

(* The handler of MQTT_EVENT_CONNECTED: the subscription, then the         *)
(* registration, behind what was waiting.                                  *)
LEMMA ConnectedQueue ==
  ASSUME NEW q \in Seq(Requests)
  PROVE  /\ q \o <<"subscribe", "register">> \in Seq(Requests)
         /\ Ordered(q \o <<"subscribe", "register">>, "subscribe", "register")
<1> DEFINE r == q \o <<"subscribe", "register">>
<1>1. r \in Seq(Requests)
  BY DEF Requests
<1>2. /\ Len(q) + 1 \in DOMAIN r /\ r[Len(q) + 1] = "subscribe"
      /\ Len(q) + 2 \in DOMAIN r /\ r[Len(q) + 2] = "register"
      /\ Len(q) + 1 < Len(q) + 2
  OBVIOUS
<1>3. Ordered(r, "subscribe", "register")
  BY <1>2, Zenon DEF Ordered
<1>4. QED
  BY <1>1, <1>3

LEMMA InitType == Init => TypeOK
<1>1. 0 \in 0..MaxConnects /\ 0 \in 0..MaxDuplicates /\ 0 \in 0..MaxRefusals
  BY BoundsAssumption
<1>2. <<>> \in Seq(Requests) /\ <<>> \in Seq(Answers)
  OBVIOUS
<1>3. QED
  BY <1>1, <1>2, Zenon DEF Init, TypeOK

LEMMA NextType == TypeOK /\ [Next]_vars => TypeOK'
<1> SUFFICES ASSUME TypeOK, [Next]_vars PROVE TypeOK'
  OBVIOUS
<1> USE BoundsAssumption DEF TypeOK, service, bounds
<1>o. /\ \A e \in Requests : Append(outbox, e) \in Seq(Requests)
      /\ outbox # <<>> => Tail(outbox) \in Seq(Requests)
      /\ outbox # <<>> => Head(outbox) \in Requests
  BY AppendKeeps, TailKeeps
<1>i. /\ \A e \in Answers : Append(inbox, e) \in Seq(Answers)
      /\ inbox # <<>> => Tail(inbox) \in Seq(Answers)
      /\ <<>> \in Seq(Answers)
  BY AppendKeeps, TailKeeps
<1>1. CASE device_provisioning_start
  BY <1>1 DEF device_provisioning_start
<1>2. CASE Expire
  BY <1>2 DEF Expire
<1>3. CASE MqttConnected
  BY <1>3, ConnectedQueue DEF MqttConnected, Connect
<1>4. CASE MqttDisconnected
  BY <1>4, <1>i DEF MqttDisconnected
<1>5. CASE ServiceAnswers
  <2>1. Reply(Head(outbox)) \in Answers
    BY <1>5, <1>o DEF ServiceAnswers, Reply, Requests, Answers
  <2>2. outbox' \in Seq(Requests) /\ duplicates' \in 0..MaxDuplicates
    <3>1. outbox # <<>> /\ Acknowledge
      BY <1>5 DEF ServiceAnswers
    <3>2. outbox' \in Seq(Requests)
      BY <3>1, <1>o DEF Acknowledge
    <3>3. duplicates' \in 0..MaxDuplicates
      BY <3>1 DEF Acknowledge
    <3>4. QED
      BY <3>2, <3>3
  <2>3. inbox' \in Seq(Answers)
    BY <1>5, <2>1, <1>i DEF ServiceAnswers
  <2>4. assigning' \in 0..MaxAssigning
    BY <1>5 DEF ServiceAnswers
  <2>5. subscribed' \in BOOLEAN
    BY <1>5 DEF ServiceAnswers
  <2>6. QED
    BY <1>5, <2>2, <2>3, <2>4, <2>5 DEF ServiceAnswers
<1>6. CASE ServiceRefuses
  <2>1. "refused" \in Answers
    BY DEF Answers
  <2>2. QED
    BY <1>6, <2>1, <1>o, <1>i DEF ServiceRefuses
<1>7. CASE MqttSubscribed
  BY <1>7, <1>i DEF MqttSubscribed, Take
<1>8. CASE MqttData202
  BY <1>8, <1>i DEF MqttData202, Take
<1>9. CASE Poll
  <2>1. "poll" \in Requests
    BY DEF Requests
  <2>2. QED
    BY <1>9, <2>1, <1>o DEF Poll
<1>10. CASE MqttData200
  BY <1>10, <1>i DEF MqttData200, Take
<1>11. CASE MqttDataOther
  BY <1>11, <1>i DEF MqttDataOther, Take
<1>12. CASE UNCHANGED vars
  BY <1>12 DEF vars
<1>13. QED
  BY <1>1, <1>2, <1>3, <1>4, <1>5, <1>6, <1>7, <1>8, <1>9, <1>10, <1>11,
     <1>12 DEF Next, Service, Handler

(* Every state is of the declared types.                                   *)
THEOREM TypeCorrect == Spec => []TypeOK
BY InitType, NextType, PTL DEF Spec

(***************************************************************************)
(* NeverStranded is inductive once a lost connection takes the             *)
(* subscription with it: so a new one starts behind its own registration.  *)
(***************************************************************************)
Unheard == ~ connected => ~ subscribed

DpsInv == TypeOK /\ Unheard /\ NeverStranded

LEMMA InitDps == Init => DpsInv
BY InitType DEF Init, DpsInv, Unheard, NeverStranded

LEMMA NextStranded ==
  ASSUME DpsInv, [Next]_vars
  PROVE  Unheard' /\ NeverStranded'
<1> DEFINE Asked(q) == Holds(q, {"register", "poll"})
           Answered(q) == Holds(q, {"202", "200"})
           Behind(q) == Ordered(q, "subscribe", "register")
           Talks(p, o, n) == p \/ Asked(o) \/ Answered(n)
<1>t. TypeOK
  BY DEF DpsInv
<1>s. /\ NeverStranded <=>
           (connected /\ ~ provisioned /\ refusals = 0 =>
              IF subscribed THEN Talks(polling, outbox, inbox)
              ELSE Behind(outbox))
      /\ NeverStranded' <=>
           (connected' /\ ~ provisioned' /\ refusals' = 0 =>
              IF subscribed' THEN Talks(polling', outbox', inbox')
              ELSE Behind(outbox'))
  BY DEF NeverStranded, Talking, WillRegister, Holds, Ordered
<1>h. Unheard /\ NeverStranded
  BY DEF DpsInv
<1>o. ASSUME outbox # <<>>
      PROVE  /\ Head(outbox) \in Requests
             /\ Head(outbox) \notin {"register", "poll"} /\ Asked(outbox)
                  => Asked(Tail(outbox))
             /\ Head(outbox) # "subscribe" /\ Behind(outbox)
                  => Behind(Tail(outbox))
             /\ Behind(outbox) => Asked(Tail(outbox)) /\ Asked(outbox)
  <2>1. outbox \in Seq(Requests)
    BY <1>t DEF TypeOK
  <2>2. Behind(outbox) => Holds(Tail(outbox), {"register"})
    BY <2>1, <1>o, TailKeeps
  <2>3. Behind(outbox) => Asked(Tail(outbox)) /\ Asked(outbox)
    BY <2>2 DEF Holds, Ordered
  <2>4. QED
    BY <2>1, <2>3, <1>o, TailKeeps
<1>p. /\ Asked(Append(outbox, "poll"))
      /\ Behind(outbox) => Behind(Append(outbox, "poll"))
  <2>1. outbox \in Seq(Requests) /\ "poll" \in Requests
    BY <1>t DEF TypeOK, Requests
  <2>2. QED
    BY <2>1, AppendKeeps
<1>c. Behind(outbox \o <<"subscribe", "register">>)
  BY <1>t, ConnectedQueue DEF TypeOK
<1>a. \A e \in Answers :
        /\ Answered(inbox) => Answered(Append(inbox, e))
        /\ e \in {"202", "200"} => Answered(Append(inbox, e))
  BY <1>t, AppendKeeps DEF TypeOK
<1>n. ASSUME inbox # <<>>
      PROVE  Head(inbox) \notin {"202", "200"} /\ Answered(inbox)
               => Answered(Tail(inbox))
  BY <1>n, <1>t, TailKeeps DEF TypeOK
<1> HIDE DEF Asked, Answered, Behind
<1>1. CASE device_provisioning_start
  BY <1>1, <1>s, <1>h DEF device_provisioning_start, service, bounds, Unheard
<1>2. CASE Expire
  BY <1>2, <1>s, <1>h DEF Expire, service, bounds, Unheard
<1>3. CASE MqttConnected
  BY <1>3, <1>s, <1>h, <1>c DEF MqttConnected, Connect, service, Unheard
<1>4. CASE MqttDisconnected
  BY <1>4, <1>s DEF MqttDisconnected, Unheard
<1>5. CASE ServiceAnswers
  <2> DEFINE request == Head(outbox)
  <2>1. /\ connected /\ outbox # <<>>
        /\ subscribed' = (subscribed \/ request = "subscribe")
        /\ inbox' = IF subscribed' THEN Append(inbox, Reply(request)) ELSE inbox
        /\ outbox' \in {outbox, Tail(outbox)}
        /\ UNCHANGED <<connected, polling, provisioned, refusals>>
    BY <1>5 DEF ServiceAnswers, Acknowledge
  <2>2. /\ request \in Requests /\ Reply(request) \in Answers
        /\ request \in {"register", "poll"} => Reply(request) \in {"202", "200"}
        /\ request \notin {"register", "poll"} => request = "subscribe"
    BY <2>1, <1>o DEF Reply, Requests, Answers
  <2>3. CASE subscribed /\ request \in {"register", "poll"}
    <3>1. Answered(inbox')
      BY <2>1, <2>2, <2>3, <1>a
    <3>2. QED
      BY <3>1, <2>1, <2>3, <1>s, <1>h DEF Unheard
  <2>4. CASE subscribed /\ request \notin {"register", "poll"}
    <3>1. /\ Asked(outbox) => Asked(outbox')
          /\ Answered(inbox) => Answered(inbox')
      BY <2>1, <2>2, <2>4, <1>o, <1>a
    <3>2. QED
      BY <3>1, <2>1, <2>4, <1>s, <1>h DEF Unheard
  <2>5. CASE ~ subscribed /\ request = "subscribe"
    <3>1. Behind(outbox) => Asked(outbox')
      BY <2>1, <1>o
    <3>2. QED
      BY <3>1, <2>1, <2>5, <1>s, <1>h DEF Unheard
  <2>6. CASE ~ subscribed /\ request # "subscribe"
    <3>1. Behind(outbox) => Behind(outbox')
      BY <2>1, <2>6, <1>o
    <3>2. QED
      BY <3>1, <2>1, <2>6, <1>s, <1>h DEF Unheard
  <2>7. QED
    BY <2>3, <2>4, <2>5, <2>6
<1>6. CASE ServiceRefuses
  <2>1. refusals' # 0
    BY <1>6, <1>t DEF ServiceRefuses, TypeOK
  <2>2. QED
    BY <1>6, <2>1, <1>s, <1>h DEF ServiceRefuses, service, Unheard
<1>7. CASE MqttSubscribed
  BY <1>7, <1>s, <1>h, <1>n DEF MqttSubscribed, Take, service, bounds, Unheard
<1>8. CASE MqttData202
  BY <1>8, <1>s, <1>h DEF MqttData202, Take, service, bounds, Unheard
<1>9. CASE Poll
  BY <1>9, <1>s, <1>h, <1>p DEF Poll, service, bounds, Unheard
<1>10. CASE MqttData200
  BY <1>10, <1>s, <1>h DEF MqttData200, Take, service, bounds, Unheard
<1>11. CASE MqttDataOther
  BY <1>11, <1>s, <1>h, <1>n DEF MqttDataOther, Take, service, bounds, Unheard
<1>12. CASE UNCHANGED vars
  BY <1>12, <1>s, <1>h DEF vars, Unheard
<1>13. QED
  BY <1>1, <1>2, <1>3, <1>4, <1>5, <1>6, <1>7, <1>8, <1>9, <1>10, <1>11,
     <1>12 DEF Next, Service, Handler

LEMMA NextDps == DpsInv /\ [Next]_vars => DpsInv'
BY NextType, NextStranded DEF DpsInv

(* No lost connection, at whatever step of the conversation, and no        *)
(* request delivered twice leaves a connected gateway waiting for an       *)
(* answer nobody will send or nobody will hear.                            *)
THEOREM NeverStrandedHolds == Spec => []NeverStranded
<1>1. DpsInv => NeverStranded
  BY DEF DpsInv
<1>2. QED
  BY <1>1, InitDps, NextDps, PTL DEF Spec

(***************************************************************************)
(* OneConversationEach counts the messages of a kind in a queue.           *)
(***************************************************************************)
Held(q, kind) == {i \in DOMAIN q : q[i] \in kind}

LEMMA CountHeld ==
  ASSUME NEW q, NEW kind
  PROVE  Count(q, kind) = Cardinality(Held(q, kind))
BY Zenon DEF Count, Held

LEMMA CountIsNat ==
  ASSUME NEW S, NEW q \in Seq(S), NEW kind
  PROVE  IsFiniteSet(Held(q, kind)) /\ Count(q, kind) \in Nat
<1>1. IsFiniteSet(DOMAIN q)
  BY FS_Interval
<1>2. IsFiniteSet(Held(q, kind))
  BY <1>1, FS_Subset DEF Held
<1>3. QED
  BY <1>2, FS_CardinalityType DEF Count, Held

LEMMA CountAppend ==
  ASSUME NEW S, NEW q \in Seq(S), NEW e \in S, NEW kind
  PROVE  Count(Append(q, e), kind) =
           Count(q, kind) + (IF e \in kind THEN 1 ELSE 0)
<1> DEFINE n == Len(q) + 1
<1>1. /\ n \notin Held(q, kind)
      /\ Held(Append(q, e), kind) =
           IF e \in kind THEN Held(q, kind) \cup {n} ELSE Held(q, kind)
  BY DEF Held
<1>2. IsFiniteSet(Held(q, kind)) /\ Count(q, kind) \in Nat
  BY CountIsNat
<1>3. Cardinality(Held(q, kind) \cup {n}) = Cardinality(Held(q, kind)) + 1
  BY <1>1, <1>2, FS_AddElement
<1>4. Cardinality(Held(Append(q, e), kind)) =
        Cardinality(Held(q, kind)) + (IF e \in kind THEN 1 ELSE 0)
  <2>1. Cardinality(Held(q, kind)) \in Nat
    BY <1>2, CountHeld
  <2>2. CASE e \in kind
    BY <2>2, <1>1, <1>3, Zenon
  <2>3. CASE e \notin kind
    BY <2>1, <2>3, <1>1
  <2>4. QED
    BY <2>2, <2>3
<1>5. QED
  BY <1>4, CountHeld, Zenon

LEMMA CountTail ==
  ASSUME NEW S, NEW q \in Seq(S), q # <<>>, NEW kind
  PROVE  Count(q, kind) =
           Count(Tail(q), kind) + (IF Head(q) \in kind THEN 1 ELSE 0)
<1> DEFINE T == Held(Tail(q), kind)
           R == Held(q, kind) \ {1}
           f == [i \in T |-> i + 1]
<1>1. Tail(q) \in Seq(S)
  OBVIOUS
<1>2. f \in Bijection(T, R)
  <2>1. \A i \in T : i + 1 \in R
    BY DEF Held
  <2>2. \A j \in R : j - 1 \in T /\ (j - 1) + 1 = j
    BY DEF Held
  <2>3. \A i, j \in T : i + 1 = j + 1 => i = j
    BY DEF Held
  <2>4. QED
    BY <2>1, <2>2, <2>3 DEF Bijection, Injection, Surjection, IsInjective
<1>3. IsFiniteSet(T) /\ Count(Tail(q), kind) \in Nat
  BY <1>1, CountIsNat
<1>4. Cardinality(R) = Cardinality(T)
  BY <1>2, <1>3, FS_Bijection DEF ExistsBijection
<1>5. IsFiniteSet(Held(q, kind)) /\ Count(q, kind) \in Nat
  BY CountIsNat
<1>6. 1 \in Held(q, kind) <=> Head(q) \in kind
  BY DEF Held
<1>7. Cardinality(R) = IF Head(q) \in kind THEN Cardinality(Held(q, kind)) - 1
                                           ELSE Cardinality(Held(q, kind))
  BY <1>5, <1>6, FS_RemoveElement
<1>8. Cardinality(Held(q, kind)) \in Nat /\ Cardinality(T) \in Nat
  BY <1>3, <1>5, CountHeld
<1> HIDE DEF T, R
<1>9. Cardinality(Held(q, kind)) =
        Cardinality(T) + (IF Head(q) \in kind THEN 1 ELSE 0)
  BY <1>4, <1>7, <1>8
<1>10. QED
  BY <1>9, CountHeld, Zenon DEF T

(* The conversations under way: requests, answers and a poll to come.      *)
LEMMA InitConversations == Init => OneConversationEach
<1> SUFFICES ASSUME Init PROVE OneConversationEach
  OBVIOUS
<1>1. /\ {i \in DOMAIN outbox : outbox[i] \in {"register", "poll"}} = {}
      /\ {i \in DOMAIN inbox : inbox[i] \in {"202", "200"}} = {}
  BY DEF Init
<1>2. QED
  BY <1>1, FS_EmptySet DEF Init, OneConversationEach, Count

LEMMA NextConversations ==
  ASSUME TypeOK, OneConversationEach, [Next]_vars
  PROVE  OneConversationEach'
<1> DEFINE Asks(q) == Count(q, {"register", "poll"})
           Said(q) == Count(q, {"202", "200"})
           Asleep(p) == IF p THEN 1 ELSE 0
<1>h. /\ Asks(outbox) + Said(inbox) + Asleep(polling) <= connects + duplicates
      /\ OneConversationEach' <=>
           Asks(outbox') + Said(inbox') + Asleep(polling')
             <= connects' + duplicates'
  BY DEF OneConversationEach
<1>t. /\ outbox \in Seq(Requests) /\ inbox \in Seq(Answers)
      /\ connects \in Nat /\ duplicates \in Nat
      /\ Asks(outbox) \in Nat /\ Said(inbox) \in Nat
  BY CountIsNat DEF TypeOK
<1>o. ASSUME outbox # <<>>
      PROVE  /\ Head(outbox) \in Requests
             /\ Asks(Tail(outbox)) \in Nat
             /\ Asks(outbox) = Asks(Tail(outbox)) +
                  (IF Head(outbox) \in {"register", "poll"} THEN 1 ELSE 0)
  BY <1>o, <1>t, CountTail, CountIsNat, TailKeeps
<1>n. ASSUME inbox # <<>>
      PROVE  /\ Said(Tail(inbox)) \in Nat
             /\ Said(inbox) = Said(Tail(inbox)) +
                  (IF Head(inbox) \in {"202", "200"} THEN 1 ELSE 0)
  BY <1>n, <1>t, CountTail, CountIsNat, TailKeeps
<1>a. \A e \in Answers :
        Said(Append(inbox, e)) =
          Said(inbox) + (IF e \in {"202", "200"} THEN 1 ELSE 0)
  BY <1>t, CountAppend
<1>p. Asks(Append(outbox, "poll")) = Asks(outbox) + 1
  BY <1>t, CountAppend DEF Requests
<1>c. Asks(outbox \o <<"subscribe", "register">>) = Asks(outbox) + 1
  <2>1. /\ "subscribe" \in Requests /\ "register" \in Requests
        /\ "subscribe" \notin {"register", "poll"}
    BY DEF Requests
  <2>2. /\ Append(outbox, "subscribe") \in Seq(Requests)
        /\ Asks(Append(outbox, "subscribe")) = Asks(outbox)
    BY <2>1, <1>t, CountAppend
  <2>3. Asks(Append(Append(outbox, "subscribe"), "register")) = Asks(outbox) + 1
    <3> DEFINE r == Append(outbox, "subscribe")
    <3>1. r \in Seq(Requests) /\ Asks(r) = Asks(outbox)
      BY <2>2
    <3> HIDE DEF r
    <3>2. Asks(Append(r, "register")) = Asks(r) + 1
      BY <3>1, <2>1, CountAppend
    <3>3. QED
      BY <3>1, <3>2 DEF r
  <2>4. outbox \o <<"subscribe", "register">> =
          Append(Append(outbox, "subscribe"), "register")
    BY <1>t
  <2>5. QED
    BY <2>3, <2>4
<1>e. Said(<<>>) = 0
  <2>1. {i \in DOMAIN <<>> : <<>>[i] \in {"202", "200"}} = {}
    OBVIOUS
  <2>2. QED
    BY <2>1, FS_EmptySet DEF Count
<1> HIDE DEF Asks, Said
<1>1. CASE device_provisioning_start
  BY <1>1, <1>h DEF device_provisioning_start, service, bounds
<1>2. CASE Expire
  BY <1>2, <1>h DEF Expire, service, bounds
<1>3. CASE MqttConnected
  BY <1>3, <1>h, <1>t, <1>c DEF MqttConnected, Connect
<1>4. CASE MqttDisconnected
  BY <1>4, <1>h, <1>t, <1>e DEF MqttDisconnected, bounds
<1>5. CASE ServiceAnswers
  <2> DEFINE answer == Reply(Head(outbox))
  <2>1. /\ outbox # <<>> /\ Acknowledge
        /\ inbox' = inbox \/ inbox' = Append(inbox, answer)
        /\ UNCHANGED <<polling, connects>>
    BY <1>5 DEF ServiceAnswers
  <2>2. /\ answer \in Answers
        /\ answer \in {"202", "200"} <=> Head(outbox) \in {"register", "poll"}
    BY <2>1, <1>o DEF Reply, Requests, Answers
  <2>a. Said(Append(inbox, answer)) = Said(inbox) +
          (IF Head(outbox) \in {"register", "poll"} THEN 1 ELSE 0)
    BY <2>2, <1>a, Zenon
  <2>3. Said(inbox') = Said(inbox) \/ Said(inbox') = Said(Append(inbox, answer))
    BY <2>1, Zenon
  <2>4. Said(inbox') \in Nat
    BY <2>a, <2>3, <1>t
  <2>5. CASE outbox' = Tail(outbox) /\ UNCHANGED duplicates
    BY <2>1, <2>a, <2>3, <2>4, <2>5, <1>h, <1>t, <1>o
  <2>6. CASE duplicates' = duplicates + 1 /\ UNCHANGED outbox
    BY <2>1, <2>a, <2>3, <2>4, <2>6, <1>h, <1>t
  <2>7. QED
    BY <2>1, <2>5, <2>6 DEF Acknowledge
<1>6. CASE ServiceRefuses
  <2>1. /\ outbox # <<>> /\ outbox' = Tail(outbox)
        /\ inbox' = inbox \/ inbox' = Append(inbox, "refused")
        /\ UNCHANGED <<polling, connects, duplicates>>
    BY <1>6 DEF ServiceRefuses
  <2>2. Said(inbox') = Said(inbox)
    <3>1. "refused" \in Answers /\ "refused" \notin {"202", "200"}
      BY DEF Answers
    <3>2. Said(Append(inbox, "refused")) = Said(inbox)
      BY <3>1, <1>a, <1>t
    <3>3. QED
      BY <2>1, <3>2, Zenon
  <2>3. Asks(outbox') <= Asks(outbox) /\ Asks(outbox') \in Nat
    BY <2>1, <1>o, <1>t
  <2>4. QED
    BY <2>1, <2>2, <2>3, <1>h, <1>t
<1>7. CASE MqttSubscribed
  <2>1. inbox # <<>> /\ inbox' = Tail(inbox)
        /\ UNCHANGED <<outbox, polling, connects, duplicates>>
    BY <1>7 DEF MqttSubscribed, Take, bounds
  <2>2. QED
    BY <2>1, <1>n, <1>h, <1>t
<1>8. CASE MqttData202
  <2>1. /\ inbox # <<>> /\ inbox' = Tail(inbox) /\ Head(inbox) = "202"
        /\ ~ polling /\ UNCHANGED <<outbox, connects, duplicates>>
    BY <1>8 DEF MqttData202, Take, bounds
  <2>2. QED
    BY <2>1, <1>n, <1>h, <1>t
<1>9. CASE Poll
  BY <1>9, <1>h, <1>t, <1>p DEF Poll, bounds
<1>10. CASE MqttData200
  <2>1. inbox # <<>> /\ inbox' = Tail(inbox)
        /\ UNCHANGED <<outbox, polling, connects, duplicates>>
    BY <1>10 DEF MqttData200, Take, bounds
  <2>2. QED
    BY <2>1, <1>n, <1>h, <1>t
<1>11. CASE MqttDataOther
  <2>1. inbox # <<>> /\ inbox' = Tail(inbox)
        /\ UNCHANGED <<outbox, polling, connects, duplicates>>
    BY <1>11 DEF MqttDataOther, Take, bounds
  <2>2. QED
    BY <2>1, <1>n, <1>h, <1>t
<1>12. CASE UNCHANGED vars
  BY <1>12, <1>h DEF vars
<1>13. QED
  BY <1>1, <1>2, <1>3, <1>4, <1>5, <1>6, <1>7, <1>8, <1>9, <1>10, <1>11,
     <1>12 DEF Next, Service, Handler

(* Connections lost at any step and requests delivered twice start no more *)
(* conversations than there were of them: polls do not multiply.           *)
THEOREM ConversationsHold == Spec => []OneConversationEach
<1>1. Init => TypeOK /\ OneConversationEach
  BY InitType, InitConversations
<1>2. TypeOK /\ OneConversationEach /\ [Next]_vars
        => (TypeOK /\ OneConversationEach)'
  BY NextType, NextConversations
<1>3. QED
  BY <1>1, <1>2, PTL DEF Spec

(***************************************************************************)
(* What ends every conversation.                                           *)
(***************************************************************************)

(* Steps a message still causes, itself included and but for those that    *)
(* assigning counts: a registration is answered with a 202, which is slept *)
(* on, polled for, and answered.                                           *)
Weight(e) ==
  IF e = "register" THEN 5
  ELSE IF e = "202" THEN 4
  ELSE IF e \in {"subscribe", "poll"} THEN 2 ELSE 1

(* The messages that cause at least one step, two, four, and five.         *)
One == Requests \cup Answers
Two == {"subscribe", "poll", "202", "register"}
Four == {"202", "register"}
Five == {"register"}

(* The weights of a queue together.                                        *)
Work(q) == Count(q, One) + Count(q, Two) + 2 * Count(q, Four) + Count(q, Five)

Sleep == IF polling THEN 3 ELSE 0
Line == IF connected THEN 1 ELSE 0
Token == IF sas_token = "none" THEN 2 ELSE IF sas_token = "signed" THEN 1 ELSE 0
Chances == 5 * (MaxDuplicates - duplicates) + 9 * (MaxConnects - connects)

(* Steps that can still be taken, at most.                                 *)
Ahead ==
  Work(outbox) + Work(inbox) + Sleep + Line + Token + 3 * assigning + Chances

LEMMA WorkIsNat ==
  ASSUME NEW S, NEW q \in Seq(S)
  PROVE  Work(q) \in Nat
<1>1. /\ Count(q, One) \in Nat /\ Count(q, Two) \in Nat
      /\ Count(q, Four) \in Nat /\ Count(q, Five) \in Nat
  BY CountIsNat
<1>2. QED
  BY <1>1 DEF Work

LEMMA WeightByKinds ==
  ASSUME NEW e \in One
  PROVE  Weight(e) = (IF e \in One THEN 1 ELSE 0) + (IF e \in Two THEN 1 ELSE 0)
                     + 2 * (IF e \in Four THEN 1 ELSE 0)
                     + (IF e \in Five THEN 1 ELSE 0)
BY DEF Requests, Answers, Weight, One, Two, Four, Five

LEMMA WorkAppend ==
  ASSUME NEW S \in SUBSET One, NEW q \in Seq(S), NEW e \in S
  PROVE  Work(Append(q, e)) = Work(q) + Weight(e)
<1> DEFINE longer == Append(q, e)
<1>1. PICK a, b, c, d \in Nat :
         /\ a = Count(q, One) /\ b = Count(q, Two)
         /\ c = Count(q, Four) /\ d = Count(q, Five)
  BY CountIsNat
<1>2. PICK w, x, y, z \in Nat :
         /\ w = IF e \in One THEN 1 ELSE 0
         /\ x = IF e \in Two THEN 1 ELSE 0
         /\ y = IF e \in Four THEN 1 ELSE 0
         /\ z = IF e \in Five THEN 1 ELSE 0
  OBVIOUS
<1>3. /\ Count(longer, One) = a + w /\ Count(longer, Two) = b + x
      /\ Count(longer, Four) = c + y /\ Count(longer, Five) = d + z
  <2>1. \A kind : Count(longer, kind) =
                   Count(q, kind) + (IF e \in kind THEN 1 ELSE 0)
    BY CountAppend, Zenon
  <2>2. QED
    BY <1>1, <1>2, <2>1, Zenon
<1>4. Weight(e) = w + x + 2 * y + z
  BY <1>2, WeightByKinds, Zenon
<1> HIDE DEF longer
<1>5. Work(longer) = (a + w) + (b + x) + 2 * (c + y) + (d + z)
  BY <1>3, Zenon DEF Work
<1>6. Work(q) = a + b + 2 * c + d
  BY <1>1, Zenon DEF Work
<1>7. (a + w) + (b + x) + 2 * (c + y) + (d + z)
        = (a + b + 2 * c + d) + (w + x + 2 * y + z)
  OBVIOUS
<1>8. QED
  BY <1>4, <1>5, <1>6, <1>7, Zenon DEF longer

LEMMA WorkTail ==
  ASSUME NEW S \in SUBSET One, NEW q \in Seq(S), q # <<>>
  PROVE  Work(q) = Work(Tail(q)) + Weight(Head(q))
<1> DEFINE rest == Tail(q)
           first == Head(q)
<1>1. rest \in Seq(S) /\ first \in One
  OBVIOUS
<1>2. PICK a, b, c, d \in Nat :
         /\ a = Count(rest, One) /\ b = Count(rest, Two)
         /\ c = Count(rest, Four) /\ d = Count(rest, Five)
  BY <1>1, CountIsNat
<1>3. PICK w, x, y, z \in Nat :
         /\ w = IF first \in One THEN 1 ELSE 0
         /\ x = IF first \in Two THEN 1 ELSE 0
         /\ y = IF first \in Four THEN 1 ELSE 0
         /\ z = IF first \in Five THEN 1 ELSE 0
  OBVIOUS
<1>4. /\ Count(q, One) = a + w /\ Count(q, Two) = b + x
      /\ Count(q, Four) = c + y /\ Count(q, Five) = d + z
  BY <1>2, <1>3, CountTail, Zenon
<1>5. Weight(first) = w + x + 2 * y + z
  BY <1>1, <1>3, WeightByKinds, Zenon
<1> HIDE DEF rest, first
<1>6. Work(rest) = a + b + 2 * c + d
  BY <1>2, Zenon DEF Work
<1>7. Work(q) = (a + w) + (b + x) + 2 * (c + y) + (d + z)
  BY <1>4, Zenon DEF Work
<1>8. (a + w) + (b + x) + 2 * (c + y) + (d + z)
        = (a + b + 2 * c + d) + (w + x + 2 * y + z)
  OBVIOUS
<1>9. QED
  BY <1>5, <1>6, <1>7, <1>8, Zenon DEF rest, first

LEMMA WorkOfNone == Work(<<>>) = 0
<1>1. ASSUME NEW kind PROVE Count(<<>>, kind) = 0
  <2>1. {i \in DOMAIN <<>> : <<>>[i] \in kind} = {}
    OBVIOUS
  <2>2. QED
    BY <2>1, FS_EmptySet DEF Count
<1>2. QED
  BY <1>1 DEF Work

(* The parts of Ahead are natural numbers.                                 *)
LEMMA AheadParts ==
  ASSUME TypeOK
  PROVE  /\ Work(outbox) \in Nat /\ Work(inbox) \in Nat
         /\ Sleep \in Nat /\ Line \in Nat /\ Token \in Nat /\ Chances \in Nat
         /\ assigning \in Nat
<1>1. Work(outbox) \in Nat /\ Work(inbox) \in Nat
  BY WorkIsNat DEF TypeOK
<1>2. /\ connects \in 0..MaxConnects /\ duplicates \in 0..MaxDuplicates
      /\ assigning \in Nat /\ MaxConnects \in Nat /\ MaxDuplicates \in Nat
  BY BoundsAssumption DEF TypeOK
<1>3. QED
  BY <1>1, <1>2 DEF Sleep, Line, Token, Chances

LEMMA NextAhead ==
  ASSUME TypeOK, Next
  PROVE  Ahead' < Ahead
<1>h. /\ Ahead = Work(outbox) + Work(inbox) + Sleep + Line + Token
                 + 3 * assigning + Chances
      /\ Ahead' = Work(outbox') + Work(inbox') + Sleep' + Line' + Token'
                 + 3 * assigning' + Chances'
  BY DEF Ahead
<1>b. /\ Work(outbox) \in Nat /\ Work(inbox) \in Nat
      /\ Sleep \in Nat /\ Line \in Nat /\ Token \in Nat /\ Chances \in Nat
      /\ assigning \in Nat
  BY AheadParts
<1>t. /\ outbox \in Seq(Requests) /\ inbox \in Seq(Answers)
      /\ Requests \in SUBSET One /\ Answers \in SUBSET One
  BY DEF TypeOK, One
<1>o. ASSUME outbox # <<>>
      PROVE  /\ Head(outbox) \in Requests
             /\ Work(Tail(outbox)) \in Nat
             /\ Work(outbox) = Work(Tail(outbox)) + Weight(Head(outbox))
  BY <1>o, <1>t, WorkTail, WorkIsNat, TailKeeps
<1>n. ASSUME inbox # <<>>
      PROVE  /\ Work(Tail(inbox)) \in Nat
             /\ Work(inbox) = Work(Tail(inbox)) + Weight(Head(inbox))
  BY <1>n, <1>t, WorkTail, WorkIsNat, TailKeeps
<1>w. /\ Weight("register") = 5 /\ Weight("202") = 4 /\ Weight("subscribe") = 2
      /\ Weight("poll") = 2 /\ Weight("200") = 1 /\ Weight("refused") = 1
      /\ Weight("subscribed") = 1
  BY DEF Weight
<1>a. \A e \in Answers : Work(Append(inbox, e)) = Work(inbox) + Weight(e)
  BY <1>t, WorkAppend
<1>p. Work(Append(outbox, "poll")) = Work(outbox) + 2
  BY <1>t, <1>w, WorkAppend DEF Requests
<1>c. Work(outbox \o <<"subscribe", "register">>) = Work(outbox) + 7
  <2> DEFINE r == Append(outbox, "subscribe")
             both == Append(r, "register")
  <2>1. "subscribe" \in Requests /\ "register" \in Requests
    BY DEF Requests
  <2>2. r \in Seq(Requests) /\ Work(r) = Work(outbox) + 2
    BY <1>t, <1>w, <2>1, WorkAppend, AppendKeeps
  <2>3. outbox \o <<"subscribe", "register">> = both
    BY <1>t
  <2> HIDE DEF r
  <2>4. Work(both) = Work(r) + 5
    BY <1>t, <1>w, <2>1, <2>2, WorkAppend
  <2> HIDE DEF both
  <2>5. Work(r) = Work(outbox) + 2
    BY <2>2
  <2>6. Work(both) = Work(outbox) + 7
    BY <1>b, <2>4, <2>5
  <2>7. QED
    BY <2>3, <2>6
<1>1. CASE device_provisioning_start \/ Expire
  <2>1. /\ Token' < Token /\ Token' \in Nat
        /\ Sleep' = Sleep /\ Line' = Line /\ Chances' = Chances
        /\ outbox' = outbox /\ inbox' = inbox /\ assigning' = assigning
    BY <1>1 DEF device_provisioning_start, Expire, service, bounds, Token, Sleep,
                Line, Chances
  <2>2. Work(outbox') = Work(outbox) /\ Work(inbox') = Work(inbox)
    BY <2>1
  <2>3. QED
    BY <2>1, <2>2, <1>h, <1>b
<1>2. CASE MqttConnected
  <2>1. /\ Line' = Line + 1 /\ Chances' = Chances - 9
        /\ Sleep' = Sleep /\ Token' = Token /\ assigning' = assigning
    <3>1. /\ connects \in Nat /\ duplicates \in Nat
          /\ MaxConnects \in Nat /\ MaxDuplicates \in Nat
      BY BoundsAssumption DEF TypeOK
    <3>2. QED
      BY <1>2, <3>1 DEF MqttConnected, Connect, service, Token, Sleep, Line, Chances
  <2>2. outbox' = outbox \o <<"subscribe", "register">> /\ inbox' = inbox
    BY <1>2 DEF MqttConnected
  <2>3. Work(outbox') = Work(outbox) + 7 /\ Work(inbox') = Work(inbox)
    BY <2>2, <1>c
  <2>4. QED
    BY <2>1, <2>3, <1>h, <1>b
<1>3. CASE MqttDisconnected
  <2>1. outbox' = outbox /\ inbox' = <<>>
    BY <1>3 DEF MqttDisconnected
  <2>2. /\ Line' = Line - 1 /\ Sleep' = Sleep /\ Token' = Token
        /\ Chances' = Chances /\ assigning' = assigning
    BY <1>3 DEF MqttDisconnected, bounds, Token, Sleep, Line, Chances
  <2>3. Work(outbox') = Work(outbox) /\ Work(inbox') = 0
    BY <2>1, WorkOfNone
  <2>4. QED
    BY <2>2, <2>3, <1>h, <1>b
<1>4. CASE ServiceAnswers
  <2> DEFINE request == Head(outbox)
             answer == Reply(request)
  <2>1. /\ outbox # <<>> /\ Acknowledge
        /\ inbox' = inbox \/ inbox' = Append(inbox, answer)
        /\ assigning' = IF request = "poll" /\ assigning > 0
                          THEN assigning - 1 ELSE assigning
    BY <1>4 DEF ServiceAnswers
  <2>s. Sleep' = Sleep /\ Line' = Line /\ Token' = Token
    BY <1>4 DEF ServiceAnswers, Sleep, Line, Token
  <2>2. /\ answer \in Answers /\ assigning' \in Nat
        /\ Weight(answer) \in Nat /\ Weight(request) \in Nat
        /\ Weight(answer) + 3 * assigning' < Weight(request) + 3 * assigning
        /\ Weight(answer) <= 4 /\ assigning' <= assigning
    <3>1. request \in Requests
      BY <2>1, <1>o
    <3>2. CASE request = "subscribe"
      BY <2>1, <3>2, <1>b, <1>w DEF Reply, Answers
    <3>3. CASE request = "register"
      BY <2>1, <3>3, <1>b, <1>w DEF Reply, Answers
    <3>4. CASE request = "poll" /\ assigning = 0
      BY <2>1, <3>4, <1>b, <1>w DEF Reply, Answers
    <3>5. CASE request = "poll" /\ assigning # 0
      BY <2>1, <3>5, <1>b, <1>w DEF Reply, Answers
    <3>6. QED
      BY <3>1, <3>2, <3>3, <3>4, <3>5 DEF Requests
  <2>3. Work(inbox') \in Nat /\ Work(inbox') <= Work(inbox) + Weight(answer)
    <3>1. Work(Append(inbox, answer)) = Work(inbox) + Weight(answer)
      BY <2>2, <1>a
    <3>2. \/ Work(inbox') = Work(inbox)
          \/ Work(inbox') = Work(inbox) + Weight(answer)
      BY <2>1, <3>1
    <3>3. QED
      BY <3>2, <2>2, <1>b
  <2>4. /\ Work(outbox) = Work(Tail(outbox)) + Weight(request)
        /\ Work(Tail(outbox)) \in Nat
    BY <2>1, <1>o
  <2> HIDE DEF request, answer
  <2>5. CASE outbox' = Tail(outbox) /\ Chances' = Chances
    <3>1. /\ Work(outbox') \in Nat /\ Work(outbox) = Work(outbox') + Weight(request)
          /\ Chances' = Chances
      BY <2>4, <2>5
    <3>2. QED
      BY <3>1, <2>s, <2>2, <2>3, <1>h, <1>b
  <2>6. CASE outbox' = outbox /\ Chances' = Chances - 5
    <3>1. Work(outbox') = Work(outbox) /\ Chances' = Chances - 5
      BY <2>6
    <3>2. QED
      BY <3>1, <2>s, <2>2, <2>3, <1>h, <1>b
  <2>7. \/ outbox' = Tail(outbox) /\ Chances' = Chances
        \/ outbox' = outbox /\ Chances' = Chances - 5
    <3>1. /\ connects \in Nat /\ duplicates \in Nat /\ connects' = connects
          /\ MaxConnects \in Nat /\ MaxDuplicates \in Nat
      BY <1>4, BoundsAssumption DEF TypeOK, ServiceAnswers
    <3>2. QED
      BY <2>1, <3>1 DEF Acknowledge, Chances
  <2>8. QED
    BY <2>5, <2>6, <2>7
<1>5. CASE ServiceRefuses
  <2>1. /\ outbox # <<>> /\ outbox' = Tail(outbox)
        /\ Head(outbox) \in {"register", "poll"}
        /\ inbox' = inbox \/ inbox' = Append(inbox, "refused")
    BY <1>5 DEF ServiceRefuses
  <2>2. /\ Sleep' = Sleep /\ Line' = Line /\ Token' = Token /\ Chances' = Chances
        /\ assigning' = assigning
    BY <1>5 DEF ServiceRefuses, service, Sleep, Line, Token, Chances
  <2>3. Work(Append(inbox, "refused")) = Work(inbox) + 1
    BY <1>a, <1>w DEF Answers
  <2>4. Work(inbox') = Work(inbox) \/ Work(inbox') = Work(inbox) + 1
    BY <2>1, <2>3
  <2>5. Weight(Head(outbox)) = 2 \/ Weight(Head(outbox)) = 5
    BY <2>1, <1>w
  <2>6. /\ Work(outbox) = Work(outbox') + Weight(Head(outbox))
        /\ Work(outbox') \in Nat
    BY <2>1, <1>o
  <2>7. Work(outbox) = Work(outbox') + 2 \/ Work(outbox) = Work(outbox') + 5
    BY <2>5, <2>6
  <2>8. Work(outbox') \in Nat
    BY <2>6
  <2>9. QED
    BY <2>2, <2>4, <2>7, <2>8, <1>h, <1>b
<1>6. CASE MqttSubscribed \/ MqttData200 \/ MqttDataOther
  <2>1. /\ inbox # <<>> /\ inbox' = Tail(inbox) /\ outbox' = outbox
        /\ Head(inbox) \in {"subscribed", "200", "refused"}
    BY <1>6 DEF MqttSubscribed, MqttData200, MqttDataOther, Take, service
  <2>2. /\ Sleep' = Sleep /\ Line' = Line /\ Token' = Token /\ Chances' = Chances
        /\ assigning' = assigning
    BY <1>6 DEF MqttSubscribed, MqttData200, MqttDataOther, Take, service, bounds,
                Sleep, Line, Token, Chances
  <2>3. Weight(Head(inbox)) = 1
    BY <2>1, <1>w
  <2>4. /\ Work(outbox') = Work(outbox)
        /\ Work(inbox') \in Nat /\ Work(inbox) = Work(inbox') + 1
    BY <2>1, <2>3, <1>n
  <2>5. QED
    BY <2>2, <2>4, <1>h, <1>b
<1>7. CASE MqttData202
  <2>1. /\ inbox # <<>> /\ inbox' = Tail(inbox) /\ Head(inbox) = "202"
        /\ outbox' = outbox
    BY <1>7 DEF MqttData202, Take, service
  <2>2. /\ Sleep' <= Sleep + 3 /\ Sleep' \in Nat
        /\ Line' = Line /\ Token' = Token /\ Chances' = Chances
        /\ assigning' = assigning
    BY <1>7 DEF MqttData202, Take, service, bounds, Sleep, Line, Token, Chances
  <2>3. /\ Work(outbox') = Work(outbox)
        /\ Work(inbox') \in Nat /\ Work(inbox) = Work(inbox') + 4
    BY <2>1, <1>n, <1>w
  <2>4. QED
    BY <2>2, <2>3, <1>h, <1>b
<1>8. CASE Poll
  <2>1. outbox' = Append(outbox, "poll") /\ inbox' = inbox
    BY <1>8 DEF Poll, service
  <2>2. /\ Sleep' = Sleep - 3 /\ assigning' = assigning
        /\ Line' = Line /\ Token' = Token /\ Chances' = Chances
    BY <1>8 DEF Poll, service, bounds, Sleep, Line, Token, Chances
  <2>3. Work(outbox') = Work(outbox) + 2 /\ Work(inbox') = Work(inbox)
    BY <2>1, <1>p
  <2>4. QED
    BY <2>2, <2>3, <1>h, <1>b
<1>9. QED
  BY <1>1, <1>2, <1>3, <1>4, <1>5, <1>6, <1>7, <1>8 DEF Next, Service, Handler

(* However often connections are lost and requests delivered again, every  *)
(* step uses up one of finitely many: nine for each connection there can   *)
(* be, five for each repeated delivery, three for each poll the service    *)
(* asks for.  No answer starts a conversation that feeds itself.           *)
THEOREM ConversationsEnd ==
  Spec => [](Ahead \in Nat) /\ [][Ahead' < Ahead]_vars
<1>1. TypeOK => Ahead \in Nat
  BY AheadParts DEF Ahead
<1>2. TypeOK /\ [Next]_vars => [Ahead' < Ahead]_vars
  BY NextAhead
<1>3. Init => TypeOK
  BY InitType
<1>4. TypeOK /\ [Next]_vars => TypeOK'
  BY NextType
<1>5. QED
  BY <1>1, <1>2, <1>3, <1>4, PTL DEF Spec
=============================================================================
