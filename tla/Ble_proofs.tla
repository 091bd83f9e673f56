----------------------------- MODULE Ble_proofs -----------------------------
(* Proofs about Ble, for any centrals and queues of any length, and that   *)
(* Gateway, where the upgrade is the one of Ota, implements Ble and Ota.   *)
EXTENDS Gateway, TLAPS

(* What posting and taking an event do to a queue.                         *)
LEMMA QueueSteps ==
  ASSUME NEW S, NEW q \in Seq(S)
  PROVE  /\ \A e \in S : /\ Append(q, e) \in Seq(S)
                         /\ DOMAIN Append(q, e) = DOMAIN q \cup {Len(q) + 1}
                         /\ Append(q, e)[Len(q) + 1] = e
                         /\ \A i \in DOMAIN q : Append(q, e)[i] = q[i]
         /\ q # <<>> => /\ Tail(q) \in Seq(S)
                        /\ Head(q) = q[1] /\ Head(q) \in S /\ 1 \in DOMAIN q
                        /\ \A i \in DOMAIN Tail(q) : /\ i + 1 \in DOMAIN q
                                                     /\ Tail(q)[i] = q[i + 1]
                        /\ \A i \in DOMAIN q : i # 1 => i - 1 \in DOMAIN Tail(q)
  OBVIOUS

LEMMA QueueIndices ==
  ASSUME NEW q \in Seq(Events)
  PROVE  /\ DOMAIN q \subseteq Nat \ {0} /\ Len(q) \in Nat
         /\ Len(q) + 1 \notin DOMAIN q
         /\ \A i \in DOMAIN q : i < Len(q) + 1 /\ q[i] \in Events
  OBVIOUS

(* Events and requests are told apart by their kind.                       *)
LEMMA Kinds ==
  /\ \A e \in Events : e.evt \in RequestKinds <=> e \in Requests
  /\ \A e \in Events : e.evt \in TurnKinds \cup {"CREATE"} <=> e \notin Requests
  /\ \A e \in Requests : e.evt \in RequestKinds /\ e.from \in Centrals
  /\ NotHandling \notin Requests
  /\ \A kind \in TurnKinds \cup {"CREATE"} : [evt |-> kind] \in Events
  /\ \A kind \in RequestKinds, c \in Centrals, n \in BOOLEAN :
       [evt |-> kind, from |-> c, need_rsp |-> n] \in Requests
<1>1. \A e \in Requests : e.evt \in RequestKinds /\ e.from \in Centrals
  BY DEF Requests
<1>2. \A e \in StackEvents : e.evt \in TurnKinds \cup {"CREATE"}
  BY DEF StackEvents
<1>3. RequestKinds \cap (TurnKinds \cup {"CREATE"}) = {}
  BY DEF RequestKinds, TurnKinds
<1>4. NotHandling \notin Requests
  <2>1. NotHandling.evt = "none"
    BY DEF NotHandling
  <2>2. "none" \notin RequestKinds
    BY DEF RequestKinds
  <2>3. QED
    BY <1>1, <2>1, <2>2
<1>5. /\ \A kind \in TurnKinds \cup {"CREATE"} : [evt |-> kind] \in StackEvents
      /\ \A kind \in RequestKinds, c \in Centrals, n \in BOOLEAN :
           [evt |-> kind, from |-> c, need_rsp |-> n] \in Requests
  BY DEF StackEvents, Requests
<1>6. QED
  BY <1>1, <1>2, <1>3, <1>4, <1>5 DEF Events

LEMMA NoWorkType == NoWork \in [{"config", "start", "create"} -> Nat]
  BY DEF NoWork

(* Init makes BleInv true.                                                 *)
LEMMA InitBleInv == BleInit => BleInv
<1> SUFFICES ASSUME BleInit PROVE BleInv
  OBVIOUS
<1>0. <<>> \in Seq(Events) /\ DOMAIN queue = {} /\ queue = <<>>
  BY DEF BleInit
<1>1. BleTypeOK
  <2>1. /\ stack \in {"off", "on"} /\ adv_config_done \in 0..1
        /\ central \in Centrals \cup {NoCentral}
        /\ awaiting \in RequestKinds \cup {Nothing}
    BY DEF BleInit
  <2>2. adv \in BOOLEAN /\ failed \in BOOLEAN /\ service \in BOOLEAN
    BY DEF BleInit
  <2>3. handling \in Requests \cup {NotHandling}
    BY DEF BleInit
  <2>4. QED
    BY <1>0, <2>1, <2>2, <2>3, NoWorkType DEF BleInit, BleTypeOK
<1>2. AdvertisingRemembered
  <2>1. Turns = {}
    BY <1>0 DEF Turns
  <2>2. work["config"] = 0 /\ work["start"] = 0
    BY DEF BleInit, NoWork
  <2>3. \A p \in Places : HasTurn(p) <=> p = "start-up"
    BY <2>1, <2>2 DEF BleInit, HasTurn, Places
  <2>4. QED
    BY <2>1, <2>2, <2>3 DEF AdvertisingRemembered, Places
<1>3. AnswerToAsker /\ LeaversFirst
  BY <1>0, Kinds DEF BleInit, AnswerToAsker, LeaversFirst, Unanswered
<1>4. AwaitedIsLeft
  BY DEF BleInit, AwaitedIsLeft
<1>5. QED
  BY <1>1, <1>2, <1>3, <1>4 DEF BleInv

(***************************************************************************)
(* Types.                                                                  *)
(***************************************************************************)
LEMMA AskType ==
  ASSUME BleTypeOK, NEW w \in {"config", "start", "create"}
  PROVE  /\ Ask(w) \in [{"config", "start", "create"} -> Nat]
         /\ Done(w) => work' \in [{"config", "start", "create"} -> Nat]
  BY DEF BleTypeOK, Ask, Done

LEMMA NextBleType == BleTypeOK /\ BleNext => BleTypeOK'
<1> SUFFICES ASSUME BleTypeOK, BleNext PROVE BleTypeOK'
  OBVIOUS
<1> USE DEF setupVars, linkVars
<1>q. /\ \A e \in Events : Append(queue, e) \in Seq(Events)
      /\ queue # <<>> => Tail(queue) \in Seq(Events) /\ Head(queue) \in Events
  BY QueueSteps DEF BleTypeOK
<1>p. ASSUME NEW e \in Events, Post(e) PROVE queue' \in Seq(Events)
  BY <1>p, <1>q DEF Post
<1>h. ASSUME NEW kind, Handle(kind)
      PROVE  queue' \in Seq(Events) /\ Head(queue) \in Events
  BY <1>h, <1>q DEF Handle
<1>1. CASE Ble_init
  BY <1>1, <1>p, Kinds DEF Ble_init, BleTypeOK, TurnKinds
<1>2. CASE ConfigAdvData
  BY <1>2, <1>p, Kinds, AskType DEF ConfigAdvData, BleTypeOK, TurnKinds
<1>3. CASE StartAdvertising
  BY <1>3, AskType DEF StartAdvertising, BleTypeOK
<1>4. CASE CreateService
  BY <1>4, <1>p, Kinds, AskType DEF CreateService, BleTypeOK, TurnKinds
<1>5. ASSUME NEW c \in Centrals, Connect(c) PROVE BleTypeOK'
  BY <1>5 DEF Connect, BleTypeOK
<1>6. CASE Disconnect
  BY <1>6, <1>p, Kinds DEF Disconnect, BleTypeOK, TurnKinds
<1>7. ASSUME NEW kind \in RequestKinds, Request(kind) PROVE BleTypeOK'
  <2>1. [evt |-> kind, from |-> central, need_rsp |-> TRUE] \in Events
    BY <1>7, Kinds DEF Request, BleTypeOK, Events
  <2>2. QED
    BY <1>7, <2>1, <1>p DEF Request, BleTypeOK
<1>8. ASSUME NEW kind \in RequestKinds, WriteCommand(kind) PROVE BleTypeOK'
  <2>1. [evt |-> kind, from |-> central, need_rsp |-> FALSE] \in Events
    BY <1>8, Kinds DEF WriteCommand, BleTypeOK, Events
  <2>2. QED
    BY <1>8, <2>1, <1>p DEF WriteCommand, BleTypeOK
<1>9. CASE HandleReg
  BY <1>9, <1>h DEF HandleReg, BleTypeOK
<1>10. CASE HandleAdvDataSet
  BY <1>10, <1>h, AskType DEF HandleAdvDataSet, BleTypeOK
<1>11. CASE HandleCreate
  BY <1>11, <1>h DEF HandleCreate, BleTypeOK
<1>12. CASE HandleDisconnect
  BY <1>12, <1>h, AskType DEF HandleDisconnect, BleTypeOK
<1>13. CASE HandleRequest
  BY <1>13, <1>h DEF HandleRequest, Respond, BleTypeOK
<1>14. CASE HandlePrepared
  BY <1>14, <1>h DEF HandlePrepared, BleTypeOK
<1>15. CASE HandleOtaWrite
  <2>1. Head(queue) \in Requests
    BY <1>15, <1>h, Kinds DEF HandleOtaWrite, Handle, RequestKinds
  <2>2. QED
    BY <1>15, <1>h, <2>1 DEF HandleOtaWrite, BleTypeOK
<1>16. CASE UpgradeReturns
  BY <1>16 DEF UpgradeReturns, Respond, BleTypeOK
<1>17. CASE Restart
  <2>1. <<>> \in Seq(Events)
    OBVIOUS
  <2>2. /\ stack' \in {"off", "on"} /\ adv_config_done' \in 0..1
        /\ central' \in Centrals \cup {NoCentral}
        /\ awaiting' \in RequestKinds \cup {Nothing}
    BY <1>17 DEF Restart
  <2>3. adv' \in BOOLEAN /\ failed' \in BOOLEAN /\ service' \in BOOLEAN
    BY <1>17 DEF Restart
  <2>4. handling' \in Requests \cup {NotHandling}
    BY <1>17 DEF Restart
  <2>5. QED
    BY <1>17, <2>1, <2>2, <2>3, <2>4, NoWorkType DEF Restart, BleTypeOK
<1>18. QED
  BY <1>1, <1>2, <1>3, <1>4, <1>5, <1>6, <1>7, <1>8, <1>9, <1>10, <1>11, <1>12,
     <1>13, <1>14, <1>15, <1>16, <1>17
  DEF BleNext, Stack, Central, Handler, RequestKinds

(***************************************************************************)
(* AdvertisingRemembered.                                                  *)
(***************************************************************************)

(* What posting and handling an event do to the turns in the queue.        *)
LEMMA TurnsAppend ==
  ASSUME BleTypeOK, NEW e \in Events, Post(e)
  PROVE  /\ e.evt \notin TurnKinds => Turns' = Turns
         /\ e.evt \in TurnKinds /\ Turns = {} => Turns' = {Len(queue) + 1}
<1>1. /\ queue' = Append(queue, e)
      /\ DOMAIN queue' = DOMAIN queue \cup {Len(queue) + 1}
      /\ queue'[Len(queue) + 1] = e
      /\ \A i \in DOMAIN queue : queue'[i] = queue[i]
      /\ Len(queue) + 1 \notin DOMAIN queue
  BY QueueSteps, QueueIndices DEF Post, BleTypeOK
<1>2. Turns' = {i \in DOMAIN queue' : queue'[i].evt \in TurnKinds}
  BY DEF Turns
<1>3. QED
  BY <1>1, <1>2 DEF Turns

LEMMA TurnsTail ==
  ASSUME BleTypeOK, queue # <<>>, queue' = Tail(queue),
         \A i, j \in Turns : i = j
  PROVE  /\ Head(queue).evt \in TurnKinds => Turns # {} /\ Turns' = {}
         /\ Head(queue).evt \notin TurnKinds =>
              /\ Turns' # {} <=> Turns # {}
              /\ \A i, j \in Turns' : i = j
<1>1. /\ Head(queue) = queue[1] /\ 1 \in DOMAIN queue
      /\ \A i \in DOMAIN queue' : i + 1 \in DOMAIN queue /\ queue'[i] = queue[i + 1]
      /\ \A i \in DOMAIN queue : i # 1 => i - 1 \in DOMAIN queue'
      /\ DOMAIN queue \subseteq Nat \ {0}
  BY QueueSteps, QueueIndices DEF BleTypeOK
<1>2. DOMAIN queue' \subseteq Nat \ {0}
  BY QueueSteps, QueueIndices DEF BleTypeOK
<1>3. Turns' = {i \in DOMAIN queue' : queue'[i].evt \in TurnKinds}
  BY DEF Turns
<1>4. \A i \in Turns' : i + 1 \in Turns /\ i \in Nat \ {0}
  BY <1>1, <1>2, <1>3 DEF Turns
<1>5. CASE Head(queue).evt \in TurnKinds
  <2>1. 1 \in Turns
    BY <1>1, <1>5 DEF Turns
  <2>2. \A i \in Turns' : FALSE
    <3> SUFFICES ASSUME NEW i \in Turns' PROVE FALSE
      OBVIOUS
    <3>1. i + 1 = 1 /\ i \in Nat \ {0}
      BY <1>4, <2>1
    <3>2. QED
      BY <3>1
  <2>3. QED
    BY <1>5, <2>1, <2>2
<1>6. CASE Head(queue).evt \notin TurnKinds
  <2>1. \A i \in Turns : i # 1
    BY <1>1, <1>6 DEF Turns
  <2>2. \A i \in Turns : i - 1 \in Turns'
    <3> SUFFICES ASSUME NEW i \in Turns PROVE i - 1 \in Turns'
      OBVIOUS
    <3>1. i \in Nat /\ i - 1 \in DOMAIN queue' /\ queue[i].evt \in TurnKinds
      BY <1>1, <2>1 DEF Turns
    <3>2. queue'[i - 1] = queue[i]
      BY <1>1, <3>1
    <3>3. QED
      BY <1>3, <3>1, <3>2
  <2>3. \A i, j \in Turns' : i = j
    <3> SUFFICES ASSUME NEW i \in Turns', NEW j \in Turns' PROVE i = j
      OBVIOUS
    <3>1. i + 1 = j + 1 /\ i \in Nat /\ j \in Nat
      BY <1>4
    <3>2. QED
      BY <3>1
  <2>4. QED
    BY <1>4, <1>6, <2>2, <2>3
<1>7. QED
  BY <1>5, <1>6

(* The turn can be named, and the others have none.                        *)
LEMMA OneTurn ==
  ASSUME BleTypeOK, AdvertisingRemembered, NEW p \in Places, HasTurn(p)
  PROVE  /\ \A o \in Places : HasTurn(o) <=> o = p
         /\ p # "start-up" <=> stack # "off"
         /\ p # "event" <=> Turns = {}
         /\ p # "data" <=> work["config"] = 0
         /\ p # "start" <=> work["start"] = 0
         /\ p # "air" <=> ~ adv
         /\ p # "central" <=> central = NoCentral
         /\ p # "failed" <=> ~ failed
<1>1. \A o \in Places : HasTurn(o) <=> o = p
  BY DEF AdvertisingRemembered
<1>2. work["config"] \in Nat /\ work["start"] \in Nat
  BY DEF BleTypeOK
<1>3. QED
  BY <1>1, <1>2 DEF Places, HasTurn

(* How AdvertisingRemembered is shown of the state after a step.           *)
LEMMA TurnAt ==
  ASSUME NEW p \in Places,
         p = "start-up" <=> stack' = "off",
         p = "event" <=> Turns' # {},
         p = "data" <=> work'["config"] > 0,
         p = "start" <=> work'["start"] > 0,
         p = "air" <=> adv',
         p = "central" <=> central' # NoCentral,
         p = "failed" <=> failed',
         \A i, j \in Turns' : i = j,
         work'["config"] <= 1, work'["start"] <= 1
  PROVE  AdvertisingRemembered'
<1>1. \A o \in Places : HasTurn(o)' <=> o = p
  BY DEF Places, HasTurn
<1>2. QED
  BY <1>1 DEF AdvertisingRemembered

(* A step that only adds or takes an event without a turn leaves it where  *)
(* it is.                                                                  *)
LEMMA TurnStays ==
  ASSUME BleTypeOK, AdvertisingRemembered,
         UNCHANGED <<stack, adv, central, failed>>,
         work'["config"] = work["config"], work'["start"] = work["start"],
         \/ queue' = queue
         \/ queue # <<>> /\ queue' = Tail(queue) /\ Head(queue).evt \notin TurnKinds
         \/ \E e \in Events : Post(e) /\ e.evt \notin TurnKinds
  PROVE  AdvertisingRemembered'
<1>1. PICK p \in Places : HasTurn(p)
  BY DEF AdvertisingRemembered
<1>2. Turns' # {} <=> Turns # {}
  BY TurnsTail, TurnsAppend DEF AdvertisingRemembered, Turns
<1>3. \A i, j \in Turns' : i = j
  BY TurnsTail, TurnsAppend DEF AdvertisingRemembered, Turns
<1>4. work["config"] \in Nat /\ work["start"] \in Nat
  BY DEF BleTypeOK
<1>5. work["config"] <= 1 /\ work["start"] <= 1
  BY DEF AdvertisingRemembered
<1>6. /\ p # "start-up" <=> stack # "off"
      /\ p # "event" <=> Turns = {}
      /\ p # "data" <=> work["config"] = 0
      /\ p # "start" <=> work["start"] = 0
      /\ p # "air" <=> ~ adv
      /\ p # "central" <=> central = NoCentral
      /\ p # "failed" <=> ~ failed
  BY <1>1, OneTurn
<1>7. QED
  BY <1>2, <1>3, <1>4, <1>5, <1>6, TurnAt

(* The turn passes from place to place.                                    *)
LEMMA NextTurn == BleTypeOK /\ AdvertisingRemembered /\ BleNext
                  => AdvertisingRemembered'
<1> SUFFICES ASSUME BleTypeOK, AdvertisingRemembered, BleNext
             PROVE  AdvertisingRemembered'
  OBVIOUS
<1> USE DEF setupVars, linkVars
<1>n. /\ work \in [{"config", "start", "create"} -> Nat]
      /\ work["config"] <= 1 /\ work["start"] <= 1
      /\ \A i, j \in Turns : i = j
  BY DEF BleTypeOK, AdvertisingRemembered
<1>t. \A kind \in TurnKinds : /\ [evt |-> kind] \in Events
                              /\ [evt |-> kind].evt = kind
  BY Kinds
<1>f. "start-up" \in Places /\ "event" \in Places /\ "data" \in Places
      /\ "start" \in Places /\ "air" \in Places /\ "central" \in Places
      /\ "failed" \in Places
  BY DEF Places
<1>1. CASE Ble_init
  <2>1. HasTurn("start-up")
    BY <1>1 DEF Ble_init, HasTurn
  <2>2. /\ Turns = {} /\ work["config"] = 0 /\ work["start"] = 0 /\ ~ adv
        /\ central = NoCentral /\ ~ failed
    BY <2>1, <1>f, OneTurn
  <2>3. /\ stack' = "on"
        /\ UNCHANGED <<work, adv, central>>
        /\ \/ Post([evt |-> "REG"]) /\ failed' = failed
           \/ failed' = TRUE /\ queue' = queue
    BY <1>1 DEF Ble_init
  <2>4. CASE Post([evt |-> "REG"]) /\ failed' = failed
    <3>1. Turns' = {Len(queue) + 1}
      BY <2>2, <2>4, <1>t, TurnsAppend DEF TurnKinds
    <3>2. QED
      BY <2>2, <2>3, <2>4, <3>1, <1>f, TurnAt
  <2>5. CASE failed' = TRUE /\ queue' = queue
    <3>1. Turns' = {}
      BY <2>2, <2>5 DEF Turns
    <3>2. QED
      BY <2>2, <2>3, <2>5, <3>1, <1>f, TurnAt
  <2>6. QED
    BY <2>3, <2>4, <2>5
<1>2. CASE ConfigAdvData
  <2>1. HasTurn("data")
    BY <1>2 DEF ConfigAdvData, Done, HasTurn
  <2>2. /\ stack # "off" /\ Turns = {} /\ work["start"] = 0 /\ ~ adv
        /\ central = NoCentral /\ ~ failed
    BY <2>1, <1>f, OneTurn
  <2>3. /\ work'["config"] = 0 /\ work'["start"] = 0
        /\ UNCHANGED <<stack, adv, central>>
        /\ \/ Post([evt |-> "ADV_DATA_SET"]) /\ failed' = failed
           \/ failed' = TRUE /\ queue' = queue
    BY <1>2, <1>n, <2>2 DEF ConfigAdvData, Done
  <2>4. CASE Post([evt |-> "ADV_DATA_SET"]) /\ failed' = failed
    <3>1. Turns' = {Len(queue) + 1}
      BY <2>2, <2>4, <1>t, TurnsAppend DEF TurnKinds
    <3>2. QED
      BY <2>2, <2>3, <2>4, <3>1, <1>f, TurnAt
  <2>5. CASE failed' = TRUE /\ queue' = queue
    <3>1. Turns' = {}
      BY <2>2, <2>5 DEF Turns
    <3>2. QED
      BY <2>2, <2>3, <2>5, <3>1, <1>f, TurnAt
  <2>6. QED
    BY <2>3, <2>4, <2>5
<1>3. CASE StartAdvertising
  <2>1. HasTurn("start")
    BY <1>3 DEF StartAdvertising, Done, HasTurn
  <2>2. /\ stack # "off" /\ Turns = {} /\ work["config"] = 0 /\ ~ adv
        /\ central = NoCentral /\ ~ failed
    BY <2>1, <1>f, OneTurn
  <2>3. /\ work'["config"] = 0 /\ work'["start"] = 0
        /\ UNCHANGED <<stack, queue, central>>
        /\ \/ adv' = TRUE /\ failed' = failed
           \/ failed' = TRUE /\ adv' = adv
    BY <1>3, <1>n, <2>2 DEF StartAdvertising, Done
  <2>4. Turns' = {}
    BY <2>2, <2>3 DEF Turns
  <2>5. CASE adv' = TRUE /\ failed' = failed
    BY <2>2, <2>3, <2>4, <2>5, <1>f, TurnAt
  <2>6. CASE failed' = TRUE /\ adv' = adv
    BY <2>2, <2>3, <2>4, <2>6, <1>f, TurnAt
  <2>7. QED
    BY <2>3, <2>5, <2>6
<1>4. CASE CreateService
  <2>1. [evt |-> "CREATE"] \in Events /\ [evt |-> "CREATE"].evt \notin TurnKinds
    BY Kinds DEF TurnKinds
  <2>2. QED
    BY <1>4, <1>n, <2>1, TurnStays DEF CreateService, Done
<1>5. ASSUME NEW c \in Centrals, Connect(c) PROVE AdvertisingRemembered'
  <2>1. HasTurn("air")
    BY <1>5 DEF Connect, HasTurn
  <2>2. /\ stack # "off" /\ Turns = {} /\ work["config"] = 0 /\ work["start"] = 0
        /\ ~ failed
    BY <2>1, <1>f, OneTurn
  <2>3. /\ UNCHANGED <<stack, queue, work, failed>>
        /\ central' # NoCentral /\ adv' = FALSE
    BY <1>5, CentralAssumption DEF Connect
  <2>4. Turns' = {}
    BY <2>2, <2>3 DEF Turns
  <2>5. QED
    BY <2>2, <2>3, <2>4, <1>f, TurnAt
<1>6. CASE Disconnect
  <2>1. HasTurn("central")
    BY <1>6 DEF Disconnect, HasTurn
  <2>2. /\ stack # "off" /\ Turns = {} /\ work["config"] = 0 /\ work["start"] = 0
        /\ ~ adv /\ ~ failed
    BY <2>1, <1>f, OneTurn
  <2>3. /\ UNCHANGED <<stack, work, adv, failed>>
        /\ central' = NoCentral
        /\ Post([evt |-> "DISCONNECT"])
    BY <1>6 DEF Disconnect
  <2>4. Turns' = {Len(queue) + 1}
    BY <2>2, <2>3, <1>t, TurnsAppend DEF TurnKinds
  <2>5. QED
    BY <2>2, <2>3, <2>4, <1>f, TurnAt
<1>7. ASSUME NEW kind \in RequestKinds, Request(kind) \/ WriteCommand(kind)
      PROVE  AdvertisingRemembered'
  <2>1. PICK n \in BOOLEAN : Post([evt |-> kind, from |-> central, need_rsp |-> n])
    BY <1>7 DEF Request, WriteCommand
  <2>2. central \in Centrals
    BY <1>7 DEF Request, WriteCommand, BleTypeOK
  <2>3. /\ [evt |-> kind, from |-> central, need_rsp |-> n] \in Events
        /\ [evt |-> kind, from |-> central, need_rsp |-> n].evt \notin TurnKinds
    BY <2>2, Kinds DEF Events, RequestKinds, TurnKinds
  <2>4. QED
    BY <1>7, <2>1, <2>3, TurnStays DEF Request, WriteCommand
<1>9. CASE HandleReg
  <2>1. /\ queue # <<>> /\ queue' = Tail(queue) /\ Head(queue).evt = "REG"
        /\ UNCHANGED <<stack, adv, central, failed>>
    BY <1>9 DEF HandleReg, Handle
  <2>2. Turns # {} /\ Turns' = {}
    BY <2>1, <1>n, TurnsTail DEF TurnKinds
  <2>3. HasTurn("event")
    BY <2>2 DEF HasTurn
  <2>4. /\ stack # "off" /\ work["config"] = 0 /\ work["start"] = 0
        /\ ~ adv /\ central = NoCentral /\ ~ failed
    BY <2>3, <1>f, OneTurn
  <2>5. work'["config"] = 1 /\ work'["start"] = 0
    BY <1>9, <1>n, <2>4 DEF HandleReg
  <2>6. QED
    BY <2>1, <2>2, <2>4, <2>5, <1>f, TurnAt
<1>10. CASE HandleAdvDataSet
  <2>1. /\ queue # <<>> /\ queue' = Tail(queue) /\ Head(queue).evt = "ADV_DATA_SET"
        /\ UNCHANGED <<stack, adv, central, failed>>
    BY <1>10 DEF HandleAdvDataSet, Handle
  <2>2. Turns # {} /\ Turns' = {}
    BY <2>1, <1>n, TurnsTail DEF TurnKinds
  <2>3. HasTurn("event")
    BY <2>2 DEF HasTurn
  <2>4. /\ stack # "off" /\ work["config"] = 0 /\ work["start"] = 0
        /\ ~ adv /\ central = NoCentral /\ ~ failed
    BY <2>3, <1>f, OneTurn
  <2>5. work'["config"] = 0 /\ work'["start"] = 1
    BY <1>10, <1>n, <2>4 DEF HandleAdvDataSet, Ask
  <2>6. QED
    BY <2>1, <2>2, <2>4, <2>5, <1>f, TurnAt
<1>11. CASE HandleCreate
  <2>1. /\ queue # <<>> /\ queue' = Tail(queue) /\ Head(queue).evt \notin TurnKinds
        /\ UNCHANGED <<stack, adv, central, failed, work>>
    BY <1>11 DEF HandleCreate, Handle, TurnKinds
  <2>2. QED
    BY <2>1, TurnStays
<1>12. CASE HandleDisconnect
  <2>1. /\ queue # <<>> /\ queue' = Tail(queue) /\ Head(queue).evt = "DISCONNECT"
        /\ UNCHANGED <<stack, adv, central, failed>>
    BY <1>12 DEF HandleDisconnect, Handle
  <2>2. Turns # {} /\ Turns' = {}
    BY <2>1, <1>n, TurnsTail DEF TurnKinds
  <2>3. HasTurn("event")
    BY <2>2 DEF HasTurn
  <2>4. /\ stack # "off" /\ work["config"] = 0 /\ work["start"] = 0
        /\ ~ adv /\ central = NoCentral /\ ~ failed
    BY <2>3, <1>f, OneTurn
  <2>5. work'["config"] = 1 /\ work'["start"] = 0
    BY <1>12, <1>n, <2>4 DEF HandleDisconnect, Ask
  <2>6. QED
    BY <2>1, <2>2, <2>4, <2>5, <1>f, TurnAt
<1>13. CASE HandleRequest \/ HandlePrepared \/ HandleOtaWrite
  <2>1. /\ queue # <<>> /\ queue' = Tail(queue) /\ Head(queue).evt \notin TurnKinds
        /\ UNCHANGED <<stack, adv, central, failed, work>>
    BY <1>13 DEF HandleRequest, HandlePrepared, HandleOtaWrite, Handle, TurnKinds
  <2>2. QED
    BY <2>1, TurnStays
<1>16. CASE UpgradeReturns
  BY <1>16, TurnStays DEF UpgradeReturns
<1>17. CASE Restart
  <2>1. Turns' = {}
    <3>1. queue' = <<>> /\ DOMAIN queue' = {}
      BY <1>17 DEF Restart
    <3>2. QED
      BY <3>1 DEF Turns
  <2>2. work'["config"] = 0 /\ work'["start"] = 0
    BY <1>17 DEF Restart, NoWork
  <2>3. QED
    BY <1>17, <2>1, <2>2, <1>f, TurnAt DEF Restart
<1>18. QED
  BY <1>1, <1>2, <1>3, <1>4, <1>5, <1>6, <1>7, <1>9, <1>10, <1>11, <1>12, <1>13,
     <1>16, <1>17
  DEF BleNext, Stack, Central, Handler, RequestKinds

(***************************************************************************)
(* AnswerToAsker and AwaitedIsLeft.                                        *)
(***************************************************************************)

(* A request that is posted by the connected central; an event of the      *)
(* stack; a first event that is taken.                                     *)
LEMMA LeftAfterPost ==
  ASSUME BleTypeOK, NEW e \in Events, Post(e), handling' = handling
  PROVE  /\ Unanswered \cap Requests \subseteq Unanswered' \cap Requests
         /\ Unanswered' \cap Requests \subseteq
              (Unanswered \cap Requests) \cup ({e} \cap Requests)
         /\ e \in Requests => e \in Unanswered'
<1>1. /\ queue' = Append(queue, e)
      /\ DOMAIN queue' = DOMAIN queue \cup {Len(queue) + 1}
      /\ queue'[Len(queue) + 1] = e
      /\ \A i \in DOMAIN queue : queue'[i] = queue[i]
  BY QueueSteps DEF Post, BleTypeOK
<1>2. Unanswered' = {queue'[i] : i \in DOMAIN queue'} \cup {handling}
  BY DEF Unanswered
<1>3. QED
  BY <1>1, <1>2 DEF Unanswered

LEMMA LeftAfterTake ==
  ASSUME BleTypeOK, queue # <<>>, queue' = Tail(queue), handling = NotHandling
  PROVE  /\ {queue'[i] : i \in DOMAIN queue'} \subseteq Unanswered
         /\ Head(queue) \in Unanswered
         /\ \A r \in Unanswered \cap Requests :
              r # Head(queue) => r \in {queue'[i] : i \in DOMAIN queue'}
<1>1. /\ Head(queue) = queue[1] /\ 1 \in DOMAIN queue
      /\ \A i \in DOMAIN queue' : i + 1 \in DOMAIN queue /\ queue'[i] = queue[i + 1]
      /\ \A i \in DOMAIN queue : i # 1 => i - 1 \in DOMAIN queue'
      /\ DOMAIN queue \subseteq Nat \ {0}
  BY QueueSteps, QueueIndices DEF BleTypeOK
<1>2. /\ {queue'[i] : i \in DOMAIN queue'} \subseteq Unanswered
      /\ Head(queue) \in Unanswered
  BY <1>1 DEF Unanswered
<1>3. ASSUME NEW r \in Unanswered \cap Requests, r # Head(queue)
      PROVE  r \in {queue'[i] : i \in DOMAIN queue'}
  <2>1. PICK i \in DOMAIN queue : r = queue[i]
    BY <1>3, Kinds DEF Unanswered
  <2>2. i # 1 /\ i \in Nat
    BY <1>1, <1>3, <2>1
  <2>3. i - 1 \in DOMAIN queue' /\ i = (i - 1) + 1
    BY <1>1, <2>2
  <2>4. queue'[i - 1] = queue[i]
    BY <1>1, <2>3
  <2>5. QED
    BY <2>1, <2>3, <2>4
<1>4. QED
  BY <1>2, <1>3

(* While nobody is connected, a disconnection stays behind every request:  *)
(* a post adds behind, and a take removes before.                          *)
LEMMA BehindAfterPost ==
  ASSUME BleTypeOK, LeaversFirst, central = NoCentral, NEW e \in StackEvents,
         Post(e), UNCHANGED <<handling, central>>
  PROVE  LeaversFirst'
<1>1. /\ queue' = Append(queue, e) /\ e \in Events /\ e \notin Requests
      /\ DOMAIN queue' = DOMAIN queue \cup {Len(queue) + 1}
      /\ queue'[Len(queue) + 1] = e
      /\ \A i \in DOMAIN queue : queue'[i] = queue[i]
  BY QueueSteps, Kinds DEF Post, BleTypeOK, Events, StackEvents
<1>2. \A i : DisconnectBehind(i) =>
        \E j \in DOMAIN queue' : j > i /\ queue'[j].evt = "DISCONNECT"
  BY <1>1 DEF DisconnectBehind
<1>3. QED
  BY <1>1, <1>2 DEF LeaversFirst, DisconnectBehind

LEMMA BehindAfterTake ==
  ASSUME BleTypeOK, LeaversFirst, central = NoCentral, queue # <<>>,
         queue' = Tail(queue), handling = NotHandling, central' = central,
         handling' \in Requests => Head(queue) \in Requests
  PROVE  LeaversFirst'
<1>1. /\ Head(queue) = queue[1] /\ 1 \in DOMAIN queue
      /\ \A i \in DOMAIN queue' : i + 1 \in DOMAIN queue /\ queue'[i] = queue[i + 1]
      /\ \A i \in DOMAIN queue : i # 1 => i - 1 \in DOMAIN queue'
      /\ DOMAIN queue \subseteq Nat \ {0} /\ DOMAIN queue' \subseteq Nat \ {0}
  BY QueueSteps, QueueIndices DEF BleTypeOK
<1>2. ASSUME NEW i \in Nat, DisconnectBehind(i + 1)
      PROVE  \E j \in DOMAIN queue' : j > i /\ queue'[j].evt = "DISCONNECT"
  <2>1. PICK j \in DOMAIN queue : j > i + 1 /\ queue[j].evt = "DISCONNECT"
    BY <1>2 DEF DisconnectBehind
  <2>2. j \in Nat /\ j # 1 /\ j - 1 > i /\ (j - 1) + 1 = j
    BY <1>1, <2>1
  <2>3. j - 1 \in DOMAIN queue' /\ queue'[j - 1] = queue[j]
    BY <1>1, <2>2
  <2>4. QED
    BY <2>1, <2>2, <2>3
<1>3. ASSUME NEW i \in DOMAIN queue', queue'[i] \in Requests
      PROVE  \E j \in DOMAIN queue' : j > i /\ queue'[j].evt = "DISCONNECT"
  <2>1. i \in Nat /\ i + 1 \in DOMAIN queue /\ queue[i + 1] \in Requests
    BY <1>1, <1>3
  <2>2. QED
    BY <1>2, <2>1 DEF LeaversFirst
<1>4. ASSUME handling' \in Requests
      PROVE  \E j \in DOMAIN queue' : j > 0 /\ queue'[j].evt = "DISCONNECT"
  <2>1. DisconnectBehind(0 + 1)
    BY <1>1, <1>4 DEF LeaversFirst
  <2>2. QED
    BY <1>2, <2>1
<1>5. QED
  BY <1>3, <1>4 DEF LeaversFirst, DisconnectBehind

(* When the gateway is on the air no request is left.                      *)
LEMMA NoneLeftOnAir ==
  ASSUME BleInv, adv, central = NoCentral
  PROVE  Unanswered \cap Requests = {}
<1>1. Turns = {}
  BY OneTurn DEF BleInv, HasTurn, Places
<1>2. \A i : ~ DisconnectBehind(i)
  BY <1>1 DEF DisconnectBehind, Turns, TurnKinds
<1>3. QED
  BY <1>2 DEF BleInv, LeaversFirst, Unanswered

(* A post, and a take, keep the first two.                                 *)
LEMMA PostKeeps ==
  ASSUME BleInv, NEW e \in StackEvents, Post(e),
         UNCHANGED <<handling, central, awaiting>>
  PROVE  AnswerToAsker' /\ LeaversFirst' /\ AwaitedIsLeft'
<1> USE DEF BleInv
<1>1. e \in Events /\ e \notin Requests
  BY Kinds DEF Events, StackEvents
<1>2. Unanswered' \cap Requests = Unanswered \cap Requests
  BY <1>1, LeftAfterPost
<1>3. AnswerToAsker'
  BY <1>2 DEF AnswerToAsker
<1>4. AwaitedIsLeft'
  BY <1>2 DEF AwaitedIsLeft
<1>5. LeaversFirst'
  BY BehindAfterPost DEF LeaversFirst
<1>6. QED
  BY <1>3, <1>4, <1>5

LEMMA TakeKeeps ==
  ASSUME BleInv, queue # <<>>, queue' = Tail(queue), handling = NotHandling,
         central' = central, handling' \in {handling, Head(queue)},
         handling' \in Requests => Head(queue) \in Requests
  PROVE  /\ AnswerToAsker' /\ LeaversFirst'
         /\ \A r \in Unanswered \cap Requests :
              r # Head(queue) => r \in Unanswered'
         /\ handling' \in Unanswered'
<1> USE DEF BleInv
<1>1. Unanswered' = {queue'[i] : i \in DOMAIN queue'} \cup {handling'}
  BY DEF Unanswered
<1>2. /\ {queue'[i] : i \in DOMAIN queue'} \subseteq Unanswered
      /\ Head(queue) \in Unanswered
      /\ \A r \in Unanswered \cap Requests :
              r # Head(queue) => r \in {queue'[i] : i \in DOMAIN queue'}
  BY LeftAfterTake
<1>3. handling \in Unanswered
  BY DEF Unanswered
<1>4. Unanswered' \subseteq Unanswered
  BY <1>1, <1>2, <1>3
<1>5. AnswerToAsker'
  BY <1>4 DEF AnswerToAsker
<1>6. LeaversFirst'
  BY BehindAfterTake DEF LeaversFirst
<1>7. QED
  BY <1>1, <1>2, <1>5, <1>6

LEMMA NextAsk == BleInv /\ BleNext => AnswerToAsker' /\ LeaversFirst' /\ AwaitedIsLeft'
<1> SUFFICES ASSUME BleInv, BleNext
             PROVE  AnswerToAsker' /\ LeaversFirst' /\ AwaitedIsLeft'
  OBVIOUS
<1> USE DEF setupVars, linkVars
<1>k. \A kind \in TurnKinds \cup {"CREATE"} : [evt |-> kind] \in StackEvents
  BY DEF StackEvents
<1>s. ASSUME UNCHANGED <<queue, handling, central, awaiting>>
      PROVE  AnswerToAsker' /\ LeaversFirst' /\ AwaitedIsLeft'
  BY <1>s DEF BleInv, AnswerToAsker, LeaversFirst, AwaitedIsLeft, Unanswered,
              DisconnectBehind
<1>1. CASE Ble_init
  BY <1>1, <1>k, <1>s, PostKeeps DEF Ble_init, TurnKinds
<1>2. CASE ConfigAdvData
  BY <1>2, <1>k, <1>s, PostKeeps DEF ConfigAdvData, TurnKinds
<1>3. CASE StartAdvertising
  BY <1>3, <1>s DEF StartAdvertising
<1>4. CASE CreateService
  BY <1>4, <1>k, PostKeeps DEF CreateService
<1>5. ASSUME NEW c \in Centrals, Connect(c)
      PROVE  AnswerToAsker' /\ LeaversFirst' /\ AwaitedIsLeft'
  <2>1. Unanswered \cap Requests = {}
    BY <1>5, NoneLeftOnAir DEF Connect
  <2>2. /\ Unanswered' = Unanswered
        /\ central' = c /\ c # NoCentral /\ awaiting' = awaiting
        /\ awaiting = Nothing
    BY <1>5, CentralAssumption DEF Connect, Unanswered, BleInv, AwaitedIsLeft
  <2>3. QED
    BY <2>1, <2>2 DEF AnswerToAsker, LeaversFirst, AwaitedIsLeft
<1>6. CASE Disconnect
  <2>1. /\ [evt |-> "DISCONNECT"] \in Events /\ [evt |-> "DISCONNECT"] \notin Requests
        /\ [evt |-> "DISCONNECT"].evt = "DISCONNECT"
        /\ Post([evt |-> "DISCONNECT"]) /\ central' = NoCentral
        /\ awaiting' = Nothing /\ handling' = handling
    BY <1>6, Kinds DEF Disconnect, TurnKinds
  <2>2. /\ queue' = Append(queue, [evt |-> "DISCONNECT"])
        /\ DOMAIN queue' = DOMAIN queue \cup {Len(queue) + 1}
        /\ queue'[Len(queue) + 1] = [evt |-> "DISCONNECT"]
    BY <2>1, QueueSteps DEF Post, BleInv, BleTypeOK
  <2>3. /\ \A i \in DOMAIN queue : Len(queue) + 1 > i
        /\ Len(queue) \in Nat
    BY QueueIndices DEF BleInv, BleTypeOK
  <2>4. LeaversFirst'
    BY <2>1, <2>2, <2>3 DEF LeaversFirst, DisconnectBehind
  <2>5. QED
    BY <2>1, <2>4 DEF AnswerToAsker, AwaitedIsLeft
<1>7. ASSUME NEW kind \in RequestKinds, Request(kind) \/ WriteCommand(kind)
      PROVE  AnswerToAsker' /\ LeaversFirst' /\ AwaitedIsLeft'
  <2>1. PICK n \in BOOLEAN :
          /\ Post([evt |-> kind, from |-> central, need_rsp |-> n])
          /\ \/ n = TRUE /\ awaiting' = kind
             \/ awaiting' = awaiting
    BY <1>7 DEF Request, WriteCommand
  <2>2. /\ central \in Centrals /\ central # NoCentral
        /\ central' = central /\ handling' = handling
    BY <1>7 DEF Request, WriteCommand, BleInv, BleTypeOK
  <2> DEFINE e == [evt |-> kind, from |-> central, need_rsp |-> n]
  <2>3. e \in Requests /\ e \in Events /\ e.from = central /\ e.evt = kind
        /\ e.need_rsp = n
    BY <2>2, Kinds DEF Events
  <2>4. Post(e)
    BY <2>1
  <2> HIDE DEF e
  <2>5. /\ Unanswered \cap Requests \subseteq Unanswered' \cap Requests
        /\ Unanswered' \cap Requests \subseteq (Unanswered \cap Requests) \cup {e}
        /\ e \in Unanswered'
    BY <2>2, <2>3, <2>4, LeftAfterPost DEF BleInv
  <2>6. AnswerToAsker'
    BY <2>2, <2>3, <2>5 DEF BleInv, AnswerToAsker
  <2>7. LeaversFirst'
    BY <2>2 DEF LeaversFirst
  <2>8. AwaitedIsLeft'
    <3>1. CASE n = TRUE /\ awaiting' = kind
      BY <3>1, <2>2, <2>3, <2>5 DEF AwaitedIsLeft
    <3>2. CASE awaiting' = awaiting
      BY <3>2, <2>2, <2>5 DEF BleInv, AwaitedIsLeft
    <3>3. QED
      BY <2>1, <3>1, <3>2
  <2>9. QED
    BY <2>6, <2>7, <2>8
<1>9. CASE HandleReg \/ HandleAdvDataSet \/ HandleCreate \/ HandleDisconnect
           \/ HandlePrepared
  <2>1. /\ queue # <<>> /\ queue' = Tail(queue) /\ handling = NotHandling
        /\ UNCHANGED <<handling, central, awaiting>>
        /\ Head(queue).evt \in TurnKinds \cup {"CREATE", "PREP"}
    BY <1>9 DEF HandleReg, HandleAdvDataSet, HandleCreate, HandleDisconnect,
                HandlePrepared, Handle, TurnKinds
  <2>2. handling' \notin Requests
    BY <2>1, Kinds
  <2>3. /\ AnswerToAsker' /\ LeaversFirst'
        /\ \A r \in Unanswered \cap Requests :
              r # Head(queue) => r \in Unanswered'
    BY <2>1, <2>2, TakeKeeps
  <2>4. ASSUME NEW r \in Unanswered \cap Requests, r.evt = awaiting,
               awaiting \notin {Nothing, "PREP"}
        PROVE  r # Head(queue)
    BY <2>1, <2>4, Kinds DEF TurnKinds, RequestKinds
  <2>5. AwaitedIsLeft'
    BY <2>1, <2>3, <2>4 DEF BleInv, AwaitedIsLeft
  <2>6. QED
    BY <2>3, <2>5
<1>13. CASE HandleRequest
  <2>1. /\ queue # <<>> /\ queue' = Tail(queue) /\ handling = NotHandling
        /\ UNCHANGED <<handling, central>>
        /\ awaiting' = IF Head(queue).need_rsp /\ central = Head(queue).from
                       THEN Nothing ELSE awaiting
    BY <1>13 DEF HandleRequest, Handle, Respond
  <2>2. handling' \notin Requests
    BY <2>1, Kinds
  <2>3. /\ AnswerToAsker' /\ LeaversFirst'
        /\ \A r \in Unanswered \cap Requests :
              r # Head(queue) => r \in Unanswered'
    BY <2>1, <2>2, TakeKeeps
  <2>4. AwaitedIsLeft'
    <3>1. CASE Head(queue).need_rsp /\ central = Head(queue).from
      BY <2>1, <3>1 DEF AwaitedIsLeft
    <3>2. CASE ~ (Head(queue).need_rsp /\ central = Head(queue).from)
      BY <2>1, <2>3, <3>2 DEF BleInv, AwaitedIsLeft
    <3>3. QED
      BY <3>1, <3>2
  <2>5. QED
    BY <2>3, <2>4
<1>15. CASE HandleOtaWrite
  <2>1. /\ queue # <<>> /\ queue' = Tail(queue) /\ handling = NotHandling
        /\ handling' = Head(queue) /\ UNCHANGED <<central, awaiting>>
    BY <1>15 DEF HandleOtaWrite, Handle
  <2>2. /\ AnswerToAsker' /\ LeaversFirst'
        /\ \A r \in Unanswered \cap Requests :
              r # Head(queue) => r \in Unanswered'
        /\ handling' \in Unanswered'
    BY <2>1, TakeKeeps
  <2>3. AwaitedIsLeft'
    BY <2>1, <2>2 DEF BleInv, AwaitedIsLeft
  <2>4. QED
    BY <2>2, <2>3
<1>16. CASE UpgradeReturns
  <2>1. /\ handling' = NotHandling /\ UNCHANGED <<queue, central>>
        /\ awaiting' = IF handling.need_rsp /\ central = handling.from
                       THEN Nothing ELSE awaiting
    BY <1>16 DEF UpgradeReturns, Respond
  <2>2. /\ Unanswered' = {queue[i] : i \in DOMAIN queue} \cup {NotHandling}
        /\ NotHandling \notin Requests
    BY <2>1, Kinds DEF Unanswered
  <2>3. AnswerToAsker'
    BY <2>1, <2>2 DEF BleInv, AnswerToAsker, Unanswered
  <2>4. LeaversFirst'
    BY <2>1, <2>2 DEF BleInv, LeaversFirst, DisconnectBehind
  <2>5. AwaitedIsLeft'
    <3>1. CASE handling.need_rsp /\ central = handling.from
      BY <2>1, <3>1 DEF AwaitedIsLeft
    <3>2. CASE ~ (handling.need_rsp /\ central = handling.from)
      BY <2>1, <2>2, <3>2 DEF BleInv, AwaitedIsLeft, Unanswered
    <3>3. QED
      BY <3>1, <3>2
  <2>6. QED
    BY <2>3, <2>4, <2>5
<1>17. CASE Restart
  <2>1. /\ queue' = <<>> /\ DOMAIN queue' = {} /\ handling' = NotHandling
        /\ central' = NoCentral /\ awaiting' = Nothing
    BY <1>17 DEF Restart
  <2>2. QED
    BY <2>1, Kinds DEF AnswerToAsker, LeaversFirst, AwaitedIsLeft
<1>18. QED
  BY <1>1, <1>2, <1>3, <1>4, <1>5, <1>6, <1>7, <1>9, <1>13, <1>15, <1>16, <1>17
  DEF BleNext, Stack, Central, Handler, RequestKinds

LEMMA NextBleInv == BleInv /\ [BleNext]_bleVars => BleInv'
<1> SUFFICES ASSUME BleInv, [BleNext]_bleVars PROVE BleInv'
  OBVIOUS
<1>1. CASE BleNext
  BY <1>1, NextBleType, NextTurn, NextAsk DEF BleInv
<1>2. CASE UNCHANGED bleVars
  <2>1. UNCHANGED <<stack, queue, handling, work, adv_config_done, adv, failed,
                    service, central, awaiting>>
    BY <1>2 DEF bleVars, setupVars, linkVars
  <2>2. BleTypeOK'
    BY <2>1 DEF BleInv, BleTypeOK
  <2>3. AdvertisingRemembered'
    BY <2>1, TurnStays DEF BleInv
  <2>4. AnswerToAsker' /\ LeaversFirst' /\ AwaitedIsLeft'
    BY <2>1 DEF BleInv, AnswerToAsker, LeaversFirst, AwaitedIsLeft, Unanswered,
                DisconnectBehind
  <2>5. QED
    BY <2>2, <2>3, <2>4 DEF BleInv
<1>3. QED
  BY <1>1, <1>2

(* BleInv holds in every state of the BLE server.                          *)
THEOREM BleInvHolds == BleSpec => []BleInv
<1>1. QED
  BY InitBleInv, NextBleInv, PTL DEF BleSpec

(* However long upgrades take and whatever the central does meanwhile,     *)
(* exactly one place has the turn to make the gateway visible.             *)
THEOREM NeverForgotten == BleSpec => []AdvertisingRemembered
<1>1. BleInv => AdvertisingRemembered
  BY DEF BleInv
<1>2. QED
  BY <1>1, BleInvHolds, PTL

(* No answer reaches a central that did not ask (BLE.c:140-143).           *)
THEOREM AnswersReachAsker == BleSpec => []AnswerToAsker
<1>1. BleInv => AnswerToAsker
  BY DEF BleInv
<1>2. QED
  BY <1>1, BleInvHolds, PTL

(* What a central waits for is still to be handled, or being handled.      *)
THEOREM AwaitedNotLost == BleSpec => []AwaitedIsLeft
<1>1. BleInv => AwaitedIsLeft
  BY DEF BleInv
<1>2. QED
  BY <1>1, BleInvHolds, PTL

(***************************************************************************)
(* Gateway implements Ble and Ota.                                         *)
(***************************************************************************)

(* A step of the gateway is a step of the BLE server, or one it cannot see.*)
LEMMA GatewayStepIsBle == [GatewayNext]_gatewayVars => [BleNext]_bleVars
<1> SUFFICES ASSUME [GatewayNext]_gatewayVars PROVE [BleNext]_bleVars
  OBVIOUS
<1>1. CASE BleStart \/ BleStack \/ BleCentral \/ BleHandler
  BY <1>1 DEF BleStart, BleStack, BleCentral, BleHandler, BleOnly, BleNext
<1>2. CASE BleOta
  BY <1>2 DEF BleOta, BleNext
<1>3. CASE LogOpen \/ LogStep
  BY <1>3 DEF LogOpen, LogStep, LogFails, LogHeaders, LogOta, LogEnd
<1>4. CASE BleUpgrade \/ HttpUpgrade \/ BootUp \/ PowerLoss
  <2>1. Restart \/ UpgradeReturns \/ UNCHANGED bleVars
    BY <1>4 DEF BleUpgrade, HttpUpgrade, BootUp, PowerLoss, UpgradeStep
  <2>2. QED
    BY <2>1 DEF BleNext
<1>5. CASE UNCHANGED gatewayVars \/ Servers
  BY <1>5 DEF gatewayVars, Servers
<1>6. QED
  BY <1>1, <1>2, <1>3, <1>4, <1>5 DEF GatewayNext

(* The gateway with its upgrades behaves as the BLE server says.           *)
THEOREM GatewayImplementsBle == GatewaySpec => BleSpec
<1>1. GatewayInit => BleInit
  BY DEF GatewayInit
<1>2. QED
  BY <1>1, GatewayStepIsBle, PTL DEF GatewaySpec, BleSpec

(* A step of the gateway is a step of the upgrade and its start-up, or one *)
(* they cannot see.                                                        *)
LEMMA GatewayStepIsOta == [GatewayNext]_gatewayVars => [O!Next]_(O!vars)
<1> SUFFICES ASSUME [GatewayNext]_gatewayVars PROVE [O!Next]_(O!vars)
  OBVIOUS
<1>0. otaVars = O!vars
  BY DEF otaVars, O!vars
<1>v. UNCHANGED otaVars => UNCHANGED O!vars
  BY DEF otaVars, O!vars
<1>1. CASE BleStart \/ BleStack \/ BleCentral \/ BleHandler
  BY <1>1, <1>v DEF BleStart, BleStack, BleCentral, BleHandler, BleOnly
<1>2. CASE BleOta
  BY <1>2 DEF BleOta, O!Next
<1>3. CASE LogOpen \/ LogStep
  BY <1>3, <1>v DEF LogOpen, LogStep, LogFails, LogHeaders, LogOta, LogEnd, O!Next
<1>4. CASE BleUpgrade \/ HttpUpgrade \/ BootUp \/ PowerLoss
  BY <1>4 DEF BleUpgrade, HttpUpgrade, BootUp, PowerLoss, UpgradeStep, O!Next
<1>5. CASE Servers
  BY <1>5 DEF Servers, O!Next
<1>6. CASE UNCHANGED gatewayVars
  BY <1>6, <1>v DEF gatewayVars
<1>7. QED
  BY <1>1, <1>2, <1>3, <1>4, <1>5, <1>6 DEF GatewayNext

(* The upgrades the gateway starts are those of Ota: what is shown of Ota  *)
(* for two tasks holds of the gateway.                                     *)
THEOREM GatewayImplementsOta == GatewaySpec => O!Spec
<1>1. GatewayInit => O!Init
  BY DEF GatewayInit
<1>2. QED
  BY <1>1, GatewayStepIsOta, PTL DEF GatewaySpec, O!Spec

(***************************************************************************)
(* The callbacks' task and the log's task are in an upgrade exactly while  *)
(* the upgrade is theirs, and the BLE server runs only on an application   *)
(* that has passed check_and_handle_rollback.                              *)
(***************************************************************************)
Callers == {"ble", "http"}
OneCallerInv ==
  /\ OneCaller
  /\ pc \in [Callers -> {"idle", "perform", "finish", "restart"}]
  /\ \A t \in Callers : pc[t] # "idle" => stage = "run"

(* What an upgrade, and a start-up, do to the tasks.                       *)
LEMMA TaskStepPc ==
  ASSUME OneCallerInv, NEW t \in Callers, O!TaskStep(t)
  PROVE  /\ pc[t] # "idle"
         /\ \/ stage' = "off" /\ pc' = [u \in Callers |-> "idle"]
            \/ /\ stage' = stage
               /\ pc' \in [Callers -> {"idle", "perform", "finish", "restart"}]
               /\ \A u \in Callers : u # t => pc'[u] = pc[u]
  BY DEF OneCallerInv, Callers, O!TaskStep, O!OtaPerformNothing, O!Starved,
         O!OtaPerformChunk, O!OtaPerformDone, O!OtaPerformFails, O!OtaFinish,
         O!OtaRestart, O!Reset, O!vars

LEMMA StartupPc ==
  ASSUME OneCallerInv, O!Startup
  PROVE  /\ stage # "run"
         /\ \/ stage' = "off" /\ pc' = [u \in Callers |-> "idle"]
            \/ stage' \in {"check", "run"} /\ pc' = pc
  BY DEF OneCallerInv, Callers, O!Startup, O!Boot, O!CheckNotPending,
         O!CheckMarkValid, O!CheckMarkInvalid, O!CrashEarly, O!Reset, O!taskVars

(* What ends in a reset leaves no caller.                                  *)
LEMMA AfterReset ==
  ASSUME Restart, log' = "idle", pc' = [u \in Callers |-> "idle"]
  PROVE  OneCallerInv'
  BY DEF Restart, OneCallerInv, OneCaller, Callers

LEMMA NextOneCaller == OneCallerInv /\ [GatewayNext]_gatewayVars => OneCallerInv'
<1> SUFFICES ASSUME OneCallerInv, [GatewayNext]_gatewayVars PROVE OneCallerInv'
  OBVIOUS
<1>i. /\ (handling # NotHandling) <=> pc["ble"] # "idle"
      /\ (log = "upgrade") <=> pc["http"] # "idle"
      /\ stack = "on" => stage = "run"
      /\ pc \in [Callers -> {"idle", "perform", "finish", "restart"}]
      /\ pc["ble"] # "idle" => stage = "run"
      /\ pc["http"] # "idle" => stage = "run"
  BY DEF OneCallerInv, OneCaller, Callers
<1>1. CASE BleStart \/ BleStack \/ BleCentral \/ BleHandler
  <2>1. handling' = handling
    BY <1>1 DEF BleStart, BleStack, BleCentral, BleHandler, BleOnly, Handler,
       HandleReg, HandleAdvDataSet, HandleCreate, HandleDisconnect, HandleRequest,
       HandlePrepared, Stack, ConfigAdvData, StartAdvertising, CreateService,
       Central, Connect, Disconnect, Request, WriteCommand, Ble_init
  <2>2. stage = "run" /\ stage' = stage /\ pc' = pc /\ log' = log
    BY <1>1 DEF BleStart, BleStack, BleCentral, BleHandler, BleOnly, otaVars, logVars
  <2>3. QED
    BY <1>i, <2>1, <2>2 DEF OneCallerInv, OneCaller, Callers
<1>2. CASE BleOta
  <2>1. /\ handling' = Head(queue) /\ Head(queue).evt = "OTA" /\ stack' = stack
        /\ log' = log
    BY <1>2 DEF BleOta, HandleOtaWrite, Handle, logVars
  <2>2. handling' # NotHandling
    BY <2>1 DEF NotHandling
  <2>3. stage = "run" /\ stage' = stage /\ pc' = [pc EXCEPT !["ble"] = "perform"]
    BY <1>2 DEF BleOta, O!OtaBegin
  <2>4. QED
    BY <1>i, <2>1, <2>2, <2>3 DEF OneCallerInv, OneCaller, Callers
<1>3. CASE LogOta
  <2>1. /\ log' = "upgrade" /\ handling' = handling /\ stack' = stack
        /\ stage = "run" /\ stage' = stage /\ pc' = [pc EXCEPT !["http"] = "perform"]
    BY <1>3 DEF LogOta, O!OtaBegin, bleVars
  <2>2. QED
    BY <1>i, <2>1 DEF OneCallerInv, OneCaller, Callers
<1>4. CASE LogOpen \/ LogFails \/ LogHeaders \/ LogEnd
  <2>1. /\ log # "upgrade" /\ log' # "upgrade" /\ handling' = handling
        /\ stack' = stack /\ stage' = stage /\ pc' = pc
    BY <1>4 DEF LogOpen, LogFails, LogHeaders, LogEnd, bleVars, otaVars
  <2>2. QED
    BY <1>i, <2>1 DEF OneCallerInv, OneCaller, Callers
<1>5. CASE BleUpgrade
  <2>1. /\ pc["ble"] # "idle" /\ stage = "run"
        /\ \/ stage' = "off" /\ pc' = [u \in Callers |-> "idle"]
           \/ /\ stage' = stage
              /\ pc' \in [Callers -> {"idle", "perform", "finish", "restart"}]
              /\ pc'["http"] = pc["http"]
    BY <1>5, <1>i, TaskStepPc DEF BleUpgrade, UpgradeStep, Callers
  <2>2. CASE stage' = "off"
    BY <1>5, <2>1, <2>2, AfterReset DEF BleUpgrade, UpgradeStep
  <2>3. CASE stage' # "off"
    <3>1. /\ IF pc'["ble"] = "idle" THEN UpgradeReturns ELSE UNCHANGED bleVars
          /\ log' = log
      BY <1>5, <2>1, <2>3 DEF BleUpgrade, UpgradeStep, Returns
    <3>2. /\ stack' = stack
          /\ handling' = IF pc'["ble"] = "idle" THEN NotHandling ELSE handling
      BY <3>1 DEF UpgradeReturns, bleVars
    <3>3. QED
      BY <1>i, <2>1, <2>3, <3>1, <3>2 DEF OneCallerInv, OneCaller, Callers
  <2>4. QED
    BY <2>2, <2>3
<1>6. CASE HttpUpgrade
  <2>1. /\ pc["http"] # "idle" /\ stage = "run"
        /\ \/ stage' = "off" /\ pc' = [u \in Callers |-> "idle"]
           \/ /\ stage' = stage
              /\ pc' \in [Callers -> {"idle", "perform", "finish", "restart"}]
              /\ pc'["ble"] = pc["ble"]
    BY <1>6, <1>i, TaskStepPc DEF HttpUpgrade, UpgradeStep, Callers
  <2>2. CASE stage' = "off"
    BY <1>6, <2>1, <2>2, AfterReset DEF HttpUpgrade, UpgradeStep
  <2>3. CASE stage' # "off"
    <3>1. /\ UNCHANGED bleVars
          /\ log' = IF pc'["http"] = "idle" THEN "read" ELSE log
      BY <1>6, <2>1, <2>3 DEF HttpUpgrade, UpgradeStep, Returns
    <3>2. stack' = stack /\ handling' = handling
      BY <3>1 DEF bleVars
    <3>3. QED
      BY <1>i, <2>1, <2>3, <3>1, <3>2 DEF OneCallerInv, OneCaller, Callers
  <2>4. QED
    BY <2>2, <2>3
<1>7. CASE BootUp
  <2>1. /\ stage # "run"
        /\ \/ stage' = "off" /\ pc' = [u \in Callers |-> "idle"]
           \/ stage' \in {"check", "run"} /\ pc' = pc
    BY <1>7, StartupPc DEF BootUp, UpgradeStep
  <2>2. CASE stage' = "off"
    BY <1>7, <2>1, <2>2, AfterReset DEF BootUp, UpgradeStep
  <2>3. CASE stage' # "off"
    <3>1. UNCHANGED bleVars /\ log' = log
      BY <1>7, <2>1, <2>3 DEF BootUp, UpgradeStep, Returns
    <3>2. stack' = stack /\ handling' = handling /\ stack # "on"
      BY <1>i, <2>1, <3>1 DEF bleVars
    <3>3. QED
      BY <1>i, <2>1, <2>3, <3>1, <3>2 DEF OneCallerInv, OneCaller, Callers
  <2>4. QED
    BY <2>2, <2>3
<1>8. CASE PowerLoss
  <2>1. stage' = "off" /\ pc' = [u \in Callers |-> "idle"]
    BY <1>8 DEF PowerLoss, UpgradeStep, O!PowerLoss, O!Reset, Callers
  <2>2. QED
    BY <1>8, <2>1, AfterReset DEF PowerLoss, UpgradeStep
<1>9. CASE UNCHANGED gatewayVars \/ Servers
  <2>1. UNCHANGED <<handling, stack, log, stage, pc>>
    BY <1>9 DEF gatewayVars, bleVars, otaVars, logVars, Servers, O!Arrive
  <2>2. QED
    BY <1>i, <2>1 DEF OneCallerInv, OneCaller, Callers
<1>10. QED
  BY <1>1, <1>2, <1>3, <1>4, <1>5, <1>6, <1>7, <1>8, <1>9 DEF GatewayNext, LogStep

(* In the gateway, each upgrade has the caller it returns to.              *)
THEOREM UpgradesHaveCallers == GatewaySpec => []OneCaller
<1>1. GatewayInit => OneCallerInv
  BY DEF GatewayInit, BleInit, O!Init, OneCallerInv, OneCaller, Callers
<1>2. OneCallerInv => OneCaller
  BY DEF OneCallerInv
<1>3. QED
  BY <1>1, <1>2, NextOneCaller, PTL DEF GatewaySpec

(* So the gateway's visibility and its answers are safe with real upgrades.*)
THEOREM GatewaySafe == GatewaySpec => [](AdvertisingRemembered /\ AnswerToAsker)
<1>1. BleInv => AdvertisingRemembered /\ AnswerToAsker
  BY DEF BleInv
<1>2. QED
  BY <1>1, GatewayImplementsBle, BleInvHolds, PTL

(***************************************************************************)
(* What Ota_proofs shows of upgrades by any tasks, for those of the        *)
(* gateway.                                                                *)
(***************************************************************************)
P == INSTANCE Ota_proofs WITH Tasks <- {"ble", "http"}

(* Ota_proofs speaks of the same upgrade.                                  *)
LEMMA SameState ==
  /\ O!Init <=> P!Init
  /\ O!NeverBricked <=> P!NeverBricked
  /\ O!RunningImageIntact <=> P!RunningImageIntact
<1> USE DEF O!Slots, P!Slots, O!Off, P!Off, O!Erased, P!Erased, O!Other, P!Other,
            O!Image, P!Image, O!Whole, P!Whole, O!Working, P!Working,
            O!Confirmed, P!Confirmed, O!OnTrial, P!OnTrial
<1>1. O!Init <=> P!Init
  BY DEF O!Init, P!Init
<1>2. O!NeverBricked <=> P!NeverBricked
  BY DEF O!NeverBricked, P!NeverBricked
<1>3. O!RunningImageIntact <=> P!RunningImageIntact
  BY DEF O!RunningImageIntact, P!RunningImageIntact
<1>4. QED
  BY <1>1, <1>2, <1>3

LEMMA SameStep == [O!Next]_(O!vars) => [P!Next]_(P!vars)
<1> USE DEF O!Slots, P!Slots, O!Off, P!Off, O!Other, P!Other, O!Image, P!Image,
            O!Whole, P!Whole, O!Working, P!Working, O!Target, P!Target,
            O!taskVars, P!taskVars, O!otaData, P!otaData, O!Reset, P!Reset,
            O!MayWrite, P!MayWrite
<1>1. O!Boot => P!Boot
  BY DEF O!Boot, P!Boot
<1>2. O!PowerLoss => P!PowerLoss
  BY DEF O!PowerLoss, P!PowerLoss
<1>3. \A t : O!OtaBegin(t) => P!OtaBegin(t)
  BY DEF O!OtaBegin, P!OtaBegin
<1>4. \A t : O!TaskStep(t) => P!TaskStep(t)
  BY DEF O!TaskStep, P!TaskStep, O!OtaPerformNothing, P!OtaPerformNothing,
         O!Starved, P!Starved, O!vars, P!vars, O!OtaPerformChunk,
         P!OtaPerformChunk, O!OtaPerformDone, P!OtaPerformDone, O!OtaPerformFails,
         P!OtaPerformFails, O!OtaFinish, P!OtaFinish, O!OtaRestart, P!OtaRestart
<1>5. O!Startup => P!Startup
  BY <1>1 DEF O!Startup, P!Startup, O!CheckNotPending, P!CheckNotPending,
              O!CheckMarkValid, P!CheckMarkValid, O!CheckMarkInvalid,
              P!CheckMarkInvalid, O!CrashEarly, P!CrashEarly
<1>6. \A t : O!Arrive(t) => P!Arrive(t)
  BY DEF O!Arrive, P!Arrive
<1>7. O!Next => P!Next
  BY <1>2, <1>3, <1>4, <1>5, <1>6 DEF O!Next, P!Next
<1>8. UNCHANGED O!vars => UNCHANGED P!vars
  BY DEF O!vars, P!vars
<1>9. QED
  BY <1>7, <1>8

LEMMA GatewayImplementsProved == GatewaySpec => P!Spec
<1>1. GatewayInit => P!Init
  BY SameState DEF GatewayInit
<1>2. [GatewayNext]_gatewayVars => [P!Next]_(P!vars)
  BY SameStep, GatewayStepIsOta
<1>3. QED
  BY <1>1, <1>2, PTL DEF GatewaySpec, P!Spec

(* However BLE writes, log texts, downloads, failures and power losses     *)
(* interleave, the gateway keeps an image that works, confirmed or to fall *)
(* back on, and the application that runs is not overwritten.              *)
THEOREM GatewayNeverBricked ==
  GatewaySpec => [](O!NeverBricked /\ O!RunningImageIntact)
<1>1. P!Erased \notin Images
  BY ErasedAssumption DEF O!Erased, P!Erased
<1>2. P!Spec => []P!NeverBricked
  BY <1>1, P!NeverBrickedHolds, ImagesAssumption, ChunksAssumption, ResetsAssumption
<1>3. P!Spec => []P!RunningImageIntact
  BY <1>1, P!RunningImageIntactHolds, ImagesAssumption, ChunksAssumption,
     ResetsAssumption
<1>4. P!NeverBricked /\ P!RunningImageIntact => O!NeverBricked /\ O!RunningImageIntact
  BY SameState
<1>5. QED
  BY <1>2, <1>3, <1>4, GatewayImplementsProved, PTL

(* In the gateway, too, an image is trusted only after it has run, or in   *)
(* falling back to it from one on trial, and then it works.                *)
THEOREM GatewayTrustIsEarned == GatewaySpec => O!TrustIsEarned
<1> DEFINE RuleO == \A s \in O!Slots : ~ O!Trusted(s) /\ O!Trusted(s)' =>
                      /\ O!Working(s)
                      /\ stage # "run"
                      /\ running = s \/ (boot = O!Other(s) /\ O!OnTrial(boot))
           RuleP == \A s \in P!Slots : ~ P!Trusted(s) /\ P!Trusted(s)' =>
                      /\ P!Working(s)
                      /\ stage # "run"
                      /\ running = s \/ (boot = P!Other(s) /\ P!OnTrial(boot))
<1>1. P!Erased \notin Images
  BY ErasedAssumption DEF O!Erased, P!Erased
<1>2. P!Spec => P!TrustIsEarned
  BY <1>1, P!TrustIsEarnedHolds, ImagesAssumption, ChunksAssumption, ResetsAssumption
<1>3. [RuleP]_(P!vars) => [RuleO]_(O!vars)
  <2>1. RuleP => RuleO
    BY DEF O!Slots, P!Slots, O!Trusted, P!Trusted, O!Confirmed, P!Confirmed,
           O!Working, P!Working, O!Other, P!Other, O!OnTrial, P!OnTrial
  <2>2. UNCHANGED P!vars => UNCHANGED O!vars
    BY DEF O!vars, P!vars
  <2>3. QED
    BY <2>1, <2>2
<1>4. QED
  BY <1>2, <1>3, GatewayImplementsProved, PTL DEF O!TrustIsEarned, P!TrustIsEarned

(* And the image the gateway can come back to changes only into a          *)
(* candidate that works.                                                   *)
THEOREM GatewayImplementsTrialUpdate == GatewaySpec => O!ImplementsTrialUpdate
<1>1. P!Erased \notin Images
  BY ErasedAssumption DEF O!Erased, P!Erased
<1>2. P!Spec => P!ImplementsTrialUpdate
  BY <1>1, P!OtaImplementsTrialUpdate, ImagesAssumption, ChunksAssumption,
     ResetsAssumption
<1> USE DEF O!Kept, P!Kept, O!Image, P!Image, O!Confirmed, P!Confirmed,
            O!Other, P!Other, O!OnTrial, P!OnTrial
<1>3. P!Update!Init => O!Update!Init
  BY DEF O!Update!Init, P!Update!Init
<1>4. [P!Update!Next]_(P!Update!vars) => [O!Update!Next]_(O!Update!vars)
  <2>1. P!Update!Next => O!Update!Next
    BY DEF O!Update!Next, P!Update!Next, O!Update!Install, P!Update!Install,
           O!Update!Drop, P!Update!Drop, O!Update!Accept, P!Update!Accept
  <2>2. UNCHANGED P!Update!vars => UNCHANGED O!Update!vars
    BY DEF O!Update!vars, P!Update!vars
  <2>3. QED
    BY <2>1, <2>2
<1>5. QED
  BY <1>2, <1>3, <1>4, GatewayImplementsProved, PTL
     DEF O!ImplementsTrialUpdate, P!ImplementsTrialUpdate, O!Update!Spec,
         P!Update!Spec
=============================================================================
