-------------------------- MODULE NetManager_proofs --------------------------
(* Proofs about NetManager, for any number of changes of the cable and of  *)
(* the access point, so for event queues of any length, and any number of  *)
(* failures of esp_wifi_stop and esp_wifi_start.                           *)
EXTENDS NetManager, FiniteSetTheorems, TLAPS

(* Taking the first event of a queue, and posting one after it.            *)
LEMMA QueueSteps ==
  ASSUME NEW S, NEW q \in Seq(S), NEW e \in S
  PROVE  /\ Append(q, e) \in Seq(S)
         /\ \E i \in DOMAIN Append(q, e) : Append(q, e)[i] = e
         /\ \A i \in DOMAIN q : /\ i \in DOMAIN Append(q, e)
                                /\ Append(q, e)[i] = q[i]
         /\ q # <<>> => Tail(q) \in Seq(S)
<1>1. /\ Append(q, e) \in Seq(S)
      /\ Len(q) + 1 \in DOMAIN Append(q, e)
      /\ Append(q, e)[Len(q) + 1] = e
  OBVIOUS
<1>2. \A i \in DOMAIN q : /\ i \in DOMAIN Append(q, e)
                          /\ Append(q, e)[i] = q[i]
  OBVIOUS
<1>3. q # <<>> => Tail(q) \in Seq(S)
  OBVIOUS
<1>4. QED
  BY <1>1, <1>2, <1>3

(* Whether an event of some kind is in the queue.                          *)
Queued(q, kind) == \E i \in DOMAIN q : q[i] \in kind

LEMMA QueuedAppend ==
  ASSUME NEW q \in Seq(Events), NEW e \in Events, NEW kind
  PROVE  /\ Queued(q, kind) => Queued(Append(q, e), kind)
         /\ e \in kind => Queued(Append(q, e), kind)
<1>1. /\ \E i \in DOMAIN Append(q, e) : Append(q, e)[i] = e
      /\ \A i \in DOMAIN q : /\ i \in DOMAIN Append(q, e)
                             /\ Append(q, e)[i] = q[i]
  BY QueueSteps
<1>2. Queued(q, kind) => Queued(Append(q, e), kind)
  BY <1>1, Zenon DEF Queued
<1>3. e \in kind => Queued(Append(q, e), kind)
  BY <1>1, Zenon DEF Queued
<1>4. QED
  BY <1>2, <1>3

(* Only an event of that kind at its head can take the last one away.      *)
LEMMA QueuedTail ==
  ASSUME NEW q \in Seq(Events), q # <<>>, NEW kind, Head(q) \notin kind,
         Queued(q, kind)
  PROVE  Queued(Tail(q), kind)
<1>1. PICK i \in DOMAIN q : q[i] \in kind
  BY DEF Queued
<1>2. i # 1 /\ i \in 1..Len(q)
  BY <1>1
<1>3. i - 1 \in DOMAIN Tail(q) /\ Tail(q)[i - 1] = q[i]
  BY <1>2
<1>4. QED
  BY <1>1, <1>3 DEF Queued

LEMMA InitType == Init => TypeOK
<1>1. <<>> \in Seq(Events)
  OBVIOUS
<1>2. 0 \in 0..MaxChanges /\ 0 \in 0..MaxFailures
  BY ChangesAssumption
<1>3. QED
  BY <1>1, <1>2, Zenon DEF Init, TypeOK

LEMMA NextType == TypeOK /\ [Next]_vars => TypeOK'
<1> SUFFICES ASSUME TypeOK, [Next]_vars PROVE TypeOK'
  OBVIOUS
<1> USE ChangesAssumption DEF TypeOK, Events, environment, results
<1>q. /\ \A e \in Events : Append(queue, e) \in Seq(Events)
      /\ queue # <<>> => Tail(queue) \in Seq(Events)
  BY QueueSteps
<1>f. Fails => failures' \in 0..MaxFailures
  BY DEF Fails
<1>1. CASE wifi_init
  BY <1>1, <1>q DEF wifi_init
<1>2. CASE ethernet_init
  BY <1>2, <1>q DEF ethernet_init
<1>3. CASE LinkChanges
  BY <1>3, <1>q DEF LinkChanges, Change
<1>4. CASE ApChanges
  BY <1>4 DEF ApChanges, Change
<1>5. CASE Connected
  BY <1>5 DEF Connected
<1>6. CASE Disconnected
  BY <1>6, <1>q DEF Disconnected
<1>7. CASE StopWifi
  BY <1>7, <1>q, <1>f DEF StopWifi, Take
<1>8. CASE EthConnected
  BY <1>8, <1>q DEF EthConnected, Take
<1>9. CASE StartWifi
  BY <1>9, <1>q, <1>f DEF StartWifi, Take
<1>10. CASE EthDisconnected
  BY <1>10, <1>q DEF EthDisconnected, Take
<1>11. CASE StaStart
  BY <1>11, <1>q DEF StaStart, Take, esp_wifi_connect
<1>12. CASE StaDisconnected
  BY <1>12, <1>q DEF StaDisconnected, Take, esp_wifi_connect
<1>13. CASE UNCHANGED vars
  BY <1>13 DEF vars
<1>14. QED
  BY <1>1, <1>2, <1>3, <1>4, <1>5, <1>6, <1>7, <1>8, <1>9, <1>10, <1>11, <1>12,
     <1>13 DEF Next, Initialise, Driver, Handler, EthHandler

(* Every state is of the declared types.                                   *)
THEOREM TypeCorrect == Spec => []TypeOK
BY InitType, NextType, PTL DEF Spec

(***************************************************************************)
(* The retry of Wi-Fi.  What its handlers are told is right because Wi-Fi  *)
(* that runs while the flag is up, outside the handler that is starting    *)
(* it, is Wi-Fi an esp_wifi_stop has failed to stop.  Before wifi_init     *)
(* nothing has been posted, so no handler runs.                            *)
(***************************************************************************)
Quiet == ready = "none" => queue = <<>> /\ wifi = "off" /\ ~ eth_connected

Running == ready # "none" => wifi # "off"

(* The call upon ETH_CONNECTED has done its work, or has failed.           *)
HasStopped == wifi = "stopped" \/ stopFailed
Stopped ==
  /\ at = "stop" => HasStopped
  /\ eth_connected /\ at # "start" => HasStopped

NetInv == TypeOK /\ Quiet /\ Running /\ Stopped /\ IdleIsRemembered

LEMMA InitNet == Init => NetInv
BY InitType DEF Init, NetInv, Quiet, Running, Stopped, IdleIsRemembered

LEMMA NextStopped ==
  ASSUME NetInv, [Next]_vars
  PROVE  Quiet' /\ Running' /\ Stopped'
<1> USE DEF NetInv, TypeOK, Quiet, Running, Stopped, HasStopped, environment,
            results
<1>1. CASE wifi_init
  BY <1>1 DEF wifi_init
<1>2. CASE ethernet_init
  BY <1>2 DEF ethernet_init
<1>3. CASE LinkChanges
  BY <1>3 DEF LinkChanges, Change
<1>4. CASE ApChanges
  BY <1>4 DEF ApChanges, Change
<1>5. CASE Connected
  BY <1>5 DEF Connected
<1>6. CASE Disconnected
  BY <1>6 DEF Disconnected
<1>7. CASE StopWifi
  BY <1>7 DEF StopWifi, Take
<1>8. CASE EthConnected
  BY <1>8 DEF EthConnected, Take
<1>9. CASE StartWifi
  BY <1>9 DEF StartWifi, Take
<1>10. CASE EthDisconnected
  BY <1>10 DEF EthDisconnected, Take
<1>11. CASE StaStart
  BY <1>11 DEF StaStart, Take, esp_wifi_connect
<1>12. CASE StaDisconnected
  BY <1>12 DEF StaDisconnected, Take, esp_wifi_connect
<1>13. CASE UNCHANGED vars
  BY <1>13 DEF vars
<1>14. QED
  BY <1>1, <1>2, <1>3, <1>4, <1>5, <1>6, <1>7, <1>8, <1>9, <1>10, <1>11, <1>12,
     <1>13 DEF Next, Initialise, Driver, Handler, EthHandler

(* Wi-Fi becomes idle only with an event that is posted in the same step;  *)
(* while it is idle the flag is down, or a stop has failed, so the handler *)
(* of the last Wi-Fi event connects it.                                    *)
LEMMA NextIdle ==
  ASSUME NetInv, [Next]_vars
  PROVE  IdleIsRemembered'
<1> USE DEF results
<1> DEFINE Waiting(q) == Queued(q, StaEvents)
<1>g. IdleIsRemembered' <=> (wifi' = "idle" => Waiting(queue') \/ stopFailed')
  BY DEF IdleIsRemembered, Queued
<1>i. wifi = "idle" => Waiting(queue) \/ stopFailed
  BY DEF NetInv, IdleIsRemembered, Queued
<1>t. queue \in Seq(Events)
  BY DEF NetInv, TypeOK
<1>e. /\ "STA_START" \in StaEvents /\ "STA_DISCONNECTED" \in StaEvents
      /\ "ETH_CONNECTED" \notin StaEvents /\ "ETH_DISCONNECTED" \notin StaEvents
      /\ StaEvents \subseteq Events /\ EthEvents \subseteq Events
      /\ "ETH_CONNECTED" \in Events /\ "ETH_DISCONNECTED" \in Events
  BY DEF StaEvents, EthEvents, Events
<1>a. \A e \in Events : /\ Waiting(queue) => Waiting(Append(queue, e))
                        /\ e \in StaEvents => Waiting(Append(queue, e))
  BY <1>t, QueuedAppend
<1>b. queue # <<>> /\ Head(queue) \notin StaEvents /\ Waiting(queue)
        => Waiting(Tail(queue))
  BY <1>t, QueuedTail
<1> HIDE DEF Waiting
<1>1. CASE wifi_init
  BY <1>1, <1>g, <1>a, <1>e DEF wifi_init
<1>2. CASE ethernet_init
  BY <1>2, <1>g, <1>a, <1>e, <1>i DEF ethernet_init
<1>3. CASE LinkChanges
  BY <1>3, <1>g, <1>a, <1>e, <1>i DEF LinkChanges
<1>4. CASE ApChanges
  BY <1>4, <1>g, <1>i DEF ApChanges
<1>5. CASE Connected
  BY <1>5, <1>g DEF Connected
<1>6. CASE Disconnected
  BY <1>6, <1>g, <1>a, <1>e DEF Disconnected
<1>7. CASE StopWifi
  BY <1>7, <1>g DEF StopWifi
<1>8. CASE EthConnected
  BY <1>8, <1>g, <1>b, <1>e, <1>i DEF EthConnected, Take
<1>9. CASE StartWifi
  BY <1>9, <1>g, <1>a, <1>e, <1>i DEF StartWifi
<1>10. CASE EthDisconnected
  BY <1>10, <1>g, <1>b, <1>e, <1>i DEF EthDisconnected, Take
<1>11. CASE StaStart
  BY <1>11, <1>g DEF StaStart, esp_wifi_connect
<1>12. CASE StaDisconnected
  <2>1. wifi = "idle" /\ at = "loop" => ~ eth_connected \/ stopFailed
    BY DEF NetInv, TypeOK, Stopped, HasStopped
  <2>2. QED
    BY <1>12, <1>g, <2>1 DEF StaDisconnected, esp_wifi_connect
<1>13. CASE UNCHANGED vars
  BY <1>13, <1>g, <1>i DEF vars
<1>14. QED
  BY <1>1, <1>2, <1>3, <1>4, <1>5, <1>6, <1>7, <1>8, <1>9, <1>10, <1>11, <1>12,
     <1>13 DEF Next, Initialise, Driver, Handler, EthHandler

LEMMA NextNet == NetInv /\ [Next]_vars => NetInv'
BY NextType, NextStopped, NextIdle DEF NetInv

LEMMA NetInvariant == Spec => []NetInv
BY InitNet, NextNet, PTL DEF Spec

(* No order of the events of the two drivers loses the retry of Wi-Fi,     *)
(* wherever between its two steps eth_event_handler is; only an            *)
(* esp_wifi_stop that failed can.                                          *)
THEOREM IdleIsRememberedHolds == Spec => []IdleIsRemembered
<1>1. NetInv => IdleIsRemembered
  BY DEF NetInv
<1>2. QED
  BY <1>1, NetInvariant, PTL

(***************************************************************************)
(* The flag and the cable.  Follows(q, flag) says that the flag, after the *)
(* Ethernet events of q, is the state of the cable.                        *)
(***************************************************************************)
Follows(q, flag, cable) ==
  /\ NoEth(q) => flag = cable
  /\ \A i \in DOMAIN q : LastEth(q, i) => (cable <=> q[i] = "ETH_CONNECTED")

LEMMA FollowsPost ==
  ASSUME NEW q \in Seq(Events), NEW e \in Events, NEW flag \in BOOLEAN,
         NEW cable \in BOOLEAN, NEW old \in BOOLEAN,
         \/ e \in EthEvents /\ (cable <=> e = "ETH_CONNECTED")
         \/ e \notin EthEvents /\ Follows(q, flag, old) /\ cable = old
  PROVE  Follows(Append(q, e), flag, cable)
<1> DEFINE p == Append(q, e)
<1>1. /\ DOMAIN p = DOMAIN q \cup {Len(q) + 1} /\ Len(q) + 1 \notin DOMAIN q
      /\ p[Len(q) + 1] = e
      /\ \A i \in DOMAIN q : p[i] = q[i] /\ Len(q) + 1 > i
  OBVIOUS
<1> HIDE DEF p
<1>2. CASE e \in EthEvents /\ (cable <=> e = "ETH_CONNECTED")
  <2>1. ~ NoEth(p)
    BY <1>1, <1>2 DEF NoEth
  <2>2. \A i \in DOMAIN p : LastEth(p, i) => i = Len(q) + 1
    BY <1>1, <1>2 DEF LastEth
  <2>3. QED
    BY <1>1, <1>2, <2>1, <2>2 DEF Follows, p
<1>3. CASE e \notin EthEvents /\ Follows(q, flag, old) /\ cable = old
  <2>1. NoEth(p) => NoEth(q)
    BY <1>1 DEF NoEth
  <2>2. \A i \in DOMAIN p : LastEth(p, i) => LastEth(q, i) /\ p[i] = q[i]
    BY <1>1, <1>3 DEF LastEth
  <2>3. QED
    BY <1>3, <2>1, <2>2 DEF Follows, LastEth, p
<1>4. QED
  BY <1>2, <1>3

LEMMA FollowsTake ==
  ASSUME NEW q \in Seq(Events), q # <<>>, NEW flag \in BOOLEAN,
         NEW cable \in BOOLEAN, NEW next \in BOOLEAN, Follows(q, flag, cable),
         IF Head(q) \in EthEvents THEN next <=> Head(q) = "ETH_CONNECTED"
                                  ELSE next = flag
  PROVE  Follows(Tail(q), next, cable)
<1> DEFINE p == Tail(q)
<1>1. /\ 1 \in DOMAIN q /\ Head(q) = q[1]
      /\ DOMAIN q \subseteq Nat \ {0} /\ DOMAIN p \subseteq Nat \ {0}
      /\ \A i \in DOMAIN p : i + 1 \in DOMAIN q /\ p[i] = q[i + 1]
      /\ \A i \in DOMAIN q : i # 1 => i - 1 \in DOMAIN p
  OBVIOUS
<1> HIDE DEF p
<1>2. ASSUME NEW i \in DOMAIN p, LastEth(p, i)
      PROVE  LastEth(q, i + 1)
  <2>1. i + 1 \in DOMAIN q /\ q[i + 1] \in EthEvents
    BY <1>1, <1>2 DEF LastEth
  <2>2. ASSUME NEW j \in DOMAIN q, j > i + 1
        PROVE  q[j] \notin EthEvents
    <3>1. j # 1 /\ j - 1 \in DOMAIN p /\ j - 1 > i /\ (j - 1) + 1 = j
      BY <1>1, <2>2
    <3>2. QED
      BY <1>1, <1>2, <3>1 DEF LastEth
  <2>3. QED
    BY <2>1, <2>2 DEF LastEth
<1>3. \A i \in DOMAIN p : LastEth(p, i) => (cable <=> p[i] = "ETH_CONNECTED")
  BY <1>1, <1>2 DEF Follows
<1>4. ASSUME NoEth(p) PROVE next = cable
  <2>1. \A j \in DOMAIN q : j > 1 => q[j] \notin EthEvents
    <3> SUFFICES ASSUME NEW j \in DOMAIN q, j > 1 PROVE q[j] \notin EthEvents
      OBVIOUS
    <3>1. j - 1 \in DOMAIN p /\ (j - 1) + 1 = j
      BY <1>1
    <3>2. QED
      BY <1>1, <1>4, <3>1 DEF NoEth
  <2>2. CASE Head(q) \in EthEvents
    <3>1. LastEth(q, 1)
      BY <1>1, <2>1, <2>2 DEF LastEth
    <3>2. QED
      BY <1>1, <2>2, <3>1 DEF Follows
  <2>3. CASE Head(q) \notin EthEvents
    <3>1. NoEth(q)
      BY <1>1, <2>1, <2>3 DEF NoEth
    <3>2. QED
      BY <2>3, <3>1 DEF Follows
  <2>4. QED
    BY <2>2, <2>3
<1>5. QED
  BY <1>3, <1>4 DEF Follows, p

(* Without Ethernet no such event is ever posted.                          *)
NotYet == ready # "eth" => NoEth(queue) /\ ~ eth_connected
FlagInv == TypeOK /\ Quiet /\ NotYet /\ (ready = "eth" => Follows(queue, eth_connected, link))

LEMMA NextFlag ==
  ASSUME FlagInv, [Next]_vars
  PROVE  NotYet' /\ (ready' = "eth" => Follows(queue', eth_connected', link'))
<1> USE DEF environment
<1>t. /\ queue \in Seq(Events) /\ eth_connected \in BOOLEAN /\ link \in BOOLEAN
      /\ eth_connected' \in BOOLEAN /\ link' \in BOOLEAN
      /\ queue # <<>> => Tail(queue) \in Seq(Events) /\ Head(queue) \in Events
  BY NextType DEF FlagInv, TypeOK
<1>e. /\ Events = EthEvents \cup StaEvents /\ EthEvents \cap StaEvents = {}
      /\ "STA_START" \in StaEvents /\ "STA_DISCONNECTED" \in StaEvents
      /\ "ETH_CONNECTED" \in EthEvents /\ "ETH_DISCONNECTED" \in EthEvents
      /\ "ETH_CONNECTED" # "ETH_DISCONNECTED"
  BY DEF Events, EthEvents, StaEvents
<1>n. ready # "eth" => Follows(queue, FALSE, FALSE) /\ NoEth(queue) /\ ~ eth_connected
  BY DEF FlagInv, NotYet, Follows, NoEth, LastEth
<1>p. \A q \in Seq(Events), e \in StaEvents : NoEth(q) => NoEth(Append(q, e))
  BY <1>e DEF NoEth
<1>s. ASSUME UNCHANGED <<ready, queue, eth_connected, link>>
      PROVE  NotYet' /\ (ready' = "eth" => Follows(queue', eth_connected', link'))
  BY <1>s DEF FlagInv, NotYet
<1>1. CASE wifi_init
  BY <1>1, <1>n, <1>p, <1>t, <1>e DEF wifi_init, NotYet
<1>2. CASE ethernet_init
  <2>1. CASE ready' = "no_eth" /\ UNCHANGED queue
    BY <1>2, <2>1, <1>n DEF ethernet_init, NotYet
  <2>2. CASE /\ ready' = "eth"
             /\ queue' = IF link THEN Append(queue, "ETH_CONNECTED") ELSE queue
    <3>1. eth_connected' = FALSE /\ link' = link /\ NoEth(queue)
      BY <1>2, <1>n, <1>t DEF ethernet_init
    <3>2. CASE link = TRUE
      BY <2>2, <3>1, <3>2, <1>t, <1>e, FollowsPost DEF NotYet
    <3>3. CASE link = FALSE
      BY <1>2, <2>2, <3>1, <3>3, <1>n DEF ethernet_init, NotYet
    <3>4. QED
      BY <1>t, <3>2, <3>3
  <2>3. QED
    BY <1>2, <2>1, <2>2 DEF ethernet_init
<1>3. CASE LinkChanges
  <2>1. /\ link' = ~ link /\ ready' = ready /\ eth_connected' = eth_connected
        /\ queue' = IF ready = "eth"
                     THEN Append(queue, IF link THEN "ETH_DISCONNECTED"
                                                ELSE "ETH_CONNECTED")
                     ELSE queue
    BY <1>3 DEF LinkChanges
  <2>2. CASE ready = "eth"
    <3> DEFINE e == IF link THEN "ETH_DISCONNECTED" ELSE "ETH_CONNECTED"
    <3>1. e \in EthEvents /\ e \in Events /\ (link' <=> e = "ETH_CONNECTED")
      BY <2>1, <1>t, <1>e
    <3>2. queue' = Append(queue, e)
      BY <2>1, <2>2
    <3> HIDE DEF e
    <3>3. Follows(Append(queue, e), eth_connected', link')
      BY <3>1, <1>t, FollowsPost
    <3>4. QED
      BY <2>1, <2>2, <3>2, <3>3 DEF NotYet
  <2>3. CASE ready # "eth"
    BY <2>1, <2>3, <1>n DEF NotYet
  <2>4. QED
    BY <2>2, <2>3
<1>4. CASE ApChanges \/ Connected \/ UNCHANGED vars
  BY <1>4, <1>s DEF ApChanges, Connected, vars
<1>5. CASE Disconnected
  <2>1. /\ queue' = Append(queue, "STA_DISCONNECTED")
        /\ UNCHANGED <<ready, eth_connected, link>>
    BY <1>5 DEF Disconnected
  <2>2. ready = "eth" => Follows(queue', eth_connected', link')
    BY <2>1, <1>t, <1>e, FollowsPost DEF FlagInv
  <2>3. QED
    BY <2>1, <2>2, <1>n, <1>p, <1>t, <1>e DEF NotYet
<1>6. CASE StopWifi \/ StartWifi
  <2>1. /\ UNCHANGED <<ready, eth_connected, link>>
        /\ \/ queue' = queue
           \/ \E e \in StaEvents : queue' = Append(queue, e)
    BY <1>6, <1>e DEF StopWifi, StartWifi
  <2>2. ASSUME NEW e \in StaEvents, queue' = Append(queue, e)
        PROVE  NotYet' /\ (ready' = "eth" => Follows(queue', eth_connected', link'))
    <3>1. ready = "eth" => Follows(Append(queue, e), eth_connected, link)
      BY <1>t, <1>e, FollowsPost DEF FlagInv
    <3>2. QED
      BY <2>1, <2>2, <3>1, <1>n, <1>p, <1>t DEF NotYet
  <2>3. QED
    BY <2>1, <2>2, <1>s
<1>7. CASE EthConnected \/ EthDisconnected \/ StaStart \/ StaDisconnected
  <2>1. /\ queue # <<>> /\ UNCHANGED <<ready, link>> /\ queue' = Tail(queue)
        /\ IF Head(queue) \in EthEvents
           THEN eth_connected' <=> Head(queue) = "ETH_CONNECTED"
           ELSE eth_connected' = eth_connected
    BY <1>7, <1>e, <1>t DEF EthConnected, EthDisconnected, StaStart,
                            StaDisconnected, Take
  <2>2. CASE ready = "eth"
    <3>1. Follows(Tail(queue), eth_connected', link)
      BY <2>1, <2>2, <1>t, FollowsTake DEF FlagInv
    <3>2. QED
      BY <2>1, <2>2, <3>1 DEF NotYet
  <2>3. CASE ready # "eth"
    <3>1. NoEth(Tail(queue)) /\ Head(queue) \notin EthEvents
      BY <2>1, <2>3, <1>n, <1>t DEF NoEth
    <3>2. QED
      BY <2>1, <2>3, <3>1, <1>n DEF NotYet
  <2>4. QED
    BY <2>2, <2>3
<1>8. QED
  BY <1>1, <1>2, <1>3, <1>4, <1>5, <1>6, <1>7
     DEF Next, Initialise, Driver, Handler, EthHandler

LEMMA FlagInvariant == Spec => []FlagInv
<1> DEFINE Inv == NetInv /\ FlagInv
<1>1. Init => Inv
  <2>1. Init => NoEth(queue) /\ ready # "eth" /\ ~ eth_connected
    BY DEF Init, NoEth
  <2>2. QED
    BY <2>1, InitNet DEF FlagInv, NetInv, NotYet
<1>2. Inv /\ [Next]_vars => Inv'
  BY NextNet, NextFlag DEF FlagInv, NetInv
<1>3. QED
  BY <1>1, <1>2, PTL DEF Spec

(* The flag is never behind by more than the events still to be handled.   *)
THEOREM FlagFollowsCableHolds == Spec => []FlagFollowsCable
<1>1. FlagInv => FlagFollowsCable
  BY DEF FlagInv, Follows, FlagFollowsCable
<1>2. QED
  BY <1>1, FlagInvariant, PTL

(***************************************************************************)
(* Every change of the cable, once and in its turn.  How many Ethernet     *)
(* events a queue holds.                                                   *)
(***************************************************************************)
EthPlaces(q) == {i \in DOMAIN q : q[i] \in EthEvents}
EthCount(q) == Cardinality(EthPlaces(q))

LEMMA CountIsNat ==
  ASSUME NEW q \in Seq(Events)
  PROVE  IsFiniteSet(EthPlaces(q)) /\ EthCount(q) \in Nat
<1>1. IsFiniteSet(DOMAIN q)
  BY FS_Interval
<1>2. IsFiniteSet(EthPlaces(q))
  BY <1>1, FS_Subset DEF EthPlaces
<1>3. QED
  BY <1>2, FS_CardinalityType DEF EthCount

LEMMA CountPost ==
  ASSUME NEW q \in Seq(Events), NEW e \in Events
  PROVE  EthCount(Append(q, e)) =
           IF e \in EthEvents THEN EthCount(q) + 1 ELSE EthCount(q)
<1> DEFINE n == Len(q) + 1
<1>1. /\ n \notin EthPlaces(q)
      /\ EthPlaces(Append(q, e)) =
           IF e \in EthEvents THEN EthPlaces(q) \cup {n} ELSE EthPlaces(q)
  BY DEF EthPlaces
<1>2. Cardinality(EthPlaces(q) \cup {n}) = Cardinality(EthPlaces(q)) + 1
  BY <1>1, CountIsNat, FS_AddElement
<1>3. QED
  BY <1>1, <1>2, Zenon DEF EthCount

LEMMA CountTake ==
  ASSUME NEW q \in Seq(Events), q # <<>>
  PROVE  /\ EthCount(Tail(q)) =
              IF Head(q) \in EthEvents THEN EthCount(q) - 1 ELSE EthCount(q)
         /\ Head(q) \in EthEvents => EthCount(q) > 0
<1> DEFINE T == EthPlaces(Tail(q))
           R == EthPlaces(q) \ {1}
           f == [i \in T |-> i + 1]
<1>1. Tail(q) \in Seq(Events)
  OBVIOUS
<1>2. f \in Bijection(T, R)
  <2>1. \A i \in T : i + 1 \in R
    BY DEF EthPlaces
  <2>2. \A j \in R : j - 1 \in T /\ (j - 1) + 1 = j
    BY DEF EthPlaces
  <2>3. \A i, j \in T : i + 1 = j + 1 => i = j
    BY DEF EthPlaces
  <2>4. QED
    BY <2>1, <2>2, <2>3 DEF Bijection, Injection, Surjection, IsInjective
<1>3. /\ IsFiniteSet(T) /\ Cardinality(T) \in Nat
      /\ IsFiniteSet(EthPlaces(q)) /\ Cardinality(EthPlaces(q)) \in Nat
  BY <1>1, CountIsNat DEF EthCount
<1>4. Cardinality(R) = Cardinality(T)
  BY <1>2, <1>3, FS_Bijection DEF ExistsBijection
<1>5. 1 \in EthPlaces(q) <=> Head(q) \in EthEvents
  BY DEF EthPlaces
<1>6. Cardinality(R) = IF Head(q) \in EthEvents THEN Cardinality(EthPlaces(q)) - 1
                                                ELSE Cardinality(EthPlaces(q))
  BY <1>3, <1>5, FS_RemoveElement
<1> HIDE DEF T, R
<1>7. /\ Cardinality(T) = IF Head(q) \in EthEvents THEN EthCount(q) - 1
                                                   ELSE EthCount(q)
      /\ Head(q) \in EthEvents => EthCount(q) > 0
  BY <1>3, <1>4, <1>6 DEF EthCount
<1>8. QED
  BY <1>7, Zenon DEF T, EthCount

(* The Ethernet events of q alternate, and the first one changes the flag. *)
FirstEth(q, i) ==
  /\ i \in DOMAIN q /\ q[i] \in EthEvents
  /\ \A j \in DOMAIN q : j < i => q[j] \notin EthEvents
NextEth(q, i, k) ==
  /\ i \in DOMAIN q /\ k \in DOMAIN q /\ i < k
  /\ q[i] \in EthEvents /\ q[k] \in EthEvents
  /\ \A j \in DOMAIN q : i < j /\ j < k => q[j] \notin EthEvents

Alternates(q, flag) ==
  /\ \A i \in DOMAIN q : FirstEth(q, i) => (flag <=> q[i] # "ETH_CONNECTED")
  /\ \A i, k \in DOMAIN q : NextEth(q, i, k) => q[i] # q[k]

(* What is posted tells of a cable that has just changed.                  *)
LEMMA AlternatesPost ==
  ASSUME NEW q \in Seq(Events), NEW e \in Events, NEW flag \in BOOLEAN,
         NEW cable \in BOOLEAN, Alternates(q, flag), Follows(q, flag, cable),
         e \in EthEvents => (cable <=> e # "ETH_CONNECTED")
  PROVE  Alternates(Append(q, e), flag)
<1> DEFINE p == Append(q, e)
           n == Len(q) + 1
<1>1. /\ DOMAIN p = DOMAIN q \cup {n} /\ n \notin DOMAIN q
      /\ p[n] = e
      /\ \A i \in DOMAIN q : p[i] = q[i] /\ n > i /\ ~ (n < i)
      /\ ~ (n < n)
  OBVIOUS
<1> HIDE DEF p, n
<1>2. \A i \in DOMAIN q : FirstEth(p, i) => FirstEth(q, i)
  BY <1>1 DEF FirstEth
<1>3. \A i, k \in DOMAIN q : NextEth(p, i, k) => NextEth(q, i, k)
  BY <1>1 DEF NextEth
<1>4. FirstEth(p, n) => (flag <=> p[n] # "ETH_CONNECTED")
  <2>1. FirstEth(p, n) => NoEth(q) /\ e \in EthEvents
    BY <1>1 DEF FirstEth, NoEth
  <2>2. QED
    BY <1>1, <2>1 DEF Follows
<1>5. \A i \in DOMAIN q : NextEth(p, i, n) => p[i] # p[n]
  <2> SUFFICES ASSUME NEW i \in DOMAIN q, NextEth(p, i, n) PROVE q[i] # e
    BY <1>1
  <2>1. LastEth(q, i) /\ e \in EthEvents
    BY <1>1 DEF NextEth, LastEth
  <2>2. QED
    BY <2>1 DEF Follows
<1>6. \A i \in DOMAIN p : FirstEth(p, i) => (flag <=> p[i] # "ETH_CONNECTED")
  BY <1>1, <1>2, <1>4 DEF Alternates
<1>7. \A i, k \in DOMAIN p : NextEth(p, i, k) => p[i] # p[k]
  <2>1. \A k \in DOMAIN p : ~ NextEth(p, n, k)
    BY <1>1 DEF NextEth
  <2>2. QED
    BY <1>1, <1>3, <1>5, <2>1 DEF Alternates
<1>8. QED
  BY <1>6, <1>7 DEF Alternates, p

(* An Ethernet event that is handled always changes the flag.              *)
LEMMA AlternatesTake ==
  ASSUME NEW q \in Seq(Events), q # <<>>, NEW flag \in BOOLEAN,
         NEW next \in BOOLEAN, Alternates(q, flag),
         IF Head(q) \in EthEvents THEN next <=> Head(q) = "ETH_CONNECTED"
                                  ELSE next = flag
  PROVE  /\ Head(q) \in EthEvents => next = ~ flag
         /\ Alternates(Tail(q), next)
<1> DEFINE p == Tail(q)
<1>1. /\ 1 \in DOMAIN q /\ Head(q) = q[1]
      /\ DOMAIN q \subseteq Nat \ {0} /\ DOMAIN p \subseteq Nat \ {0}
      /\ \A i \in DOMAIN p : i + 1 \in DOMAIN q /\ p[i] = q[i + 1]
      /\ \A i \in DOMAIN q : i # 1 => i - 1 \in DOMAIN p
  OBVIOUS
<1> HIDE DEF p
<1>e. EthEvents = {"ETH_CONNECTED", "ETH_DISCONNECTED"}
  BY DEF EthEvents
<1>2. Head(q) \in EthEvents => FirstEth(q, 1)
  BY <1>1 DEF FirstEth
<1>3. Head(q) \in EthEvents => next = ~ flag
  BY <1>1, <1>2 DEF Alternates
<1>4. ASSUME NEW i \in DOMAIN p, FirstEth(p, i)
      PROVE  next <=> p[i] # "ETH_CONNECTED"
  <2>1. i + 1 \in DOMAIN q /\ q[i + 1] \in EthEvents /\ p[i] = q[i + 1]
    BY <1>1, <1>4 DEF FirstEth
  <2>2. \A j \in DOMAIN q : 1 < j /\ j < i + 1 => q[j] \notin EthEvents
    <3> SUFFICES ASSUME NEW j \in DOMAIN q, 1 < j, j < i + 1
                 PROVE  q[j] \notin EthEvents
      OBVIOUS
    <3>1. j - 1 \in DOMAIN p /\ j - 1 < i /\ (j - 1) + 1 = j
      BY <1>1
    <3>2. QED
      BY <1>1, <1>4, <3>1 DEF FirstEth
  <2>3. CASE Head(q) \in EthEvents
    <3>1. NextEth(q, 1, i + 1)
      BY <1>1, <2>1, <2>2, <2>3 DEF NextEth
    <3>2. q[1] # q[i + 1]
      BY <1>1, <2>1, <3>1 DEF Alternates
    <3>3. QED
      BY <1>1, <1>e, <2>1, <2>3, <3>2
  <2>4. CASE Head(q) \notin EthEvents
    <3>1. FirstEth(q, i + 1)
      <4>1. \A j \in DOMAIN q : j < i + 1 => q[j] \notin EthEvents
        <5> SUFFICES ASSUME NEW j \in DOMAIN q, j < i + 1
                     PROVE  q[j] \notin EthEvents
          OBVIOUS
        <5>1. j = 1 \/ 1 < j
          BY <1>1
        <5>2. QED
          BY <1>1, <2>2, <2>4, <5>1
      <4>2. QED
        BY <2>1, <4>1 DEF FirstEth
    <3>2. QED
      BY <2>1, <2>4, <3>1 DEF Alternates
  <2>5. QED
    BY <2>3, <2>4
<1>5. ASSUME NEW i \in DOMAIN p, NEW k \in DOMAIN p, NextEth(p, i, k)
      PROVE  p[i] # p[k]
  <2>1. /\ i + 1 \in DOMAIN q /\ k + 1 \in DOMAIN q /\ i + 1 < k + 1
        /\ q[i + 1] \in EthEvents /\ q[k + 1] \in EthEvents
        /\ p[i] = q[i + 1] /\ p[k] = q[k + 1]
    BY <1>1, <1>5 DEF NextEth
  <2>2. \A j \in DOMAIN q : i + 1 < j /\ j < k + 1 => q[j] \notin EthEvents
    <3> SUFFICES ASSUME NEW j \in DOMAIN q, i + 1 < j, j < k + 1
                 PROVE  q[j] \notin EthEvents
      OBVIOUS
    <3>1. j - 1 \in DOMAIN p /\ i < j - 1 /\ j - 1 < k /\ (j - 1) + 1 = j
      BY <1>1
    <3>2. QED
      BY <1>1, <1>5, <3>1 DEF NextEth
  <2>3. NextEth(q, i + 1, k + 1)
    BY <2>1, <2>2 DEF NextEth
  <2>4. QED
    BY <2>1, <2>3 DEF Alternates
<1>6. QED
  BY <1>3, <1>4, <1>5 DEF Alternates, p

(***************************************************************************)
(* NetManager implements Follower.                                         *)
(***************************************************************************)
FollowInv == FlagInv /\ Alternates(queue, eth_connected)

(* The three kinds of steps: the events of the cable and what they have    *)
(* been told stay, a change of the cable is posted, an event is handled.   *)
Alike ==
  /\ (ready = "eth" /\ link)' = (ready = "eth" /\ link)
  /\ eth_connected' = eth_connected
  /\ \/ queue' = queue
     \/ \E e \in StaEvents : queue' = Append(queue, e)

Told ==
  /\ (ready = "eth" /\ link)' # (ready = "eth" /\ link)
  /\ eth_connected' = eth_connected
  /\ \E e \in EthEvents :
       /\ queue' = Append(queue, e)
       /\ (ready = "eth" /\ link)' <=> e = "ETH_CONNECTED"

Handled ==
  /\ queue # <<>> /\ queue' = Tail(queue)
  /\ UNCHANGED <<ready, link>>
  /\ IF Head(queue) \in EthEvents
     THEN eth_connected' <=> Head(queue) = "ETH_CONNECTED"
     ELSE eth_connected' = eth_connected

LEMMA ThreeKinds ==
  ASSUME TypeOK, TypeOK', [Next]_vars
  PROVE  Alike \/ Told \/ Handled
<1> USE DEF TypeOK, environment
<1>e. /\ "STA_START" \in StaEvents /\ "STA_DISCONNECTED" \in StaEvents
      /\ "ETH_CONNECTED" \in EthEvents /\ "ETH_DISCONNECTED" \in EthEvents
      /\ "ETH_CONNECTED" # "ETH_DISCONNECTED"
      /\ EthEvents \cap StaEvents = {}
  BY DEF EthEvents, StaEvents
<1>1. CASE wifi_init
  BY <1>1, <1>e DEF wifi_init, Alike
<1>2. CASE ethernet_init
  BY <1>2, <1>e DEF ethernet_init, Alike, Told
<1>3. CASE LinkChanges
  BY <1>3, <1>e DEF LinkChanges, Alike, Told
<1>4. CASE ApChanges \/ Connected \/ UNCHANGED vars
  BY <1>4 DEF ApChanges, Connected, vars, Alike
<1>5. CASE Disconnected
  BY <1>5, <1>e DEF Disconnected, Alike
<1>6. CASE StopWifi \/ StartWifi
  BY <1>6, <1>e DEF StopWifi, StartWifi, Alike
<1>7. CASE EthConnected \/ EthDisconnected \/ StaStart \/ StaDisconnected
  BY <1>7, <1>e DEF EthConnected, EthDisconnected, StaStart,
                    StaDisconnected, Take, Handled
<1>8. QED
  BY <1>1, <1>2, <1>3, <1>4, <1>5, <1>6, <1>7
     DEF Next, Initialise, Driver, Handler, EthHandler

LEMMA FollowStep ==
  ASSUME FollowInv, TypeOK', Alike \/ Told \/ Handled
  PROVE  /\ Alternates(queue, eth_connected)'
         /\ [Flag!Next]_(Flag!vars)
<1> DEFINE Cable == ready = "eth" /\ link
<1>t. /\ queue \in Seq(Events) /\ eth_connected \in BOOLEAN /\ link \in BOOLEAN
      /\ eth_connected' \in BOOLEAN /\ link' \in BOOLEAN
      /\ Cable \in BOOLEAN /\ Alternates(queue, eth_connected)
      /\ queue # <<>> => Tail(queue) \in Seq(Events) /\ Head(queue) \in Events
  BY DEF FollowInv, FlagInv, TypeOK
<1>e. /\ StaEvents \subseteq Events /\ EthEvents \subseteq Events
      /\ EthEvents \cap StaEvents = {}
  BY DEF Events, EthEvents, StaEvents
<1>f. Follows(queue, eth_connected, Cable)
  BY <1>t DEF FollowInv, FlagInv, NotYet, Follows, NoEth, LastEth
<1>b. /\ Behind = EthCount(queue) /\ Behind' = EthCount(queue')
      /\ EthCount(queue) \in Nat
  BY <1>t, CountIsNat DEF Behind, EthCount, EthPlaces
<1>g. ASSUME (Cable)' = Cable, eth_connected' = eth_connected, Behind' = Behind
      PROVE  [Flag!Next]_(Flag!vars)
  BY <1>g DEF Flag!vars
<1>1. CASE Alike
  <2>1. CASE queue' = queue
    BY <1>1, <1>t, <1>b, <1>g, <2>1 DEF Alike
  <2>2. ASSUME NEW e \in StaEvents, queue' = Append(queue, e)
        PROVE  Alternates(queue, eth_connected)' /\ [Flag!Next]_(Flag!vars)
    <3>1. Alternates(Append(queue, e), eth_connected)
      BY <1>t, <1>e, <1>f, AlternatesPost
    <3>2. EthCount(Append(queue, e)) = EthCount(queue)
      BY <1>t, <1>e, CountPost
    <3>3. QED
      BY <1>1, <1>b, <1>g, <2>2, <3>1, <3>2 DEF Alike
  <2>3. QED
    BY <1>1, <2>1, <2>2 DEF Alike
<1>2. CASE Told
  <2>1. PICK e \in EthEvents : queue' = Append(queue, e)
                               /\ ((Cable)' <=> e = "ETH_CONNECTED")
    BY <1>2 DEF Told
  <2>2. (Cable)' = ~ Cable /\ eth_connected' = eth_connected
    BY <1>2, <1>t DEF Told
  <2>3. Alternates(Append(queue, e), eth_connected)
    BY <1>t, <1>e, <1>f, <2>1, <2>2, AlternatesPost
  <2>4. EthCount(queue') = EthCount(queue) + 1
    BY <1>t, <1>e, <2>1, CountPost
  <2>5. Flag!Change
    BY <1>b, <2>2, <2>4 DEF Flag!Change
  <2>6. QED
    BY <2>1, <2>2, <2>3, <2>5 DEF Flag!Next
<1>3. CASE Handled
  <2>1. /\ Head(queue) \in EthEvents => eth_connected' = ~ eth_connected
        /\ Alternates(Tail(queue), eth_connected')
    BY <1>3, <1>t, AlternatesTake DEF Handled
  <2>2. /\ EthCount(Tail(queue)) =
             IF Head(queue) \in EthEvents THEN EthCount(queue) - 1 ELSE EthCount(queue)
        /\ Head(queue) \in EthEvents => EthCount(queue) > 0
    BY <1>3, <1>t, CountTake DEF Handled
  <2>3. Alternates(queue', eth_connected') /\ EthCount(queue') = EthCount(Tail(queue))
    BY <1>3, <2>1 DEF Handled
  <2>4. (Cable)' = Cable
    BY <1>3 DEF Handled
  <2>5. CASE Head(queue) \in EthEvents
    <3>1. Flag!Follow
      BY <1>b, <2>1, <2>2, <2>3, <2>4, <2>5 DEF Flag!Follow
    <3>2. QED
      BY <2>3, <3>1 DEF Flag!Next
  <2>6. CASE Head(queue) \notin EthEvents
    BY <1>3, <1>b, <1>g, <2>2, <2>3, <2>4, <2>6 DEF Handled
  <2>7. QED
    BY <2>5, <2>6
<1>4. QED
  BY <1>1, <1>2, <1>3

(* However many changes of the cable wait among the events of Wi-Fi, each  *)
(* one changes eth_connected once, in its turn, and nothing else does.     *)
THEOREM FollowsEveryChangeHolds == Spec => FollowsEveryChange
<1>1. Init => Flag!Init /\ Alternates(queue, eth_connected)
  <2>1. Init => EthPlaces(queue) = {}
    BY DEF Init, EthPlaces
  <2>2. Init => Behind = 0
    BY <2>1, FS_EmptySet DEF Behind, EthPlaces
  <2>3. QED
    BY <2>2 DEF Init, Flag!Init, Alternates
<1>2. FollowInv /\ [Next]_vars =>
        Alternates(queue, eth_connected)' /\ [Flag!Next]_(Flag!vars)
  <2> SUFFICES ASSUME FollowInv, [Next]_vars
               PROVE  /\ Alternates(queue, eth_connected)'
                      /\ [Flag!Next]_(Flag!vars)
    OBVIOUS
  <2>1. TypeOK /\ TypeOK'
    BY NextType DEF FollowInv, FlagInv
  <2>2. QED
    BY <2>1, ThreeKinds, FollowStep
<1>3. QED
  BY <1>1, <1>2, FlagInvariant, PTL
     DEF Spec, FollowInv, FollowsEveryChange, Flag!Spec
=============================================================================
