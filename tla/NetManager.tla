----------------------------- MODULE NetManager -----------------------------
(***************************************************************************)
(* The failover between Ethernet and Wi-Fi: wifi_init, ethernet_init and   *)
(* the handlers the default event loop calls, eth_event_handler and        *)
(* wifi_event_handler.  The loop is one task and handles events in the     *)
(* order they were posted; the drivers post them from tasks of their own,  *)
(* so what a handler is told about may be over when it is told.            *)
(*                                                                         *)
(* External: the two drivers, modelled from what the handlers ask of them. *)
(* esp_wifi_start posts STA_START only if Wi-Fi was stopped; stopping      *)
(* Wi-Fi, losing the access point and failing to reach it post             *)
(* STA_DISCONNECTED; esp_wifi_connect fails when Wi-Fi is stopped.  Both   *)
(* esp_wifi_start and esp_wifi_stop may fail and leave Wi-Fi as it was.    *)
(* The events no handler acts on (STA_CONNECTED, the start and stop of     *)
(* Ethernet, the IP addresses) are left out.                               *)
(***************************************************************************)
EXTENDS Naturals, Sequences, FiniteSets

CONSTANTS
  MaxChanges,    \* bound: changes of the cable and of the access point
  MaxFailures    \* bound: calls of esp_wifi_stop and esp_wifi_start that fail

ASSUME ChangesAssumption == MaxChanges \in Nat /\ MaxFailures \in Nat

Events == {"ETH_CONNECTED", "ETH_DISCONNECTED", "STA_START", "STA_DISCONNECTED"}
EthEvents == {"ETH_CONNECTED", "ETH_DISCONNECTED"}
StaEvents == {"STA_START", "STA_DISCONNECTED"}

VARIABLES
  ready,          \* what has been initialised: "none", "wifi", and then
                  \* "eth", or "no_eth" if there is no Ethernet
  queue,          \* events posted and not yet handled; the first one may be
                  \* in the hands of eth_event_handler
  at,             \* the event loop: "loop" between two events; "stop" and
                  \* "start" in eth_event_handler after the call of that name
  eth_connected,
  wifi,           \* "off", "stopped", "idle", "connecting", "connected"
  link,           \* the Ethernet cable is plugged in
  ap,             \* the access point is in reach
  changes,        \* changes of link and ap so far
  stopFailed,     \* history: the last esp_wifi_stop failed
  startFailed,    \* history: the last esp_wifi_start failed
  failures        \* calls that failed so far

environment == <<link, ap, changes>>
results == <<stopFailed, startFailed, failures>>
vars == <<ready, queue, at, eth_connected, wifi, environment, results>>

Init ==
  /\ ready = "none"
  /\ queue = <<>>
  /\ at = "loop"
  /\ eth_connected = FALSE
  /\ wifi = "off"
  /\ link \in BOOLEAN
  /\ ap \in BOOLEAN
  /\ changes = 0
  /\ stopFailed = FALSE /\ startFailed = FALSE
  /\ failures = 0

(* wifi_init: it ends in esp_wifi_start, which is checked here.            *)
wifi_init ==
  /\ ready = "none"
  /\ ready' = "wifi"
  /\ wifi' = "idle"
  /\ queue' = Append(queue, "STA_START")
  /\ UNCHANGED <<at, eth_connected, environment, results>>

(* Mutant of ethernet_init: the handler is registered after the driver has *)
(* been started and has posted its first event.                            *)
ethernet_init_Late ==
  /\ ready = "wifi"
  /\ ready' = "eth"
  /\ UNCHANGED <<queue, at, eth_connected, wifi, environment, results>>

(* ethernet_init, after wifi_init: it ends in esp_eth_start, and the       *)
(* driver posts the state of a cable that is plugged in.  Without a W5500  *)
(* esp_eth_driver_install fails, and it returns.                           *)
ethernet_init ==
  /\ ready = "wifi"
  /\ \/ /\ ready' = "eth"
        /\ queue' = IF link THEN Append(queue, "ETH_CONNECTED") ELSE queue
     \/ ready' = "no_eth" /\ UNCHANGED queue
  /\ UNCHANGED <<at, eth_connected, wifi, environment, results>>

(***************************************************************************)
(* The drivers.                                                            *)
(***************************************************************************)
Change ==
  /\ changes < MaxChanges
  /\ changes' = changes + 1

LinkChanges ==
  /\ Change
  /\ link' = ~ link
  /\ queue' = IF ready = "eth"
                THEN Append(queue, IF link THEN "ETH_DISCONNECTED"
                                           ELSE "ETH_CONNECTED")
                ELSE queue
  /\ UNCHANGED <<ready, at, eth_connected, wifi, ap, results>>

ApChanges ==
  /\ Change
  /\ ap' = ~ ap
  /\ UNCHANGED <<ready, queue, at, eth_connected, wifi, link, results>>

Connected ==
  /\ wifi = "connecting"
  /\ ap
  /\ wifi' = "connected"
  /\ UNCHANGED <<ready, queue, at, eth_connected, environment, results>>

(* The access point does not answer.                                       *)
Disconnected ==
  /\ wifi \in {"connecting", "connected"}
  /\ ~ ap
  /\ wifi' = "idle"
  /\ queue' = Append(queue, "STA_DISCONNECTED")
  /\ UNCHANGED <<ready, at, eth_connected, environment, results>>

(***************************************************************************)
(* The handlers: each takes the first event of the queue.  That of an      *)
(* Ethernet event is two steps, with whatever the drivers post in between: *)
(* the call that stops or starts Wi-Fi, whose result it does not look at,  *)
(* and the assignment of the flag, after which the event is done with.     *)
(***************************************************************************)
Take(event) == queue # <<>> /\ Head(queue) = event

(* esp_wifi_connect, whose result no handler looks at.                     *)
esp_wifi_connect == wifi' = IF wifi = "idle" THEN "connecting" ELSE wifi

Fails == failures < MaxFailures /\ failures' = failures + 1

(* esp_wifi_stop, upon ETH_CONNECTED.                                      *)
StopWifi ==
  /\ at = "loop" /\ Take("ETH_CONNECTED")
  /\ at' = "stop"
  /\ \/ /\ wifi' = "stopped"
        /\ queue' = IF wifi \in {"connecting", "connected"}
                      THEN Append(queue, "STA_DISCONNECTED") ELSE queue
        /\ stopFailed' = FALSE
        /\ UNCHANGED failures
     \/ /\ Fails
        /\ stopFailed' = TRUE
        /\ UNCHANGED <<wifi, queue>>
  /\ UNCHANGED <<ready, eth_connected, environment, startFailed>>

(* eth_connected = true, whether Wi-Fi has been stopped or not.            *)
EthConnected ==
  /\ at = "stop" /\ Take("ETH_CONNECTED")
  /\ at' = "loop"
  /\ eth_connected' = TRUE
  /\ queue' = Tail(queue)
  /\ UNCHANGED <<ready, wifi, environment, results>>

(* Mutant of StartWifi: Wi-Fi is connected but not started, as the line    *)
(* after esp_wifi_start reads.                                             *)
StartWifi_Connect ==
  /\ at = "loop" /\ Take("ETH_DISCONNECTED")
  /\ at' = "start"
  /\ esp_wifi_connect
  /\ startFailed' = FALSE
  /\ UNCHANGED <<ready, queue, eth_connected, environment, stopFailed, failures>>

(* esp_wifi_start, upon ETH_DISCONNECTED: it does nothing to Wi-Fi that    *)
(* runs.                                                                   *)
StartWifi ==
  /\ at = "loop" /\ Take("ETH_DISCONNECTED")
  /\ at' = "start"
  /\ \/ /\ wifi' = IF wifi = "stopped" THEN "idle" ELSE wifi
        /\ queue' = IF wifi = "stopped" THEN Append(queue, "STA_START") ELSE queue
        /\ startFailed' = FALSE
        /\ UNCHANGED failures
     \/ /\ Fails
        /\ startFailed' = TRUE
        /\ UNCHANGED <<wifi, queue>>
  /\ UNCHANGED <<ready, eth_connected, environment, stopFailed>>

(* Mutant of EthDisconnected: the flag is not cleared.                     *)
EthDisconnected_KeepFlag ==
  /\ at = "start" /\ Take("ETH_DISCONNECTED")
  /\ at' = "loop"
  /\ queue' = Tail(queue)
  /\ UNCHANGED <<ready, eth_connected, wifi, environment, results>>

(* eth_connected = false.  The line before it declares esp_wifi_connect    *)
(* and does not call it.                                                   *)
EthDisconnected ==
  /\ at = "start" /\ Take("ETH_DISCONNECTED")
  /\ at' = "loop"
  /\ eth_connected' = FALSE
  /\ queue' = Tail(queue)
  /\ UNCHANGED <<ready, wifi, environment, results>>

StaStart ==
  /\ at = "loop" /\ Take("STA_START")
  /\ esp_wifi_connect
  /\ queue' = Tail(queue)
  /\ UNCHANGED <<ready, at, eth_connected, environment, results>>

(* Mutant of StaDisconnected: there is no retry.                           *)
StaDisconnected_NoRetry ==
  /\ at = "loop" /\ Take("STA_DISCONNECTED")
  /\ queue' = Tail(queue)
  /\ UNCHANGED <<ready, at, wifi, eth_connected, environment, results>>

StaDisconnected ==
  /\ at = "loop" /\ Take("STA_DISCONNECTED")
  /\ IF eth_connected THEN UNCHANGED wifi ELSE esp_wifi_connect
  /\ queue' = Tail(queue)
  /\ UNCHANGED <<ready, at, eth_connected, environment, results>>

Initialise == wifi_init \/ ethernet_init
Driver == Connected \/ Disconnected
EthHandler == StopWifi \/ EthConnected \/ StartWifi \/ EthDisconnected
Handler == EthHandler \/ StaStart \/ StaDisconnected

Next == Initialise \/ LinkChanges \/ ApChanges \/ Driver \/ Handler

Spec == Init /\ [][Next]_vars

(* app_main initialises both; the drivers and the event loop are tasks     *)
(* FreeRTOS keeps scheduling.                                              *)
FairSpec ==
  Spec /\ WF_vars(Initialise) /\ WF_vars(Driver) /\ WF_vars(Handler)

(***************************************************************************)
(* Properties                                                              *)
(***************************************************************************)
TypeOK ==
  /\ ready \in {"none", "wifi", "eth", "no_eth"}
  /\ queue \in Seq(Events)
  /\ at \in {"loop", "stop", "start"}
  /\ eth_connected \in BOOLEAN
  /\ wifi \in {"off", "stopped", "idle", "connecting", "connected"}
  /\ link \in BOOLEAN /\ ap \in BOOLEAN
  /\ changes \in 0..MaxChanges
  /\ stopFailed \in BOOLEAN /\ startFailed \in BOOLEAN
  /\ failures \in 0..MaxFailures

(* Wi-Fi that has been started and is not connected is never forgotten: an *)
(* event that makes a handler connect it is on its way, whatever order     *)
(* the events of the two drivers are handled in and wherever between its   *)
(* two steps eth_event_handler is.  Only Wi-Fi that an esp_wifi_stop has   *)
(* failed to stop may be forgotten: with Ethernet in use it loses its      *)
(* access point and nobody retries, and the esp_wifi_start of the next     *)
(* ETH_DISCONNECTED finds it running and posts nothing.                    *)
IdleIsRemembered ==
  wifi = "idle" =>
    \/ \E i \in DOMAIN queue : queue[i] \in StaEvents
    \/ stopFailed

(* The flag may lag behind the cable, by the Ethernet events in the queue  *)
(* and no more: when those have been handled the two agree.                *)
NoEth(q) == \A i \in DOMAIN q : q[i] \notin EthEvents
LastEth(q, i) ==
  /\ i \in DOMAIN q /\ q[i] \in EthEvents
  /\ \A j \in DOMAIN q : j > i => q[j] \notin EthEvents

FlagFollowsCable ==
  ready = "eth" =>
    /\ NoEth(queue) => eth_connected = link
    /\ \A i \in DOMAIN queue :
         LastEth(queue, i) => (link <=> queue[i] = "ETH_CONNECTED")

(* Each change of a cable, once Ethernet is started, changes the flag      *)
(* exactly once and in its turn: no event of the cable is lost, repeated   *)
(* or overtaken, and nothing else touches the flag.                        *)
Behind == Cardinality({i \in DOMAIN queue : queue[i] \in EthEvents})

Flag == INSTANCE Follower WITH
  cable <- ready = "eth" /\ link, flag <- eth_connected, behind <- Behind

FollowsEveryChange == Flag!Spec

(* When the access point stays in reach and the cable stays out, or there  *)
(* is no Ethernet, the gateway ends up on Wi-Fi and stays there.  The two  *)
(* calls whose results eth_event_handler ignores can strand it, in one way *)
(* each: Wi-Fi still stopped after an esp_wifi_start that failed, and      *)
(* Wi-Fi forgotten after an esp_wifi_stop that failed.                     *)
WifiTakesOver ==
  <>[](ap /\ (~ link \/ ready = "no_eth")) =>
    \/ <>[](wifi = "connected")
    \/ <>[](wifi = "stopped" /\ startFailed)
    \/ <>[](wifi = "idle" /\ stopFailed)

(* When the cable stays in, it ends up on Ethernet, with Wi-Fi stopped     *)
(* unless the last esp_wifi_stop failed.                                   *)
EthernetTakesOver ==
  <>[](link /\ ready = "eth") =>
    <>[](eth_connected /\ (wifi = "stopped" \/ stopFailed))
=============================================================================
