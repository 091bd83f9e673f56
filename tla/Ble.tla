-------------------------------- MODULE Ble --------------------------------
(***************************************************************************)
(* The BLE server of the gateway: Ble_init, gap_event_handler and          *)
(* gatts_event_handler.                                                    *)
(*                                                                         *)
(* External: Bluedroid and the centrals.  The functions the handlers call  *)
(* only ask the stack for something; it does it later, in any order, and   *)
(* posts an event.  Events are handled one at a time, in the order they    *)
(* are posted, by one task, so that the one that calls do_firmware_upgrade *)
(* keeps all the others waiting.  A connection ends advertising.  A        *)
(* central has one request under way at a time (ATT); writes without a     *)
(* response, which the characteristic allows, come at any time.            *)
(***************************************************************************)
EXTENDS Naturals, Sequences

CONSTANTS
  Centrals,   \* the phones and tablets around
  NoCentral,
  MaxQueue    \* bound: events waiting when a write without response comes

ASSUME CentralAssumption == NoCentral \notin Centrals
ASSUME QueueAssumption == MaxQueue \in Nat

(* ESP_GATTS_READ_EVT; WRITE_EVT with any value, with "OTA", and with      *)
(* is_prep; EXEC_WRITE_EVT.                                                *)
RequestKinds == {"READ", "WRITE", "OTA", "PREP", "EXEC"}
Requests == [evt : RequestKinds, from : Centrals, need_rsp : BOOLEAN]

(* ESP_GATTS_REG_EVT, ESP_GAP_BLE_ADV_DATA_SET_COMPLETE_EVT,               *)
(* ESP_GATTS_DISCONNECT_EVT and ESP_GATTS_CREATE_EVT.  The other events    *)
(* are only logged.                                                        *)
TurnKinds == {"REG", "ADV_DATA_SET", "DISCONNECT"}
StackEvents == [evt : TurnKinds \cup {"CREATE"}]
Events == Requests \cup StackEvents

NotHandling == [evt |-> "none"]
Nothing == "nothing"

VARIABLES
  stack,     \* Bluedroid: "off", or "on" after Ble_init
  queue,     \* events posted to the task that runs the callbacks
  handling,  \* the OTA write its callback is still at work on
  work,      \* what the stack has been asked for and has not done
  adv_config_done,
  adv,       \* the stack advertises
  failed,    \* a registration, the data or a start of advertising has failed
  service,   \* the service is started
  central,   \* the connected central
  awaiting   \* the request it waits for the answer of

setupVars == <<adv_config_done, service>>
linkVars == <<central, awaiting>>
bleVars == <<stack, queue, handling, work, setupVars, adv, failed, linkVars>>

NoWork == [w \in {"config", "start", "create"} |-> 0]

BleInit ==
  /\ stack = "off"
  /\ queue = <<>>
  /\ handling = NotHandling
  /\ work = NoWork
  /\ adv_config_done = 0
  /\ adv = FALSE /\ failed = FALSE /\ service = FALSE
  /\ central = NoCentral /\ awaiting = Nothing

(* The chip resets.                                                        *)
Restart ==
  /\ stack' = "off"
  /\ queue' = <<>>
  /\ handling' = NotHandling
  /\ work' = NoWork
  /\ adv_config_done' = 0
  /\ adv' = FALSE /\ failed' = FALSE /\ service' = FALSE
  /\ central' = NoCentral /\ awaiting' = Nothing

Post(e) == queue' = Append(queue, e)
Ask(w) == [work EXCEPT ![w] = @ + 1]
Done(w) == work[w] > 0 /\ work' = [work EXCEPT ![w] = @ - 1]

(***************************************************************************)
(* Ble_init.  When a registration fails it returns after a message.        *)
(***************************************************************************)
Ble_init ==
  /\ stack = "off"
  /\ stack' = "on"
  /\ \/ Post([evt |-> "REG"]) /\ UNCHANGED failed
     \/ failed' = TRUE /\ UNCHANGED queue
  /\ UNCHANGED <<handling, work, setupVars, adv, linkVars>>

(***************************************************************************)
(* The stack at work: esp_ble_gap_config_adv_data,                         *)
(* esp_ble_gap_start_advertising, esp_ble_gatts_create_service.  That the  *)
(* start failed is only logged (ESP_GAP_BLE_ADV_START_COMPLETE_EVT), and   *)
(* that the data were refused posts nothing and is not looked at.          *)
(***************************************************************************)
ConfigAdvData ==
  /\ Done("config")
  /\ \/ Post([evt |-> "ADV_DATA_SET"]) /\ UNCHANGED failed
     \/ failed' = TRUE /\ UNCHANGED queue
  /\ UNCHANGED <<stack, handling, setupVars, adv, linkVars>>

StartAdvertising ==
  /\ Done("start")
  /\ \/ adv' = TRUE /\ UNCHANGED failed
     \/ failed' = TRUE /\ UNCHANGED adv
  /\ UNCHANGED <<stack, queue, handling, setupVars, linkVars>>

CreateService ==
  /\ Done("create")
  /\ Post([evt |-> "CREATE"])
  /\ UNCHANGED <<stack, handling, setupVars, adv, failed, linkVars>>

(***************************************************************************)
(* The central.                                                            *)
(***************************************************************************)
Connect(c) ==
  /\ adv /\ central = NoCentral
  /\ central' = c
  /\ adv' = FALSE
  /\ UNCHANGED <<stack, queue, handling, work, setupVars, failed, awaiting>>

(* It leaves, is out of reach, or gave up after the 30 s of an ATT request.*)
Disconnect ==
  /\ central # NoCentral
  /\ central' = NoCentral /\ awaiting' = Nothing
  /\ Post([evt |-> "DISCONNECT"])
  /\ UNCHANGED <<stack, handling, work, setupVars, adv, failed>>

Request(kind) ==
  /\ central # NoCentral /\ service
  /\ awaiting = Nothing
  /\ awaiting' = kind
  /\ Post([evt |-> kind, from |-> central, need_rsp |-> TRUE])
  /\ UNCHANGED <<stack, handling, work, setupVars, adv, failed, central>>

WriteCommand(kind) ==
  /\ central # NoCentral /\ service
  /\ Len(queue) < MaxQueue
  /\ Post([evt |-> kind, from |-> central, need_rsp |-> FALSE])
  /\ UNCHANGED <<stack, handling, work, setupVars, adv, failed, linkVars>>

(***************************************************************************)
(* The handlers.  The callbacks' task takes the first event when it is     *)
(* done with the one before.                                               *)
(***************************************************************************)
(* Mutant of Handle: the upgrade has a task of its own.                    *)
Handle_Meanwhile(kind) ==
  /\ queue # <<>> /\ Head(queue).evt = kind
  /\ queue' = Tail(queue)

Handle(kind) ==
  /\ handling = NotHandling /\ queue # <<>> /\ Head(queue).evt = kind
  /\ queue' = Tail(queue)

HandleReg ==
  /\ Handle("REG")
  /\ adv_config_done' = 1
  /\ work' = [work EXCEPT !["config"] = @ + 1, !["create"] = @ + 1]
  /\ UNCHANGED <<stack, handling, service, adv, failed, linkVars>>

(* Mutant of HandleAdvDataSet: the flag is tested before it is cleared.    *)
HandleAdvDataSet_TestFirst ==
  /\ Handle("ADV_DATA_SET")
  /\ adv_config_done' = 0
  /\ work' = IF adv_config_done = 0 THEN Ask("start") ELSE work
  /\ UNCHANGED <<stack, handling, service, adv, failed, linkVars>>

(* The flag is the only one: the test that follows always holds.           *)
HandleAdvDataSet ==
  /\ Handle("ADV_DATA_SET")
  /\ adv_config_done' = 0
  /\ work' = Ask("start")
  /\ UNCHANGED <<stack, handling, service, adv, failed, linkVars>>

HandleCreate ==
  /\ Handle("CREATE")
  /\ service' = TRUE
  /\ UNCHANGED <<stack, handling, work, adv_config_done, adv, failed, linkVars>>

(* Mutant of HandleDisconnect: the event is only logged.                   *)
HandleDisconnect_LogOnly ==
  /\ Handle("DISCONNECT")
  /\ UNCHANGED <<stack, handling, work, setupVars, adv, failed, linkVars>>

HandleDisconnect ==
  /\ Handle("DISCONNECT")
  /\ work' = Ask("config")
  /\ UNCHANGED <<stack, handling, setupVars, adv, failed, linkVars>>

(* esp_ble_gatts_send_response: an answer nobody waits for is dropped.     *)
Respond(r) ==
  awaiting' = IF r.need_rsp /\ central = r.from THEN Nothing ELSE awaiting

(* Mutant of HandleRequest: a write is answered only when it is an upgrade.*)
HandleRequest_ReadOnly ==
  /\ \E kind \in {"READ", "WRITE", "EXEC"} : Handle(kind)
  /\ IF Head(queue).evt = "WRITE" THEN UNCHANGED awaiting
                                  ELSE Respond(Head(queue))
  /\ UNCHANGED <<stack, handling, work, setupVars, adv, failed, central>>

HandleRequest ==
  /\ \E kind \in {"READ", "WRITE", "EXEC"} : Handle(kind)
  /\ Respond(Head(queue))
  /\ UNCHANGED <<stack, handling, work, setupVars, adv, failed, central>>

(* A prepared write is not answered at all.                                *)
HandlePrepared ==
  /\ Handle("PREP")
  /\ UNCHANGED <<stack, handling, work, setupVars, adv, failed, linkVars>>

(* "OTA": the callback calls do_firmware_upgrade ...                       *)
HandleOtaWrite ==
  /\ Handle("OTA")
  /\ handling' = Head(queue)
  /\ UNCHANGED <<stack, work, setupVars, adv, failed, linkVars>>

(* Mutant of UpgradeReturns: an upgrade that failed is not answered.       *)
UpgradeReturns_NoAnswer ==
  /\ handling # NotHandling
  /\ handling' = NotHandling
  /\ UNCHANGED <<stack, queue, work, setupVars, adv, failed, linkVars>>

(* ... and answers when it has returned.                                   *)
UpgradeReturns ==
  /\ handling # NotHandling
  /\ Respond(handling)
  /\ handling' = NotHandling
  /\ UNCHANGED <<stack, queue, work, setupVars, adv, failed, central>>

Stack == ConfigAdvData \/ StartAdvertising \/ CreateService

Central ==
  \/ \E c \in Centrals : Connect(c)
  \/ Disconnect
  \/ \E kind \in RequestKinds : Request(kind)
  \/ \E kind \in {"WRITE", "OTA"} : WriteCommand(kind)

Handler ==
  \/ HandleReg \/ HandleAdvDataSet \/ HandleCreate \/ HandleDisconnect
  \/ HandleRequest \/ HandlePrepared

BleNext ==
  \/ Ble_init \/ Stack \/ Central \/ Handler
  \/ HandleOtaWrite \/ UpgradeReturns
  \/ Restart

BleSpec == BleInit /\ [][BleNext]_bleVars

(***************************************************************************)
(* Properties                                                              *)
(***************************************************************************)
BleTypeOK ==
  /\ stack \in {"off", "on"}
  /\ queue \in Seq(Events)
  /\ handling \in Requests \cup {NotHandling}
  /\ work \in [{"config", "start", "create"} -> Nat]
  /\ adv_config_done \in 0..1
  /\ adv \in BOOLEAN /\ failed \in BOOLEAN /\ service \in BOOLEAN
  /\ central \in Centrals \cup {NoCentral}
  /\ awaiting \in RequestKinds \cup {Nothing}

(* Who has the next turn to make the gateway visible.                      *)
Turns == {i \in DOMAIN queue : queue[i].evt \in TurnKinds}
Places == {"start-up", "event", "data", "start", "air", "central", "failed"}
HasTurn(place) ==
  \/ place = "start-up" /\ stack = "off"
  \/ place = "event" /\ Turns # {}
  \/ place = "data" /\ work["config"] > 0
  \/ place = "start" /\ work["start"] > 0
  \/ place = "air" /\ adv
  \/ place = "central" /\ central # NoCentral
  \/ place = "failed" /\ failed

(* The gateway never forgets to be visible, and is never visible to one    *)
(* central while another is connected: at any time exactly one of the      *)
(* following has the turn - a start-up to come, an event in the queue, a   *)
(* request in the stack, the air, the connected central - unless a failed  *)
(* start, which BLE.c:74 only logs, or refused data (BLE.c:187) ended it.  *)
AdvertisingRemembered ==
  /\ \E place \in Places : \A p \in Places : HasTurn(p) <=> p = place
  /\ \A i, j \in Turns : i = j
  /\ work["config"] <= 1 /\ work["start"] <= 1

(* The requests the callbacks have still to answer.                        *)
Unanswered == {queue[i] : i \in DOMAIN queue} \cup {handling}

(* An answer, which names its connection by a number the stack uses again, *)
(* reaches the central that asked or nobody: however long the upgrade      *)
(* takes, while requests of one central are left no other can connect.     *)
AnswerToAsker ==
  \A r \in Unanswered \cap Requests : central \in {NoCentral, r.from}

(* What makes it inductive: behind a request whose central has left, the   *)
(* event that will let another one connect is still to be handled.         *)
DisconnectBehind(i) ==
  \E j \in DOMAIN queue : j > i /\ queue[j].evt = "DISCONNECT"
LeaversFirst ==
  central = NoCentral =>
    /\ \A i \in DOMAIN queue : queue[i] \in Requests => DisconnectBehind(i)
    /\ handling \in Requests => DisconnectBehind(0)

(* Nobody waits for an answer to a request that is not left, but for a     *)
(* prepared write.                                                         *)
AwaitedIsLeft ==
  /\ awaiting \notin {Nothing, "PREP"} =>
       \E r \in Unanswered \cap Requests :
          r.need_rsp /\ r.evt = awaiting /\ r.from = central
  /\ central = NoCentral => awaiting = Nothing

BleInv == BleTypeOK /\ AdvertisingRemembered /\ AnswerToAsker /\ LeaversFirst
          /\ AwaitedIsLeft
=============================================================================
