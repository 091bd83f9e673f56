------------------------------ MODULE Gateway ------------------------------
(***************************************************************************)
(* What starts a firmware upgrade, with the upgrade: the BLE server, whose *)
(* callback runs do_firmware_upgrade for the "OTA" write, and              *)
(* log_file_from_url, which runs it for a text that starts with "ota".     *)
(* They end together when the chip resets; Ble_init runs after             *)
(* check_and_handle_rollback (app_main).                                   *)
(***************************************************************************)
EXTENDS Ble

CONSTANTS
  Images, Crashing, Factory, Chunks, MaxResets,   \* as in Ota
  MaxAsks     \* bound: texts of log_file_from_url that ask for an upgrade

VARIABLES
  flash, boot, otaState, running, stage, pc, handle, serving, offset, arrived,
  resets,     \* as in Ota
  log,        \* log_file_from_url: "idle", "open", "read" or "upgrade"
  asks        \* history: texts that have asked for an upgrade

O == INSTANCE Ota WITH Tasks <- {"ble", "http"}

ASSUME AsksAssumption == MaxAsks \in Nat
(* As in Ota.                                                              *)
ASSUME ImagesAssumption ==
  /\ Crashing \subseteq Images
  /\ Factory \in Images \ Crashing
ASSUME ChunksAssumption == Chunks \in Nat \ {0}
ASSUME ResetsAssumption == MaxResets \in Nat
ASSUME ErasedAssumption == O!Erased \notin Images

otaVars == <<flash, boot, otaState, running, stage, pc, handle, serving, offset,
             arrived, resets>>
logVars == <<log, asks>>
gatewayVars == <<bleVars, otaVars, logVars>>

GatewayInit == BleInit /\ O!Init /\ log = "idle" /\ asks = 0

(***************************************************************************)
(* log_file_from_url.  A read that does not start with "ota" changes       *)
(* nothing.  Nothing remembers that an upgrade has been made: a text that  *)
(* goes on asking for one restarts the gateway each time it is read.       *)
(***************************************************************************)
LogOpen ==
  /\ stage = "run" /\ log = "idle"
  /\ log' = "open"
  /\ UNCHANGED <<bleVars, otaVars, asks>>

(* The connection or its headers fail.                                     *)
LogFails ==
  /\ log = "open"
  /\ log' = "idle"
  /\ UNCHANGED <<bleVars, otaVars, asks>>

LogHeaders ==
  /\ log = "open"
  /\ log' = "read"
  /\ UNCHANGED <<bleVars, otaVars, asks>>

LogOta ==
  /\ log = "read" /\ asks < MaxAsks
  /\ asks' = asks + 1
  /\ log' = "upgrade"
  /\ O!OtaBegin("http")
  /\ UNCHANGED bleVars

(* Mutant of LogEnd: after an error the address is asked again.            *)
LogEnd_Again ==
  /\ log = "read"
  /\ log' \in {"idle", "open"}
  /\ UNCHANGED <<bleVars, otaVars, asks>>

(* The end of the answer, or an error.                                     *)
LogEnd ==
  /\ log = "read"
  /\ log' = "idle"
  /\ UNCHANGED <<bleVars, otaVars, asks>>

LogStep == LogFails \/ LogHeaders \/ LogOta \/ LogEnd

(***************************************************************************)
(* A step of the upgrade, or of the start-up, and what goes with it: its   *)
(* caller goes on when it returns, and a reset ends all.                   *)
(***************************************************************************)
Returns(t) == pc[t] # "idle" /\ pc'[t] = "idle"

UpgradeStep(A) ==
  /\ A
  /\ IF stage' = "off"
     THEN Restart /\ log' = "idle"
     ELSE /\ IF Returns("ble") THEN UpgradeReturns ELSE UNCHANGED bleVars
          /\ log' = IF Returns("http") THEN "read" ELSE log
  /\ UNCHANGED asks

BleUpgrade == UpgradeStep(O!TaskStep("ble"))
HttpUpgrade == UpgradeStep(O!TaskStep("http"))
Servers ==
  /\ \E t \in {"ble", "http"} : O!Arrive(t)
  /\ UNCHANGED <<bleVars, logVars>>
BootUp == UpgradeStep(O!Startup)
PowerLoss == UpgradeStep(O!PowerLoss)

(***************************************************************************)
(* The BLE server.                                                         *)
(***************************************************************************)
BleOnly(A) == stage = "run" /\ A /\ UNCHANGED <<otaVars, logVars>>

BleStart == BleOnly(Ble_init)
BleStack == BleOnly(Stack)
BleCentral == BleOnly(Central)
BleHandler == BleOnly(Handler)

BleOta == HandleOtaWrite /\ O!OtaBegin("ble") /\ UNCHANGED logVars

GatewayNext ==
  \/ BleStart \/ BleStack \/ BleCentral \/ BleHandler \/ BleOta
  \/ LogOpen \/ LogStep
  \/ BleUpgrade \/ HttpUpgrade \/ Servers \/ BootUp \/ PowerLoss

GatewaySpec == GatewayInit /\ [][GatewayNext]_gatewayVars

(* The stack does what it is asked, the callbacks' task and the task that  *)
(* reads the log run, also inside an upgrade.  Its server need not go on.  *)
GatewayFairSpec ==
  /\ GatewaySpec
  /\ WF_gatewayVars(BootUp)
  /\ WF_gatewayVars(BleStart)
  /\ WF_gatewayVars(BleOnly(ConfigAdvData))
  /\ WF_gatewayVars(BleOnly(StartAdvertising))
  /\ WF_gatewayVars(BleOnly(CreateService))
  /\ WF_gatewayVars(BleHandler \/ BleOta)
  /\ WF_gatewayVars(LogStep)
  /\ WF_gatewayVars(BleUpgrade) /\ WF_gatewayVars(HttpUpgrade)

(***************************************************************************)
(* Properties                                                              *)
(***************************************************************************)

(* The callbacks' task is in an upgrade exactly while one event keeps it.  *)
OneCaller ==
  /\ (handling # NotHandling) <=> pc["ble"] # "idle"
  /\ (log = "upgrade") <=> pc["http"] # "idle"
  /\ stack = "on" => stage = "run"

(* What the callbacks' task does not survive: an upgrade it runs, from a   *)
(* server that falls silent for ever in the middle of the image.           *)
CallbacksStarve == <>[]O!Starved("ble")

(* A request other than a prepared write is answered, unless its central   *)
(* leaves - also the "OTA" write whose upgrade fails -, or the upgrade of  *)
(* some "OTA" write starves the callbacks' task.                           *)
Served == []<>(awaiting \in {Nothing, "PREP"}) \/ CallbacksStarve

(* Whatever happens to upgrades and power, the gateway is again and again  *)
(* on the air or connected, unless a start of advertising failed or an     *)
(* upgrade starves the callbacks' task.                                    *)
ReachableAgain ==
  []<>(adv \/ central # NoCentral \/ failed) \/ CallbacksStarve

(* log_file_from_url ends, however often its text asks for an upgrade,     *)
(* unless the server of one falls silent for ever.                         *)
LogEnds == []<>(log = "idle") \/ <>[]O!Starved("http")
=============================================================================
