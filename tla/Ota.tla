-------------------------------- MODULE Ota --------------------------------
(***************************************************************************)
(* The firmware update of the gateway: do_firmware_upgrade, reached from   *)
(* the BLE "OTA" write and from log_file_from_url, and                     *)
(* check_and_handle_rollback, which app_main runs at every boot.           *)
(* partitions.csv has two application slots and no factory image, and      *)
(* sdkconfig enables the rollback of the bootloader.                       *)
(*                                                                         *)
(* External, modelled from their documented contract: esp_https_ota, the   *)
(* otadata partition and the bootloader.  An application slot is a         *)
(* function from chunk numbers to the image a chunk belongs to, so two     *)
(* downloads into one slot, a truncated one and one cut by a power loss    *)
(* leave a slot that holds no whole image.                                 *)
(***************************************************************************)
EXTENDS Integers

CONSTANTS
  Images,     \* the firmware images that exist
  Crashing,   \* those that never reach check_and_handle_rollback
  Factory,    \* the image flashed in slot 0 at production
  Chunks,     \* chunks an image is downloaded in
  Tasks,      \* tasks that may call do_firmware_upgrade
  MaxResets   \* bound: power losses and crashes the model injects

ASSUME ImagesAssumption ==
  /\ Crashing \subseteq Images
  /\ Factory \in Images \ Crashing
ASSUME ChunksAssumption == Chunks \in Nat \ {0}
ASSUME ResetsAssumption == MaxResets \in Nat

Slots == {0, 1}
Off == 2          \* no application runs
Erased == "erased"
ASSUME ErasedAssumption == Erased \notin Images

Other(s) == 1 - s

States == {"undefined", "new", "pending", "valid", "invalid", "aborted"}

VARIABLES
  flash,    \* what each slot holds, chunk by chunk
  boot,     \* the slot otadata selects
  otaState, \* otadata: the esp_ota_img_states_t of each slot
  running,  \* the slot whose application runs, or Off
  stage,    \* "off", "check" (before check_and_handle_rollback), "run"
  pc,       \* where each task is inside do_firmware_upgrade
  handle,   \* https_ota_handle is not NULL
  serving,  \* the image the server sends to the task
  offset,   \* chunks the task has written
  arrived,  \* the server has sent more, or the connection has ended, since
            \* the task's last chunk
  resets    \* resets injected so far

vars == <<flash, boot, otaState, running, stage, pc, handle, serving, offset,
          arrived, resets>>
taskVars == <<pc, handle, serving, offset, arrived>>
otaData == <<boot, otaState>>

Image(s) == {im \in Images : \A c \in 1..Chunks : flash[s][c] = im}

(* esp_image_verify: the slot holds one image, complete.                   *)
Whole(s) == Image(s) # {}

(* The slot holds an image that gets as far as check_and_handle_rollback.  *)
Working(s) == \E im \in Images \ Crashing :
                 \A c \in 1..Chunks : flash[s][c] = im

(* esp_ota_get_next_update_partition(NULL).                                *)
Target == Other(running)

Init ==
  /\ flash = [s \in Slots |-> [c \in 1..Chunks |->
                                 IF s = 0 THEN Factory ELSE Erased]]
  /\ boot = 0
  /\ otaState = [s \in Slots |-> "undefined"]
  /\ running = Off
  /\ stage = "off"
  /\ pc = [t \in Tasks |-> "idle"]
  /\ handle = [t \in Tasks |-> FALSE]
  /\ serving = [t \in Tasks |-> Factory]
  /\ offset = [t \in Tasks |-> 0]
  /\ arrived = [t \in Tasks |-> FALSE]
  /\ resets = 0

(***************************************************************************)
(* The tasks are gone when the chip resets; flash and otadata stay.        *)
(***************************************************************************)
Reset ==
  /\ running' = Off
  /\ stage' = "off"
  /\ pc' = [t \in Tasks |-> "idle"]
  /\ handle' = [t \in Tasks |-> FALSE]
  /\ serving' = [t \in Tasks |-> Factory]
  /\ offset' = [t \in Tasks |-> 0]
  /\ arrived' = [t \in Tasks |-> FALSE]

(***************************************************************************)
(* do_firmware_upgrade.  A failed esp_https_ota_begin is only logged: the  *)
(* loop then calls esp_https_ota_perform with a NULL handle.               *)
(***************************************************************************)
OtaBegin(t) ==
  /\ stage = "run"
  /\ pc[t] = "idle"
  /\ \E ok \in BOOLEAN, im \in Images :
       /\ handle' = [handle EXCEPT ![t] = ok]
       /\ serving' = [serving EXCEPT ![t] = im]
  /\ pc' = [pc EXCEPT ![t] = "perform"]
  /\ offset' = [offset EXCEPT ![t] = 0]
  /\ arrived' = [arrived EXCEPT ![t] = FALSE]
  /\ UNCHANGED <<flash, otaData, running, stage, resets>>

(* The call that may write: esp_ota_begin refuses while the running image  *)
(* is pending verification.                                                *)
MayWrite(t) == handle[t] /\ otaState[running] # "pending"

(* The server, which nothing obliges to go on: it sends more of the image, *)
(* closes the connection or breaks it off.                                 *)
Arrive(t) ==
  /\ pc[t] = "perform"
  /\ handle[t] /\ ~ arrived[t]
  /\ arrived' = [arrived EXCEPT ![t] = TRUE]
  /\ UNCHANGED <<flash, otaData, running, stage, pc, handle, serving, offset,
                 resets>>

(* ESP_ERR_HTTPS_OTA_IN_PROGRESS with nothing written: the read has timed  *)
(* out after timeout_ms, and the loop calls esp_https_ota_perform again,   *)
(* for as long as the server is silent.                                    *)
Starved(t) == pc[t] = "perform" /\ MayWrite(t) /\ ~ arrived[t]
OtaPerformNothing(t) == Starved(t) /\ UNCHANGED vars

(* Mutant of OtaPerformChunk: the update partition is that of the running  *)
(* application.                                                            *)
OtaPerformChunk_Running(t) ==
  /\ pc[t] = "perform"
  /\ MayWrite(t) /\ arrived[t]
  /\ offset[t] < Chunks
  /\ flash' = [flash EXCEPT ![running][offset[t] + 1] = serving[t]]
  /\ offset' = [offset EXCEPT ![t] = @ + 1]
  /\ arrived' = [arrived EXCEPT ![t] = FALSE]
  /\ UNCHANGED <<otaData, running, stage, pc, handle, serving, resets>>

(* ESP_ERR_HTTPS_OTA_IN_PROGRESS: one more chunk is in the other slot.     *)
OtaPerformChunk(t) ==
  /\ pc[t] = "perform"
  /\ MayWrite(t) /\ arrived[t]
  /\ offset[t] < Chunks
  /\ flash' = [flash EXCEPT ![Target][offset[t] + 1] = serving[t]]
  /\ offset' = [offset EXCEPT ![t] = @ + 1]
  /\ arrived' = [arrived EXCEPT ![t] = FALSE]
  /\ UNCHANGED <<otaData, running, stage, pc, handle, serving, resets>>

(* ESP_OK: the server has closed the connection, after the last chunk or   *)
(* early; esp_https_ota_is_complete_data_received is never asked.          *)
OtaPerformDone(t) ==
  /\ pc[t] = "perform"
  /\ MayWrite(t) /\ arrived[t]
  /\ offset[t] > 0
  /\ pc' = [pc EXCEPT ![t] = "finish"]
  /\ arrived' = [arrived EXCEPT ![t] = FALSE]
  /\ UNCHANGED <<flash, otaData, running, stage, handle, serving, offset,
                 resets>>

(* Any other result: a NULL handle, a pending image, a network or a flash  *)
(* error.  esp_https_ota_abort, then return to the caller.                 *)
OtaPerformFails(t) ==
  /\ pc[t] = "perform"
  /\ MayWrite(t) => arrived[t]
  /\ pc' = [pc EXCEPT ![t] = "idle"]
  /\ handle' = [handle EXCEPT ![t] = FALSE]
  /\ arrived' = [arrived EXCEPT ![t] = FALSE]
  /\ UNCHANGED <<flash, otaData, running, stage, serving, offset, resets>>

(* Mutants of OtaFinish: the new image is selected without a trial, as     *)
(* without the rollback of the bootloader; a failed finish is retried.     *)
OtaFinish_NoTrial(t) ==
  /\ pc[t] = "finish"
  /\ \/ /\ Whole(Target)
        /\ boot' = Target
        /\ otaState' = [otaState EXCEPT ![Target] = "valid"]
     \/ UNCHANGED otaData
  /\ pc' = [pc EXCEPT ![t] = "restart"]
  /\ UNCHANGED <<flash, running, stage, handle, serving, offset, arrived,
                 resets>>

OtaFinish_Retry(t) ==
  /\ pc[t] = "finish"
  /\ \/ /\ Whole(Target)
        /\ boot' = Target
        /\ otaState' = [otaState EXCEPT ![Target] = "new"]
        /\ pc' = [pc EXCEPT ![t] = "restart"]
     \/ UNCHANGED <<otaData, pc>>
  /\ UNCHANGED <<flash, running, stage, handle, serving, offset, arrived,
                 resets>>

(* esp_https_ota_finish verifies the slot and selects it for the next      *)
(* boot.  The code logs a failure and goes on to the restart all the same. *)
OtaFinish(t) ==
  /\ pc[t] = "finish"
  /\ \/ /\ Whole(Target)
        /\ boot' = Target
        /\ otaState' = [otaState EXCEPT ![Target] = "new"]
     \/ UNCHANGED otaData
  /\ pc' = [pc EXCEPT ![t] = "restart"]
  /\ UNCHANGED <<flash, running, stage, handle, serving, offset, arrived,
                 resets>>

(* "OTA Successful. Restarting..." and esp_restart.                        *)
OtaRestart(t) ==
  /\ pc[t] = "restart"
  /\ Reset
  /\ UNCHANGED <<flash, otaData, resets>>

(***************************************************************************)
(* The bootloader.  A slot still pending when the chip resets is aborted   *)
(* and the other one selected; a new one becomes pending.  When the image  *)
(* of the selected slot does not verify, the other slot is tried.          *)
(***************************************************************************)
Boot ==
  /\ stage = "off"
  /\ LET back == otaState[boot] = "pending"
         chosen == IF back THEN Other(boot) ELSE boot
         marked == IF back THEN [otaState EXCEPT ![boot] = "aborted"]
                           ELSE otaState
     IN /\ boot' = chosen
        /\ otaState' = IF marked[chosen] = "new"
                       THEN [marked EXCEPT ![chosen] = "pending"] ELSE marked
        /\ running' \in {s \in Slots : /\ Whole(s)
                                       /\ Whole(chosen) => s = chosen}
  /\ stage' = "check"
  /\ UNCHANGED <<flash, taskVars, resets>>

(***************************************************************************)
(* check_and_handle_rollback.                                              *)
(***************************************************************************)
CheckNotPending ==
  /\ stage = "check"
  /\ Working(running)
  /\ otaState[running] # "pending"
  /\ stage' = "run"
  /\ UNCHANGED <<flash, otaData, running, taskVars, resets>>

(* esp_ota_mark_app_valid_cancel_rollback succeeds.                        *)
CheckMarkValid ==
  /\ stage = "check"
  /\ Working(running)
  /\ otaState[running] = "pending"
  /\ otaState' = [otaState EXCEPT ![running] = "valid"]
  /\ stage' = "run"
  /\ UNCHANGED <<flash, boot, running, taskVars, resets>>

(* Mutant of CheckMarkInvalid: the image is marked invalid but runs on.    *)
CheckMarkInvalid_NoReboot ==
  /\ stage = "check"
  /\ Working(running)
  /\ otaState[running] = "pending"
  /\ resets < MaxResets
  /\ resets' = resets + 1
  /\ otaState' = [otaState EXCEPT ![running] = "invalid"]
  /\ boot' = Other(running)
  /\ stage' = "run"
  /\ UNCHANGED <<flash, running, taskVars>>

(* It fails: esp_ota_mark_app_invalid_rollback_and_reboot, which returns   *)
(* when it fails too.                                                      *)
CheckMarkInvalid ==
  /\ stage = "check"
  /\ Working(running)
  /\ otaState[running] = "pending"
  /\ resets < MaxResets
  /\ resets' = resets + 1
  /\ \/ /\ otaState' = [otaState EXCEPT ![running] = "invalid"]
        /\ boot' = Other(running)
        /\ Reset
     \/ /\ stage' = "run"
        /\ UNCHANGED <<otaData, running, taskVars>>
  /\ UNCHANGED flash

(* An image that crashes before the check: the chip resets.                *)
CrashEarly ==
  /\ stage = "check"
  /\ ~ Working(running)
  /\ Reset
  /\ UNCHANGED <<flash, otaData, resets>>

(* Power is lost, or the application panics, at any moment.                *)
PowerLoss ==
  /\ running # Off
  /\ resets < MaxResets
  /\ resets' = resets + 1
  /\ Reset
  /\ UNCHANGED <<flash, otaData>>

TaskStep(t) ==
  OtaPerformNothing(t) \/ OtaPerformChunk(t) \/ OtaPerformDone(t) \/
  OtaPerformFails(t) \/ OtaFinish(t) \/ OtaRestart(t)

Startup ==
  Boot \/ CheckNotPending \/ CheckMarkValid \/ CheckMarkInvalid \/ CrashEarly

Next ==
  \/ \E t \in Tasks : OtaBegin(t) \/ Arrive(t) \/ TaskStep(t)
  \/ Startup
  \/ PowerLoss

Spec == Init /\ [][Next]_vars

(* The chip boots when powered, and a task inside do_firmware_upgrade runs *)
(* on.  The server is under no obligation: timeout_ms = 5000 bounds one    *)
(* call of esp_https_ota_perform, and nothing bounds the loop around it.   *)
FairSpec == Spec /\ WF_vars(Startup) /\ \A t \in Tasks : WF_vars(TaskStep(t))

(***************************************************************************)
(* Properties                                                              *)
(***************************************************************************)
TypeOK ==
  /\ flash \in [Slots -> [1..Chunks -> Images \cup {Erased}]]
  /\ boot \in Slots
  /\ otaState \in [Slots -> States]
  /\ running \in Slots \cup {Off}
  /\ stage \in {"off", "check", "run"}
  /\ pc \in [Tasks -> {"idle", "perform", "finish", "restart"}]
  /\ handle \in [Tasks -> BOOLEAN]
  /\ serving \in [Tasks -> Images]
  /\ offset \in [Tasks -> 0..Chunks]
  /\ arrived \in [Tasks -> BOOLEAN]
  /\ resets \in 0..MaxResets

(* Slots whose image has been confirmed, or was flashed at production, and *)
(* slots whose image waits for its first boot or for its confirmation.     *)
Confirmed(s) == otaState[s] \in {"undefined", "valid"}
OnTrial(s) == otaState[s] \in {"new", "pending"}

(* Whatever power does to it, the device keeps an image that works: the    *)
(* confirmed one of the slot otadata selects, or, while that slot is on    *)
(* trial, the confirmed one of the other.                                  *)
NeverBricked ==
  \/ Confirmed(boot) /\ Working(boot)
  \/ OnTrial(boot) /\ Confirmed(Other(boot)) /\ Working(Other(boot))

(* The application that runs is never overwritten by a download, however   *)
(* many tasks download at once.                                            *)
RunningImageIntact == running # Off => Whole(running)

(* What makes the two above inductive.                                     *)
StageInv ==
  /\ running = Off <=> stage = "off"
  /\ stage # "run" => \A t \in Tasks : pc[t] = "idle"
  /\ stage = "run" => Working(running)
  /\ \A t \in Tasks : pc[t] = "finish" => otaState[running] # "pending"

RunningInv ==
  running # Off => \/ running = boot /\ otaState[boot] # "new"
                   \/ running = Other(boot) /\ OnTrial(boot)

IInv == TypeOK /\ NeverBricked /\ RunningImageIntact /\ StageInv /\ RunningInv

(* otadata starts to trust a slot - selects it, with no trial ahead - only *)
(* when its own application has got as far as check_and_handle_rollback,   *)
(* or in falling back, before another application runs, from a slot on     *)
(* trial; and what it trusts works.                                        *)
Trusted(s) == boot = s /\ Confirmed(s)

TrustIsEarned ==
  [][\A s \in Slots : ~ Trusted(s) /\ Trusted(s)' =>
       /\ Working(s)
       /\ stage # "run"
       /\ running = s \/ (boot = Other(s) /\ OnTrial(boot))]_vars

(* The update is a TrialUpdate: the image kept is that of the confirmed    *)
(* slot, the candidate the whole image, if any, of a slot on trial.        *)
Kept == IF Confirmed(boot) THEN boot ELSE Other(boot)

Update == INSTANCE TrialUpdate WITH
  Good <- Images \ Crashing,
  kept <- flash[Kept][1],
  candidate <- IF OnTrial(boot) THEN Image(boot) ELSE {}

(* The image kept changes only into a candidate that has run and works,    *)
(* whatever tasks download at once and whenever power fails.               *)
ImplementsTrialUpdate == Update!Spec

(* Every firmware upgrade ends, in a restart or back in its caller, unless *)
(* its server falls silent for ever in the middle of the image: the only   *)
(* way in which the loop of do_firmware_upgrade does not end.              *)
UpgradeEnds ==
  \A t \in Tasks : []<>(pc[t] = "idle") \/ <>[]Starved(t)

(* However an update went, the device comes back to a running application. *)
DeviceReturns == stage # "run" ~> stage = "run"

(* "OTA Successful. Restarting..." is logged only when the downloaded      *)
(* image is the one the next boot starts.                                  *)
SuccessIsInstalled ==
  \A t \in Tasks : pc[t] = "restart" =>
    /\ boot = Target
    /\ otaState[boot] = "new"
=============================================================================
