----------------------------- MODULE Ota_proofs -----------------------------
(* Proofs about Ota, for every set of images and tasks and every number of *)
(* chunks and resets.                                                      *)
EXTENDS Ota, TLAPS

(* A slot whose chunks a step does not touch holds what it held.           *)
LEMMA SlotKept ==
  ASSUME NEW s \in Slots, flash'[s] = flash[s]
  PROVE  Working(s)' = Working(s) /\ Whole(s)' = Whole(s)
BY DEF Working, Whole, Image

(* An image that works is complete.                                        *)
LEMMA WorkingIsWhole ==
  ASSUME NEW s, Working(s)
  PROVE  Whole(s)
BY ImagesAssumption DEF Working, Whole, Image

(* A production device satisfies the invariant.                            *)
LEMMA InitIInv == Init => IInv
<1> SUFFICES ASSUME Init PROVE IInv
  OBVIOUS
<1> USE ImagesAssumption, ChunksAssumption, ResetsAssumption DEF Init, Slots, Off
<1>1. TypeOK
  BY DEF TypeOK, States
<1>2. Working(0)
  BY DEF Working
<1>3. QED
  BY <1>1, <1>2 DEF IInv, NeverBricked, RunningImageIntact, StageInv, RunningInv, Confirmed

(* Nothing that leaves the state alone harms the invariant.                *)
LEMMA StutterPreserves ==
  ASSUME IInv, UNCHANGED vars
  PROVE  IInv'
BY DEF vars, otaData, taskVars, IInv, TypeOK, NeverBricked, RunningImageIntact,
       StageInv, RunningInv, Confirmed, OnTrial, Working, Whole, Image

(* A step of one task inside do_firmware_upgrade, or of the server it      *)
(* downloads from, preserves the invariant.                                *)
LEMMA TaskPreserves ==
  ASSUME IInv, NEW t \in Tasks, OtaBegin(t) \/ Arrive(t) \/ TaskStep(t)
  PROVE  IInv'
<1> USE ImagesAssumption, ChunksAssumption, ResetsAssumption DEF Slots, Off, Other
<1> USE DEF IInv, TypeOK, NeverBricked, RunningImageIntact, StageInv, RunningInv,
            Confirmed, OnTrial
<1>1. CASE OtaBegin(t)
  <2>1. \A s \in Slots : Working(s)' = Working(s) /\ Whole(s)' = Whole(s)
    BY <1>1, SlotKept DEF OtaBegin
  <2>2. TypeOK'
    BY <1>1 DEF OtaBegin, otaData
  <2>3. /\ UNCHANGED <<boot, otaState, running, stage>>
        /\ stage = "run"
        /\ \A u \in Tasks : pc'[u] = "finish" => pc[u] = "finish"
    BY <1>1 DEF OtaBegin, otaData
  <2>4. QED
    BY <2>1, <2>2, <2>3
<1>2. CASE OtaPerformChunk(t)
  <2>1. running \in Slots /\ stage = "run" /\ otaState[running] # "pending"
    BY <1>2 DEF OtaPerformChunk, MayWrite
  <2>2. /\ flash'[running] = flash[running]
        /\ flash' \in [Slots -> [1..Chunks -> Images \cup {Erased}]]
    <3> DEFINE k == offset[t] + 1
    <3>1. /\ Target \in Slots \ {running}
          /\ k \in 1..Chunks
          /\ serving[t] \in Images
      BY <1>2, <2>1 DEF OtaPerformChunk, Target
    <3>2. [flash[Target] EXCEPT ![k] = serving[t]]
            \in [1..Chunks -> Images \cup {Erased}]
      BY <3>1
    <3>3. flash' = [flash EXCEPT ![Target] = [flash[Target] EXCEPT ![k] = serving[t]]]
      BY <1>2 DEF OtaPerformChunk
    <3>4. QED
      BY <2>1, <3>1, <3>2, <3>3
  <2>3. Working(running)' /\ Whole(running)'
    <3>1. running' = running
      BY <1>2 DEF OtaPerformChunk
    <3>2. Working(running) /\ Whole(running)
      BY <2>1, WorkingIsWhole
    <3>3. QED
      BY <2>1, <2>2, <3>1, <3>2 DEF Working, Whole, Image
  <2>4. TypeOK'
    BY <1>2, <2>2 DEF OtaPerformChunk, otaData
  <2>5. NeverBricked'
    BY <1>2, <2>1, <2>3 DEF OtaPerformChunk, otaData
  <2>6. QED
    BY <1>2, <2>1, <2>3, <2>4, <2>5 DEF OtaPerformChunk, otaData
<1>3. CASE OtaPerformDone(t)
  <2>1. \A s \in Slots : Working(s)' = Working(s) /\ Whole(s)' = Whole(s)
    BY <1>3, SlotKept DEF OtaPerformDone
  <2>2. QED
    BY <1>3, <2>1 DEF OtaPerformDone, MayWrite, otaData
<1>4. CASE OtaPerformFails(t)
  <2>1. \A s \in Slots : Working(s)' = Working(s) /\ Whole(s)' = Whole(s)
    BY <1>4, SlotKept DEF OtaPerformFails
  <2>2. QED
    BY <1>4, <2>1 DEF OtaPerformFails, otaData
<1>5. CASE OtaFinish(t)
  <2>1. \A s \in Slots : Working(s)' = Working(s) /\ Whole(s)' = Whole(s)
    BY <1>5, SlotKept DEF OtaFinish
  <2>2. stage = "run" /\ running \in Slots /\ otaState[running] # "pending"
    BY <1>5 DEF OtaFinish
  <2>3. Working(running) /\ Confirmed(running)
    BY <2>2
  <2>4. TypeOK'
    <3>1. Target \in Slots /\ "new" \in States
      BY <2>2 DEF Target, States
    <3>2. boot' \in Slots /\ otaState' \in [Slots -> States]
      BY <1>5, <3>1 DEF OtaFinish, otaData
    <3>3. QED
      BY <1>5, <3>2 DEF OtaFinish
  <2>5. CASE UNCHANGED otaData
    BY <1>5, <2>1, <2>2, <2>4, <2>5 DEF OtaFinish, otaData
  <2>6. CASE boot' = Target /\ otaState' = [otaState EXCEPT ![Target] = "new"]
    <3>1. boot' = Other(running) /\ otaState'[boot'] = "new"
          /\ otaState'[running] = otaState[running]
      BY <2>2, <2>6 DEF Target
    <3>2. QED
      BY <1>5, <2>1, <2>2, <2>3, <2>4, <3>1 DEF OtaFinish
  <2>7. QED
    BY <1>5, <2>5, <2>6 DEF OtaFinish
<1>6. CASE OtaRestart(t)
  <2>1. \A s \in Slots : Working(s)' = Working(s) /\ Whole(s)' = Whole(s)
    BY <1>6, SlotKept DEF OtaRestart
  <2>2. QED
    BY <1>6, <2>1 DEF OtaRestart, Reset, otaData
<1>7. CASE Arrive(t)
  <2>1. \A s \in Slots : Working(s)' = Working(s) /\ Whole(s)' = Whole(s)
    BY <1>7, SlotKept DEF Arrive
  <2>2. QED
    BY <1>7, <2>1 DEF Arrive, otaData
<1>8. CASE OtaPerformNothing(t)
  BY <1>8, StutterPreserves DEF OtaPerformNothing
<1>9. QED
  BY <1>1, <1>2, <1>3, <1>4, <1>5, <1>6, <1>7, <1>8 DEF TaskStep

(* So does every step of a boot and every reset.                           *)
LEMMA BootPreserves ==
  ASSUME IInv, Startup \/ PowerLoss
  PROVE  IInv'
<1> USE ImagesAssumption, ChunksAssumption, ResetsAssumption DEF Slots, Off, Other
<1> USE DEF IInv, TypeOK, NeverBricked, RunningImageIntact, StageInv, RunningInv,
            Confirmed, OnTrial
<1>1. \A s \in Slots : Working(s) => Whole(s)
  BY WorkingIsWhole
<1>2. flash' = flash
  BY DEF Startup, Boot, CheckNotPending, CheckMarkValid, CheckMarkInvalid,
         CrashEarly, PowerLoss
<1>3. \A s \in Slots : Working(s)' = Working(s) /\ Whole(s)' = Whole(s)
  BY <1>2, SlotKept
<1>4. CASE Boot
  <2> DEFINE back == otaState[boot] = "pending"
             chosen == IF back THEN Other(boot) ELSE boot
             marked == IF back THEN [otaState EXCEPT ![boot] = "aborted"]
                               ELSE otaState
  <2>1. /\ stage = "off" /\ stage' = "check"
        /\ boot' = chosen
        /\ otaState' = IF marked[chosen] = "new"
                        THEN [marked EXCEPT ![chosen] = "pending"] ELSE marked
        /\ running' \in Slots /\ Whole(running')
        /\ Whole(chosen) => running' = chosen
        /\ UNCHANGED taskVars
        /\ UNCHANGED resets
    BY <1>4 DEF Boot
  <2>2. CASE back
    <3>1. boot' = Other(boot) /\ otaState' = [otaState EXCEPT ![boot] = "aborted"]
      BY <2>1, <2>2
    <3>2. Confirmed(boot)' /\ Working(boot')
      BY <2>2, <3>1
    <3>3. QED
      BY <1>1, <1>2, <1>3, <2>1, <3>1, <3>2 DEF taskVars, States
  <2>3. CASE ~ back /\ otaState[boot] = "new"
    <3>1. boot' = boot /\ otaState' = [otaState EXCEPT ![boot] = "pending"]
      BY <2>1, <2>3
    <3>2. QED
      BY <1>1, <1>2, <1>3, <2>1, <2>3, <3>1 DEF taskVars, States
  <2>4. CASE ~ back /\ otaState[boot] # "new"
    <3>1. boot' = boot /\ otaState' = otaState /\ Confirmed(boot) /\ Working(boot)
      BY <2>1, <2>4
    <3>2. QED
      BY <1>1, <1>2, <1>3, <2>1, <3>1 DEF taskVars
  <2>5. QED
    BY <2>2, <2>3, <2>4
<1>5. CASE CheckNotPending
  BY <1>1, <1>3, <1>5 DEF CheckNotPending, otaData, taskVars
<1>6. CASE CheckMarkValid
  BY <1>1, <1>3, <1>6 DEF CheckMarkValid, taskVars, States
<1>7. CASE CheckMarkInvalid
  <2>1. /\ stage = "check" /\ Working(running) /\ running \in Slots
        /\ otaState[running] = "pending"
        /\ resets' \in 0..MaxResets
    BY <1>7 DEF CheckMarkInvalid
  <2>2. CASE stage' = "run" /\ UNCHANGED <<otaData, running, taskVars>>
    BY <1>2, <1>3, <2>1, <2>2 DEF otaData, taskVars
  <2>3. CASE /\ otaState' = [otaState EXCEPT ![running] = "invalid"]
             /\ boot' = Other(running)
             /\ Reset
    <3>1. /\ running' = Off /\ stage' = "off" /\ pc' = [u \in Tasks |-> "idle"]
          /\ boot' \in Slots \ {running}
          /\ otaState'[boot'] = otaState[boot']
      BY <2>1, <2>3 DEF Reset
    <3>2. TypeOK'
      BY <1>2, <2>1, <2>3 DEF Reset, States
    <3>3. NeverBricked'
      <4>1. CASE running = boot
        BY <1>3, <2>1, <3>1, <4>1
      <4>2. CASE running # boot
        BY <1>3, <2>1, <2>3, <3>1, <4>2
      <4>3. QED
        BY <4>1, <4>2
    <3>4. QED
      BY <3>1, <3>2, <3>3
  <2>4. QED
    BY <1>7, <2>2, <2>3 DEF CheckMarkInvalid
<1>8. CASE CrashEarly
  <2>1. /\ running' = Off /\ stage' = "off" /\ pc' = [t \in Tasks |-> "idle"]
        /\ boot' = boot /\ otaState' = otaState
    BY <1>8 DEF CrashEarly, otaData, Reset
  <2>2. TypeOK'
    BY <1>2, <1>8 DEF CrashEarly, otaData, Reset
  <2>3. QED
    BY <1>3, <2>1, <2>2
<1>9. CASE PowerLoss
  <2>1. /\ running' = Off /\ stage' = "off" /\ pc' = [t \in Tasks |-> "idle"]
        /\ boot' = boot /\ otaState' = otaState
    BY <1>9 DEF PowerLoss, otaData, Reset
  <2>2. TypeOK'
    BY <1>2, <1>9 DEF PowerLoss, otaData, Reset
  <2>3. QED
    BY <1>3, <2>1, <2>2
<1>10. QED
  BY <1>4, <1>5, <1>6, <1>7, <1>8, <1>9 DEF Startup

(* Whatever the tasks download, and whenever power fails, otadata selects  *)
(* a confirmed working image or keeps one to fall back on, and the image   *)
(* that runs is intact.                                                    *)
THEOREM IInvHolds == Spec => []IInv
<1>1. IInv /\ [Next]_vars => IInv'
  <2> SUFFICES ASSUME IInv, [Next]_vars PROVE IInv'
    OBVIOUS
  <2>1. CASE Next
    BY <2>1, TaskPreserves, BootPreserves DEF Next
  <2>2. CASE UNCHANGED vars
    BY <2>2, StutterPreserves
  <2>3. QED
    BY <2>1, <2>2
<1>2. QED
  BY InitIInv, <1>1, PTL DEF Spec

(* Every variable of an update keeps its range.                            *)
THEOREM TypeCorrect == Spec => []TypeOK
<1>1. IInv => TypeOK
  BY DEF IInv
<1>2. QED
  BY IInvHolds, <1>1, PTL

(* No interleaving of downloads, power losses and failed updates bricks    *)
(* the device.                                                             *)
THEOREM NeverBrickedHolds == Spec => []NeverBricked
<1>1. IInv => NeverBricked
  BY DEF IInv
<1>2. QED
  BY IInvHolds, <1>1, PTL

(* No download overwrites the application that runs.                       *)
THEOREM RunningImageIntactHolds == Spec => []RunningImageIntact
<1>1. IInv => RunningImageIntact
  BY DEF IInv
<1>2. QED
  BY IInvHolds, <1>1, PTL

(* No image is trusted before it has run, or because another one failed    *)
(* unless it had been trusted before.                                      *)
THEOREM TrustIsEarnedHolds == Spec => TrustIsEarned
<1> DEFINE Rule == \A s \in Slots : ~ Trusted(s) /\ Trusted(s)' =>
                     /\ Working(s)
                     /\ stage # "run"
                     /\ running = s \/ (boot = Other(s) /\ OnTrial(boot))
<1>1. IInv /\ [Next]_vars => [Rule]_vars
  <2> SUFFICES ASSUME IInv, Next, NEW s \in Slots, ~ Trusted(s), Trusted(s)'
               PROVE  /\ Working(s)
                      /\ stage # "run"
                      /\ running = s \/ (boot = Other(s) /\ OnTrial(boot))
    OBVIOUS
  <2> USE DEF Trusted, Confirmed, OnTrial, Other, Slots
  <2>t. /\ otaState \in [Slots -> States] /\ boot \in Slots
        /\ running \in Slots \cup {Off}
        /\ NeverBricked /\ RunningInv /\ StageInv
    BY DEF IInv, TypeOK
  <2>1. ASSUME NEW t \in Tasks, OtaFinish(t) PROVE FALSE
    BY <2>1, <2>t DEF OtaFinish, otaData
  <2>2. CASE Boot
    BY <2>2, <2>t DEF Boot, NeverBricked
  <2>3. CASE CheckMarkValid
    BY <2>3, <2>t DEF CheckMarkValid, RunningInv
  <2>4. CASE CheckMarkInvalid
    BY <2>4, <2>t DEF CheckMarkInvalid, otaData, NeverBricked, RunningInv
  <2>5. CASE UNCHANGED otaData
    BY <2>5 DEF otaData
  <2>6. QED
    BY <2>1, <2>2, <2>3, <2>4, <2>5
       DEF Next, TaskStep, OtaBegin, Arrive, OtaPerformNothing,
           OtaPerformChunk, OtaPerformDone, OtaPerformFails, OtaRestart,
           Startup, CheckNotPending, CrashEarly, PowerLoss, otaData, vars
<1>2. QED
  BY IInvHolds, <1>1, PTL DEF Spec, TrustIsEarned

(***************************************************************************)
(* The update implements TrialUpdate.                                      *)
(***************************************************************************)
(* A slot that works holds one image, the one its first chunk belongs to.  *)
LEMMA ImageOfWorking ==
  ASSUME NEW s, Working(s)
  PROVE  Image(s) = {flash[s][1]} /\ flash[s][1] \in Images \ Crashing
<1>1. 1 \in 1..Chunks
  BY ChunksAssumption
<1>2. \A im \in Image(s) : im = flash[s][1]
  BY <1>1 DEF Image
<1>3. flash[s][1] \in Image(s) /\ flash[s][1] \in Images \ Crashing
  BY <1>1 DEF Working, Image
<1>4. QED
  BY <1>2, <1>3

(* While the image is kept, whatever becomes of the candidate is allowed.  *)
LEMMA KeptIsNext ==
  ASSUME (flash[Kept][1])' = flash[Kept][1]
  PROVE  Update!Next
<1>1. Image(boot)' = {} \/ \E im \in Images : Image(boot)' = {im}
  <2>1. 1 \in 1..Chunks
    BY ChunksAssumption
  <2>2. \A im \in Image(boot)' : im = flash'[boot'][1] /\ im \in Images
    BY <2>1 DEF Image
  <2>3. QED
    BY <2>2
<1>2. QED
  BY <1>1 DEF Update!Next, Update!Install, Update!Drop

(* A task that may write, or has downloaded, runs the image that is kept.  *)
LEMMA KeptRuns ==
  ASSUME IInv, running \in Slots, otaState[running] # "pending"
  PROVE  Kept = running
BY DEF IInv, TypeOK, NeverBricked, RunningInv, Kept, Confirmed, OnTrial, Other,
       Slots, Off

(* One that waits for its confirmation is the candidate.                   *)
LEMMA CandidateRuns ==
  ASSUME IInv, running \in Slots, otaState[running] = "pending"
  PROVE  running = boot
BY DEF IInv, TypeOK, NeverBricked, RunningInv, Confirmed, OnTrial, Other,
       Slots, Off

(* However downloads interleave, power fails and images crash, the image   *)
(* the gateway can come back to stays what it is until a candidate works.  *)
THEOREM OtaImplementsTrialUpdate == Spec => ImplementsTrialUpdate
<1>1. Init => Update!Init
  BY ChunksAssumption
     DEF Init, Update!Init, Kept, Confirmed, OnTrial, Slots
<1>2. IInv /\ [Next]_vars => [Update!Next]_(Update!vars)
  <2> SUFFICES ASSUME IInv, [Next]_vars
               PROVE  Update!Next \/ UNCHANGED Update!vars
    OBVIOUS
  <2>t. /\ TypeOK /\ NeverBricked
        /\ boot \in Slots /\ otaState \in [Slots -> States]
        /\ running \in Slots \cup {Off}
        /\ \A t \in Tasks : pc[t] \in {"perform", "finish"} =>
             running \in Slots /\ (pc[t] = "finish" => otaState[running] # "pending")
    BY DEF IInv, TypeOK, StageInv
  <2>s. CASE UNCHANGED <<flash, boot, otaState>>
    <3>1. UNCHANGED Update!vars
      BY <2>s DEF Update!vars, Kept, Confirmed, OnTrial, Other, Image
    <3>2. QED
      BY <3>1
  <2>1. ASSUME NEW t \in Tasks, OtaPerformChunk(t) PROVE Update!Next
    <3>1. Kept = running /\ running \in Slots /\ running # Target
      BY <2>1, <2>t, KeptRuns DEF OtaPerformChunk, MayWrite, Target, Other, Slots
    <3>2. Kept' = Kept
      BY <2>1 DEF OtaPerformChunk, otaData, Kept, Confirmed, Other
    <3>3. flash'[running] = flash[running]
      BY <2>1, <3>1 DEF OtaPerformChunk
    <3>4. QED
      BY <3>1, <3>2, <3>3, KeptIsNext
  <2>2. ASSUME NEW t \in Tasks, OtaFinish(t), ~ UNCHANGED otaData
        PROVE  Update!Next
    <3>1. Kept = running /\ running \in Slots
      BY <2>2, <2>t, KeptRuns DEF OtaFinish
    <3>2. Kept' = running /\ flash' = flash
      BY <2>2, <2>t, <3>1
         DEF OtaFinish, Kept, Confirmed, Target, Other, Slots, States
    <3>3. QED
      BY <3>1, <3>2, KeptIsNext
  <2>3. CASE Boot
    <3>1. Kept' = Kept /\ flash' = flash
      BY <2>3, <2>t
         DEF Boot, Kept, NeverBricked, Confirmed, OnTrial, Other, Slots
    <3>2. QED
      BY <3>1, KeptIsNext
  <2>4. CASE CheckMarkValid
    <3>1. running \in Slots /\ Working(running) /\ running = boot
      BY <2>4, <2>t, CandidateRuns DEF CheckMarkValid, IInv, StageInv
    <3>2. Image(boot) = {flash[boot][1]} /\ flash[boot][1] \in Images \ Crashing
      BY <3>1, ImageOfWorking
    <3>3. OnTrial(boot) /\ Confirmed(boot)' /\ ~ OnTrial(boot)' /\ flash' = flash
      BY <2>4, <2>t, <3>1 DEF CheckMarkValid, OnTrial, Confirmed
    <3>4. (flash[Kept][1])' = flash[boot][1]
      BY <2>4, <3>3 DEF CheckMarkValid, Kept
    <3>5. QED
      BY <3>2, <3>3, <3>4 DEF Update!Next, Update!Accept
  <2>5. CASE CheckMarkInvalid /\ ~ UNCHANGED otaData
    <3>1. running \in Slots /\ running = boot /\ otaState[boot] = "pending"
      BY <2>5, <2>t, CandidateRuns DEF CheckMarkInvalid, IInv, StageInv
    <3>2. Kept' = Kept /\ flash' = flash
      BY <2>5, <2>t, <3>1
         DEF CheckMarkInvalid, Kept, NeverBricked, Confirmed, OnTrial, Other, Slots
    <3>3. QED
      BY <3>2, KeptIsNext
  <2>6. QED
    BY <2>s, <2>1, <2>2, <2>3, <2>4, <2>5
       DEF Next, TaskStep, OtaBegin, Arrive, OtaPerformNothing,
           OtaPerformDone, OtaPerformFails, OtaFinish, OtaRestart, Startup, CheckNotPending, CheckMarkInvalid, CrashEarly,
           PowerLoss, otaData, vars
<1>3. QED
  BY IInvHolds, <1>1, <1>2, PTL DEF Spec, ImplementsTrialUpdate, Update!Spec

(***************************************************************************)
(* What ends every upgrade.                                                *)
(***************************************************************************)

(* Steps an upgrade and its server have ahead of them, at most, without    *)
(* the calls of esp_https_ota_perform that find nothing.                   *)
Ahead(t) ==
  CASE pc[t] = "idle"    -> 0
    [] pc[t] = "perform" -> 2 * (Chunks - offset[t]) + IF arrived[t] THEN 3 ELSE 4
    [] pc[t] = "finish"  -> 2
    [] pc[t] = "restart" -> 1

(* A task that is inside an upgrade comes closer to its end with each step *)
(* of its server and each of its own but a call that finds nothing, and    *)
(* nothing else takes it back.                                             *)
ComesCloser ==
  \A t \in Tasks : pc[t] # "idle" =>
    /\ Ahead(t)' <= Ahead(t)
    /\ TaskStep(t) \/ Arrive(t) => Ahead(t)' < Ahead(t) \/ OtaPerformNothing(t)

LEMMA AheadType ==
  ASSUME TypeOK, NEW t \in Tasks
  PROVE  Ahead(t) \in 0..(2 * Chunks + 4) /\ (pc[t] # "idle" => Ahead(t) > 0)
<1>1. /\ Chunks \in Nat \ {0} /\ offset[t] \in 0..Chunks
      /\ pc[t] \in {"idle", "perform", "finish", "restart"}
      /\ arrived[t] \in BOOLEAN
  BY ChunksAssumption DEF TypeOK
<1>2. QED
  BY <1>1 DEF Ahead

(* A reset ends it.                                                        *)
LEMMA ResetEnds ==
  ASSUME NEW t \in Tasks, Reset
  PROVE  Ahead(t)' = 0
<1>1. pc'[t] = "idle"
  BY DEF Reset
<1>2. QED
  BY <1>1 DEF Ahead

(* One task's step leaves the others where they are, but for the restart,  *)
(* which ends them; and so does the step of its server.                    *)
LEMMA OthersStay ==
  ASSUME TypeOK, NEW t \in Tasks, NEW u \in Tasks, t # u,
         OtaBegin(u) \/ Arrive(u) \/ TaskStep(u)
  PROVE  Ahead(t)' <= Ahead(t)
<1>1. Ahead(t) \in Nat
  BY AheadType, ChunksAssumption
<1>2. CASE OtaRestart(u)
  BY <1>1, <1>2, ResetEnds DEF OtaRestart
<1>3. CASE ~ OtaRestart(u)
  <2>1. pc'[t] = pc[t] /\ offset'[t] = offset[t] /\ arrived'[t] = arrived[t]
    BY <1>3 DEF OtaBegin, Arrive, TaskStep, OtaPerformNothing, OtaPerformChunk,
                OtaPerformDone, OtaPerformFails, OtaFinish, TypeOK, vars
  <2>2. Ahead(t)' = Ahead(t)
    BY <2>1 DEF Ahead
  <2>3. QED
    BY <1>1, <2>2
<1>4. QED
  BY <1>2, <1>3

LEMMA OwnStep ==
  ASSUME TypeOK, NEW t \in Tasks, TaskStep(t) \/ Arrive(t),
         ~ OtaPerformNothing(t)
  PROVE  Ahead(t)' \in Nat /\ Ahead(t)' < Ahead(t)
<1>1. /\ Chunks \in Nat \ {0} /\ offset[t] \in 0..Chunks
      /\ offset \in [Tasks -> 0..Chunks]
      /\ arrived \in [Tasks -> BOOLEAN]
      /\ pc \in [Tasks -> {"idle", "perform", "finish", "restart"}]
  BY ChunksAssumption DEF TypeOK
<1>2. CASE OtaPerformChunk(t)
  BY <1>1, <1>2 DEF OtaPerformChunk, Ahead
<1>3. CASE OtaPerformDone(t)
  BY <1>1, <1>3 DEF OtaPerformDone, Ahead
<1>4. CASE OtaPerformFails(t)
  BY <1>1, <1>4 DEF OtaPerformFails, Ahead
<1>5. CASE OtaFinish(t)
  BY <1>1, <1>5 DEF OtaFinish, Ahead
<1>6. CASE OtaRestart(t)
  BY <1>1, <1>6 DEF OtaRestart, Reset, Ahead
<1>7. CASE Arrive(t)
  BY <1>1, <1>7 DEF Arrive, Ahead
<1>8. QED
  BY <1>2, <1>3, <1>4, <1>5, <1>6, <1>7 DEF TaskStep

(* Whatever other tasks do, an upgrade and its server have at most         *)
(* 2 * Chunks + 4 steps ahead of them, other than calls that find nothing: *)
(* only a server that is silent for ever keeps the upgrade from its end.   *)
THEOREM UpgradesComeCloser ==
  Spec => /\ [](\A t \in Tasks : Ahead(t) \in 0..(2 * Chunks + 4))
          /\ [][ComesCloser]_vars
<1>1. IInv => \A t \in Tasks : Ahead(t) \in 0..(2 * Chunks + 4)
  BY AheadType DEF IInv
<1>2. IInv /\ [Next]_vars => [ComesCloser]_vars
  <2> SUFFICES ASSUME IInv, Next, NEW t \in Tasks, pc[t] # "idle"
               PROVE  /\ Ahead(t)' <= Ahead(t)
                      /\ TaskStep(t) \/ Arrive(t) =>
                           Ahead(t)' < Ahead(t) \/ OtaPerformNothing(t)
    BY DEF ComesCloser
  <2>1. TypeOK /\ Ahead(t) \in Nat
    BY AheadType, ChunksAssumption DEF IInv
  <2>2. TaskStep(t) \/ Arrive(t) => Ahead(t)' < Ahead(t) \/ OtaPerformNothing(t)
    BY <2>1, OwnStep
  <2>3. CASE UNCHANGED taskVars
    <3>1. Ahead(t)' = Ahead(t)
      BY <2>3 DEF taskVars, Ahead
    <3>2. QED
      BY <2>1, <2>2, <3>1
  <2>4. Ahead(t)' <= Ahead(t)
    <3>1. CASE \E u \in Tasks : OtaBegin(u) \/ Arrive(u) \/ TaskStep(u)
      <4>1. ~ OtaBegin(t)
        BY DEF OtaBegin
      <4>2. TaskStep(t) \/ Arrive(t) => Ahead(t)' <= Ahead(t)
        <5>1. CASE OtaPerformNothing(t)
          BY <2>3, <5>1 DEF OtaPerformNothing, vars, taskVars
        <5>2. CASE ~ OtaPerformNothing(t)
          BY <2>1, <5>2, OwnStep
        <5>3. QED
          BY <5>1, <5>2
      <4>3. QED
        BY <2>1, <3>1, <4>1, <4>2, OthersStay
    <3>2. CASE Reset
      BY <2>1, <3>2, ResetEnds
    <3>3. QED
      BY <2>3, <3>1, <3>2
         DEF Next, Startup, Boot, CheckNotPending, CheckMarkValid,
             CheckMarkInvalid, CrashEarly, PowerLoss
  <2>5. QED
    BY <2>2, <2>4
<1>3. QED
  BY <1>1, <1>2, IInvHolds, PTL DEF Spec

=============================================================================
