--------------------------- MODULE Startup_proofs ---------------------------
(* Proofs about Startup, for any number of resets and failures.            *)
EXTENDS Startup, TLAPS

(***************************************************************************)
(* The inductive invariant.  The file is open only in its own case and on  *)
(* a mounted card, a damaged file system is not mounted, and between the   *)
(* read and the open nothing changes the table.                            *)
(***************************************************************************)
WritingInv ==
  writing => /\ mounted
             /\ table = "empty"
             /\ currentState = "WRITE_DEFAULT_SYSTEM_TO_DATABASE"

PowerInv == ~ powered => currentState = "Main_START" /\ ~ writing

DamageInv == damaged => ~ mounted

StartInv ==
  /\ TypeOK
  /\ WritingInv
  /\ PowerInv
  /\ DamageInv
  /\ StartedOnReadableTable

LEMMA InitStart == Init => StartInv
<1>1. 0 \in 0..MaxErrors /\ 0 \in 0..MaxFailures /\ 0 \in 0..MaxResets
  BY BoundsAssumption
<1>2. {"absent", "other", "record"} \subseteq Tables
  BY DEF Tables, Readable
<1>3. Init => TypeOK
  BY <1>1, <1>2, Zenon DEF Init, TypeOK, Cases
<1>4. Init => WritingInv /\ PowerInv /\ DamageInv
  BY DEF Init, WritingInv, PowerInv, DamageInv
<1>5. Init => StartedOnReadableTable
  BY DEF Init, StartedOnReadableTable, Started
<1>6. QED
  BY <1>3, <1>4, <1>5 DEF StartInv

LEMMA NextStart == StartInv /\ [Next]_vars => StartInv'
<1> SUFFICES ASSUME StartInv, [Next]_vars PROVE StartInv'
  OBVIOUS
<1> USE BoundsAssumption
    DEF StartInv, TypeOK, WritingInv, PowerInv, DamageInv,
        StartedOnReadableTable, Started, Readable, Tables, Cases, card, machine
<1>1. CASE emmc_init
  <2>1. TypeOK'
    <3>1. table' \in Tables
      BY <1>1 DEF emmc_init, Fail
    <3>2. failures' \in 0..MaxFailures /\ resets' \in 0..MaxResets
          /\ DBErrorCounter' \in 0..MaxErrors
      BY <1>1 DEF emmc_init, Fail
    <3>3. powered' \in BOOLEAN /\ mounted' \in BOOLEAN /\ writing' \in BOOLEAN
          /\ damaged' \in BOOLEAN /\ MainDelayComplete' \in BOOLEAN
          /\ busy' \in BOOLEAN
          /\ currentState' \in Cases
      BY <1>1, Zenon DEF emmc_init, Fail
    <3>4. QED
      BY <3>1, <3>2, <3>3, Zenon
  <2>2. WritingInv' /\ PowerInv'
    BY <1>1 DEF emmc_init, Fail
  <2>3. DamageInv'
    BY <1>1 DEF emmc_init, Fail
  <2>4. StartedOnReadableTable'
    BY <1>1 DEF emmc_init, Fail
  <2>5. QED
    BY <2>1, <2>2, <2>3, <2>4
<1>2. CASE MainStart
  BY <1>2 DEF MainStart
<1>3. CASE GetNumSystems
  BY <1>3 DEF GetNumSystems, Reading
<1>4. CASE GetNumSystemsFails
  BY <1>4 DEF GetNumSystemsFails, Reading, Fail
<1>5. CASE WriteDefaultOpen
  BY <1>5 DEF WriteDefaultOpen, Writing
<1>6. CASE WriteDefaultFails
  BY <1>6 DEF WriteDefaultFails, Writing, Fail
<1>7. CASE WriteDefaultPut
  <2>1. TypeOK'
    <3>1. table' \in Tables
      BY <1>7 DEF WriteDefaultPut, Writing, Fail
    <3>2. failures' \in 0..MaxFailures /\ resets' \in 0..MaxResets
          /\ DBErrorCounter' \in 0..MaxErrors
      BY <1>7 DEF WriteDefaultPut, Writing, Fail
    <3>3. powered' \in BOOLEAN /\ mounted' \in BOOLEAN /\ writing' \in BOOLEAN
          /\ damaged' \in BOOLEAN /\ MainDelayComplete' \in BOOLEAN
          /\ busy' \in BOOLEAN
          /\ currentState' \in Cases
      BY <1>7, Zenon DEF WriteDefaultPut, Writing, Fail
    <3>4. QED
      BY <3>1, <3>2, <3>3, Zenon
  <2>2. WritingInv' /\ PowerInv'
    BY <1>7 DEF WriteDefaultPut, Writing, Fail
  <2>3. DamageInv'
    BY <1>7 DEF WriteDefaultPut, Writing, Fail
  <2>4. StartedOnReadableTable'
    BY <1>7 DEF WriteDefaultPut, Writing, Fail
  <2>5. QED
    BY <2>1, <2>2, <2>3, <2>4
<1>8. CASE Reset
  <2>1. TypeOK'
    <3>1. table' \in Tables
      BY <1>8 DEF Reset
    <3>2. failures' \in 0..MaxFailures /\ resets' \in 0..MaxResets
          /\ DBErrorCounter' \in 0..MaxErrors
      BY <1>8 DEF Reset
    <3>3. powered' \in BOOLEAN /\ mounted' \in BOOLEAN /\ writing' \in BOOLEAN
          /\ damaged' \in BOOLEAN /\ MainDelayComplete' \in BOOLEAN
          /\ busy' \in BOOLEAN
          /\ currentState' \in Cases
      BY <1>8, Zenon DEF Reset
    <3>4. QED
      BY <3>1, <3>2, <3>3, Zenon
  <2>2. WritingInv' /\ PowerInv'
    BY <1>8 DEF Reset
  <2>3. DamageInv'
    BY <1>8 DEF Reset
  <2>4. StartedOnReadableTable'
    BY <1>8 DEF Reset
  <2>5. QED
    BY <2>1, <2>2, <2>3, <2>4
<1>9. CASE CardWrite
  <2>1. TypeOK'
    BY <1>9, Zenon DEF CardWrite
  <2>2. UNCHANGED <<powered, mounted, damaged, table, currentState, writing, failures>>
    BY <1>9 DEF CardWrite
  <2>3. WritingInv' /\ PowerInv' /\ DamageInv' /\ StartedOnReadableTable'
    BY <2>2
  <2>4. QED
    BY <2>1, <2>3
<1>10. CASE UNCHANGED vars
  BY <1>10 DEF vars
<1>11. QED
  BY <1>1, <1>2, <1>3, <1>4, <1>5, <1>6, <1>7, <1>8, <1>9, <1>10
     DEF Next, startup_process

LEMMA StartInvariant == Spec => []StartInv
BY InitStart, NextStart, PTL DEF Spec

(* Every state is of the declared types.                                   *)
THEOREM TypeCorrect == Spec => []TypeOK
<1>1. StartInv => TypeOK
  BY DEF StartInv
<1>2. QED
  BY <1>1, StartInvariant, PTL

(* The start goes on only over a table it has read.                        *)
THEOREM StartedOnReadableTableHolds == Spec => []StartedOnReadableTable
<1>1. StartInv => StartedOnReadableTable
  BY DEF StartInv
<1>2. QED
  BY <1>1, StartInvariant, PTL

(* A step that makes a readable table unreadable is the open or the format.*)
LEMMA NextLost ==
  StartInv /\ [Next]_vars =>
    (table \in Readable /\ table' \notin Readable =>
       (~ writing /\ writing') \/ (damaged /\ ~ damaged'))
<1> SUFFICES ASSUME StartInv, [Next]_vars, table \in Readable,
                    table' \notin Readable
             PROVE  (~ writing /\ writing') \/ (damaged /\ ~ damaged')
  OBVIOUS
<1> USE DEF StartInv, WritingInv, Readable, card, machine
<1>1. CASE emmc_init
  BY <1>1 DEF emmc_init
<1>2. CASE WriteDefaultOpen
  BY <1>2 DEF WriteDefaultOpen, Writing
<1>3. CASE WriteDefaultPut
  BY <1>3 DEF WriteDefaultPut, Writing
<1>4. CASE Reset
  BY <1>4 DEF Reset
<1>5. CASE UNCHANGED table
  BY <1>5
<1>6. QED
  BY <1>1, <1>2, <1>3, <1>4, <1>5
     DEF Next, startup_process, MainStart, GetNumSystems, GetNumSystemsFails,
         WriteDefaultFails, CardWrite, vars

(* Only Write_default_System_json opening the file, and the format of a    *)
(* file system that some write to the card has left damaged, take a        *)
(* readable table away.                                                    *)
THEOREM TableLostOnlyToOpenOrFormatHolds == Spec => TableLostOnlyToOpenOrFormat
<1>1. StartInv /\ [Next]_vars =>
        [(table \in Readable /\ table' \notin Readable) =>
           (~ writing /\ writing') \/ (damaged /\ ~ damaged')]_vars
  BY NextLost
<1>2. QED
  BY <1>1, StartInvariant, PTL DEF Spec, TableLostOnlyToOpenOrFormat

(***************************************************************************)
(* What ends the start.                                                    *)
(***************************************************************************)

(* A start over a table that can be read, or that it is writing.           *)
Starting ==
  /\ powered /\ mounted
  /\ table \in Readable \/ writing
  /\ currentState # "GET_NUM_FIRMWARES"

(* Calls of startup_process it has ahead of it, at most: each failure      *)
(* costs one more.                                                         *)
Ahead ==
  (MaxFailures - failures) +
  (IF currentState = "Main_START" THEN 4
   ELSE IF currentState = "GET_NUM_SYSTEMS" THEN 3
   ELSE IF ~ writing THEN 2 ELSE 1)

(* It gets to the firmware table, is reset, or comes closer to its end;    *)
(* the other writers of the card do not take it back.                      *)
Advances ==
  Starting => \/ currentState' = "GET_NUM_FIRMWARES"
              \/ ~ powered'
              \/ Starting' /\ Ahead' < Ahead
              \/ CardWrite /\ Starting' /\ Ahead' = Ahead

(* NumSystemRecords is 0, so READ_SYSTEM_FROM_DATABASE is not reached.     *)
NeverReads == currentState # "READ_SYSTEM_FROM_DATABASE"

LEMMA NextNeverReads == NeverReads /\ [Next]_vars => NeverReads'
BY DEF NeverReads, Next, emmc_init, startup_process, MainStart, GetNumSystems,
       GetNumSystemsFails, WriteDefaultOpen, WriteDefaultFails, WriteDefaultPut,
       CardWrite, Reset, Fail, machine, NumSystemRecords, vars

LEMMA NextAdvances == StartInv /\ NeverReads /\ Next => Advances
<1> SUFFICES ASSUME StartInv, NeverReads, Next, Starting
             PROVE  \/ currentState' = "GET_NUM_FIRMWARES"
                    \/ ~ powered'
                    \/ Starting' /\ Ahead' < Ahead
                    \/ CardWrite /\ Starting' /\ Ahead' = Ahead
  BY DEF Advances
<1>1. /\ failures \in 0..MaxFailures /\ MaxFailures \in Nat
      /\ writing => /\ table = "empty"
                    /\ currentState = "WRITE_DEFAULT_SYSTEM_TO_DATABASE"
  BY BoundsAssumption DEF StartInv, TypeOK, WritingInv
<1>2. ~ emmc_init
  BY DEF emmc_init, Starting
<1>3. CASE MainStart
  BY <1>1, <1>3 DEF MainStart, Starting, Ahead, card
<1>4. CASE GetNumSystems
  BY <1>1, <1>4 DEF GetNumSystems, Reading, Starting, Ahead, card, NumSystemRecords
<1>5. CASE GetNumSystemsFails
  BY <1>1, <1>5 DEF GetNumSystemsFails, Reading, Fail, Starting, Ahead, card
<1>6. CASE WriteDefaultOpen
  BY <1>1, <1>6 DEF WriteDefaultOpen, Writing, Starting, Ahead, card
<1>7. CASE WriteDefaultFails \/ WriteDefaultPut
  BY <1>7 DEF WriteDefaultFails, WriteDefaultPut
<1>8. CASE Reset
  BY <1>8 DEF Reset
<1>9. CASE CardWrite
  BY <1>9 DEF CardWrite, machine, Starting, Ahead
<1>10. QED
  BY <1>2, <1>3, <1>4, <1>5, <1>6, <1>7, <1>8, <1>9 DEF Next, startup_process

(* With a readable table on a mounted card, every call of startup_process  *)
(* brings the machine closer to the firmware table, whatever fails on the  *)
(* way; only a reset takes it back.                                        *)
THEOREM StartAdvances ==
  Spec => /\ [](Ahead \in 1..(MaxFailures + 4))
          /\ [][Advances]_vars
<1>1. Init => NeverReads
  BY DEF Init, NeverReads
<1>2. TypeOK => Ahead \in 1..(MaxFailures + 4)
  BY BoundsAssumption DEF TypeOK, Ahead
<1>3. StartInv /\ NeverReads /\ [Next]_vars => [Advances]_vars
  BY NextAdvances
<1>4. QED
  BY <1>1, <1>2, <1>3, NextNeverReads, StartInvariant, TypeCorrect, PTL DEF Spec

=============================================================================
