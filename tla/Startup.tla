------------------------------ MODULE Startup ------------------------------
(***************************************************************************)
(* The start of the main state machine: startup_process, one call of which *)
(* executes one case, with GetNumberOfSystemRecords,                       *)
(* Write_default_System_json and emmc_init.  The state machine is in RAM;  *)
(* what it works on is one file, /emmc/System.json, which outlives a       *)
(* reset.  Nothing under src/ calls startup_process yet: the model calls   *)
(* it over and over, as the switch over currentState asks for.             *)
(*                                                                         *)
(* External: the FAT file system.  A file opened with "w" is empty, what   *)
(* fputs writes is only partly on the card until fclose, and a reset       *)
(* between the two, or while another file is being written, may leave a    *)
(* file system that does not mount, which format_if_mount_failed then      *)
(* replaces by an empty one.  The other writers are those of Card: the     *)
(* downloads and the tables.                                               *)
(***************************************************************************)
EXTENDS Naturals

CONSTANTS
  MaxResets,    \* bound: resets injected
  MaxFailures,  \* bound: failures of the card, of stdio or of malloc
  MaxErrors     \* bound: where DBErrorCounter stops counting

ASSUME BoundsAssumption ==
  MaxResets \in Nat /\ MaxFailures \in Nat /\ MaxErrors \in Nat

(* What System.json holds.  "record" is the entry of a gateway that has    *)
(* been set up, "defaults" what Write_default_System_json writes, "other"  *)
(* a JSON text without an eData object.                                    *)
Readable == {"record", "defaults"}
Tables == Readable \cup {"absent", "empty", "partial", "other"}

Cases == {"Main_START", "GET_NUM_SYSTEMS", "WRITE_DEFAULT_SYSTEM_TO_DATABASE",
          "READ_SYSTEM_FROM_DATABASE", "GET_NUM_FIRMWARES"}

VARIABLES
  powered,            \* the chip runs and has passed emmc_init
  mounted,            \* the card is mounted
  damaged,            \* the file system on the card does not mount
  busy,               \* another file of the card is being written
  table,              \* what System.json holds
  currentState,       \* the case of the next call
  MainDelayComplete,
  writing,            \* Write_default_System_json has opened the file
  DBErrorCounter,
  failures,           \* failures injected so far
  resets              \* resets injected so far

vars == <<powered, mounted, damaged, busy, table, currentState,
          MainDelayComplete, writing, DBErrorCounter, failures, resets>>
card == <<mounted, damaged, busy>>
machine == <<currentState, MainDelayComplete, writing, DBErrorCounter>>

(* A file-scope int of emmc.c that nothing assigns.                        *)
NumSystemRecords == 0

Init ==
  /\ powered = FALSE
  /\ mounted = FALSE
  /\ damaged = FALSE
  /\ busy = FALSE
  /\ table \in {"absent", "other", "record"}
  /\ currentState = "Main_START"
  /\ MainDelayComplete = FALSE
  /\ writing = FALSE
  /\ DBErrorCounter = 0
  /\ failures = 0
  /\ resets = 0

(* Something that worked until now fails.                                  *)
Fail ==
  /\ failures < MaxFailures
  /\ failures' = failures + 1

(* Mutant of emmc_init: the card is formatted whenever it does not mount   *)
(* at once.                                                                *)
emmc_init_Format ==
  /\ ~ powered
  /\ powered' = TRUE
  /\ mounted' = TRUE
  /\ damaged' = FALSE
  /\ \/ /\ table' = IF damaged THEN "absent" ELSE table
        /\ UNCHANGED failures
     \/ Fail /\ table' = "absent"
  /\ UNCHANGED <<busy, machine, resets>>

(***************************************************************************)
(* emmc_init.  It only logs that the mount failed: the machine starts.     *)
(***************************************************************************)
emmc_init ==
  /\ ~ powered
  /\ powered' = TRUE
  /\ \/ /\ mounted' = TRUE
        /\ damaged' = FALSE
        /\ table' = IF damaged THEN "absent" ELSE table
        /\ UNCHANGED failures
     \/ /\ Fail
        /\ mounted' = FALSE
        /\ UNCHANGED <<damaged, table>>
  /\ UNCHANGED <<busy, machine, resets>>

(***************************************************************************)
(* The cases of startup_process.                                           *)
(***************************************************************************)
MainStart ==
  /\ powered
  /\ currentState = "Main_START"
  /\ MainDelayComplete' = TRUE
  /\ currentState' = "GET_NUM_SYSTEMS"
  /\ UNCHANGED <<powered, card, table, writing, DBErrorCounter, failures, resets>>

Reading == powered /\ currentState = "GET_NUM_SYSTEMS" /\ MainDelayComplete

(* GetNumberOfSystemRecords counts nothing: it returns true for any file   *)
(* whose JSON text has an eData object.                                    *)
GetNumSystems ==
  /\ Reading
  /\ mounted /\ table \in Readable
  /\ currentState' = IF NumSystemRecords = 0
                       THEN "WRITE_DEFAULT_SYSTEM_TO_DATABASE"
                       ELSE "READ_SYSTEM_FROM_DATABASE"
  /\ UNCHANGED <<powered, card, table, MainDelayComplete, writing,
                 DBErrorCounter, failures, resets>>

(* Mutant of GetNumSystemsFails: the result of the read is not looked at.  *)
GetNumSystemsFails_Ignored ==
  /\ Reading
  /\ \/ ~ (mounted /\ table \in Readable) /\ UNCHANGED failures
     \/ mounted /\ table \in Readable /\ Fail
  /\ currentState' = "WRITE_DEFAULT_SYSTEM_TO_DATABASE"
  /\ UNCHANGED <<powered, card, table, MainDelayComplete, writing,
                 DBErrorCounter, resets>>

(* It returns false where fopen, malloc, the parse or the search for eData *)
(* fails; the case is executed again.                                      *)
GetNumSystemsFails ==
  /\ Reading
  /\ \/ ~ (mounted /\ table \in Readable) /\ UNCHANGED failures
     \/ mounted /\ table \in Readable /\ Fail
  /\ DBErrorCounter' = IF DBErrorCounter < MaxErrors THEN DBErrorCounter + 1
                                                     ELSE DBErrorCounter
  /\ UNCHANGED <<powered, card, table, currentState, MainDelayComplete, writing,
                 resets>>

Writing(open) ==
  powered /\ currentState = "WRITE_DEFAULT_SYSTEM_TO_DATABASE" /\ writing = open

(* fopen(filepath, "w").                                                   *)
WriteDefaultOpen ==
  /\ Writing(FALSE)
  /\ table' = "empty"
  /\ writing' = TRUE
  /\ UNCHANGED <<powered, card, currentState, MainDelayComplete, DBErrorCounter,
                 failures, resets>>

(* cJSON_Print or fopen fails.                                             *)
WriteDefaultFails ==
  /\ Writing(FALSE)
  /\ Fail
  /\ currentState' = "GET_NUM_FIRMWARES"
  /\ UNCHANGED <<powered, card, table, MainDelayComplete, writing,
                 DBErrorCounter, resets>>

(* Mutant of WriteDefaultPut: the case is not left.                        *)
WriteDefaultPut_Again ==
  /\ Writing(TRUE)
  /\ \/ table' = "defaults" /\ UNCHANGED failures
     \/ table' = "partial" /\ Fail
  /\ writing' = FALSE
  /\ UNCHANGED <<powered, card, currentState, MainDelayComplete, DBErrorCounter,
                 resets>>

(* fputs and fclose.  fputs may fail; the result of fclose, which writes   *)
(* the last of the text, is not looked at.  The caller goes on either way. *)
WriteDefaultPut ==
  /\ Writing(TRUE)
  /\ \/ table' = "defaults" /\ UNCHANGED failures
     \/ table' = "partial" /\ Fail
  /\ writing' = FALSE
  /\ currentState' = "GET_NUM_FIRMWARES"
  /\ UNCHANGED <<powered, card, MainDelayComplete, DBErrorCounter, resets>>

(* READ_SYSTEM_FROM_DATABASE and GET_NUM_FIRMWARES are stubs: a call of    *)
(* startup_process leaves them unchanged.                                  *)
startup_process ==
  \/ MainStart
  \/ GetNumSystems \/ GetNumSystemsFails
  \/ WriteDefaultOpen \/ WriteDefaultFails \/ WriteDefaultPut

(* A download or a table of another task begins, or ends, to be written.   *)
CardWrite ==
  /\ powered /\ mounted
  /\ busy' = ~ busy
  /\ UNCHANGED <<powered, mounted, damaged, table, machine, failures, resets>>

(* A reset: the machine starts again.  While the file is open, a part of   *)
(* the text may be on the card; while any is, the file system may not      *)
(* mount again.                                                            *)
Reset ==
  /\ powered
  /\ resets < MaxResets
  /\ resets' = resets + 1
  /\ powered' = FALSE
  /\ mounted' = FALSE
  /\ table' \in IF writing THEN {"empty", "partial"} ELSE {table}
  /\ damaged' \in IF writing \/ busy THEN BOOLEAN ELSE {damaged}
  /\ busy' = FALSE
  /\ currentState' = "Main_START"
  /\ MainDelayComplete' = FALSE
  /\ writing' = FALSE
  /\ DBErrorCounter' = 0
  /\ UNCHANGED failures

Next == emmc_init \/ startup_process \/ CardWrite \/ Reset

Spec == Init /\ [][Next]_vars

(* The chip boots when powered, and its main loop calls startup_process.   *)
FairSpec == Spec /\ WF_vars(emmc_init) /\ WF_vars(startup_process)

(***************************************************************************)
(* Properties                                                              *)
(***************************************************************************)
TypeOK ==
  /\ powered \in BOOLEAN /\ mounted \in BOOLEAN /\ damaged \in BOOLEAN
  /\ busy \in BOOLEAN
  /\ table \in Tables
  /\ currentState \in Cases
  /\ MainDelayComplete \in BOOLEAN
  /\ writing \in BOOLEAN
  /\ DBErrorCounter \in 0..MaxErrors
  /\ failures \in 0..MaxFailures
  /\ resets \in 0..MaxResets

Started == {"GET_NUM_FIRMWARES", "READ_SYSTEM_FROM_DATABASE"}

(* The start never goes on over a table it could not read: the table of a  *)
(* machine that has is readable, unless a call of stdio failed, and the    *)
(* defaults are written only over a readable one.                          *)
StartedOnReadableTable ==
  /\ currentState \in Started =>
       mounted /\ (table \in Readable \/ failures > 0)
  /\ currentState = "WRITE_DEFAULT_SYSTEM_TO_DATABASE" /\ ~ writing =>
       mounted /\ table \in Readable

(* A table that can be read is lost to Write_default_System_json opening   *)
(* it, and to the format of a file system that an earlier reset, in the    *)
(* middle of some write to the card, has damaged: never to a mount or a    *)
(* read that failed, nor to a reset as such.                               *)
TableLostOnlyToOpenOrFormat ==
  [][(table \in Readable /\ table' \notin Readable) =>
       (~ writing /\ writing') \/ (damaged /\ ~ damaged')]_vars

(* With a readable table on a mounted card, the start gets to the firmware *)
(* table, or the chip is reset.                                            *)
ReadableTableStarts ==
  powered /\ mounted /\ table \in Readable ~>
    currentState = "GET_NUM_FIRMWARES" \/ ~ powered

(* "If there are 0 entries in the system table at startup, this state      *)
(* writes the default values": an entry that is there is never written     *)
(* over.                                                                   *)
EntryKept == [][table = "record" => table' = "record"]_vars

(* And a table without an entry - there is no file yet, or its text holds  *)
(* no eData - gets the default values.                                     *)
EmptyTableGetsDefaults ==
  powered /\ mounted /\ table \in {"absent", "other"} ~> table = "defaults"
=============================================================================
