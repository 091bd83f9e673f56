-------------------------------- MODULE Card --------------------------------
(***************************************************************************)
(* The files on the eMMC card and the HTTP transfers that fill and read    *)
(* them: download_file_to_emmc (and its twin download_setup_data_emmc),    *)
(* upload_file_from_emmc, http_client_post_data, http_get_string,          *)
(* download_json_table, and the tables of emmc.c.  One task calls them, one  *)
(* after the other; the chip may reset between any two steps.              *)
(*                                                                         *)
(* A file is known by what a reader of it would find: the whole download,  *)
(* a part of it, the body of an error answer, nothing.  A CSV table is     *)
(* whole when it starts with its header.                                   *)
(*                                                                         *)
(* External: the HTTP client (opening, the headers and every read may      *)
(* fail, and the answer may be an error page), and FatFs mounted with      *)
(* max_files: fopen and remove may fail, and fopen does when all are in    *)
(* use.  A file open for writing when the chip resets may be found absent, *)
(* empty or in part; or the reset has left a file system that cannot be    *)
(* mounted, which emmc_init then formats (format_if_mount_failed).         *)
(***************************************************************************)
EXTENDS Naturals, Sequences

CONSTANTS
  JsonFiles,    \* the files download_json_table downloads, in order
  Tables,       \* the tables Crea_csv_table creates, in order
  Chunks,       \* reads of 512 bytes that make a whole file
  MaxFiles,     \* max_files of the mount
  MaxRows,      \* bound: row_no
  MaxErrors     \* bound: DBErrorCounter

ASSUME NamesAssumption ==
  /\ JsonFiles \in Seq(STRING) /\ Tables \in Seq(STRING)
ASSUME ChunksAssumption == Chunks \in Nat \ {0}
ASSUME BoundsAssumption ==
  /\ MaxFiles \in Nat \ {0} /\ MaxRows \in Nat /\ MaxErrors \in Nat

Downloads == {JsonFiles[i] : i \in DOMAIN JsonFiles}
TableNames == {Tables[i] : i \in DOMAIN Tables}
Names == Downloads \cup TableNames

Contents == {"absent", "empty", "part", "error", "whole"}
Calls == [fn : {"download", "upload", "post", "get", "create", "append", "row",
                "default", "records"},
          file : Names]

VARIABLES
  card,     \* the content of each file
  todo,     \* calls the caller has still to make, the current one first
  pc,       \* where that call is, or "idle" between calls
  client,   \* esp_http_client_handle_t: "none", "init" or "open"
  open,     \* FILEs open on the card
  got,      \* chunks this call has read
  lost,     \* a write of this call failed, which the code does not look at
  page,     \* the answer it reads is an error page
  row_no,   \* the global row counter of emmc.c
  DBErrorCounter,
  leaked,   \* history: FILEs left open by calls that have returned
  hit       \* history: files whose last replacement was hit by a fault, and
            \* those a format has taken since

bodyVars == <<got, lost, page>>
counters == <<row_no, DBErrorCounter>>
historyVars == <<leaked, hit>>
vars == <<card, todo, pc, client, open, bodyVars, counters, historyVars>>

file == Head(todo).file

Init ==
  /\ card \in [Names -> {"absent", "whole"}]
  /\ todo = <<>>
  /\ pc = "idle"
  /\ client = "none"
  /\ open = 0
  /\ got = 0 /\ lost = FALSE /\ page = FALSE
  /\ row_no = 0
  /\ DBErrorCounter = 0
  /\ leaked = 0
  /\ hit = {f \in Names : card[f] = "absent"}

(***************************************************************************)
(* The caller.                                                             *)
(***************************************************************************)
Script(fn, files) == [i \in DOMAIN files |-> [fn |-> fn, file |-> files[i]]]

Start(script) ==
  /\ pc = "idle" /\ todo = <<>>
  /\ todo' = script
  /\ UNCHANGED <<card, pc, client, open, bodyVars, counters, historyVars>>

download_json_table == Start(Script("download", JsonFiles))
Crea_csv_table == Start(Script("create", Tables))
CallOne ==
  /\ row_no < MaxRows /\ DBErrorCounter < MaxErrors
  /\ \E c \in Calls : /\ c.fn # "create"
                      /\ c.fn \in {"append", "row"} <=> c.file \in TableNames
                      /\ Start(<<c>>)

Calling(fn) == pc = "idle" /\ todo # <<>> /\ Head(todo).fn = fn

Return == pc' = "idle" /\ todo' = Tail(todo)

(* A FILE can be had.                                                      *)
Free == open < MaxFiles

(***************************************************************************)
(* download_file_to_emmc.  Nothing of the card is touched before the       *)
(* headers have come; whatever their status, the old file then goes.       *)
(***************************************************************************)
DownloadOpen ==
  /\ Calling("download")
  /\ \/ pc' = "headers" /\ client' = "open" /\ UNCHANGED todo
     \/ Return /\ UNCHANGED client
  /\ UNCHANGED <<card, open, bodyVars, counters, historyVars>>

(* Mutant of DownloadHeaders: the failed request goes on to the file.      *)
DownloadHeaders_NoReturn ==
  /\ pc = "headers"
  /\ pc' = "remove"
  /\ \/ page' \in BOOLEAN /\ hit' = IF page' THEN hit \cup {file} ELSE hit \ {file}
     \/ UNCHANGED <<page, hit>>
  /\ got' = 0 /\ lost' = FALSE
  /\ UNCHANGED <<todo, client, card, open, counters, leaked>>

DownloadHeaders ==
  /\ pc = "headers"
  /\ \/ /\ pc' = "remove"
        /\ got' = 0 /\ lost' = FALSE /\ page' \in BOOLEAN
        /\ hit' = IF page' THEN hit \cup {file} ELSE hit \ {file}
        /\ UNCHANGED <<todo, client>>
     \/ Return /\ client' = "none" /\ UNCHANGED <<bodyVars, hit>>
  /\ UNCHANGED <<card, open, counters, leaked>>

DownloadRemove ==
  /\ pc = "remove"
  /\ card' \in {card, [card EXCEPT ![file] = "absent"]}
  /\ pc' = "fopen"
  /\ UNCHANGED <<todo, client, open, bodyVars, counters, historyVars>>

DownloadFopen ==
  /\ pc = "fopen"
  /\ \/ /\ Free
        /\ open' = open + 1
        /\ card' = [card EXCEPT ![file] = "empty"]
        /\ pc' = "read"
        /\ UNCHANGED <<todo, client, bodyVars, hit>>
     \/ /\ Return
        /\ client' = "none"
        /\ hit' = hit \cup {file}
        /\ got' = 0 /\ lost' = FALSE /\ page' = FALSE
        /\ UNCHANGED <<open, card>>
  /\ UNCHANGED <<counters, leaked>>

(* Mutant of DownloadRead: a read of no bytes does not end the loop.       *)
DownloadRead_NotZero ==
  /\ pc = "read"
  /\ \/ /\ got < Chunks
        /\ got' = got + 1
        /\ \/ UNCHANGED <<lost, hit>>
           \/ lost' = TRUE /\ hit' = hit \cup {file}
        /\ UNCHANGED pc
     \/ got = Chunks /\ UNCHANGED <<got, lost, pc, hit>>
     \/ got < Chunks /\ pc' = "fclose" /\ hit' = hit \cup {file}
        /\ UNCHANGED <<got, lost>>
  /\ UNCHANGED <<todo, card, client, open, page, counters, leaked>>

(* esp_http_client_read: some bytes, which fwrite may fail to write; the   *)
(* end of the body; or an error, which looks like the end.                 *)
DownloadRead ==
  /\ pc = "read"
  /\ \/ /\ got < Chunks
        /\ got' = got + 1
        /\ \/ UNCHANGED <<lost, hit>>
           \/ lost' = TRUE /\ hit' = hit \cup {file}
        /\ UNCHANGED pc
     \/ got = Chunks /\ pc' = "fclose" /\ UNCHANGED <<got, lost, hit>>
     \/ got < Chunks /\ pc' = "fclose" /\ hit' = hit \cup {file}
        /\ UNCHANGED <<got, lost>>
  /\ UNCHANGED <<todo, card, client, open, page, counters, leaked>>

(* What the file holds once it is closed, when fclose fails or not.        *)
Saved(fails) ==
  CASE got = 0 -> "empty"
    [] got > 0 /\ (lost \/ fails \/ got < Chunks) -> "part"
    [] got = Chunks /\ ~ lost /\ ~ fails -> IF page THEN "error" ELSE "whole"

(* fclose writes what is buffered and may fail; "File downloaded and       *)
(* saved" is logged in any case.                                           *)
DownloadFclose ==
  /\ pc = "fclose"
  /\ \E fails \in BOOLEAN :
       /\ card' = [card EXCEPT ![file] = Saved(fails)]
       /\ hit' = IF fails THEN hit \cup {file} ELSE hit
  /\ open' = open - 1
  /\ client' = "none"
  /\ got' = 0 /\ lost' = FALSE /\ page' = FALSE
  /\ Return
  /\ UNCHANGED <<counters, leaked>>

(***************************************************************************)
(* upload_file_from_emmc; http_client_post_data and http_get_string.  No   *)
(* code looks at how an upload went: the result of fetch_headers, a        *)
(* length, is compared with ESP_OK, and only the log differs.              *)
(***************************************************************************)
UploadFopen ==
  /\ Calling("upload")
  /\ \/ Free /\ card[file] # "absent" /\ open' = open + 1 /\ pc' = "connect"
        /\ client' = "init" /\ UNCHANGED todo
     \/ Return /\ UNCHANGED <<open, client>>
  /\ UNCHANGED <<card, bodyVars, counters, historyVars>>

(* Mutant of UploadOpen: the error path forgets the file.                  *)
UploadOpen_KeepFile ==
  /\ pc = "connect"
  /\ \/ pc' = "body" /\ client' = "open" /\ UNCHANGED <<todo, open>>
     \/ Return /\ client' = "none" /\ UNCHANGED open
  /\ UNCHANGED <<card, bodyVars, counters, historyVars>>

UploadOpen ==
  /\ pc = "connect"
  /\ \/ pc' = "body" /\ client' = "open" /\ UNCHANGED <<todo, open>>
     \/ Return /\ client' = "none" /\ open' = open - 1
  /\ UNCHANGED <<card, bodyVars, counters, historyVars>>

(* The loop, ended by the file or by a failed write; fclose.               *)
UploadBody ==
  /\ pc = "body"
  /\ open' = open - 1
  /\ pc' = "answer"
  /\ UNCHANGED <<card, todo, client, bodyVars, counters, historyVars>>

UploadAnswer ==
  /\ pc = "answer"
  /\ client' = "none"
  /\ Return
  /\ UNCHANGED <<card, open, bodyVars, counters, historyVars>>

Request ==
  /\ Calling("post") \/ Calling("get")
  /\ pc' = "perform"
  /\ client' = "init"
  /\ UNCHANGED <<card, todo, open, bodyVars, counters, historyVars>>

(* esp_http_client_perform opens, reads and closes, or fails.              *)
RequestPerform ==
  /\ pc \in {"perform", "answered"}
  /\ client' = "none"
  /\ Return
  /\ UNCHANGED <<card, open, bodyVars, counters, historyVars>>

(* ESP_ERR_HTTP_EAGAIN: http_client_post_data performs it again, and again *)
(* for as long as the server does not answer; http_get_string returns.     *)
PostAgain ==
  /\ pc \in {"perform", "again"} /\ Head(todo).fn = "post"
  /\ pc' = "again"
  /\ UNCHANGED <<card, todo, client, open, bodyVars, counters, historyVars>>

(* The server, which nothing obliges to: it answers, or hangs up.          *)
Answered ==
  /\ pc = "again"
  /\ pc' = "answered"
  /\ UNCHANGED <<card, todo, client, open, bodyVars, counters, historyVars>>

(***************************************************************************)
(* The creat_*_table functions; append_systeam_table.                      *)
(***************************************************************************)
CreateRemove ==
  /\ Calling("create")
  /\ card' \in {card, [card EXCEPT ![file] = "absent"]}
  /\ hit' = hit \ {file}
  /\ pc' = "create"
  /\ UNCHANGED <<todo, client, open, bodyVars, counters, leaked>>

CreateFopen ==
  /\ pc = "create"
  /\ \/ /\ Free
        /\ open' = open + 1
        /\ card' = [card EXCEPT ![file] = "empty"]
        /\ pc' = "header"
        /\ UNCHANGED <<todo, hit>>
     \/ Return /\ hit' = hit \cup {file} /\ UNCHANGED <<open, card>>
  /\ UNCHANGED <<client, bodyVars, counters, leaked>>

(* fprintf and fclose, whose results nobody looks at; row_no = 1.          *)
CreateHeader ==
  /\ pc = "header"
  /\ \/ card' = [card EXCEPT ![file] = "whole"] /\ UNCHANGED hit
     \/ card' = [card EXCEPT ![file] = "part"] /\ hit' = hit \cup {file}
  /\ open' = open - 1
  /\ row_no' = 1
  /\ Return
  /\ UNCHANGED <<client, bodyVars, DBErrorCounter, leaked>>

(* Mutant of AppendFopen: the table is opened with "w".                    *)
AppendFopen_Truncate ==
  /\ Calling("append")
  /\ \/ /\ Free
        /\ open' = open + 1
        /\ card' = [card EXCEPT ![file] = "empty"]
        /\ pc' = "append"
        /\ UNCHANGED todo
     \/ Return /\ UNCHANGED <<open, card>>
  /\ UNCHANGED <<client, bodyVars, counters, historyVars>>

(* fopen with "a" makes the file that is not there.                        *)
AppendFopen ==
  /\ Calling("append")
  /\ \/ /\ Free
        /\ open' = open + 1
        /\ card' = [card EXCEPT ![file] = IF @ = "absent" THEN "empty" ELSE @]
        /\ pc' = "append"
        /\ UNCHANGED todo
     \/ Return /\ UNCHANGED <<open, card>>
  /\ UNCHANGED <<client, bodyVars, counters, historyVars>>

(* A row without a header above it does not make a table.                  *)
AppendRow ==
  /\ pc = "append"
  /\ row_no > 0
  /\ card' = [card EXCEPT ![file] = IF @ = "empty" THEN "part" ELSE @]
  /\ open' = open - 1
  /\ row_no' = row_no + 1
  /\ Return
  /\ UNCHANGED <<client, bodyVars, DBErrorCounter, historyVars>>

(* row_no is 0, no table was created since the boot: nothing is written,   *)
(* and the file stays open.                                                *)
AppendNothing ==
  /\ pc = "append"
  /\ row_no = 0
  /\ leaked' = leaked + 1
  /\ Return
  /\ UNCHANGED <<card, client, open, bodyVars, counters, hit>>

(***************************************************************************)
(* What only reads: read_csv_row; GetNumberOfSystemRecords, which parses   *)
(* the file and counts every way this can fail.  Each closes its file.     *)
(***************************************************************************)
RowRead ==
  /\ Calling("row")
  /\ Return
  /\ UNCHANGED <<card, client, open, bodyVars, counters, historyVars>>

GetNumberOfSystemRecords ==
  /\ Calling("records")
  /\ \/ Free /\ card[file] = "whole" /\ UNCHANGED DBErrorCounter
     \/ DBErrorCounter' = DBErrorCounter + 1
  /\ Return
  /\ UNCHANGED <<card, client, open, bodyVars, row_no, historyVars>>

(***************************************************************************)
(* Write_default_System_json: fopen with "w" empties the file; only the    *)
(* result of fputs is looked at.                                           *)
(***************************************************************************)
DefaultFopen ==
  /\ Calling("default")
  /\ \/ /\ Free
        /\ open' = open + 1
        /\ card' = [card EXCEPT ![file] = "empty"]
        /\ pc' = "fputs"
        /\ UNCHANGED todo
     \/ Return /\ UNCHANGED <<open, card>>
  /\ UNCHANGED <<client, bodyVars, counters, historyVars>>

DefaultFputs ==
  /\ pc = "fputs"
  /\ \/ card' = [card EXCEPT ![file] = "whole"] /\ hit' = hit \ {file}
     \/ card' = [card EXCEPT ![file] = "part"] /\ hit' = hit \cup {file}
  /\ open' = open - 1
  /\ Return
  /\ UNCHANGED <<client, bodyVars, counters, leaked>>

(***************************************************************************)
(* The chip resets.  A file being written keeps what has reached the card; *)
(* but when the card was being changed, the file system may be left such   *)
(* that it does not mount, and the emmc_init of the next boot formats it.  *)
(***************************************************************************)
Replacement == {"remove", "fopen", "read", "fclose", "create", "header", "fputs"}
Replacing(f) == todo # <<>> /\ file = f /\ pc \in Replacement
Writing(f) == Replacing(f) /\ pc \in {"read", "fclose", "header", "fputs"}

Changing == pc \in Replacement \cup {"append"} \/ leaked > 0

Keep ==
  /\ card' \in [Names -> Contents]
  /\ \A f \in Names : IF Writing(f) THEN card'[f] \in {"absent", "empty", "part"}
                                    ELSE card'[f] = card[f]
  /\ hit' = hit \cup {f \in Names : Replacing(f)}

Format ==
  /\ card' = [f \in Names |-> "absent"]
  /\ hit' = Names

Reset ==
  /\ \/ Keep
     \/ Changing /\ Format
  /\ todo' = <<>>
  /\ pc' = "idle"
  /\ client' = "none"
  /\ open' = 0 /\ leaked' = 0
  /\ got' = 0 /\ lost' = FALSE /\ page' = FALSE
  /\ row_no' = 0 /\ DBErrorCounter' = 0

Download == DownloadOpen \/ DownloadHeaders \/ DownloadRemove \/ DownloadFopen
            \/ DownloadRead \/ DownloadFclose
Upload == UploadFopen \/ UploadOpen \/ UploadBody \/ UploadAnswer
          \/ Request \/ RequestPerform \/ PostAgain
Table == CreateRemove \/ CreateFopen \/ CreateHeader \/ AppendFopen \/ AppendRow
         \/ AppendNothing \/ RowRead \/ GetNumberOfSystemRecords
         \/ DefaultFopen \/ DefaultFputs
Step == Download \/ Upload \/ Table

Caller == download_json_table \/ Crea_csv_table \/ CallOne

Next == Caller \/ Step \/ Answered \/ Reset

Spec == Init /\ [][Next]_vars

(* The task that is inside a call runs on: each wait of the client for the *)
(* server ends after its timeout.  The server owes no answer, and what the *)
(* code makes of a wait that ended - give up, or perform again - is Step.  *)
FairSpec == Spec /\ WF_vars(Step)

(***************************************************************************)
(* Properties                                                              *)
(***************************************************************************)
OwnFile == {"read", "fclose", "connect", "body", "header", "append", "fputs"}
HttpSteps == {"headers", "remove", "fopen", "read", "fclose", "connect", "body",
              "answer", "perform", "again", "answered"}
Steps == OwnFile \cup HttpSteps \cup {"idle", "create"}

TypeOK ==
  /\ card \in [Names -> Contents]
  /\ todo \in Seq(Calls)
  /\ pc \in Steps
  /\ client \in {"none", "init", "open"}
  /\ open \in 0..MaxFiles
  /\ got \in 0..Chunks /\ lost \in BOOLEAN /\ page \in BOOLEAN
  /\ row_no \in Nat /\ DBErrorCounter \in Nat
  /\ leaked \in 0..MaxFiles
  /\ hit \subseteq Names

(* A call that is under way is the first one to do.                        *)
CallUnderWay == pc # "idle" => todo # <<>>

(* A file of the card is damaged - gone, empty, cut short or an error page *)
(* - only when its own last replacement was hit by a fault, or goes on, or *)
(* when a reset in the middle of some change of the card cost them all: a  *)
(* download that could not reach the server leaves the old file alone, and *)
(* so do an append, a transfer of another file that fails, and a reset     *)
(* while the card is only read.                                            *)
DamagedWasHit ==
  \A f \in Names : card[f] = "whole" \/ f \in hit \/ Replacing(f)

(* What the call under way has lost, or took for the file, is in hit.      *)
LostIsHit == lost \/ page => /\ pc \in {"remove", "fopen", "read", "fclose"}
                            /\ file \in hit

(* A body that ended early is in hit too.                                  *)
ShortIsHit == pc = "fclose" /\ got < Chunks => file \in hit

(* Of max_files, a call that has returned holds none, and one under way    *)
(* one at most, but for those that append_systeam_table leaves open; no    *)
(* HTTP client outlives its call.                                          *)
HandlesAccounted ==
  /\ open = leaked + (IF pc \in OwnFile THEN 1 ELSE 0)
  /\ client = "none" <=> pc \notin HttpSteps

IInv == TypeOK /\ CallUnderWay /\ DamagedWasHit /\ LostIsHit /\ ShortIsHit
        /\ HandlesAccounted

(* Whatever the server and the card answer, the calls that have been       *)
(* started all return, unless a POST is never answered: its loop, alone of *)
(* all, has no end of its own.                                             *)
CallsEnd == []<>(todo = <<>>) \/ <>[](pc = "again")
=============================================================================
