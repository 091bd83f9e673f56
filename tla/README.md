# Verification of the HydroConnect gateway firmware

TLA+ specifications, TLC runs and TLAPS proofs for the ESP32-S3 gateway that
connects the dosing controllers of washing machines ("TE nodes") to a cloud
service. The repository's own code is about 5800 lines of C in `main/` and
`components/`; its `README.md` is the template of ESP-IDF and there are no
tests, so everything below is read from the code.

Paths below are relative to `src/`, with `NET` for
`components/Eth_WiFI_Mananger/Eth_WiFI_Mananger.c`, `DS` and `DS2` for
`components/data_structure/data_structure.c` and
`components/data_structure_2/data_structure_2.c`, `EMMC` for
`components/emmc/emmc.c`, `CONF` for
`components/configuration/configuration.c`, `AZ` for
`components/test_azure_sdk/test_azure_sdk.c`, `BLE` for
`components/BLE/BLE.c` and `TPM` for
`components/wolfTPM/src/tpm_io_espressif.c`.

The firmware is under development, and this matters for reading the results.
`app_main` (`main/main.c:100-125`) confirms the running image, starts the TPM,
installs UART 1 and creates `rx_task`; the calls of `Ble_init`, `wifi_init`,
`ethernet_init` and `emmc_init` are commented out, and nothing calls
`startup_process`, `device_provisioning_start` or the TE commands yet. Each
component is modelled as its own code runs once it is called, and the module
says who is assumed to call it.

## 1. Inventory

| Component | State it keeps | Operations | What is hard |
|---|---|---|---|
| Firmware update, `NET:144-188, 427-447` | two flash slots, otadata | `do_firmware_upgrade`, `check_and_handle_rollback` | power loss, two callers at once, a failed step that is only logged |
| TE link, `DS`, `DS2`, `main.c:51-66` | `data[1024]`, the UART ring and its mutex | send a frame, read for a second, print fields | late answers, `rx_task` on the same port, a stale `data[]` |
| TE command frames, `DS`, `DS2` | none | 49 functions that build a frame by hand | lengths, checksums, length checks, places read |
| Cloud-to-device writes, `DS:170-275`, `DS2:43-645` | an open file, three buffers | `send_C2D_config_command`, six `WRITE_C2D_*` | failure half-way, a length of 16 bits |
| Main state machine, `CONF`, `EMMC:34-71, 250-466` | `currentState`, `/emmc/System.json` | `startup_process`, `GetNumberOfSystemRecords`, `Write_default_System_json`, `emmc_init` | reset while the table is written, a card that does not mount |
| Network manager, `NET:25-260` | `eth_connected`, both drivers | `wifi_init`, `ethernet_init`, event handlers | events handled after what they tell is over |
| Azure provisioning, `AZ` | the SAS token, the MQTT client's outbox | `device_provisioning_start`, `mqtt_event_handler` | lost connections, repeated deliveries, polls |
| HTTP file transfer, `NET:354-423, 452-656` | files on the card | upload, download, requests, `log_file_from_url` | a transfer cut short replaces a whole file; handles on early returns |
| eMMC CSV tables, `EMMC:74-248, 468-479` | CSV files, `row_no` | `creat_*_table`, `append_systeam_table`, `read_csv_row` | a handle kept when `row_no` is 0; resets |
| BLE server, `BLE` | advertising, one characteristic | `gap_event_handler`, `gatts_event_handler` | a firmware download inside a callback; re-advertising after a central has left |
| TPM key glue, `TPM:172-624` | the TPM context | init, read key, sign | buffer arithmetic |

How they interact:

- the BLE write "OTA" (`BLE:134-138`, in the Bluetooth task) and
  `log_file_from_url` (`NET:550-553`) call `do_firmware_upgrade`;
- all TE commands, the C2D writes and `rx_task` share UART 1, and all of them
  but `rx_task` share `data[]`;
- the downloads, the CSV tables and the system table share the card and the ten
  files `emmc_init` allows to be open on it;
- the default event loop calls the network handlers, the MQTT client's task
  calls `mqtt_event_handler`; `generate_sas_token` signs with the TPM;
- the C2D writes read files that the downloads wrote on the card mounted by
  `emmc_init`; the main state machine keeps its table there.

What makes each correct:

- Firmware update: some image always works and is booted or fallen back to;
  the running image is never overwritten; no image is trusted untried; every
  upgrade ends, unless its server falls silent for ever.
- TE link: a command prints nothing older than what the line still had to
  deliver when it was sent, an answer it misses is with `rx_task` or still to be
  read, and it always returns.
- TE commands: a frame announces its own length, is covered by its checksum,
  and is told by its bytes from those of all other commands; fields are read from
  bytes received.
- C2D writes: nothing is leaked on any path; the file arrives.
- Main state machine: it goes on only over a table it has read and loses a
  table only where it means to write one, or with the whole file system.
- Network manager: no retry lost, the flag follows the cable, and in the end
  the network that is there, unless stopping or starting Wi-Fi failed.
- Card: a file is damaged only by a fault that hit its own replacement, or by
  the format of a card whose change a reset cut short; files and HTTP clients are
  given back on every path; every call returns, but for a POST without an answer.
- BLE server: the gateway is on the air or connected again after whatever
  happened; an answer reaches who asked; no request is forgotten.
- Provisioning: whatever was lost, the conversation goes on, and there are no
  more polls than connections and repeated deliveries account for.

## 2. Modules

| Module | Models | Extends / uses |
|---|---|---|
| `TrialUpdate` | what the firmware update promises (abstract) | |
| `Ota` | firmware update | instantiates `TrialUpdate` |
| `MCOta` | its instance for TLC | `Ota` |
| `Ota_proofs` | its proofs | `Ota` |
| `TEExchange` | what a TE command promises (abstract) | |
| `TELink` | the UART exchange, `rx_task`, the TE | instantiates `TEExchange` |
| `MCTELink` | its instances: length checks and places read of real commands | `TELink`, `TEFrames` |
| `TELink_proofs` | its proofs | `TELink` |
| `TEFrames` | the frames, length checks and places read of 49 commands, and the commands each property excepts | |
| `TECommands` | the commands at work: calls and answers | `TEFrames` |
| `C2DWrite` | cloud-to-device writes | |
| `TECommands_proofs` | proofs of `TECommands`, of `C2DWrite`, and of `TELink` for the code's own commands | `TECommands`, `C2DWrite`, instantiates `TELink_proofs` |
| `Startup`, `Startup_proofs` | main state machine and system table | |
| `Follower` | what `eth_connected` promises of the cable (abstract) | |
| `NetManager`, `NetManager_proofs` | Ethernet and Wi-Fi failover | instantiates `Follower` |
| `Dps`, `Dps_proofs` | Azure provisioning | |
| `Card` | the files of the card: HTTP transfers, CSV tables, system table | |
| `MCCard`, `Card_proofs` | its instance for TLC, its proofs | `Card` |
| `Ble` | the BLE server | |
| `Gateway` | what starts an upgrade: BLE server and log, with the upgrade | `Ble`, instantiates `Ota` |
| `MCGateway` | its instance for TLC | `Gateway` |
| `Ble_proofs` | proofs of `Ble` and of the composition | `Gateway`, instantiates `Ota_proofs` |

Operators named `<Action>_<Something>` under a comment "Mutant of" are
plausible mistakes in the code. No specification uses them: each shows that a
property notices.

### Ota and TrialUpdate

An application slot is a function from chunk numbers to the image a chunk
belongs to, so partial and mixed downloads are states of the model. `OtaBegin`,
`OtaPerformNothing`, `OtaPerformChunk`, `OtaPerformDone`, `OtaPerformFails`,
`OtaFinish` and `OtaRestart` are the calls of `do_firmware_upgrade` in order.
Four things in the code are kept as they are: a failed begin is only logged and
the loop runs with a NULL handle; `esp_https_ota_perform` returns `IN_PROGRESS`
both for a chunk it has written and for a read that timed out, and the loop
(`NET:168-173`) calls it again without bound; it may end early, since
`esp_https_ota_is_complete_data_received` is never asked; a failed finish is
only logged. `arrived` is what the server has sent and the task has not read:
`Arrive` is the server's step and may never come, and then the loop goes round
(`OtaPerformNothing`) for ever, the state `Starved`. The actions `Check...` are `check_and_handle_rollback`. `Boot` is
the bootloader with `CONFIG_BOOTLOADER_APP_ROLLBACK_ENABLE` (`sdkconfig:414`)
and the two slots of `partitions.csv`; `PowerLoss` may happen at any step.

`TrialUpdate` is the abstract specification: the gateway keeps one image it can
come back to, and a candidate takes its place only by working. In the
refinement the image kept is the one in the confirmed slot, and the candidate is
the whole image, if there is one, of a slot that is on trial.

### TEExchange and TELink

`Send`, `TakeMux`, `ReceiveAnswer` and `ReadTimeout` are the steps of any command
function (`send_poll_command`, `DS:35-111`, is the one the map names); what
differs between commands - their length check, the last place of `data[]` they
read, whether they send their frame - are the constants `Guard`, `LastRead`
and `Garbled`. `data[i]` is the call whose answer place `i` holds, which is
all that the properties ask of its bytes. The `Rx...` actions are `rx_task`.
`uart_read_bytes` is external: it takes the driver's receive mutex within its
timeout, then reads until the buffer is full or a second is silent, holding
the mutex all along. The ring is never flushed. There is one configuration, that
of `app_main`: `rx_task` exists, and the second of silence is a step that may be
taken whenever nothing is left to read, so that an answer comes in time, late, or
to `rx_task`. `TEExchange` is the abstract specification: a call ends with
nothing, or with fields of answers that were due, its own or one that an earlier
call did not wait for; what a call has printed leaves nothing older due for the
next.

### TEFrames and TECommands

`TEFrames` has for each command a record: the frame, the bytes given to
`uart_write_bytes`, the length below which it returns early, and the highest
place it then reads. The checksums, the little-endian firmware length and the
clipped name length are computed as in the code. The commands known not to have
a property are listed there and excepted by name; run and proofs cover all
others, so that they also show the lists to be complete. In `TECommands` one
command after another is called, finds a firmware file of some length, and gets
an answer of some length that announces another.

### C2DWrite

The seven functions share one body and differ in the command byte. A file is a
number of copies of one byte, so lengths and the encoding of a byte are exact
and contents are not spelt out. `held` is what has not been given back.

### Startup

The cases of `startup_process` that do anything. `Write_default_System_json`
takes two steps, the `fopen` that empties the file and the `fputs`/`fclose`
that fill it, with a reset possible between them. `busy` says that another file of
the card is being written, by the downloads and tables of `Card`; a reset while
any file is may damage the file system, which `emmc_init` then formats
(`format_if_mount_failed`, `EMMC:55`). `NumSystemRecords` is the
constant 0 because nothing assigns it. The model calls `startup_process` over
and over, as a switch over `currentState` asks for.

### NetManager and Follower

`queue` is the queue of the default event loop. The drivers post to it at any
time (`LinkChanges`, `Disconnected`), the handlers take its first event. The
handler of the Ethernet events takes two steps (`at`): the call that stops or
starts Wi-Fi, `StopWifi` or `StartWifi`, which may fail without its result being
looked at, and the assignment of `eth_connected`, after which the event is done
with; what the drivers post in between is behind it in the queue.
`esp_err_t esp_wifi_connect(void);` in `eth_event_handler` is a declaration and
not a call; it is modelled as such, and turns out to do no harm, because
`esp_wifi_start` posts `STA_START`, whose handler connects.

`Follower` is the abstract specification of `eth_connected`: a flag that makes
every change of the cable once and in its turn, with a lag. In the refinement
the lag is the number of Ethernet events in the queue, among which there may be
any number of events of Wi-Fi.

### Dps

The MQTT client delivers `outbox` in order, again on the next connection, and
perhaps twice (QoS 1); answers are lost with the connection, and where there is
no subscription. The actions `Mqtt...` and `Poll` are the cases of
`mqtt_event_handler`; `polling` is its three-second sleep, during which the
client's task handles nothing else. The service assigns a hub after some
polls, and may refuse a request.

### Card

One task makes the calls of a script (`download_json_table`, `Crea_csv_table`)
or a single one; `todo` holds those still to be made and `pc` is inside the
first. A file is what a reader would find in it: the whole download or table, a
part, the body of an error answer, nothing. Kept as they are in the code: the
old file is removed before the new one is opened, the status of the answer is
never asked for, the results of `fwrite`, `fprintf` and `fclose` are not looked
at, a read error ends the loop as the end of the body does, and `row_no`, one
counter for nine tables, is 0 after a reset, so that `append_systeam_table`
then returns with its file open. A reset may come between any two steps, and a
file open for writing is then found absent, empty or in part; in the middle of a
change of the card, or with a leaked file open, all files may be gone, since the
mount that fails formats (`Format`, `EMMC:55`). A POST that finds no answer is
performed again (`PostAgain`, `NET:374-379`), until the server answers or hangs up
(`Answered`), which it need not; a GET returns. `hit` is the history of files whose
last replacement met a fault, or that a format took, `leaked` counts the files left
open.

### Ble and Gateway

`queue` is the queue of the one task that runs Bluedroid's callbacks; `work` is
what the handlers have asked the stack for. The `Handle...` actions are the
cases of `gap_event_handler` and `gatts_event_handler`; `HandleOtaWrite` and
`UpgradeReturns` are the two ends of the write that calls
`do_firmware_upgrade`, during which no other event is handled. Centrals come
and go at any time, also during an upgrade. Setting the advertising data and
starting to advertise may fail, after which nothing tries again.

`Gateway` puts the real upgrade in its place: `Ota` is instantiated with two
tasks, `"ble"`, which is the callback, and `"http"`, which is
`log_file_from_url`, and every step of `Ota` is joined with what it means to
its caller: it returns to the callback or to the reader of the log, or the chip
resets and Bluetooth and the reader start from nothing. `Servers` are the servers of
their images.

## 3. Runs

| Run | Instance | Distinct states | Shows |
|---|---|---|---|
| `ota` | three images, one that crashes early; two tasks; two chunks; two power losses or failed confirmations | 729486 | `NeverBricked`, `RunningImageIntact`, `TrustIsEarned`, refinement of `TrialUpdate`, `UpgradeEnds`, `DeviceReturns` |
| `ota_success` | two images, one task | violation | `SuccessIsInstalled` fails: finding 1 |
| `gateway` | two centrals, one image, one text that asks for an upgrade, one power loss | 215177 | `AdvertisingRemembered`, `AnswerToAsker`, `AwaitedIsLeft`, `Served`, `ReachableAgain`, `LogEnds` |
| `telink` | `rx_task`; answers at any time, of 6, 7 and 2048 bytes; three calls of three commands | 44031 | `NoForgottenAnswer`, `AnsweredIsRead`, `CommandReturns`, refinement of `TEExchange` |
| `card` | two downloaded files, two tables, two chunks, two files open at once; any reset, failure and error page | 379392 | `DamagedWasHit`, `HandlesAccounted`, `CallsEnd` |
| `tecommands` | 49 commands, answers of 0 to 1024 bytes | 843 | the six properties of frames and reads, with exceptions |
| `c2dwrite` | files of 0, 1, 128, 32767 and 32768 bytes; a failure at any call | 2512 | `NothingHeldOnReturn`, `FileArrives` |
| `startup` | three resets, three failures | 1649 | `StartedOnReadableTable`, `TableLostOnlyToOpenOrFormat`, `ReadableTableStarts` |
| `startup_entry` | no reset, no failure | violation | `EntryKept` fails: finding 2 |
| `startup_empty` | no reset, no failure | violation | `EmptyTableGetsDefaults` fails: finding 3 |
| `net` | eight changes of cable and access point, two failures of `esp_wifi_stop` or `esp_wifi_start` | 75043 | `IdleIsRemembered`, refinement of `Follower`, `WifiTakesOver`, `EthernetTakesOver` |
| `dps` | three connections, two polls, one repeated delivery, one refusal | 11112 | `NeverStranded`, `OneConversationEach`, `GetsProvisioned` |

The types of the variables are proved and not run again.

Why the bounds are enough:

- `ota`: two chunks tell a partial or mixed slot from a whole one, two tasks
  are the two callers there are, and two resets reach an update interrupted in
  the middle of the recovery from another one. The proofs hold for any number.
- TE link: three calls let an answer be late by one call and by two; 2048 bytes
  fill `data[]` twice, so that one answer reaches two commands, and 6 and 7 are on
  both sides of the length check.
- C2D: 32767 and 32768 bytes are on both sides of the 16 bits; a byte has one
  digit below ten and one above.
- `startup`: three failures and resets are one for each of mount, read and
  write; the proofs hold for any number.
- `net`: eight changes fill the queue with several stale events of both drivers, and
  two failures let the failed stop and the failed start meet.
  The queue is unbounded in the model, 32 events in `sdkconfig:1406`: the model
  has no lost post.
- `card`: two chunks tell a part from a whole, two files under each script let a
  fault of one meet the other, and two files open at once are reached by the
  files `append_systeam_table` keeps: a third `fopen` fails.
- `gateway`: two centrals are enough for one to come while the other's write is
  still being answered; one queued write without response, one text that asks
  for an upgrade and one power loss each meet all the other steps. The proofs
  hold for any number of all of them.
- `dps`: a connection lost before the subscription, one lost during the
  polls, and one that lasts.

Deadlock is checked except in the three runs of `Startup`, `net` and `dps`, where the
system may stop: the later cases of `startup_process` are stubs, a network
without changes is at rest, and provisioning ends.

### Fairness

Each run uses the weakest fairness the code gives. Weak fairness of the boot
and of a task inside `do_firmware_upgrade`: each of its calls returns, since they
have `timeout_ms = 5000`. None of the server: the loop around
`esp_https_ota_perform` has no bound, so `UpgradeEnds`, and with it `Served`,
`ReachableAgain` and `LogEnds`, except a server that falls silent for ever in the
middle of an image, and say that nothing else holds an upgrade. Weak fairness of
the command task: `uart_read_bytes` returns after a second of silence or with a
full buffer; none of `rx_task` or the TE. Weak fairness of `startup_process` and
`emmc_init`, which the main loop is to call. Weak fairness of the event loop and
the drivers, which are tasks that FreeRTOS schedules. In `Dps`, of the handler's
task and of a service that answers while connected; connecting is not fair, so
`GetsProvisioned` is about a connection that is there and lasts. In `Card`, of the
task inside a call: the transfers set no timeout and have the client's default of
five seconds for each read; that a body ends is assumed of the server, that a POST
is answered is not. In `Gateway`, of the boot, the stack, the callbacks' task, the
reader of the log and the upgrades; none of the centrals, which may stay away, of
the servers, and of power.

### Findings

1. `do_firmware_upgrade` logs "OTA Successful. Restarting..." and restarts when
   `esp_https_ota_finish` has failed (`NET:181-187`). The device is not harmed
   (`NeverBricked`), but the log says the opposite of what happened.
2. The start writes the default system table over an existing entry, because
   the number of entries is never counted (`CONF:71`).
3. A system table without an entry - no file, or no `eData` in it - never gets
   the default values: the read fails, and the start stays in `GET_NUM_SYSTEMS` for
   ever (`CONF:68`).

What the models record without a run of its own:

- a command may get no response although the TE answered: `rx_task` has read it, or
  held the receive mutex, or the answer came late. In the last two cases it is still
  in the ring and the next command prints it as its own (`AnsweredIsRead` and
  `TEExchange` say that it is there and nowhere else);
- an upgrade whose server falls silent in the middle of the image keeps the Bluetooth
  callbacks, or the reader of the log, for as long as the silence lasts
  (`NET:168-173`), and an unanswered POST keeps its caller (`NET:374-379`);
- a reset in the middle of any write to the card may cost every file on it, the
  system table included (`EMMC:55`);
- the results of `esp_wifi_stop` and `esp_wifi_start` are not looked at
  (`NET:51, 57`): after a failed start neither network is in use until the cable
  changes again, and Wi-Fi that could not be stopped and has lost its access point is
  not tried again when the cable is pulled (the two exceptions of `WifiTakesOver`);
- `READ_ACTIVITY`, `WRITE_UPLOAD_SECTOR_NUMBER`,
  `WRITE_UPLOAD_SECTOR_TO_FLASH` and `WRITE_C2D_FW_UPLOAD_TOTAL_SECTORS` pass
  the name of a function to `uart_write_bytes` and send one byte of code
  (`Missent`, for instance `DS:2111`);
- eight commands announce another length than they send (`Misdeclared`; the
  poll announces 256 bytes, `DS:42-43`), the checksum of `SET_DATETIME` leaves
  out a byte of its payload (`DS:1589-1590`), and `WRITE_SETUP_TRANSFERRED` and
  `READ_SYS_CONFIG_BY_INDEX` send the same frame;
- thirteen commands read further than their length check makes sure of
  (`Misread`, for instance `DS:786, 798-799`); what they print then is left
  from an older answer. `send_READ_SOFTWARE_ID_command` prints up to five bytes
  beyond what it received, and beyond `data[]` for answers of 1020 bytes and
  more (`DS:156`), the exception of `ReadsStayInBuffer`;
- a C2D file of more than 32767 bytes announces its text length modulo 65536;
- a short `fread` in a C2D write is sent as if it were the file;
- the token is used uninitialised when signing fails (`AZ:271-278`), its expiry
  comes from a clock nothing sets, and it is never renewed;
- a refused registration is not retried until the connection is lost;
- a download that meets an error page, a short body or a full card replaces the
  file all the same, and "File downloaded and saved" is logged (`NET:598-606`);
- `append_systeam_table` keeps its file open when no table was created since
  the boot (`EMMC:82`); ten such calls use up the card's files, and a download
  then removes its file and cannot open the new one (`NET:585-594`);
- `Crea_csv_table` makes `activitylog.csv` with the header of the firmware table
  and `firmware.csv` with that of the activity log (`EMMC:474-475`); no header
  ends its line, so the first row continues it;
- how an upload went is read from a length compared with `ESP_OK`
  (`NET:504-505`): only the log is wrong;
- a start of advertising that fails is logged and never tried again, nor is a failed
  setting of the advertising data (`BLE:74, 187`), and a prepared write is never
  answered (`BLE:129`);
- a text for `log_file_from_url` that keeps starting with "ota" restarts the
  gateway each time it is read (`NET:550`).

## 4. Proofs

TLAPS checks 53 theorems and the lemmas they rest on, for every value of the
constants that the named assumptions of each module allow. Nearly every theorem is of
the form `Spec => ...`; two of `TELink` assume that the length check of every command
covers the places it reads, which `TECommands_proofs` discharges for the code's
commands outside `Misread`. Every invariant and
every action property that a passing run checks is the statement of a theorem, and
so are the refinements of `TrialUpdate` and `Follower` and the safety part of that of
`TEExchange`; liveness is not.

- **Ota** (any images, tasks, chunks and resets). `NeverBricked` and
  `RunningImageIntact` are not inductive alone. `IInv` adds `StageInv` - no task
  is inside an upgrade until the image has been checked, an application that
  has passed the check is one that works, and no task finishes an upgrade while
  the running image is pending - and `RunningInv` - what runs is what otadata
  selects, or the other slot while the selected one is on trial. Together they
  say that a download goes to the slot that `NeverBricked` does not rest on.
  From `IInv` follow `TypeCorrect`, `NeverBrickedHolds`,
  `RunningImageIntactHolds` and, with one look at each action that writes
  otadata, the action property `TrustIsEarnedHolds`. `OtaImplementsTrialUpdate`
  is the refinement: a task that may write, or has downloaded, runs the image
  that is kept (`KeptRuns`), so that a download and a finish leave it what it is;
  an image that waits for its confirmation is the candidate (`CandidateRuns`), so that
  `CheckMarkValid` is `Accept`; in all other steps a candidate is installed or
  given up. `UpgradesComeCloser` bounds the steps of an upgrade and its server.
- **TELink** (any commands, answers of any length at any time, `rx_task` at work). All
  rests on `Order`: the calls with the TE and in the ring are in the order they were
  made, and none is beyond the last one. `AnsweredIsReadHolds` needs no more than
  `ReadInv`, that an answer given to the current call is with `rx_task`, in the ring or,
  while the command reads, among the bytes it has copied. `NoForgottenAnswerHolds` and
  `LinkImplementsExchange` also assume length checks that cover the places read, which
  the commands `tecommands` excepts do not have: while a command executes, all that is
  with the TE, in the ring or below `len` in `data[]` is of a call that was outstanding
  when the command was sent, or of its own, and what is still waiting is not older than
  what has been printed (`KnownInv`). The refinement maps what is due to the calls
  pending and the call itself. `MutexHasOneHolder`: the receive mutex is with the task
  that reads. `CallsComeCloser`: each step of a command or of the TE brings a call
  closer to its return, whatever `rx_task` does.
- **TECommands** (any set of commands, any length of the firmware file that fits in
  four bytes, any answers). That a frame ends in the XOR of its bytes is shown
  bit by bit: the parity of a bit over an appended byte (`ParityOfAppend`), hence the
  checksum over a frame that ends in its own is 0 (`XorCancels`), for
  frames of any length and without induction, since a parity is that of a
  cardinality. `SealedFrame` gives the shape of what the builders return:
  header, announced length, payload. `Keeps(c, m)` says of a command `c` and its
  record `m` all that the properties ask, with `Named`, which reads the
  command's name back from the bytes sent; `EveryCommandKeeps` has it of all 49, and
  the six theorems on frames and reads follow. Two commands with the same bytes on
  the wire would need the same name: that is `FramesNameCommands`. `FirmwareFrame` is the
  little-endian length. `ChecksCoverReads`: outside `Misread` the length check
  covers every place printed.
- **The link with the code's commands** (`TECommands_proofs`). `Link` is
  `TELink_proofs` with the length checks, places and sent frames of `TEFrames`.
  `CodePrintsNothingOld` and `CodeExchanges` are the theorems of `TELink` for
  these: their assumption on length checks is discharged by `ChecksCoverReads`, so that
  what is left is which commands are called (none of `Misread`).
- **C2DWrite** (any file sizes and bytes). `NothingHeldOnReturnHolds`: at every
  program counter the function holds exactly what its next step expects.
  `FileArrivesHolds` rests on the arithmetic of the two length bytes and of a
  hexadecimal digit. Both are in `TECommands_proofs`.
- **Startup** (any number of resets and failures). `StartInv` says when the
  file is open and that a mounted file system is not a damaged one; from it
  `StartedOnReadableTableHolds` and the action property
  `TableLostOnlyToOpenOrFormatHolds`. `StartAdvances` bounds what is left of a start whose
  table can be read: only a reset takes it back.
- **NetManager** (any number of changes and failed calls, queues of any length).
  `IdleIsRememberedHolds`: Wi-Fi becomes idle only with an event posted in the same
  step, and while it is idle between two events the flag is down or a stop has
  failed (`Stopped`), so the handler of the last Wi-Fi event connects it; and
  `FlagFollowsCableHolds`,
  which rests on what `Follows`, the flag after the Ethernet events of a queue,
  becomes when the driver posts (`FollowsPost`) and the handler takes
  (`FollowsTake`). `FollowsEveryChangeHolds` is the refinement of `Follower`. It needs
  that the Ethernet events of the queue alternate and that the first of them is
  not what the flag is already, so that handling one always flips the flag
  (`AlternatesPost`, `AlternatesTake`), and counts them with the
  cardinality of a set of places (`CountPost`, `CountTake`).
- **Dps** (any number of connections, repeated deliveries, refusals and
  polls). `NeverStrandedHolds` is inductive once a lost connection is known to
  take the subscription with it. Its lemmas `AppendKeeps` and `TailKeeps` say what
  appending to and taking from a queue preserves. `ConversationsHold` counts
  requests, answers and polls as cardinalities of sets of places in the two
  queues; its lemmas say how these change when an element is added or taken,
  and each step but a connection and a repeated delivery moves one from one
  place to another. `ConversationsEnd` weighs each message by the steps it can
  still cause; every step of the model, a fault included, makes the sum with what is
  left of the fault bounds smaller, so that every behaviour is finite.
- **Card** (any files, tables, chunks and files open at once, any number of
  resets). `DamagedWasHit` and `HandlesAccounted` are inductive with what the
  call under way has lost so far: a failed write or an error page is in `hit`
  at once (`LostIsHit`), and so is a body that ended early (`ShortIsHit`).
  `DamageIsExplained` and `HandlesReturn` follow. `EveryStepAdvances` bounds the
  steps of a call and its server, and so, as a script has an end, of a script; a POST
  that is performed again stays where it is.
- **Ble** (any centrals, queues of any length). `BleInv` adds `LeaversFirst` to
  the three invariants: behind every request whose central has left, the event
  of its leaving is still queued, and only the handling of that event can let
  another central connect. That is why an answer cannot reach the wrong one
  however long an upgrade takes (`AnswersReachAsker`).
- **Gateway**. `GatewayImplementsBle` and `GatewayImplementsOta` are the two
  refinements, initial states and every step: the composition is a behaviour of
  `Ble`, where an upgrade may return at any time, and of `Ota`, where any task
  may start one. So what is proved of each holds of the gateway
  (`GatewaySafe`, and for the upgrade `GatewayNeverBricked`,
  `GatewayTrustIsEarned` and `GatewayImplementsTrialUpdate`, which cite the theorems
  of `Ota_proofs` through `P == INSTANCE Ota_proofs`). `UpgradesHaveCallers` says
  that a task is in an upgrade exactly while its caller waits for it.

Only model-checked: all liveness (`UpgradeEnds`, `DeviceReturns`,
`CommandReturns`, `ReadableTableStarts`, `WifiTakesOver`, `EthernetTakesOver`,
`GetsProvisioned`, `CallsEnd`, `Served`, `ReachableAgain`, `LogEnds`), since the
prover has neither `ENABLED` nor fairness. The part of five of them
that is not about fairness is proved, as variants: natural numbers that the steps the
fairness is about lower and no other step raises while the call or the start goes on.
They are `UpgradesComeCloser` (`UpgradeEnds`), `CallsComeCloser` (`CommandReturns`),
`EveryStepAdvances` (`CallsEnd`), `StartAdvances` (`ReadableTableStarts`, between
resets) and `ConversationsEnd` (`GetsProvisioned`). What stays with TLC is that one
of these steps can be taken until the goal is reached.

## 5. Not modelled

- The TPM key glue (`TPM:172-624`): one task makes one TPM call after another,
  and each failure is logged and ends the function; nothing is shared, retried
  or left half-done, so there is no order of steps to check. That signing may
  fail is a step of `Dps`. Read and not checked: `tpm2_createprimary` makes a
  restricted decryption key without `TPMA_OBJECT_sign` at the very handle
  `tpm_sign_with_persistent_key` signs with, and leaves its transient object in
  the TPM; the buffers of `tpm2_read_persistent_key` suffice for the RSA key it
  reads.
- Of `app_main`, the GPIO setup; `creat_file`, a demo nothing calls.
- Vendored code (`components/wolfTPM` other than the glue,
  `managed_components/`), ESP-IDF itself and `build/`. ESP-IDF is modelled from
  how the code uses it; those definitions are marked external in
  `PROJECT.json`.
- Logging, formatting, and the parsing of JSON members. The rows of the CSV tables
  and what an upload sends.

## 6. Plan

Done, in this order: `Ota`, `TELink` with `TEExchange`, `TECommands`,
`C2DWrite`, `Startup`, `NetManager`, `Dps`, `Card`, `Ble`, `Gateway`, each with
its proofs; then the abstract specifications `TrialUpdate` and `Follower`, the
proofs of `TECommands` and the variants.

Left:

1. C2D writes over what a download left on the card: `C2DWrite` takes any file,
   so that the composition would say nothing that `FileArrives` and
   `DamagedWasHit` do not.
2. `NetManager` under the transfers and the upgrade: a lost network is a failed
   call in `Card`, `Ota` and `Dps`, at any step, which is what the composition
   would give them.

When `app_main` calls what is commented out today, the order of its calls and
the number of tasks that use the card and the UART have to be looked at again:
`Card` and `TELink` take one caller, as the code has now.
