------------------------------ MODULE TEFrames ------------------------------
(***************************************************************************)
(* The frames of data_structure.c and data_structure_2.c that are built in *)
(* the source: for each command, the frame it builds, the bytes it passes  *)
(* to uart_write_bytes, the length below which it returns early and the    *)
(* highest place of data[] it reads after that.  (The C2D writes, which    *)
(* send a file, are in C2DWrite.)                                          *)
(*                                                                         *)
(* A frame is 48 53, washer, command, the payload length (high, low), the  *)
(* payload and a checksum.  Bytes are integers, a frame is a sequence, so  *)
(* frame[i + 1] is the C array's [i].                                      *)
(***************************************************************************)
EXTENDS Integers, Sequences, FiniteSets

CONSTANT CodeByte   \* the first byte of machine code of a function

ASSUME ByteAssumption == CodeByte \in 0..255

BUF_SIZE == 1024

(* No place of data[] is read by its number.                               *)
None == -1

(* The parity of the bits of value d of all bytes.                         *)
Parity(bytes, d) ==
  Cardinality({i \in DOMAIN bytes : (bytes[i] \div d) % 2 = 1}) % 2

(* The XOR of all bytes: each bit of it is the parity of theirs.           *)
XorSum(bytes) ==
  Parity(bytes, 1) + 2 * Parity(bytes, 2) + 4 * Parity(bytes, 4) +
  8 * Parity(bytes, 8) + 16 * Parity(bytes, 16) + 32 * Parity(bytes, 32) +
  64 * Parity(bytes, 64) + 128 * Parity(bytes, 128)

(* Mutant of calculate_checksum: one byte fewer.                           *)
calculate_checksum_Short(bytes, length) ==
  IF length < 2 THEN 0 ELSE XorSum(SubSeq(bytes, 1, length - 2))

(* The XOR of all bytes except the last of the length given.               *)
calculate_checksum(bytes, length) ==
  IF length = 0 THEN 0 ELSE XorSum(SubSeq(bytes, 1, length - 1))

Dyn == 9          \* get_dynamic_value()
getData == [i \in 1..257 |-> (i - 1) % 256]

(* "2025-05-31 22:45:00"                                                   *)
Datetime == <<50, 48, 50, 53, 45, 48, 53, 45, 51, 49, 32,
              50, 50, 58, 52, 53, 58, 48, 48>>

(* A length that fits in a uint32_t.  (TLC has no integer 2^32.)           *)
Uint32(n) == n \in Nat /\ n \div 65536 < 65536

(* Mutant of LittleEndian: bytes in network order.                         *)
LittleEndian_Swapped(n) ==
  <<(n \div 16777216) % 256, (n \div 65536) % 256, (n \div 256) % 256, n % 256>>

(* The four bytes of a uint32_t, lowest first.                             *)
LittleEndian(n) ==
  <<n % 256, (n \div 256) % 256, (n \div 65536) % 256, (n \div 16777216) % 256>>

(* Mutant of Header: the two bytes of the length swapped.                  *)
Header_Swapped(washer, code, declared) ==
  <<\h48, \h53, washer, code, declared % 256, declared \div 256>>

Header(washer, code, declared) ==
  <<\h48, \h53, washer, code, declared \div 256, declared % 256>>

(* An array whose last byte is reserved for the checksum of the others.    *)
Sealed(bytes) ==
  Append(bytes, calculate_checksum(Append(bytes, 0), Len(bytes) + 1))

(* A command to washer 1 that checks len < 7 and reads data[0..last].      *)
Plain(code, declared, payload, last) ==
  LET frame == Sealed(Header(1, code, declared) \o payload)
  IN [frame |-> frame, sent |-> frame, guard |-> 7, last |-> last]

(* A frame written out in the source, checksum included.                   *)
Fixed(header, checksum) ==
  LET frame == Append(header, checksum)
  IN [frame |-> frame, sent |-> frame, guard |-> 7, last |-> 5]

(* uart_write_bytes is given the name of a function instead of the array:  *)
(* sizeof of a function is 1 here, so one byte of its code is written.     *)
Pasted(command) == [command EXCEPT !.sent = <<CodeByte>>]

(***************************************************************************)
(* The commands.                                                           *)
(***************************************************************************)
send_poll_command ==
  [Plain(\h01, 256, <<0>>, 17) EXCEPT
     !.guard = 18, !.frame = Sealed(Header(0, \h01, 256) \o <<0>>),
     !.sent = Sealed(Header(0, \h01, 256) \o <<0>>)]
send_READ_SOFTWARE_ID_command == Fixed(Header(\h02, \h01, 0), \h84)
READ_MACINE_NAME == Fixed(Header(\h0D, \h01, 0), \hA9)
READ_SETUP_TIMESTAMP_BY_INDEX == Plain(\h0F, 1, <<Dyn>>, 9)
READ_SETUP_INDEX == Plain(\h11, 1, <<0>>, 7)
WRITE_SETUP_TRANSFERRED == Plain(\h13, 1, <<Dyn>>, 7)
READ_SYS_CONFIG_BY_INDEX == Plain(\h13, 1, <<Dyn>>, 30)
READ_PUMPS_BY_INDEX == Plain(\h13, 1, <<Dyn, Dyn>>, 26)
READ_FORMULAS_BY_INDEX == Plain(\h16, 2, <<Dyn, Dyn>>, 91)
READ_OLDEST_UNTXFD_SETUP_INDEX == Plain(\h17, 1, <<0>>, 7)
READ_RECORD_INDEX == Plain(\h18, 1, <<0>>, 8)
READ_RECORD_BY_INDEX == Plain(\h19, 1, <<Dyn, Dyn>>, 8)
READ_OLDEST_UNTXFD_RECORD_INDEX == Plain(\h1A, 1, <<0>>, 8)
WRITE_RECORD_TRANSFERRED == Plain(\h1C, 1, <<Dyn, Dyn>>, 7)
READ_SERIAL_NUMBER_command == Plain(\h20, 1, <<0>>, 5)
READ_CURRENT_LOAD_START_TIMESTAMP == Plain(\h22, 1, <<0>>, 5)
READ_CURRENT_LOAD_FORMULA_NAME == Plain(\h23, 1, <<0>>, 5)
READ_CURRENT_LOAD_WEIGHT == Plain(\h24, 1, <<0>>, 5)
GET_OP_STATE == Plain(\h25, 1, <<0>>, 6)
READ_LAST_CYCLE_START_TIMESTAMP == Plain(\h26, 1, <<0>>, 5)
READ_LAST_CYCLE_END_TIMESTAMP == Plain(\h27, 1, <<0>>, 5)
READ_LAST_CYCLE_FORMULA_NAME == Plain(\h28, 1, <<0>>, 5)
READ_LAST_CYCLE_WEIGHT == Plain(\h29, 1, <<0>>, 5)
READ_LAST_CYCLE_FORMULA_NUMBER == Plain(\h2A, 1, <<0>>, 6)
READ_CURRENT_LOAD_FORMULA_NUMBER == Plain(\h2B, 1, <<0>>, 6)
SET_DATETIME ==
  LET bytes == Header(1, \h32, 19) \o Datetime
      frame == Append(bytes, calculate_checksum(bytes, 25))
  IN [Plain(\h32, 19, Datetime, 6) EXCEPT !.frame = frame, !.sent = frame]
READ_COMPANY_NAME == Plain(\h35, 1, <<0>>, 5)
READ_ALTERNATE_BUILD_NUMBER == Plain(\h39, 1, <<0>>, 6)
READ_ACCOUNT_NAME == Plain(\h3B, 1, <<0>>, 5)
WRITE_CLEAR_POWER_UP == Plain(\h3D, 1, <<0>>, None)
(* Mutants: the name of another function, the code of another command.     *)
READ_CYCLE_COUNTER_Pasted == Pasted(Plain(\h3E, 1, <<0>>, None))
READ_CYCLE_COUNTER_SameCode == Plain(\h3D, 1, <<0>>, None)

READ_CYCLE_COUNTER == Plain(\h3E, 1, <<0>>, None)
READ_MACHINE_NAME_BY_INDEX == Plain(\h3F, 1, <<0>>, None)
READ_COMPANY_NAME_BY_INDEX == Plain(\h40, 1, <<0>>, None)
READ_ACCOUNT_NAME_BY_INDEX == Plain(\h41, 1, <<0>>, None)
READ_INSTALLERS_PASSWORD_BY_INDEX == Plain(\h42, 1, <<0>>, None)
READ_TUBE_ALARM_BY_INDEX == Plain(\h43, 1, <<0>>, None)
SET_DST == Plain(\h45, 1, <<0>>, None)
READ_ACTIVITY == Pasted(Plain(\h46, 1, <<0>>, None))

WRITE_C2D_COMPLETE == Plain(\h4D, 1, <<0>>, None)
READ_C2D_SETUP_TRANSFERRING_STATUS == Plain(\h4E, 1, <<0>>, None)
WRITE_PAGE_TO_RAM == Plain(\h5E, 1, Append(getData, 0), None)
WRITE_UPLOAD_SECTOR_NUMBER == Pasted(Plain(\h5F, 1, <<Dyn, Dyn>>, None))
WRITE_UPLOAD_SECTOR_TO_FLASH == Pasted(Plain(\h60, 1, <<0>>, None))
COMPLETE_TRANSFER_STEP1(firmware_length) ==
  Plain(\h63, 1, LittleEndian(firmware_length) \o <<0>>, None)
COMPLETE_TRANSFER_FINAL_STEP == Plain(\h7D, 1, <<0>>, None)
READ_C2D_FIRMWARE_TRANSFERRING_STATUS == Plain(\h80, 1, <<0>>, None)
WRITE_C2D_FW_UPLOAD_TOTAL_SECTORS == Pasted(Plain(\h81, 1, <<Dyn, Dyn>>, None))
COMPLETE_TRANSFER_STEP2 == Plain(\h84, 1, <<0>>, None)
WATCHDOG_REBOOT == Plain(\h85, 1, <<0>>, None)

Table ==
  [send_poll_command |-> send_poll_command,
   send_READ_SOFTWARE_ID_command |-> send_READ_SOFTWARE_ID_command,
   READ_MACINE_NAME |-> READ_MACINE_NAME,
   READ_SETUP_TIMESTAMP_BY_INDEX |-> READ_SETUP_TIMESTAMP_BY_INDEX,
   READ_SETUP_INDEX |-> READ_SETUP_INDEX,
   WRITE_SETUP_TRANSFERRED |-> WRITE_SETUP_TRANSFERRED,
   READ_SYS_CONFIG_BY_INDEX |-> READ_SYS_CONFIG_BY_INDEX,
   READ_PUMPS_BY_INDEX |-> READ_PUMPS_BY_INDEX,
   READ_FORMULAS_BY_INDEX |-> READ_FORMULAS_BY_INDEX,
   READ_OLDEST_UNTXFD_SETUP_INDEX |-> READ_OLDEST_UNTXFD_SETUP_INDEX,
   READ_RECORD_INDEX |-> READ_RECORD_INDEX,
   READ_RECORD_BY_INDEX |-> READ_RECORD_BY_INDEX,
   READ_OLDEST_UNTXFD_RECORD_INDEX |-> READ_OLDEST_UNTXFD_RECORD_INDEX,
   WRITE_RECORD_TRANSFERRED |-> WRITE_RECORD_TRANSFERRED,
   READ_SERIAL_NUMBER_command |-> READ_SERIAL_NUMBER_command,
   READ_CURRENT_LOAD_START_TIMESTAMP |-> READ_CURRENT_LOAD_START_TIMESTAMP,
   READ_CURRENT_LOAD_FORMULA_NAME |-> READ_CURRENT_LOAD_FORMULA_NAME,
   READ_CURRENT_LOAD_WEIGHT |-> READ_CURRENT_LOAD_WEIGHT,
   GET_OP_STATE |-> GET_OP_STATE,
   READ_LAST_CYCLE_START_TIMESTAMP |-> READ_LAST_CYCLE_START_TIMESTAMP,
   READ_LAST_CYCLE_END_TIMESTAMP |-> READ_LAST_CYCLE_END_TIMESTAMP,
   READ_LAST_CYCLE_FORMULA_NAME |-> READ_LAST_CYCLE_FORMULA_NAME,
   READ_LAST_CYCLE_WEIGHT |-> READ_LAST_CYCLE_WEIGHT,
   READ_LAST_CYCLE_FORMULA_NUMBER |-> READ_LAST_CYCLE_FORMULA_NUMBER,
   READ_CURRENT_LOAD_FORMULA_NUMBER |-> READ_CURRENT_LOAD_FORMULA_NUMBER,
   SET_DATETIME |-> SET_DATETIME,
   READ_COMPANY_NAME |-> READ_COMPANY_NAME,
   READ_ALTERNATE_BUILD_NUMBER |-> READ_ALTERNATE_BUILD_NUMBER,
   READ_ACCOUNT_NAME |-> READ_ACCOUNT_NAME,
   WRITE_CLEAR_POWER_UP |-> WRITE_CLEAR_POWER_UP,
   READ_CYCLE_COUNTER |-> READ_CYCLE_COUNTER,
   READ_MACHINE_NAME_BY_INDEX |-> READ_MACHINE_NAME_BY_INDEX,
   READ_COMPANY_NAME_BY_INDEX |-> READ_COMPANY_NAME_BY_INDEX,
   READ_ACCOUNT_NAME_BY_INDEX |-> READ_ACCOUNT_NAME_BY_INDEX,
   READ_INSTALLERS_PASSWORD_BY_INDEX |-> READ_INSTALLERS_PASSWORD_BY_INDEX,
   READ_TUBE_ALARM_BY_INDEX |-> READ_TUBE_ALARM_BY_INDEX,
   SET_DST |-> SET_DST,
   READ_ACTIVITY |-> READ_ACTIVITY,
   WRITE_C2D_COMPLETE |-> WRITE_C2D_COMPLETE,
   READ_C2D_SETUP_TRANSFERRING_STATUS |-> READ_C2D_SETUP_TRANSFERRING_STATUS,
   WRITE_PAGE_TO_RAM |-> WRITE_PAGE_TO_RAM,
   WRITE_UPLOAD_SECTOR_NUMBER |-> WRITE_UPLOAD_SECTOR_NUMBER,
   WRITE_UPLOAD_SECTOR_TO_FLASH |-> WRITE_UPLOAD_SECTOR_TO_FLASH,
   COMPLETE_TRANSFER_STEP1 |-> COMPLETE_TRANSFER_STEP1(0),
   COMPLETE_TRANSFER_FINAL_STEP |-> COMPLETE_TRANSFER_FINAL_STEP,
   READ_C2D_FIRMWARE_TRANSFERRING_STATUS |-> READ_C2D_FIRMWARE_TRANSFERRING_STATUS,
   WRITE_C2D_FW_UPLOAD_TOTAL_SECTORS |-> WRITE_C2D_FW_UPLOAD_TOTAL_SECTORS,
   COMPLETE_TRANSFER_STEP2 |-> COMPLETE_TRANSFER_STEP2,
   WATCHDOG_REBOOT |-> WATCHDOG_REBOOT]

(* The names of the commands.                                              *)
All == DOMAIN Table

(* The command c when the firmware file has n bytes.                       *)
Command(c, n) ==
  IF c = "COMPLETE_TRANSFER_STEP1" THEN COMPLETE_TRANSFER_STEP1(n) ELSE Table[c]

(* Mutant of NameLength: the length announced is trusted.                  *)
NameLength_Trusting(announced) == announced

(* READ_MACINE_NAME: what it copies of data[6..].                          *)
NameLength(announced) ==
  IF announced > BUF_SIZE - 6 THEN BUF_SIZE - 6 ELSE announced

(* The highest place read of an answer of n bytes that announces a message *)
(* of m bytes.                                                             *)
LastPlace(c, n, m) ==
  CASE c = "send_READ_SOFTWARE_ID_command" -> n + 4
    [] c = "READ_MACINE_NAME" -> 5 + NameLength(m)
    [] OTHER -> Table[c].last

(* The last place of data[] that c prints from: one that reads no place by *)
(* its number prints all it received, so at least the bytes the length     *)
(* check has made sure of.                                                 *)
LastPrinted(c) ==
  IF Table[c].last = None THEN Table[c].guard - 1 ELSE Table[c].last

(***************************************************************************)
(* What the commands do not keep to.                                       *)
(***************************************************************************)
(* They announce another payload length than they carry.                   *)
Misdeclared == {"send_poll_command", "READ_PUMPS_BY_INDEX",
  "READ_RECORD_BY_INDEX", "WRITE_RECORD_TRANSFERRED", "WRITE_PAGE_TO_RAM",
  "WRITE_UPLOAD_SECTOR_NUMBER", "COMPLETE_TRANSFER_STEP1",
  "WRITE_C2D_FW_UPLOAD_TOTAL_SECTORS"}

(* Their checksum is another sum, or leaves out the last payload byte.     *)
Mischecked == {"send_READ_SOFTWARE_ID_command", "READ_MACINE_NAME",
  "SET_DATETIME"}

(* They send a byte of machine code.                                       *)
Missent == {"READ_ACTIVITY", "WRITE_UPLOAD_SECTOR_NUMBER",
  "WRITE_UPLOAD_SECTOR_TO_FLASH", "WRITE_C2D_FW_UPLOAD_TOTAL_SECTORS"}

(* They send the same frame.                                               *)
Misnamed == {"WRITE_SETUP_TRANSFERRED", "READ_SYS_CONFIG_BY_INDEX"}

(* They read further than their length check has made sure of.             *)
Misread == {"send_READ_SOFTWARE_ID_command", "READ_MACINE_NAME",
  "READ_SETUP_TIMESTAMP_BY_INDEX", "READ_SETUP_INDEX",
  "WRITE_SETUP_TRANSFERRED", "READ_SYS_CONFIG_BY_INDEX",
  "READ_PUMPS_BY_INDEX", "READ_FORMULAS_BY_INDEX",
  "READ_OLDEST_UNTXFD_SETUP_INDEX", "READ_RECORD_INDEX",
  "READ_RECORD_BY_INDEX", "READ_OLDEST_UNTXFD_RECORD_INDEX",
  "WRITE_RECORD_TRANSFERRED"}
=============================================================================
