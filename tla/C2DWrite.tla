------------------------------ MODULE C2DWrite ------------------------------
(***************************************************************************)
(* The cloud-to-device writes: send_C2D_config_command and the six         *)
(* WRITE_C2D_* functions of data_structure_2.c.  Each reads a whole file,  *)
(* writes it as hexadecimal text into a frame of its own shape (48 53,     *)
(* command, length high and low, text, sum of all bytes) and sends it.     *)
(* They hold a file and three buffers on the way and give up at four       *)
(* places.                                                                 *)
(*                                                                         *)
(* A file is a number of copies of one byte: lengths and the encoding of a *)
(* byte are what the properties tell apart.  External: the file system     *)
(* (fopen may fail, fread may return early), the heap (malloc may fail)    *)
(* and the TE, which decodes the frame.                                    *)
(***************************************************************************)
EXTENDS Naturals, FiniteSets

CONSTANTS
  FileSizes,      \* sizes of the files written
  FileBytes,      \* bytes they are made of, and bytes left in the heap
  ReplyLengths    \* lengths uart_read_bytes may return

ASSUME C2DFilesAssumption == FileSizes \subseteq Nat /\ FileBytes \subseteq 0..255
ASSUME RepliesAssumption == ReplyLengths \subseteq 0..1024

VARIABLES
  pc,        \* "idle", or what the function does next
  command,   \* command byte of the function called
  json_file, \* what json_filepath holds: [size, byte]
  held,      \* the file and the buffers it has not given back
  got,       \* bytes fread has delivered
  junk,      \* the byte the rest of json_data is made of
  message,   \* the frame sent last
  reply      \* bytes its answer had

c2dVars == <<pc, command, json_file, held, got, junk, message, reply>>
callVars == <<command, json_file>>
readVars == <<got, junk>>
resultVars == <<message, reply>>

Resources == {"file", "json_data", "hex_string", "message"}
Files == [size : FileSizes, byte : FileBytes]

(* A digit of %02X, in ASCII.                                              *)
Digit(d) == IF d < 10 THEN 48 + d ELSE 55 + d

Hex(b) == <<Digit(b \div 16), Digit(b % 16)>>

NoMessage == [command |-> 0, high |-> 0, low |-> 0, text |-> <<0, 0>>,
              whole |-> TRUE, checksum |-> 0]

C2DInit ==
  /\ pc = "idle"
  /\ command = 0
  /\ json_file \in Files
  /\ held = {}
  /\ got = 0
  /\ junk \in FileBytes
  /\ message = NoMessage
  /\ reply = 0

(* A function is called: fopen, and the early return when it fails.        *)
Open(code) ==
  /\ pc = "idle"
  /\ command' = code
  /\ json_file' \in Files
  /\ \/ pc' = "json" /\ held' = held \cup {"file"}
     \/ pc' = "idle" /\ UNCHANGED held
  /\ message' = NoMessage
  /\ reply' = 0
  /\ got' = 0
  /\ UNCHANGED junk

(* malloc(json_size); fread, whose result is not looked at; fclose.        *)
ReadFile ==
  /\ pc = "json"
  /\ got' \in {n \in 0..json_file.size : n \in {0, 1, json_file.size}}
  /\ junk' \in FileBytes
  /\ held' = (held \ {"file"}) \cup {"json_data"}
  /\ pc' = "hex"
  /\ UNCHANGED <<callVars, resultVars>>

(* "Memory allocation failed": fclose, return.                             *)
NoJson ==
  /\ pc = "json"
  /\ held' = held \ {"file"}
  /\ pc' = "idle"
  /\ UNCHANGED <<callVars, readVars, resultVars>>

(* malloc(hex_data_len + 1), and the conversion.                           *)
Convert ==
  /\ pc = "hex"
  /\ held' = held \cup {"hex_string"}
  /\ pc' = "message"
  /\ UNCHANGED <<callVars, readVars, resultVars>>

NoHex ==
  /\ pc = "hex"
  /\ held' = held \ {"json_data"}
  /\ pc' = "idle"
  /\ UNCHANGED <<callVars, readVars, resultVars>>

(* The sum, in a uint8_t, of the header and n bytes of text.               *)
Checksum(header, text, rest) ==
  LET textSum(t) == t[1] + t[2]
  IN (72 + 83 + header.command + header.high + header.low +
      got * textSum(text) + (json_file.size - got) * textSum(rest)) % 256

(* Mutant of Length: a high byte of seven bits.                            *)
Length_Narrow(n) == [high |-> (n \div 256) % 128, low |-> n % 256]

(* The two bytes of hex_data_len: its lower 16 bits.                       *)
Length(n) == [high |-> (n \div 256) % 256, low |-> n % 256]

(* malloc(total_size), and the frame.                                      *)
Fill ==
  /\ pc = "message"
  /\ LET l == Length(2 * json_file.size)
         header == [command |-> command, high |-> l.high, low |-> l.low]
     IN message' = [command |-> header.command, high |-> l.high, low |-> l.low,
                    text |-> Hex(json_file.byte),
                    whole |-> got = json_file.size \/ junk = json_file.byte,
                    checksum |-> Checksum(header, Hex(json_file.byte), Hex(junk))]
  /\ held' = held \cup {"message"}
  /\ pc' = "send"
  /\ UNCHANGED <<callVars, readVars, reply>>

(* "Memory allocation for message failed": two frees, return.              *)
NoMemory ==
  /\ pc = "message"
  /\ held' = held \ {"json_data", "hex_string"}
  /\ pc' = "idle"
  /\ UNCHANGED <<callVars, readVars, resultVars>>

(* Mutant of Send: the frame itself is not freed.                          *)
Send_KeepMessage ==
  /\ pc = "send"
  /\ held' = held \ {"json_data", "hex_string"}
  /\ pc' = "answer"
  /\ UNCHANGED <<callVars, readVars, resultVars>>

(* uart_write_bytes, and the three frees.                                  *)
Send ==
  /\ pc = "send"
  /\ held' = held \ {"json_data", "hex_string", "message"}
  /\ pc' = "answer"
  /\ UNCHANGED <<callVars, readVars, resultVars>>

(* uart_read_bytes; only an empty answer returns early.                    *)
Answer ==
  /\ pc = "answer"
  /\ reply' \in ReplyLengths
  /\ pc' = "idle"
  /\ UNCHANGED <<held, callVars, readVars, message>>

send_C2D_config_command == Open(\h04)
WRITE_C2D_TIMESTAMP == Open(\h47)
WRITE_C2D_MACHINE_NAME == Open(\h48)
WRITE_C2D_COMPANY_NAME == Open(\h49)
WRITE_C2D_ACCOUNT_NAME == Open(\h4A)
WRITE_C2D_INSTALLERS_PASSWORD == Open(\h4B)
WRITE_C2D_TUBE_ALARM == Open(\h4C)

C2DNext ==
  \/ send_C2D_config_command
  \/ WRITE_C2D_TIMESTAMP \/ WRITE_C2D_MACHINE_NAME \/ WRITE_C2D_COMPANY_NAME
  \/ WRITE_C2D_ACCOUNT_NAME \/ WRITE_C2D_INSTALLERS_PASSWORD
  \/ WRITE_C2D_TUBE_ALARM
  \/ ReadFile \/ NoJson
  \/ Convert \/ NoHex
  \/ Fill \/ NoMemory
  \/ Send
  \/ Answer

C2DSpec == C2DInit /\ [][C2DNext]_c2dVars

(***************************************************************************)
(* Properties                                                              *)
(***************************************************************************)
C2DTypeOK ==
  /\ pc \in {"idle", "json", "hex", "message", "send", "answer"}
  /\ command \in 0..255
  /\ json_file \in Files
  /\ held \subseteq Resources
  /\ got \in 0..json_file.size
  /\ junk \in FileBytes
  /\ message.command \in 0..255 /\ message.high \in 0..255
  /\ message.low \in 0..255 /\ message.checksum \in 0..255
  /\ reply \in ReplyLengths \cup {0}

(* Whichever way a write ends, it holds neither the file nor a buffer: no  *)
(* number of failed writes uses up the file handles or the heap.           *)
NothingHeldOnReturn == pc = "idle" => held = {}

(* What a TE takes a digit of the text for.                                *)
Value(d) == IF d \in 48..57 THEN d - 48 ELSE d - 55

(* A file of at most 32767 bytes that fread delivers in full arrives: the  *)
(* frame announces the text it carries and the text decodes to the file.   *)
FileArrives ==
  pc \in {"send", "answer"} /\ json_file.size <= 32767 /\ got = json_file.size =>
    /\ 256 * message.high + message.low = 2 * json_file.size
    /\ 16 * Value(message.text[1]) + Value(message.text[2]) = json_file.byte
    /\ message.whole
    /\ message.checksum = (72 + 83 + message.command + message.high + message.low
         + json_file.size * (message.text[1] + message.text[2])) % 256
=============================================================================
