----------------------------- MODULE TECommands -----------------------------
(***************************************************************************)
(* The commands of TEFrames at work: a command function is called, writes  *)
(* its frame and reads fields of the answer, one call after another.  (The *)
(* order of writes and reads on the line is in TELink.)                    *)
(***************************************************************************)
EXTENDS TEFrames

CONSTANTS
  Commands,         \* the command functions called, by name
  FileLengths,      \* lengths of the firmware file, 0 if it cannot be opened
  AnswerLengths,    \* lengths uart_read_bytes may return, 0 for no data
  MessageLengths    \* what bytes 4 and 5 of an answer may announce

ASSUME CommandsAssumption == Commands \subseteq All
ASSUME AnswersAssumption == AnswerLengths \subseteq 0..1024
ASSUME MessagesAssumption == MessageLengths \subseteq Nat
ASSUME FilesAssumption == \A n \in FileLengths : Uint32(n)

VARIABLES
  cmd,        \* the command called last
  file,       \* length of the firmware file it found
  wire,       \* the bytes it wrote
  stage,      \* "idle" or "sent"
  len,        \* bytes its uart_read_bytes returned
  last        \* highest place of data[] it then read by number, or None

vars == <<cmd, file, wire, stage, len, last>>

Init ==
  /\ cmd \in Commands
  /\ file = 0
  /\ wire = <<>>
  /\ stage = "idle"
  /\ len = 0
  /\ last = None

Call(c) ==
  /\ stage = "idle"
  /\ cmd' = c
  /\ \E n \in FileLengths :
       /\ file' = n
       /\ wire' = Command(c, n).sent
  /\ stage' = "sent"
  /\ len' = 0
  /\ last' = None

(* Mutant of Return: the length check is forgotten.                        *)
Return_NoCheck ==
  /\ stage = "sent"
  /\ \E n \in AnswerLengths, m \in MessageLengths :
       /\ len' = n
       /\ last' = LastPlace(cmd, n, m)
  /\ stage' = "idle"
  /\ UNCHANGED <<cmd, file, wire>>

(* No data, too short, or the fields are read.  (The loops that print what *)
(* was received end at len - 1 and are not counted.)                       *)
Return ==
  /\ stage = "sent"
  /\ \E n \in AnswerLengths, m \in MessageLengths :
       /\ len' = n
       /\ last' = IF n < Table[cmd].guard THEN None
                  ELSE LastPlace(cmd, n, m)
  /\ stage' = "idle"
  /\ UNCHANGED <<cmd, file, wire>>

Next == (\E c \in Commands : Call(c)) \/ Return

Spec == Init /\ [][Next]_vars

(***************************************************************************)
(* Properties                                                              *)
(***************************************************************************)
TypeOK ==
  /\ cmd \in Commands
  /\ file \in FileLengths \cup {0}
  /\ wire \in Seq(0..255)
  /\ stage \in {"idle", "sent"}
  /\ len \in AnswerLengths \cup {0}
  /\ last \in Int

(* A frame of the command called last has been sent.                       *)
SentBy(excepted) == stage = "sent" /\ cmd \notin excepted
Built == Command(cmd, file).frame

(* The length a frame announces is that of its payload, so that a TE that  *)
(* reads frames by their length stays in step with the gateway.            *)
AnnouncedLength ==
  SentBy(Misdeclared) => Built[5] * 256 + Built[6] = Len(Built) - 7

(* The XOR over a whole frame, checksum included, is 0: no byte before the *)
(* checksum can change unnoticed.                                          *)
ChecksumCoversFrame == SentBy(Mischecked) => XorSum(Built) = 0

(* A TE can tell by the bytes on the wire which of the commands was called *)
(* - unless they are a byte of machine code, or the frame of two commands. *)
FrameNamesCommand ==
  SentBy(Misnamed \cup Missent) =>
    \A c \in Commands : Command(c, file).sent = wire => c = cmd

(* COMPLETE_TRANSFER_STEP1 announces the length of the firmware file.      *)
FirmwareLengthArrives ==
  stage = "sent" /\ cmd = "COMPLETE_TRANSFER_STEP1" =>
    Built[7] + 256 * Built[8] + 65536 * Built[9] + 16777216 * Built[10] = file

(* Fields are read only from bytes of the answer just received.            *)
FieldsWereReceived == cmd \notin Misread => last < len \/ last = None

(* No field lies beyond the end of data[], whatever an answer announces.   *)
(* (READ_SOFTWARE_ID stays inside it with answers of up to 1019 bytes.)    *)
ReadsStayInBuffer ==
  \/ last < BUF_SIZE
  \/ cmd = "send_READ_SOFTWARE_ID_command" /\ len > BUF_SIZE - 5
=============================================================================
