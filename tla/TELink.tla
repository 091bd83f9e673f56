------------------------------- MODULE TELink -------------------------------
(***************************************************************************)
(* The UART link to the TE nodes.  Every command function of               *)
(* data_structure.c and data_structure_2.c does the same four things:      *)
(* build a frame, uart_write_bytes, uart_read_bytes into the global        *)
(* buffer data[DataSize] with one second of patience, and print the fields *)
(* it finds at fixed places of data[].  app_main also starts rx_task,      *)
(* which reads the same UART for ever.                                     *)
(*                                                                         *)
(* Time is not counted: the second of silence that ends a read is a step   *)
(* that may happen whenever nothing is left to read, so an answer may come *)
(* in time, late, or when rx_task is reading.  What the bytes say is       *)
(* abstracted to the call they answer; data[] remembers, for each place,   *)
(* the call whose answer it holds, and 0 for the initial zeros.            *)
(*                                                                         *)
(* External: the UART driver (its receive ring and the mutex rx_mux that   *)
(* uart_read_bytes holds while it waits) and the TE node, which answers    *)
(* the frames it understands in the order they came, or stays silent.  An  *)
(* answer is as long as what arrives of it.                                *)
(***************************************************************************)
EXTENDS Integers, Sequences

CONSTANTS
  Commands,        \* the command functions called
  Guard,           \* Guard[c]: fewer bytes than this and c returns early
  LastRead,        \* LastRead[c]: the last place of data[] that c reads
  Garbled,         \* those that do not send the frame they have built
  AnswerLengths,   \* the lengths answers may have
  MaxExchanges     \* bound: calls made

DataSize == 1024        \* the size of data[]
RxSize == 4 * 1024      \* what rx_task reads at most at a time

ASSUME CommandsAssumption ==
  /\ Guard \in [Commands -> Nat \ {0}]
  /\ LastRead \in [Commands -> 0..(DataSize - 1)]
  /\ Garbled \subseteq Commands
ASSUME AnswersAssumption == AnswerLengths \subseteq Nat \ {0}
ASSUME BoundAssumption == MaxExchanges \in Nat

VARIABLES
  pc,        \* the command task: "idle", "mutex" or "reading"
  cmd,       \* the command function it executes or executed last
  calls,     \* number of that call
  te,        \* calls the TE has received and not answered yet
  ring,      \* the receive ring: answers nobody has read
  mux,       \* who holds rx_mux: "free", "command" or "rx"
  rxpc,      \* rx_task: "mutex", "reading" or "delay"
  rxlen,     \* bytes its current uart_read_bytes has copied
  data,      \* data[i] is the call whose answer place i of data[] holds
  len,       \* bytes the current uart_read_bytes has copied to data[]
  verdict,   \* how the last call ended: "none", "nodata", "short", "ok"
  used,      \* the calls whose answers its printed fields came from
  answered,  \* history: the calls the TE has answered
  taken,     \* history: the calls rx_task has read an answer of
  pending    \* history: calls unanswered or unread when this one was sent

vars == <<pc, cmd, calls, te, ring, mux, rxpc, rxlen, data, len, verdict, used,
          answered, taken, pending>>
teVars == <<te, answered>>
rxVars == <<rxpc, rxlen, taken>>
resultVars == <<verdict, used>>

(* The places of data[] some command reads.                                *)
Places == {i \in 0..(DataSize - 1) : \E c \in Commands : i <= LastRead[c]}

Calls == 1..MaxExchanges

(* The calls whose answers are still to come or still to be read.          *)
Waiting == {te[i] : i \in DOMAIN te} \cup {ring[i].of : i \in DOMAIN ring}

Init ==
  /\ pc = "idle"
  /\ cmd \in Commands
  /\ calls = 0
  /\ te = <<>>
  /\ ring = <<>>
  /\ mux = "free"
  /\ rxpc = "mutex"
  /\ rxlen = 0
  /\ data = [i \in Places |-> 0]
  /\ len = 0
  /\ verdict = "none"
  /\ used = {}
  /\ answered = {}
  /\ taken = {}
  /\ pending = {}

(***************************************************************************)
(* The command task.                                                       *)
(***************************************************************************)

(* The frame is built and written; the ring is not flushed first.          *)
Send(c) ==
  /\ pc = "idle"
  /\ calls < MaxExchanges
  /\ calls' = calls + 1
  /\ cmd' = c
  /\ te' = IF c \in Garbled THEN te ELSE Append(te, calls')
  /\ len' = 0
  /\ verdict' = "none"
  /\ used' = {}
  /\ pending' = Waiting
  /\ pc' = "mutex"
  /\ UNCHANGED <<ring, mux, rxVars, data, answered>>

(* Mutant of TakeMux: the receive ring is flushed after the write.         *)
TakeMux_Flush ==
  /\ pc = "mutex"
  /\ mux = "free"
  /\ mux' = "command"
  /\ pc' = "reading"
  /\ ring' = <<>>
  /\ UNCHANGED <<cmd, calls, teVars, rxVars, data, len, resultVars, pending>>

(* uart_read_bytes has rx_mux and starts to wait for bytes.                *)
TakeMux ==
  /\ pc = "mutex"
  /\ mux = "free"
  /\ mux' = "command"
  /\ pc' = "reading"
  /\ UNCHANGED <<cmd, calls, teVars, ring, rxVars, data, len, resultVars, pending>>

(* rx_task holds rx_mux for the whole second: nothing is read, "No data    *)
(* received".                                                              *)
MuxTimeout ==
  /\ pc = "mutex"
  /\ mux = "rx"
  /\ verdict' = "nodata"
  /\ pc' = "idle"
  /\ UNCHANGED <<cmd, calls, teVars, ring, mux, rxVars, data, len, used, pending>>

(* What a read with room for that many bytes copies of the answer at the  *)
(* head of the ring; the rest of it stays there.                           *)
Copied(room) == IF Head(ring).len <= room THEN Head(ring).len ELSE room

Take(n) == ring' = IF n = Head(ring).len THEN Tail(ring)
                                         ELSE [ring EXCEPT ![1].len = @ - n]

(* The read appends to what it has copied so far, while there is room.     *)
ReceiveAnswer ==
  /\ pc = "reading"
  /\ ring # <<>>
  /\ len < DataSize
  /\ LET n == Copied(DataSize - len) IN
       /\ data' = [i \in Places |->
                     IF i \in len..(len + n - 1) THEN Head(ring).of ELSE data[i]]
       /\ len' = len + n
       /\ Take(n)
  /\ UNCHANGED <<pc, cmd, calls, teVars, mux, rxVars, resultVars, pending>>

(* Mutants of Judge: any bytes will do; one byte fewer than needed will do.*)
Judge_NoGuard ==
  IF len = 0 THEN verdict' = "nodata" /\ used' = {}
  ELSE verdict' = "ok" /\ used' = {data[i] : i \in 0..LastRead[cmd]}

Judge_OffByOne ==
  IF len = 0 THEN verdict' = "nodata" /\ used' = {}
  ELSE IF len < Guard[cmd] - 1 THEN verdict' = "short" /\ used' = {}
  ELSE verdict' = "ok" /\ used' = {data[i] : i \in 0..LastRead[cmd]}

(* The early returns on len, and the places of data[] read after them.     *)
Judge ==
  IF len = 0 THEN verdict' = "nodata" /\ used' = {}
  ELSE IF len < Guard[cmd] THEN verdict' = "short" /\ used' = {}
  ELSE verdict' = "ok" /\ used' = {data[i] : i \in 0..LastRead[cmd]}

(* Mutant of ReadTimeout: no timeout (portMAX_DELAY).                      *)
ReadTimeout_Forever ==
  /\ pc = "reading"
  /\ len = DataSize
  /\ Judge
  /\ mux' = "free"
  /\ pc' = "idle"
  /\ UNCHANGED <<cmd, calls, teVars, ring, rxVars, data, len, pending>>

(* uart_read_bytes returns len: data[] is full, or nothing has come for a  *)
(* second.                                                                 *)
ReadTimeout ==
  /\ pc = "reading"
  /\ ring = <<>> \/ len = DataSize
  /\ Judge
  /\ mux' = "free"
  /\ pc' = "idle"
  /\ UNCHANGED <<cmd, calls, teVars, ring, rxVars, data, len, pending>>

(***************************************************************************)
(* rx_task: read, log what was read, wait 10 ms, for ever.                 *)
(***************************************************************************)
RxTakeMux ==
  /\ rxpc = "mutex"
  /\ mux = "free"
  /\ mux' = "rx"
  /\ rxpc' = "reading"
  /\ rxlen' = 0
  /\ UNCHANGED <<pc, cmd, calls, teVars, ring, data, len, resultVars, taken,
                 pending>>

RxMuxTimeout ==
  /\ rxpc = "mutex"
  /\ mux = "command"
  /\ rxpc' = "delay"
  /\ UNCHANGED <<pc, cmd, calls, teVars, ring, mux, rxlen, data, len,
                 resultVars, taken, pending>>

(* The bytes go to the task's own buffer and to the log.                   *)
RxReceive ==
  /\ rxpc = "reading"
  /\ ring # <<>>
  /\ rxlen < RxSize
  /\ LET n == Copied(RxSize - rxlen) IN
       /\ rxlen' = rxlen + n
       /\ Take(n)
  /\ taken' = taken \cup {Head(ring).of}
  /\ UNCHANGED <<pc, cmd, calls, teVars, mux, rxpc, data, len, resultVars,
                 pending>>

RxReadTimeout ==
  /\ rxpc = "reading"
  /\ ring = <<>> \/ rxlen = RxSize
  /\ mux' = "free"
  /\ rxpc' = "delay"
  /\ UNCHANGED <<pc, cmd, calls, teVars, ring, rxlen, data, len, resultVars,
                 taken, pending>>

RxDelay ==
  /\ rxpc = "delay"
  /\ rxpc' = "mutex"
  /\ UNCHANGED <<pc, cmd, calls, teVars, ring, mux, rxlen, data, len,
                 resultVars, taken, pending>>

(***************************************************************************)
(* The TE node and the line.                                               *)
(***************************************************************************)
Answer ==
  /\ te # <<>>
  /\ \E n \in AnswerLengths : ring' = Append(ring, [of |-> Head(te), len |-> n])
  /\ te' = Tail(te)
  /\ answered' = answered \cup {Head(te)}
  /\ UNCHANGED <<pc, cmd, calls, mux, rxVars, data, len, resultVars, pending>>

(* The request, or its answer, is lost or refused.                         *)
Silence ==
  /\ te # <<>>
  /\ te' = Tail(te)
  /\ UNCHANGED <<pc, cmd, calls, ring, mux, rxVars, data, len, resultVars,
                 answered, pending>>

CommandStep == TakeMux \/ MuxTimeout \/ ReceiveAnswer \/ ReadTimeout
RxStep == RxTakeMux \/ RxMuxTimeout \/ RxReceive \/ RxReadTimeout \/ RxDelay
TEStep == Answer \/ Silence

(* The caller makes no further call.                                       *)
Done ==
  /\ pc = "idle"
  /\ calls = MaxExchanges
  /\ UNCHANGED vars

Next ==
  \/ \E c \in Commands : Send(c)
  \/ CommandStep
  \/ RxStep
  \/ TEStep
  \/ Done

Spec == Init /\ [][Next]_vars

(* Every wait of the command task ends after a second.                     *)
FairSpec == Spec /\ WF_vars(CommandStep)

(***************************************************************************)
(* Properties                                                              *)
(***************************************************************************)
Answers == [of : Calls, len : Nat \ {0}]

TypeOK ==
  /\ pc \in {"idle", "mutex", "reading"}
  /\ cmd \in Commands
  /\ calls \in 0..MaxExchanges
  /\ te \in Seq(Calls)
  /\ ring \in Seq(Answers)
  /\ mux \in {"free", "command", "rx"}
  /\ rxpc \in {"mutex", "reading", "delay"}
  /\ rxlen \in Nat
  /\ data \in [Places -> 0..MaxExchanges]
  /\ len \in Nat
  /\ verdict \in {"none", "nodata", "short", "ok"}
  /\ used \subseteq 0..MaxExchanges
  /\ answered \subseteq Calls
  /\ taken \subseteq Calls
  /\ pending \subseteq Calls

(* Where an answer can be that a command reporting no data has missed:     *)
(* rx_task has it, or it came after the read gave up, or while rx_task     *)
(* held the mutex, and is still in the ring.  No answer is lost on the     *)
(* gateway's side of the line in another way.                              *)
AnsweredIsRead ==
  verdict = "nodata" /\ calls \in answered =>
    calls \in taken \/ \E i \in DOMAIN ring : ring[i].of = calls

(* Late answers: the fields printed come from answers that were still      *)
(* outstanding when the command was sent, or from its own; never from an   *)
(* exchange that was over.  In particular a command sent on a quiet line   *)
(* prints its own answer.                                                  *)
NoForgottenAnswer == verdict = "ok" => used \subseteq pending \cup {calls}

(* Every command returns to its caller, whatever the TE and rx_task do.    *)
CommandReturns == pc # "idle" ~> pc = "idle"

(* A call of a command is a TEExchange: one call, nothing or the fields of *)
(* answers still due, which come in the order of their requests.           *)
Exchange == INSTANCE TEExchange WITH
  busy <- pc # "idle", outcome <- used,
  due <- (pending \cup {calls}) \cap Calls

ImplementsExchange == Exchange!Spec
=============================================================================
