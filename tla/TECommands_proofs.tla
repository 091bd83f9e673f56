-------------------------- MODULE TECommands_proofs --------------------------
(* Proofs about the command functions, for every set of commands, every    *)
(* length of the firmware file and every answer.                           *)
EXTENDS TECommands, C2DWrite, FiniteSetTheorems, SequenceTheorems, TLAPS

Bytes == 0..255
Words == {n \in Nat : n <= 65535}

(***************************************************************************)
(* The checksum.                                                           *)
(***************************************************************************)

(* The places whose byte has the bit of value d.                           *)
Odd(bytes, d) == {i \in DOMAIN bytes : (bytes[i] \div d) % 2 = 1}

(* A parity is a bit.                                                      *)
LEMMA ParityIsBit ==
  ASSUME NEW s \in Seq(Bytes), NEW d \in Nat \ {0}
  PROVE  IsFiniteSet(Odd(s, d)) /\ Parity(s, d) \in {0, 1}
<1>1. IsFiniteSet(1..Len(s)) /\ Odd(s, d) \subseteq 1..Len(s)
  <2>1. Len(s) \in Int /\ DOMAIN s = 1..Len(s)
    OBVIOUS
  <2>2. QED
    BY <2>1, FS_Interval DEF Odd
<1>2. IsFiniteSet(Odd(s, d))
  BY <1>1, FS_Subset
<1>3. Cardinality(Odd(s, d)) \in Nat
  BY <1>2, FS_CardinalityType
<1>4. Parity(s, d) = Cardinality(Odd(s, d)) % 2
  BY DEF Parity, Odd
<1>5. QED
  BY <1>2, <1>3, <1>4

(* One more byte changes the parity by its bit.                            *)
LEMMA ParityOfAppend ==
  ASSUME NEW s \in Seq(Bytes), NEW e \in Bytes, NEW d \in Nat \ {0}
  PROVE  Parity(Append(s, e), d) = (Parity(s, d) + ((e \div d) % 2)) % 2
<1> DEFINE t == Append(s, e)
           n == Cardinality(Odd(s, d))
<1>1. t \in Seq(Bytes) /\ DOMAIN t = DOMAIN s \cup {Len(s) + 1}
      /\ Len(s) + 1 \notin DOMAIN s
      /\ t[Len(s) + 1] = e /\ \A i \in DOMAIN s : t[i] = s[i]
  OBVIOUS
<1>2. IsFiniteSet(Odd(s, d)) /\ n \in Nat
  BY ParityIsBit, FS_CardinalityType
<1>3. Parity(s, d) = n % 2 /\ Parity(t, d) = Cardinality(Odd(t, d)) % 2
  BY DEF Parity, Odd
<1>4. (e \div d) % 2 \in {0, 1}
  <2>1. e \in Int /\ e \div d \in Int
    BY DEF Bytes
  <2>2. QED
    BY <2>1
<1>5. CASE (e \div d) % 2 = 1
  <2>1. Odd(t, d) = Odd(s, d) \cup {Len(s) + 1}
    BY <1>1, <1>5 DEF Odd
  <2>2. Cardinality(Odd(t, d)) = n + 1
    BY <1>1, <1>2, <2>1, FS_AddElement DEF Odd
  <2>3. (n + 1) % 2 = ((n % 2) + 1) % 2
    BY <1>2
  <2>4. QED
    BY <1>3, <1>5, <2>2, <2>3
<1>6. CASE (e \div d) % 2 = 0
  <2>1. Odd(t, d) = Odd(s, d)
    BY <1>1, <1>6 DEF Odd
  <2>2. n % 2 = ((n % 2) + 0) % 2
    BY <1>2
  <2>3. QED
    BY <1>3, <1>6, <2>1, <2>2
<1>7. QED
  BY <1>4, <1>5, <1>6

(* The XOR of bytes is a byte, and its bits are their parities.            *)
LEMMA XorBits ==
  ASSUME NEW s \in Seq(Bytes)
  PROVE  LET x == XorSum(s)
         IN  /\ x \in Bytes
             /\ (x \div 1) % 2 = Parity(s, 1) /\ (x \div 2) % 2 = Parity(s, 2)
             /\ (x \div 4) % 2 = Parity(s, 4) /\ (x \div 8) % 2 = Parity(s, 8)
             /\ (x \div 16) % 2 = Parity(s, 16) /\ (x \div 32) % 2 = Parity(s, 32)
             /\ (x \div 64) % 2 = Parity(s, 64) /\ (x \div 128) % 2 = Parity(s, 128)
<1>1. \A d \in Nat \ {0} : Parity(s, d) \in {0, 1}
  BY ParityIsBit
<1>2. PICK p0 \in {0, 1}, p1 \in {0, 1}, p2 \in {0, 1}, p3 \in {0, 1},
           p4 \in {0, 1}, p5 \in {0, 1}, p6 \in {0, 1}, p7 \in {0, 1} :
        /\ p0 = Parity(s, 1) /\ p1 = Parity(s, 2) /\ p2 = Parity(s, 4)
        /\ p3 = Parity(s, 8) /\ p4 = Parity(s, 16) /\ p5 = Parity(s, 32)
        /\ p6 = Parity(s, 64) /\ p7 = Parity(s, 128)
  BY <1>1
<1>3. ASSUME NEW x, x = p0 + 2 * p1 + 4 * p2 + 8 * p3 + 16 * p4 + 32 * p5 +
                        64 * p6 + 128 * p7
      PROVE  /\ x \in Bytes
             /\ (x \div 1) % 2 = p0 /\ (x \div 2) % 2 = p1 /\ (x \div 4) % 2 = p2
             /\ (x \div 8) % 2 = p3 /\ (x \div 16) % 2 = p4 /\ (x \div 32) % 2 = p5
             /\ (x \div 64) % 2 = p6 /\ (x \div 128) % 2 = p7
  <2>1. x \in Bytes
    BY <1>3 DEF Bytes
  <2>2. x \div 1 = p0 + 2 * p1 + 4 * p2 + 8 * p3 + 16 * p4 + 32 * p5 + 64 * p6 + 128 * p7
    BY <1>3
  <2>3. x \div 2 = p1 + 2 * p2 + 4 * p3 + 8 * p4 + 16 * p5 + 32 * p6 + 64 * p7
    BY <1>3
  <2>4. x \div 4 = p2 + 2 * p3 + 4 * p4 + 8 * p5 + 16 * p6 + 32 * p7
    BY <1>3
  <2>5. x \div 8 = p3 + 2 * p4 + 4 * p5 + 8 * p6 + 16 * p7
    BY <1>3
  <2>6. x \div 16 = p4 + 2 * p5 + 4 * p6 + 8 * p7
    BY <1>3
  <2>7. x \div 32 = p5 + 2 * p6 + 4 * p7
    BY <1>3
  <2>8. x \div 64 = p6 + 2 * p7
    BY <1>3
  <2>9. x \div 128 = p7
    BY <1>3
  <2>10. (x \div 1) % 2 = p0
    BY <2>2
  <2>11. (x \div 2) % 2 = p1
    BY <2>3
  <2>12. (x \div 4) % 2 = p2
    BY <2>4
  <2>13. (x \div 8) % 2 = p3
    BY <2>5
  <2>14. (x \div 16) % 2 = p4
    BY <2>6
  <2>15. (x \div 32) % 2 = p5
    BY <2>7
  <2>16. (x \div 64) % 2 = p6
    BY <2>8
  <2>17. (x \div 128) % 2 = p7
    BY <2>9
  <2>18. QED
    BY <2>1, <2>10, <2>11, <2>12, <2>13, <2>14, <2>15, <2>16, <2>17
<1>4. XorSum(s) = p0 + 2 * p1 + 4 * p2 + 8 * p3 + 16 * p4 + 32 * p5 + 64 * p6 + 128 * p7
  BY <1>2 DEF XorSum
<1>5. QED
  BY <1>2, <1>3, <1>4

(* The XOR of bytes and of their XOR is 0.                                 *)
LEMMA XorCancels ==
  ASSUME NEW s \in Seq(Bytes)
  PROVE  XorSum(Append(s, XorSum(s))) = 0
<1> DEFINE x == XorSum(s)
           t == Append(s, x)
<1>1. x \in Bytes
  BY XorBits
<1>2. ASSUME NEW d \in Nat \ {0}, (x \div d) % 2 = Parity(s, d)
      PROVE  Parity(t, d) = 0
  <2>1. Parity(s, d) \in {0, 1}
    BY ParityIsBit
  <2>2. Parity(t, d) = (Parity(s, d) + Parity(s, d)) % 2
    BY <1>1, <1>2, ParityOfAppend
  <2>3. QED
    BY <2>1, <2>2
<1>3. /\ Parity(t, 1) = 0 /\ Parity(t, 2) = 0 /\ Parity(t, 4) = 0
      /\ Parity(t, 8) = 0 /\ Parity(t, 16) = 0 /\ Parity(t, 32) = 0
      /\ Parity(t, 64) = 0 /\ Parity(t, 128) = 0
  BY <1>2, XorBits
<1>4. QED
  BY <1>3 DEF XorSum

(* The checksum is that of all bytes but the last of the length given.     *)
LEMMA ChecksumOfPrefix ==
  ASSUME NEW b, NEW n \in Nat
  PROVE  calculate_checksum(b, n + 1) = XorSum(SubSeq(b, 1, n))
<1>1. n + 1 # 0 /\ (n + 1) - 1 = n
  OBVIOUS
<1>2. QED
  BY <1>1 DEF calculate_checksum

(* An array sealed with its checksum: one more byte, which makes the XOR   *)
(* over all of them 0.                                                     *)
LEMMA SealedArray ==
  ASSUME NEW b \in Seq(Bytes)
  PROVE  /\ \E x \in Bytes : Sealed(b) = Append(b, x)
         /\ XorSum(Sealed(b)) = 0
<1>1. SubSeq(Append(b, 0), 1, Len(b)) = b
  OBVIOUS
<1>2. calculate_checksum(Append(b, 0), Len(b) + 1) = XorSum(b)
  <2>1. Len(b) \in Nat
    OBVIOUS
  <2>2. QED
    BY <1>1, <2>1, ChecksumOfPrefix
<1>3. Sealed(b) = Append(b, XorSum(b)) /\ XorSum(b) \in Bytes
  BY <1>2, XorBits DEF Sealed
<1>4. QED
  BY <1>3, XorCancels

(***************************************************************************)
(* A frame with a header, a payload and a checksum.                        *)
(***************************************************************************)
(* The length that the first six bytes announce.                           *)
Announced(f) == f[5] * 256 + f[6]

LEMMA HeaderOfFrame ==
  ASSUME NEW washer \in Bytes, NEW code \in Bytes, NEW declared \in Words
  PROVE  LET h == Header(washer, code, declared)
         IN  /\ h \in Seq(Bytes) /\ Len(h) = 6
             /\ h[3] = washer /\ h[4] = code /\ Announced(h) = declared
<1>1. PICK high \in Bytes, low \in Bytes :
        high = declared \div 256 /\ low = declared % 256 /\ high * 256 + low = declared
  <2>1. declared \in Nat /\ declared <= 65535
    BY DEF Words
  <2>a. declared \div 256 \in Bytes
    BY <2>1 DEF Bytes
  <2>b. declared % 256 \in Bytes
    BY <2>1 DEF Bytes
  <2>2. declared \div 256 \in Bytes /\ declared % 256 \in Bytes
    BY <2>a, <2>b
  <2>3. (declared \div 256) * 256 + (declared % 256) = declared
    BY <2>1
  <2>4. QED
    BY <2>2, <2>3
<1>2. Header(washer, code, declared) = <<72, 83, washer, code, high, low>>
  BY <1>1 DEF Header
<1>3. 72 \in Bytes /\ 83 \in Bytes
  BY DEF Bytes
<1>4. QED
  BY <1>1, <1>2, <1>3 DEF Announced

(* Bytes after six others.                                                 *)
Joined(h, p) == h \o p

LEMMA AfterSix ==
  ASSUME NEW h \in Seq(Bytes), Len(h) = 6, NEW p \in Seq(Bytes)
  PROVE  /\ Joined(h, p) \in Seq(Bytes) /\ Len(p) \in Nat
         /\ Len(Joined(h, p)) = Len(p) + 6
         /\ \A i \in 1..6 : Joined(h, p)[i] = h[i]
         /\ \A i \in 1..Len(p) : Joined(h, p)[i + 6] = p[i]
<1> DEFINE b == Joined(h, p)
<1>1. /\ b \in Seq(Bytes) /\ Len(b) = Len(h) + Len(p)
      /\ \A i \in 1..Len(h) + Len(p) :
           b[i] = IF i <= Len(h) THEN h[i] ELSE p[i - Len(h)]
  BY ConcatProperties DEF Joined
<1>2. PICK n \in Nat : n = Len(p)
  OBVIOUS
<1>3. /\ Len(b) = n + 6
      /\ \A i \in 1..(6 + n) : b[i] = IF i <= 6 THEN h[i] ELSE p[i - 6]
  BY <1>1, <1>2
<1>4. ASSUME NEW i \in 1..6 PROVE b[i] = h[i]
  <2>1. i \in 1..(6 + n) /\ i <= 6
    OBVIOUS
  <2>2. QED
    BY <1>3, <2>1
<1>5. ASSUME NEW i \in 1..n PROVE b[i + 6] = p[i]
  <2>1. i + 6 \in 1..(6 + n) /\ ~ (i + 6 <= 6) /\ (i + 6) - 6 = i
    BY <1>2
  <2>2. QED
    BY <1>3, <2>1
<1>6. QED
  BY <1>1, <1>2, <1>3, <1>4, <1>5

(* What a frame says, without its checksum and with any.                   *)
IsBody(b, washer, code, declared, payload) ==
  /\ b \in Seq(Bytes) /\ Len(b) = Len(payload) + 6 /\ Len(payload) \in Nat
  /\ b[3] = washer /\ b[4] = code /\ Announced(b) = declared
  /\ \A i \in 1..Len(payload) : b[i + 6] = payload[i]

IsFrame(f, washer, code, declared, payload) ==
  /\ f \in Seq(Bytes) /\ Len(f) = Len(payload) + 7 /\ Len(payload) \in Nat
  /\ f[3] = washer /\ f[4] = code /\ Announced(f) = declared
  /\ \A i \in 1..Len(payload) : f[i + 6] = payload[i]

LEMMA BodyShape ==
  ASSUME NEW washer \in Bytes, NEW code \in Bytes, NEW declared \in Words,
         NEW payload \in Seq(Bytes)
  PROVE  IsBody(Header(washer, code, declared) \o payload,
                washer, code, declared, payload)
<1>1. PICK h : h = Header(washer, code, declared)
  OBVIOUS
<1>2. /\ h \in Seq(Bytes) /\ Len(h) = 6
      /\ h[3] = washer /\ h[4] = code /\ Announced(h) = declared
  BY <1>1, HeaderOfFrame
<1>3. PICK b : b = Joined(h, payload)
  OBVIOUS
<1>4. /\ b \in Seq(Bytes) /\ Len(b) = Len(payload) + 6 /\ Len(payload) \in Nat
      /\ \A i \in 1..6 : b[i] = h[i]
      /\ \A i \in 1..Len(payload) : b[i + 6] = payload[i]
  BY <1>2, <1>3, AfterSix
<1>5. b[3] = h[3] /\ b[4] = h[4] /\ b[5] = h[5] /\ b[6] = h[6]
  BY <1>4
<1>6. Announced(b) = Announced(h)
  BY <1>5 DEF Announced
<1>7. IsBody(b, washer, code, declared, payload)
  BY <1>2, <1>4, <1>5, <1>6 DEF IsBody
<1>8. QED
  BY <1>1, <1>3, <1>7 DEF Joined

LEMMA ClosedShape ==
  ASSUME NEW washer, NEW code, NEW declared, NEW payload, NEW b,
         IsBody(b, washer, code, declared, payload), NEW checksum \in Bytes
  PROVE  IsFrame(Append(b, checksum), washer, code, declared, payload)
<1>1. PICK f : f = Append(b, checksum)
  OBVIOUS
<1>2. PICK n \in Nat : n = Len(payload) /\ Len(b) = n + 6
  BY DEF IsBody
<1>3. /\ f \in Seq(Bytes) /\ Len(f) = Len(b) + 1
      /\ \A i \in 1..Len(b) : f[i] = b[i]
  BY <1>1 DEF IsBody
<1>4. f[3] = b[3] /\ f[4] = b[4] /\ f[5] = b[5] /\ f[6] = b[6]
  BY <1>2, <1>3
<1>5. Announced(f) = Announced(b)
  BY <1>4 DEF Announced
<1>6. \A i \in 1..n : f[i + 6] = payload[i]
  <2>1. \A i \in 1..n : i + 6 \in 1..Len(b)
    BY <1>2
  <2>2. QED
    BY <1>2, <1>3, <2>1 DEF IsBody
<1>7. IsFrame(f, washer, code, declared, payload)
  BY <1>2, <1>3, <1>4, <1>5, <1>6 DEF IsBody, IsFrame
<1>8. QED
  BY <1>1, <1>7

(* The XOR of a sealed frame is 0.                                         *)
LEMMA SealedFrame ==
  ASSUME NEW washer \in Bytes, NEW code \in Bytes, NEW declared \in Words,
         NEW payload \in Seq(Bytes)
  PROVE  LET f == Sealed(Header(washer, code, declared) \o payload)
         IN  IsFrame(f, washer, code, declared, payload) /\ XorSum(f) = 0
<1>1. PICK b : b = Header(washer, code, declared) \o payload
  OBVIOUS
<1>2. IsBody(b, washer, code, declared, payload)
  BY <1>1, BodyShape
<1>3. b \in Seq(Bytes)
  BY <1>2 DEF IsBody
<1>4. PICK x \in Bytes : Sealed(b) = Append(b, x)
  BY <1>3, SealedArray
<1>5. IsFrame(Append(b, x), washer, code, declared, payload)
  BY <1>2, ClosedShape
<1>6. XorSum(Sealed(b)) = 0
  BY <1>3, SealedArray
<1>7. QED
  BY <1>1, <1>4, <1>5, <1>6

(***************************************************************************)
(* The commands, one by one.                                               *)
(***************************************************************************)

(* The command whose frame, sent to washer 1, has this code and a payload  *)
(* of n bytes: how a TE may tell the commands apart.                       *)
CodeName(code, n) ==
  CASE code = \h0F -> "READ_SETUP_TIMESTAMP_BY_INDEX"
    [] code = \h11 -> "READ_SETUP_INDEX"
    [] code = \h13 -> IF n = 2 THEN "READ_PUMPS_BY_INDEX"
                    ELSE "WRITE_SETUP_TRANSFERRED"
    [] code = \h16 -> "READ_FORMULAS_BY_INDEX"
    [] code = \h17 -> "READ_OLDEST_UNTXFD_SETUP_INDEX"
    [] code = \h18 -> "READ_RECORD_INDEX"
    [] code = \h19 -> "READ_RECORD_BY_INDEX"
    [] code = \h1A -> "READ_OLDEST_UNTXFD_RECORD_INDEX"
    [] code = \h1C -> "WRITE_RECORD_TRANSFERRED"
    [] code = \h20 -> "READ_SERIAL_NUMBER_command"
    [] code = \h22 -> "READ_CURRENT_LOAD_START_TIMESTAMP"
    [] code = \h23 -> "READ_CURRENT_LOAD_FORMULA_NAME"
    [] code = \h24 -> "READ_CURRENT_LOAD_WEIGHT"
    [] code = \h25 -> "GET_OP_STATE"
    [] code = \h26 -> "READ_LAST_CYCLE_START_TIMESTAMP"
    [] code = \h27 -> "READ_LAST_CYCLE_END_TIMESTAMP"
    [] code = \h28 -> "READ_LAST_CYCLE_FORMULA_NAME"
    [] code = \h29 -> "READ_LAST_CYCLE_WEIGHT"
    [] code = \h2A -> "READ_LAST_CYCLE_FORMULA_NUMBER"
    [] code = \h2B -> "READ_CURRENT_LOAD_FORMULA_NUMBER"
    [] code = \h32 -> "SET_DATETIME"
    [] code = \h35 -> "READ_COMPANY_NAME"
    [] code = \h39 -> "READ_ALTERNATE_BUILD_NUMBER"
    [] code = \h3B -> "READ_ACCOUNT_NAME"
    [] code = \h3D -> "WRITE_CLEAR_POWER_UP"
    [] code = \h3E -> "READ_CYCLE_COUNTER"
    [] code = \h3F -> "READ_MACHINE_NAME_BY_INDEX"
    [] code = \h40 -> "READ_COMPANY_NAME_BY_INDEX"
    [] code = \h41 -> "READ_ACCOUNT_NAME_BY_INDEX"
    [] code = \h42 -> "READ_INSTALLERS_PASSWORD_BY_INDEX"
    [] code = \h43 -> "READ_TUBE_ALARM_BY_INDEX"
    [] code = \h45 -> "SET_DST"
    [] code = \h46 -> "READ_ACTIVITY"
    [] code = \h4D -> "WRITE_C2D_COMPLETE"
    [] code = \h4E -> "READ_C2D_SETUP_TRANSFERRING_STATUS"
    [] code = \h5E -> "WRITE_PAGE_TO_RAM"
    [] code = \h5F -> "WRITE_UPLOAD_SECTOR_NUMBER"
    [] code = \h60 -> "WRITE_UPLOAD_SECTOR_TO_FLASH"
    [] code = \h63 -> "COMPLETE_TRANSFER_STEP1"
    [] code = \h7D -> "COMPLETE_TRANSFER_FINAL_STEP"
    [] code = \h80 -> "READ_C2D_FIRMWARE_TRANSFERRING_STATUS"
    [] code = \h81 -> "WRITE_C2D_FW_UPLOAD_TOTAL_SECTORS"
    [] code = \h84 -> "COMPLETE_TRANSFER_STEP2"
    [] code = \h85 -> "WATCHDOG_REBOOT"

Named(f) ==
  IF f[3] = 0 THEN "send_poll_command"
  ELSE IF f[3] = 2 THEN "send_READ_SOFTWARE_ID_command"
  ELSE IF f[3] = 13 THEN "READ_MACINE_NAME"
  ELSE CodeName(f[4], Len(f) - 7)

(* Two commands send the same frame: it gets the name of one of them.      *)
NameOf(c) ==
  IF c = "READ_SYS_CONFIG_BY_INDEX" THEN "WRITE_SETUP_TRANSFERRED" ELSE c

(* What command c, which is the record m, keeps to.                        *)
Keeps(c, m) ==
  /\ m.frame \in Seq(Bytes) /\ m.sent \in Seq(Bytes)
  /\ c \notin Misdeclared => Announced(m.frame) = Len(m.frame) - 7
  /\ c \notin Mischecked => XorSum(m.frame) = 0
  /\ m.sent = m.frame \/ (c \in Missent /\ m.sent = <<CodeByte>>)
  /\ Len(m.frame) \in Nat /\ Len(m.frame) > 6
  /\ Named(m.frame) = NameOf(c)
  /\ m.guard \in 7..18 /\ m.last \in -1..91
  /\ c \notin Misread => m.last < m.guard

LEMMA PlainKeeps ==
  ASSUME NEW c, NEW code \in Bytes, NEW declared \in Words,
         NEW payload \in Seq(Bytes), NEW highest \in -1..91,
         c \in Misdeclared \/ declared = Len(payload),
         c \in Misread \/ highest < 7,
         CodeName(code, Len(payload)) = NameOf(c)
  PROVE  Keeps(c, Plain(code, declared, payload, highest))
<1>1. PICK f : f = Sealed(Header(1, code, declared) \o payload)
  OBVIOUS
<1>2. 1 \in Bytes
  BY DEF Bytes
<1>3. IsFrame(f, 1, code, declared, payload) /\ XorSum(f) = 0
  BY <1>1, <1>2, SealedFrame
<1>4. PICK m : m = Plain(code, declared, payload, highest)
  OBVIOUS
<1>5. m.frame = f /\ m.sent = f /\ m.guard = 7 /\ m.last = highest
  BY <1>1, <1>4 DEF Plain
<1>6. Named(f) = NameOf(c)
  BY <1>3 DEF Named, IsFrame
<1>7. /\ f \in Seq(Bytes) /\ (c \notin Misdeclared => Announced(f) = Len(f) - 7)
      /\ Len(f) \in Nat /\ Len(f) > 6
  BY <1>3 DEF IsFrame
<1>8. Keeps(c, m)
  BY <1>3, <1>5, <1>6, <1>7 DEF Keeps
<1>9. QED
  BY <1>4, <1>8

LEMMA PastedKeeps ==
  ASSUME NEW c \in Missent, NEW code, NEW declared, NEW payload, NEW highest,
         Keeps(c, Plain(code, declared, payload, highest))
  PROVE  Keeps(c, Pasted(Plain(code, declared, payload, highest)))
<1>1. <<CodeByte>> \in Seq(Bytes)
  BY ByteAssumption DEF Bytes
<1>2. QED
  BY <1>1 DEF Keeps, Pasted, Plain

(* The payloads.                                                           *)
LEMMA Payloads ==
  /\ <<0>> \in Seq(Bytes) /\ Len(<<0>>) = 1
  /\ <<Dyn>> \in Seq(Bytes) /\ Len(<<Dyn>>) = 1
  /\ <<Dyn, Dyn>> \in Seq(Bytes) /\ Len(<<Dyn, Dyn>>) = 2
<1>1. 0 \in Bytes /\ Dyn \in Bytes
  BY DEF Bytes, Dyn
<1>2. QED
  BY <1>1

(* Code and highest place read of c, when its payload has n bytes.         *)
Fits(c, code, n, highest) ==
  /\ code \in Bytes /\ highest \in -1..91
  /\ CodeName(code, n) = NameOf(c)
  /\ c \in Misread \/ highest < 7

LEMMA OneByte ==
  ASSUME NEW c, NEW code, NEW highest, Fits(c, code, 1, highest)
  PROVE  /\ Keeps(c, Plain(code, 1, <<0>>, highest))
         /\ Keeps(c, Plain(code, 1, <<Dyn>>, highest))
<1>1. 1 \in Words
  BY DEF Words
<1>2. QED
  BY <1>1, Payloads, PlainKeeps DEF Fits

LEMMA TwoBytes ==
  ASSUME NEW c, NEW code, NEW highest, NEW declared \in {1, 2},
         Fits(c, code, 2, highest), c \in Misdeclared \/ declared = 2
  PROVE  Keeps(c, Plain(code, declared, <<Dyn, Dyn>>, highest))
<1>1. declared \in Words
  BY DEF Words
<1>2. QED
  BY <1>1, Payloads, PlainKeeps DEF Fits

LEMMA OneByteCommands ==
  /\ Fits("READ_SETUP_TIMESTAMP_BY_INDEX", \h0F, 1, 9)
  /\ Fits("READ_SETUP_INDEX", \h11, 1, 7)
  /\ Fits("WRITE_SETUP_TRANSFERRED", \h13, 1, 7)
  /\ Fits("READ_SYS_CONFIG_BY_INDEX", \h13, 1, 30)
  /\ Fits("READ_OLDEST_UNTXFD_SETUP_INDEX", \h17, 1, 7)
  /\ Fits("READ_RECORD_INDEX", \h18, 1, 8)
  /\ Fits("READ_OLDEST_UNTXFD_RECORD_INDEX", \h1A, 1, 8)
  /\ Fits("READ_SERIAL_NUMBER_command", \h20, 1, 5)
  /\ Fits("READ_CURRENT_LOAD_START_TIMESTAMP", \h22, 1, 5)
  /\ Fits("READ_CURRENT_LOAD_FORMULA_NAME", \h23, 1, 5)
  /\ Fits("READ_CURRENT_LOAD_WEIGHT", \h24, 1, 5)
  /\ Fits("GET_OP_STATE", \h25, 1, 6)
  /\ Fits("READ_LAST_CYCLE_START_TIMESTAMP", \h26, 1, 5)
  /\ Fits("READ_LAST_CYCLE_END_TIMESTAMP", \h27, 1, 5)
  /\ Fits("READ_LAST_CYCLE_FORMULA_NAME", \h28, 1, 5)
  /\ Fits("READ_LAST_CYCLE_WEIGHT", \h29, 1, 5)
  /\ Fits("READ_LAST_CYCLE_FORMULA_NUMBER", \h2A, 1, 6)
  /\ Fits("READ_CURRENT_LOAD_FORMULA_NUMBER", \h2B, 1, 6)
  /\ Fits("READ_COMPANY_NAME", \h35, 1, 5)
  /\ Fits("READ_ALTERNATE_BUILD_NUMBER", \h39, 1, 6)
  /\ Fits("READ_ACCOUNT_NAME", \h3B, 1, 5)
  /\ Fits("WRITE_CLEAR_POWER_UP", \h3D, 1, None)
  /\ Fits("READ_CYCLE_COUNTER", \h3E, 1, None)
  /\ Fits("READ_MACHINE_NAME_BY_INDEX", \h3F, 1, None)
  /\ Fits("READ_COMPANY_NAME_BY_INDEX", \h40, 1, None)
  /\ Fits("READ_ACCOUNT_NAME_BY_INDEX", \h41, 1, None)
  /\ Fits("READ_INSTALLERS_PASSWORD_BY_INDEX", \h42, 1, None)
  /\ Fits("READ_TUBE_ALARM_BY_INDEX", \h43, 1, None)
  /\ Fits("SET_DST", \h45, 1, None)
  /\ Fits("READ_ACTIVITY", \h46, 1, None)
  /\ Fits("WRITE_C2D_COMPLETE", \h4D, 1, None)
  /\ Fits("READ_C2D_SETUP_TRANSFERRING_STATUS", \h4E, 1, None)
  /\ Fits("WRITE_UPLOAD_SECTOR_TO_FLASH", \h60, 1, None)
  /\ Fits("COMPLETE_TRANSFER_FINAL_STEP", \h7D, 1, None)
  /\ Fits("READ_C2D_FIRMWARE_TRANSFERRING_STATUS", \h80, 1, None)
  /\ Fits("COMPLETE_TRANSFER_STEP2", \h84, 1, None)
  /\ Fits("WATCHDOG_REBOOT", \h85, 1, None)
BY DEF Fits, CodeName, NameOf, Bytes, None, Misread

LEMMA TwoByteCommands ==
  /\ Fits("READ_PUMPS_BY_INDEX", \h13, 2, 26)
  /\ Fits("READ_FORMULAS_BY_INDEX", \h16, 2, 91)
  /\ Fits("READ_RECORD_BY_INDEX", \h19, 2, 8)
  /\ Fits("WRITE_RECORD_TRANSFERRED", \h1C, 2, 7)
  /\ Fits("WRITE_UPLOAD_SECTOR_NUMBER", \h5F, 2, None)
  /\ Fits("WRITE_C2D_FW_UPLOAD_TOTAL_SECTORS", \h81, 2, None)
BY DEF Fits, CodeName, NameOf, Bytes, None, Misread

(* The poll, to washer 0.                                                  *)
LEMMA PollKeeps == Keeps("send_poll_command", send_poll_command)
<1>1. PICK p \in Seq(Bytes) : p = <<0>>
  BY Payloads
<1>2. 0 \in Bytes /\ \h01 \in Bytes /\ 256 \in Words
  BY DEF Bytes, Words
<1>f. PICK f : f = Sealed(Header(0, \h01, 256) \o p)
  OBVIOUS
<1>3. IsFrame(f, 0, \h01, 256, p) /\ XorSum(f) = 0
  BY <1>f, <1>2, SealedFrame
<1>4. PICK m : m = send_poll_command
  OBVIOUS
<1>5. m.frame = f /\ m.sent = f /\ m.guard = 18 /\ m.last = 17
  BY <1>1, <1>f, <1>4 DEF send_poll_command, Plain
<1>6. /\ Named(f) = NameOf("send_poll_command") /\ f \in Seq(Bytes)
      /\ Len(f) \in Nat /\ Len(f) > 6
  <2>1. f \in Seq(Bytes) /\ f[3] = 0 /\ Len(f) \in Nat /\ Len(f) > 6
    BY <1>3 DEF IsFrame
  <2>2. QED
    BY <2>1 DEF Named, NameOf
<1>7. "send_poll_command" \in Misdeclared
  BY DEF Misdeclared
<1>8. Keeps("send_poll_command", m)
  BY <1>3, <1>5, <1>6, <1>7 DEF Keeps
<1>9. QED
  BY <1>4, <1>8

(* The frames without a payload.                                           *)
LEMMA FixedShape ==
  ASSUME NEW washer \in Bytes, NEW checksum \in Bytes
  PROVE  LET m == Fixed(Header(washer, 1, 0), checksum)
         IN  /\ IsFrame(m.frame, washer, 1, 0, <<>>) /\ m.sent = m.frame
             /\ m.guard = 7 /\ m.last = 5
<1>1. 1 \in Bytes /\ 0 \in Words /\ <<>> \in Seq(Bytes)
  BY DEF Bytes, Words
<1>2. Header(washer, 1, 0) \in Seq(Bytes)
  BY <1>1, HeaderOfFrame
<1>3. Header(washer, 1, 0) \o <<>> = Header(washer, 1, 0)
  BY <1>2, ConcatEmptySeq
<1>4. IsBody(Header(washer, 1, 0), washer, 1, 0, <<>>)
  BY <1>1, <1>3, BodyShape
<1>5. IsFrame(Append(Header(washer, 1, 0), checksum), washer, 1, 0, <<>>)
  BY <1>4, ClosedShape
<1>6. QED
  BY <1>5 DEF Fixed

LEMMA FixedKeeps ==
  /\ Keeps("send_READ_SOFTWARE_ID_command", send_READ_SOFTWARE_ID_command)
  /\ Keeps("READ_MACINE_NAME", READ_MACINE_NAME)
<1>1. ASSUME NEW c \in Misread \cap Mischecked, NEW washer \in {2, 13},
             NEW checksum \in Bytes, NEW m, m = Fixed(Header(washer, 1, 0), checksum),
             NameOf(c) = IF washer = 2 THEN "send_READ_SOFTWARE_ID_command"
                         ELSE "READ_MACINE_NAME"
      PROVE  Keeps(c, m)
  <2>1. washer \in Bytes
    BY DEF Bytes
  <2>2. /\ IsFrame(m.frame, washer, 1, 0, <<>>) /\ m.sent = m.frame
        /\ m.guard = 7 /\ m.last = 5
    BY <1>1, <2>1, FixedShape
  <2>3. m.frame \in Seq(Bytes) /\ Announced(m.frame) = 0 /\ Len(m.frame) = 7
        /\ m.frame[3] = washer
    BY <2>2 DEF IsFrame
  <2>4. Named(m.frame) = NameOf(c)
    BY <1>1, <2>3 DEF Named
  <2>5. QED
    BY <2>2, <2>3, <2>4 DEF Keeps
<1>2. /\ \h84 \in Bytes /\ \hA9 \in Bytes
      /\ "send_READ_SOFTWARE_ID_command" \in Misread \cap Mischecked
      /\ "READ_MACINE_NAME" \in Misread \cap Mischecked
  BY DEF Bytes, Misread, Mischecked
<1>3. /\ NameOf("send_READ_SOFTWARE_ID_command") = "send_READ_SOFTWARE_ID_command"
      /\ NameOf("READ_MACINE_NAME") = "READ_MACINE_NAME"
  BY DEF NameOf
<1>4. Keeps("send_READ_SOFTWARE_ID_command", send_READ_SOFTWARE_ID_command)
  <2>1. send_READ_SOFTWARE_ID_command = Fixed(Header(2, 1, 0), \h84)
    BY DEF send_READ_SOFTWARE_ID_command
  <2>2. QED
    BY <1>1, <1>2, <1>3, <2>1
<1>5. Keeps("READ_MACINE_NAME", READ_MACINE_NAME)
  <2>1. READ_MACINE_NAME = Fixed(Header(13, 1, 0), \hA9)
    BY DEF READ_MACINE_NAME
  <2>2. QED
    BY <1>1, <1>2, <1>3, <2>1
<1>6. QED
  BY <1>4, <1>5

LEMMA Prefix ==
  ASSUME NEW b \in Seq(Bytes), NEW n \in Nat, n <= Len(b)
  PROVE  SubSeq(b, 1, n) \in Seq(Bytes)
OBVIOUS

(* The date, whose checksum leaves out its last byte.                      *)
LEMMA DatetimeKeeps == Keeps("SET_DATETIME", SET_DATETIME)
<1>1. PICK b : b = Header(1, \h32, 19) \o Datetime
  OBVIOUS
<1>2. 1 \in Bytes /\ \h32 \in Bytes /\ 19 \in Words
  BY DEF Bytes, Words
<1>3. Datetime \in Seq(Bytes) /\ Len(Datetime) = 19
  BY DEF Datetime, Bytes
<1>4. IsBody(b, 1, \h32, 19, Datetime)
  BY <1>1, <1>2, <1>3, BodyShape
<1>5. b \in Seq(Bytes) /\ Len(b) = 25
  BY <1>3, <1>4 DEF IsBody
<1>6. calculate_checksum(b, 25) \in Bytes
  <2>1. PICK n \in Nat : n = 24
    OBVIOUS
  <2>2. SubSeq(b, 1, n) \in Seq(Bytes)
    <3>1. n <= Len(b)
      BY <1>5, <2>1
    <3>2. QED
      BY <1>5, <3>1, Prefix
  <2>3. calculate_checksum(b, n + 1) = XorSum(SubSeq(b, 1, n))
    BY ChecksumOfPrefix
  <2>4. n + 1 = 25
    BY <2>1
  <2>5. QED
    BY <2>2, <2>3, <2>4, XorBits
<1>7. PICK f : f = Append(b, calculate_checksum(b, 25))
  OBVIOUS
<1>8. IsFrame(f, 1, \h32, 19, Datetime)
  BY <1>4, <1>6, <1>7, ClosedShape
<1>9. PICK m : m = SET_DATETIME
  OBVIOUS
<1>10. m.frame = f /\ m.sent = f /\ m.guard = 7 /\ m.last = 6
  BY <1>1, <1>7, <1>9 DEF SET_DATETIME, Plain
<1>11. \A n : CodeName(\h32, n) = NameOf("SET_DATETIME")
  BY DEF CodeName, NameOf
<1>12. /\ f \in Seq(Bytes) /\ f[3] = 1 /\ f[4] = \h32 /\ Len(f) - 7 = 19
       /\ Announced(f) = 19 /\ Len(f) \in Nat /\ Len(f) > 6
  BY <1>3, <1>8 DEF IsFrame
<1>13. Named(f) = NameOf("SET_DATETIME")
  BY <1>11, <1>12 DEF Named
<1>14. "SET_DATETIME" \in Mischecked
  BY DEF Mischecked
<1>15. Keeps("SET_DATETIME", m)
  BY <1>10, <1>12, <1>13, <1>14 DEF Keeps
<1>16. QED
  BY <1>9, <1>15

(* The page.                                                               *)
LEMMA PageKeeps == Keeps("WRITE_PAGE_TO_RAM", WRITE_PAGE_TO_RAM)
<1>1. getData \in Seq(Bytes)
  <2>1. ASSUME NEW n \in Nat PROVE n % 256 \in 0..255
    OBVIOUS
  <2>2. \A i \in 1..257 : i - 1 \in Nat
    OBVIOUS
  <2>3. \A i \in 1..257 : getData[i] \in Bytes
    BY <2>1, <2>2 DEF getData, Bytes
  <2>4. getData = [i \in 1..257 |-> getData[i]]
    BY DEF getData
  <2>5. QED
    BY <2>3, <2>4
<1>2. Append(getData, 0) \in Seq(Bytes)
  BY <1>1 DEF Bytes
<1>3. \h5E \in Bytes /\ 1 \in Words /\ None \in -1..91 /\ None < 7
  BY DEF Bytes, Words, None
<1>4. \A n : CodeName(\h5E, n) = NameOf("WRITE_PAGE_TO_RAM")
  BY DEF CodeName, NameOf
<1>5. "WRITE_PAGE_TO_RAM" \in Misdeclared
  BY DEF Misdeclared
<1>6. Keeps("WRITE_PAGE_TO_RAM", Plain(\h5E, 1, Append(getData, 0), None))
  BY <1>2, <1>3, <1>4, <1>5, PlainKeeps
<1>7. QED
  BY <1>6 DEF WRITE_PAGE_TO_RAM

(* The four bytes of a uint32_t decode to it.                              *)
LEMMA FourBytes ==
  ASSUME NEW n \in Nat, n \div 65536 < 65536
  PROVE  LET b == LittleEndian(n)
         IN  /\ b \in Seq(Bytes) /\ Len(b) = 4
             /\ b[1] + 256 * b[2] + 65536 * b[3] + 16777216 * b[4] = n
<1>1. PICK q1 \in Nat, r0 \in Bytes :
        q1 = n \div 256 /\ r0 = n % 256 /\ n = 256 * q1 + r0
  BY DEF Bytes
<1>2. PICK q2 \in Nat, r1 \in Bytes :
        q2 = q1 \div 256 /\ r1 = q1 % 256 /\ q1 = 256 * q2 + r1
  BY DEF Bytes
<1>3. PICK q3 \in Nat, r2 \in Bytes :
        q3 = q2 \div 256 /\ r2 = q2 % 256 /\ q2 = 256 * q3 + r2
  BY DEF Bytes
<1>4. q2 = n \div 65536 /\ q3 = n \div 16777216
  <2>1. r0 \in Nat /\ r0 < 256 /\ r1 \in Nat /\ r1 < 256 /\ r2 \in Nat /\ r2 < 256
    BY DEF Bytes
  <2>2. n = 65536 * q2 + (256 * r1 + r0) /\ 256 * r1 + r0 < 65536
    BY <1>1, <1>2, <2>1
  <2>3. n = 16777216 * q3 + (65536 * r2 + 256 * r1 + r0)
        /\ 65536 * r2 + 256 * r1 + r0 < 16777216
    BY <1>3, <2>1, <2>2
  <2>4. q2 = n \div 65536
    BY <2>1, <2>2
  <2>5. q3 = n \div 16777216
    BY <2>1, <2>3
  <2>6. QED
    BY <2>4, <2>5
<1>5. q3 \in Bytes /\ q3 % 256 = q3
  BY <1>4, <1>3 DEF Bytes
<1>6. LittleEndian(n) = <<r0, r1, r2, q3>>
  BY <1>1, <1>2, <1>3, <1>4, <1>5 DEF LittleEndian
<1>7. r0 + 256 * r1 + 65536 * r2 + 16777216 * q3 = n
  BY <1>1, <1>2, <1>3 DEF Bytes
<1>8. QED
  BY <1>5, <1>6, <1>7

(* Four bytes, then a 0, as payload.                                       *)
LEMMA FirmwarePayload ==
  ASSUME NEW b \in Seq(Bytes), Len(b) = 4
  PROVE  LET m == Plain(\h63, 1, b \o <<0>>, None)
         IN  /\ Keeps("COMPLETE_TRANSFER_STEP1", m)
             /\ \A i \in 1..4 : m.frame[i + 6] = b[i]
<1>1. PICK z \in Seq(Bytes) : z = <<0>>
  BY Payloads
<1>2. Len(z) = 1
  BY <1>1
<1>3. PICK p : p = b \o z
  OBVIOUS
<1>4. p \in Seq(Bytes) /\ Len(p) = 5 /\ \A i \in 1..4 : p[i] = b[i]
  <2>1. p \in Seq(Bytes) /\ Len(p) = Len(b) + Len(z)
    BY <1>3, ConcatProperties
  <2>2. \A i \in 1..Len(b) + Len(z) :
          p[i] = IF i <= Len(b) THEN b[i] ELSE z[i - Len(b)]
    BY <1>3, ConcatProperties
  <2>3. QED
    BY <1>2, <2>1, <2>2
<1>5. 1 \in Bytes /\ \h63 \in Bytes /\ 1 \in Words /\ None \in -1..91 /\ None < 7
  BY DEF Bytes, Words, None
<1>6. PICK f : f = Sealed(Header(1, \h63, 1) \o p)
  OBVIOUS
<1>7. IsFrame(f, 1, \h63, 1, p)
  BY <1>4, <1>5, <1>6, SealedFrame
<1>8. \A i \in 1..4 : f[i + 6] = b[i]
  <2>1. \A i \in 1..5 : f[i + 6] = p[i]
    BY <1>4, <1>7 DEF IsFrame
  <2>2. QED
    BY <1>4, <2>1
<1>9. \A k : CodeName(\h63, k) = NameOf("COMPLETE_TRANSFER_STEP1")
  BY DEF CodeName, NameOf
<1>10. "COMPLETE_TRANSFER_STEP1" \in Misdeclared
  BY DEF Misdeclared
<1>11. Keeps("COMPLETE_TRANSFER_STEP1", Plain(\h63, 1, p, None))
  <2>1. p \in Seq(Bytes)
    BY <1>4
  <2>2. QED
    BY <1>5, <1>9, <1>10, <2>1, PlainKeeps
<1>12. Plain(\h63, 1, p, None).frame = f
  BY <1>6 DEF Plain
<1>13. QED
  BY <1>1, <1>3, <1>8, <1>11, <1>12

(* The last command of an update, with the length of the firmware file.    *)
LEMMA FirmwareFrame ==
  ASSUME NEW n, Uint32(n)
  PROVE  LET m == COMPLETE_TRANSFER_STEP1(n)
         IN  /\ Keeps("COMPLETE_TRANSFER_STEP1", m)
             /\ m.frame[7] + 256 * m.frame[8] + 65536 * m.frame[9]
                  + 16777216 * m.frame[10] = n
<1>1. SUFFICES ASSUME NEW b \in Seq(Bytes), Len(b) = 4,
                      b[1] + 256 * b[2] + 65536 * b[3] + 16777216 * b[4] = n,
                      NEW f, \A i \in 1..4 : f[i + 6] = b[i]
               PROVE  f[7] + 256 * f[8] + 65536 * f[9] + 16777216 * f[10] = n
  <2>1. PICK b : b = LittleEndian(n)
    OBVIOUS
  <2>2. /\ b \in Seq(Bytes) /\ Len(b) = 4
        /\ b[1] + 256 * b[2] + 65536 * b[3] + 16777216 * b[4] = n
    BY <2>1, FourBytes DEF Uint32
  <2>3. PICK m : m = COMPLETE_TRANSFER_STEP1(n)
    OBVIOUS
  <2>4. m = Plain(\h63, 1, b \o <<0>>, None)
    BY <2>1, <2>3 DEF COMPLETE_TRANSFER_STEP1
  <2>5. Keeps("COMPLETE_TRANSFER_STEP1", m) /\ \A i \in 1..4 : m.frame[i + 6] = b[i]
    BY <2>2, <2>4, FirmwarePayload
  <2>6. QED
    BY <2>2, <2>3, <2>5
<1>2. f[7] = b[1] /\ f[8] = b[2] /\ f[9] = b[3] /\ f[10] = b[4]
  BY <1>1
<1>3. QED
  BY <1>1, <1>2

(***************************************************************************)
(* Every command.                                                          *)
(***************************************************************************)
LEMMA Lookup ==
  /\ Table["send_poll_command"] = send_poll_command
  /\ Table["send_READ_SOFTWARE_ID_command"] = send_READ_SOFTWARE_ID_command
  /\ Table["READ_MACINE_NAME"] = READ_MACINE_NAME
  /\ Table["READ_SETUP_TIMESTAMP_BY_INDEX"] = READ_SETUP_TIMESTAMP_BY_INDEX
  /\ Table["READ_SETUP_INDEX"] = READ_SETUP_INDEX
  /\ Table["WRITE_SETUP_TRANSFERRED"] = WRITE_SETUP_TRANSFERRED
  /\ Table["READ_SYS_CONFIG_BY_INDEX"] = READ_SYS_CONFIG_BY_INDEX
  /\ Table["READ_PUMPS_BY_INDEX"] = READ_PUMPS_BY_INDEX
  /\ Table["READ_FORMULAS_BY_INDEX"] = READ_FORMULAS_BY_INDEX
  /\ Table["READ_OLDEST_UNTXFD_SETUP_INDEX"] = READ_OLDEST_UNTXFD_SETUP_INDEX
  /\ Table["READ_RECORD_INDEX"] = READ_RECORD_INDEX
  /\ Table["READ_RECORD_BY_INDEX"] = READ_RECORD_BY_INDEX
  /\ Table["READ_OLDEST_UNTXFD_RECORD_INDEX"] = READ_OLDEST_UNTXFD_RECORD_INDEX
  /\ Table["WRITE_RECORD_TRANSFERRED"] = WRITE_RECORD_TRANSFERRED
  /\ Table["READ_SERIAL_NUMBER_command"] = READ_SERIAL_NUMBER_command
  /\ Table["READ_CURRENT_LOAD_START_TIMESTAMP"] = READ_CURRENT_LOAD_START_TIMESTAMP
  /\ Table["READ_CURRENT_LOAD_FORMULA_NAME"] = READ_CURRENT_LOAD_FORMULA_NAME
  /\ Table["READ_CURRENT_LOAD_WEIGHT"] = READ_CURRENT_LOAD_WEIGHT
  /\ Table["GET_OP_STATE"] = GET_OP_STATE
  /\ Table["READ_LAST_CYCLE_START_TIMESTAMP"] = READ_LAST_CYCLE_START_TIMESTAMP
  /\ Table["READ_LAST_CYCLE_END_TIMESTAMP"] = READ_LAST_CYCLE_END_TIMESTAMP
  /\ Table["READ_LAST_CYCLE_FORMULA_NAME"] = READ_LAST_CYCLE_FORMULA_NAME
  /\ Table["READ_LAST_CYCLE_WEIGHT"] = READ_LAST_CYCLE_WEIGHT
  /\ Table["READ_LAST_CYCLE_FORMULA_NUMBER"] = READ_LAST_CYCLE_FORMULA_NUMBER
  /\ Table["READ_CURRENT_LOAD_FORMULA_NUMBER"] = READ_CURRENT_LOAD_FORMULA_NUMBER
  /\ Table["SET_DATETIME"] = SET_DATETIME
  /\ Table["READ_COMPANY_NAME"] = READ_COMPANY_NAME
  /\ Table["READ_ALTERNATE_BUILD_NUMBER"] = READ_ALTERNATE_BUILD_NUMBER
  /\ Table["READ_ACCOUNT_NAME"] = READ_ACCOUNT_NAME
  /\ Table["WRITE_CLEAR_POWER_UP"] = WRITE_CLEAR_POWER_UP
  /\ Table["READ_CYCLE_COUNTER"] = READ_CYCLE_COUNTER
  /\ Table["READ_MACHINE_NAME_BY_INDEX"] = READ_MACHINE_NAME_BY_INDEX
  /\ Table["READ_COMPANY_NAME_BY_INDEX"] = READ_COMPANY_NAME_BY_INDEX
  /\ Table["READ_ACCOUNT_NAME_BY_INDEX"] = READ_ACCOUNT_NAME_BY_INDEX
  /\ Table["READ_INSTALLERS_PASSWORD_BY_INDEX"] = READ_INSTALLERS_PASSWORD_BY_INDEX
  /\ Table["READ_TUBE_ALARM_BY_INDEX"] = READ_TUBE_ALARM_BY_INDEX
  /\ Table["SET_DST"] = SET_DST
  /\ Table["READ_ACTIVITY"] = READ_ACTIVITY
  /\ Table["WRITE_C2D_COMPLETE"] = WRITE_C2D_COMPLETE
  /\ Table["READ_C2D_SETUP_TRANSFERRING_STATUS"] = READ_C2D_SETUP_TRANSFERRING_STATUS
  /\ Table["WRITE_PAGE_TO_RAM"] = WRITE_PAGE_TO_RAM
  /\ Table["WRITE_UPLOAD_SECTOR_NUMBER"] = WRITE_UPLOAD_SECTOR_NUMBER
  /\ Table["WRITE_UPLOAD_SECTOR_TO_FLASH"] = WRITE_UPLOAD_SECTOR_TO_FLASH
  /\ Table["COMPLETE_TRANSFER_STEP1"] = COMPLETE_TRANSFER_STEP1(0)
  /\ Table["COMPLETE_TRANSFER_FINAL_STEP"] = COMPLETE_TRANSFER_FINAL_STEP
  /\ Table["READ_C2D_FIRMWARE_TRANSFERRING_STATUS"] = READ_C2D_FIRMWARE_TRANSFERRING_STATUS
  /\ Table["WRITE_C2D_FW_UPLOAD_TOTAL_SECTORS"] = WRITE_C2D_FW_UPLOAD_TOTAL_SECTORS
  /\ Table["COMPLETE_TRANSFER_STEP2"] = COMPLETE_TRANSFER_STEP2
  /\ Table["WATCHDOG_REBOOT"] = WATCHDOG_REBOOT
BY DEF Table

LEMMA Names ==
  All = {"send_poll_command", "send_READ_SOFTWARE_ID_command",
         "READ_MACINE_NAME", "READ_SETUP_TIMESTAMP_BY_INDEX",
         "READ_SETUP_INDEX", "WRITE_SETUP_TRANSFERRED",
         "READ_SYS_CONFIG_BY_INDEX", "READ_PUMPS_BY_INDEX",
         "READ_FORMULAS_BY_INDEX", "READ_OLDEST_UNTXFD_SETUP_INDEX",
         "READ_RECORD_INDEX", "READ_RECORD_BY_INDEX",
         "READ_OLDEST_UNTXFD_RECORD_INDEX",
         "WRITE_RECORD_TRANSFERRED", "READ_SERIAL_NUMBER_command",
         "READ_CURRENT_LOAD_START_TIMESTAMP",
         "READ_CURRENT_LOAD_FORMULA_NAME", "READ_CURRENT_LOAD_WEIGHT",
         "GET_OP_STATE", "READ_LAST_CYCLE_START_TIMESTAMP",
         "READ_LAST_CYCLE_END_TIMESTAMP",
         "READ_LAST_CYCLE_FORMULA_NAME", "READ_LAST_CYCLE_WEIGHT",
         "READ_LAST_CYCLE_FORMULA_NUMBER",
         "READ_CURRENT_LOAD_FORMULA_NUMBER", "SET_DATETIME",
         "READ_COMPANY_NAME", "READ_ALTERNATE_BUILD_NUMBER",
         "READ_ACCOUNT_NAME", "WRITE_CLEAR_POWER_UP",
         "READ_CYCLE_COUNTER", "READ_MACHINE_NAME_BY_INDEX",
         "READ_COMPANY_NAME_BY_INDEX", "READ_ACCOUNT_NAME_BY_INDEX",
         "READ_INSTALLERS_PASSWORD_BY_INDEX",
         "READ_TUBE_ALARM_BY_INDEX", "SET_DST", "READ_ACTIVITY",
         "WRITE_C2D_COMPLETE", "READ_C2D_SETUP_TRANSFERRING_STATUS",
         "WRITE_PAGE_TO_RAM", "WRITE_UPLOAD_SECTOR_NUMBER",
         "WRITE_UPLOAD_SECTOR_TO_FLASH", "COMPLETE_TRANSFER_STEP1",
         "COMPLETE_TRANSFER_FINAL_STEP",
         "READ_C2D_FIRMWARE_TRANSFERRING_STATUS",
         "WRITE_C2D_FW_UPLOAD_TOTAL_SECTORS",
         "COMPLETE_TRANSFER_STEP2", "WATCHDOG_REBOOT"}
BY DEF All, Table

(* The commands with one byte, and with two bytes, of payload.              *)
LEMMA OneByteKeep ==
  /\ Keeps("READ_SETUP_TIMESTAMP_BY_INDEX", READ_SETUP_TIMESTAMP_BY_INDEX)
  /\ Keeps("READ_SETUP_INDEX", READ_SETUP_INDEX)
  /\ Keeps("WRITE_SETUP_TRANSFERRED", WRITE_SETUP_TRANSFERRED)
  /\ Keeps("READ_SYS_CONFIG_BY_INDEX", READ_SYS_CONFIG_BY_INDEX)
  /\ Keeps("READ_OLDEST_UNTXFD_SETUP_INDEX", READ_OLDEST_UNTXFD_SETUP_INDEX)
  /\ Keeps("READ_RECORD_INDEX", READ_RECORD_INDEX)
  /\ Keeps("READ_OLDEST_UNTXFD_RECORD_INDEX", READ_OLDEST_UNTXFD_RECORD_INDEX)
  /\ Keeps("READ_SERIAL_NUMBER_command", READ_SERIAL_NUMBER_command)
  /\ Keeps("READ_CURRENT_LOAD_START_TIMESTAMP", READ_CURRENT_LOAD_START_TIMESTAMP)
  /\ Keeps("READ_CURRENT_LOAD_FORMULA_NAME", READ_CURRENT_LOAD_FORMULA_NAME)
  /\ Keeps("READ_CURRENT_LOAD_WEIGHT", READ_CURRENT_LOAD_WEIGHT)
  /\ Keeps("GET_OP_STATE", GET_OP_STATE)
  /\ Keeps("READ_LAST_CYCLE_START_TIMESTAMP", READ_LAST_CYCLE_START_TIMESTAMP)
  /\ Keeps("READ_LAST_CYCLE_END_TIMESTAMP", READ_LAST_CYCLE_END_TIMESTAMP)
  /\ Keeps("READ_LAST_CYCLE_FORMULA_NAME", READ_LAST_CYCLE_FORMULA_NAME)
  /\ Keeps("READ_LAST_CYCLE_WEIGHT", READ_LAST_CYCLE_WEIGHT)
  /\ Keeps("READ_LAST_CYCLE_FORMULA_NUMBER", READ_LAST_CYCLE_FORMULA_NUMBER)
  /\ Keeps("READ_CURRENT_LOAD_FORMULA_NUMBER", READ_CURRENT_LOAD_FORMULA_NUMBER)
  /\ Keeps("READ_COMPANY_NAME", READ_COMPANY_NAME)
  /\ Keeps("READ_ALTERNATE_BUILD_NUMBER", READ_ALTERNATE_BUILD_NUMBER)
  /\ Keeps("READ_ACCOUNT_NAME", READ_ACCOUNT_NAME)
  /\ Keeps("WRITE_CLEAR_POWER_UP", WRITE_CLEAR_POWER_UP)
  /\ Keeps("READ_CYCLE_COUNTER", READ_CYCLE_COUNTER)
  /\ Keeps("READ_MACHINE_NAME_BY_INDEX", READ_MACHINE_NAME_BY_INDEX)
  /\ Keeps("READ_COMPANY_NAME_BY_INDEX", READ_COMPANY_NAME_BY_INDEX)
  /\ Keeps("READ_ACCOUNT_NAME_BY_INDEX", READ_ACCOUNT_NAME_BY_INDEX)
  /\ Keeps("READ_INSTALLERS_PASSWORD_BY_INDEX", READ_INSTALLERS_PASSWORD_BY_INDEX)
  /\ Keeps("READ_TUBE_ALARM_BY_INDEX", READ_TUBE_ALARM_BY_INDEX)
  /\ Keeps("SET_DST", SET_DST)
  /\ Keeps("WRITE_C2D_COMPLETE", WRITE_C2D_COMPLETE)
  /\ Keeps("READ_C2D_SETUP_TRANSFERRING_STATUS", READ_C2D_SETUP_TRANSFERRING_STATUS)
  /\ Keeps("COMPLETE_TRANSFER_FINAL_STEP", COMPLETE_TRANSFER_FINAL_STEP)
  /\ Keeps("READ_C2D_FIRMWARE_TRANSFERRING_STATUS", READ_C2D_FIRMWARE_TRANSFERRING_STATUS)
  /\ Keeps("COMPLETE_TRANSFER_STEP2", COMPLETE_TRANSFER_STEP2)
  /\ Keeps("WATCHDOG_REBOOT", WATCHDOG_REBOOT)
BY OneByteCommands, OneByte
 DEF READ_SETUP_TIMESTAMP_BY_INDEX, READ_SETUP_INDEX, WRITE_SETUP_TRANSFERRED,
     READ_SYS_CONFIG_BY_INDEX, READ_OLDEST_UNTXFD_SETUP_INDEX,
     READ_RECORD_INDEX, READ_OLDEST_UNTXFD_RECORD_INDEX,
     READ_SERIAL_NUMBER_command, READ_CURRENT_LOAD_START_TIMESTAMP,
     READ_CURRENT_LOAD_FORMULA_NAME, READ_CURRENT_LOAD_WEIGHT, GET_OP_STATE,
     READ_LAST_CYCLE_START_TIMESTAMP, READ_LAST_CYCLE_END_TIMESTAMP,
     READ_LAST_CYCLE_FORMULA_NAME, READ_LAST_CYCLE_WEIGHT,
     READ_LAST_CYCLE_FORMULA_NUMBER, READ_CURRENT_LOAD_FORMULA_NUMBER,
     READ_COMPANY_NAME, READ_ALTERNATE_BUILD_NUMBER, READ_ACCOUNT_NAME,
     WRITE_CLEAR_POWER_UP, READ_CYCLE_COUNTER, READ_MACHINE_NAME_BY_INDEX,
     READ_COMPANY_NAME_BY_INDEX, READ_ACCOUNT_NAME_BY_INDEX,
     READ_INSTALLERS_PASSWORD_BY_INDEX, READ_TUBE_ALARM_BY_INDEX, SET_DST,
     WRITE_C2D_COMPLETE, READ_C2D_SETUP_TRANSFERRING_STATUS,
     COMPLETE_TRANSFER_FINAL_STEP, READ_C2D_FIRMWARE_TRANSFERRING_STATUS,
     COMPLETE_TRANSFER_STEP2, WATCHDOG_REBOOT

LEMMA TwoBytesKeep ==
  /\ Keeps("READ_PUMPS_BY_INDEX", READ_PUMPS_BY_INDEX)
  /\ Keeps("READ_FORMULAS_BY_INDEX", READ_FORMULAS_BY_INDEX)
  /\ Keeps("READ_RECORD_BY_INDEX", READ_RECORD_BY_INDEX)
  /\ Keeps("WRITE_RECORD_TRANSFERRED", WRITE_RECORD_TRANSFERRED)
BY TwoByteCommands, TwoBytes
 DEF Misdeclared, READ_PUMPS_BY_INDEX, READ_FORMULAS_BY_INDEX, READ_RECORD_BY_INDEX,
     WRITE_RECORD_TRANSFERRED

(* Those given the name of a function to send.                             *)
LEMMA PastedCommandsKeep ==
  /\ Keeps("READ_ACTIVITY", READ_ACTIVITY)
  /\ Keeps("WRITE_UPLOAD_SECTOR_TO_FLASH", WRITE_UPLOAD_SECTOR_TO_FLASH)
  /\ Keeps("WRITE_UPLOAD_SECTOR_NUMBER", WRITE_UPLOAD_SECTOR_NUMBER)
  /\ Keeps("WRITE_C2D_FW_UPLOAD_TOTAL_SECTORS", WRITE_C2D_FW_UPLOAD_TOTAL_SECTORS)
BY OneByteCommands, OneByte, TwoByteCommands, TwoBytes, PastedKeeps
 DEF Misdeclared, Missent, READ_ACTIVITY, WRITE_UPLOAD_SECTOR_TO_FLASH, WRITE_UPLOAD_SECTOR_NUMBER,
     WRITE_C2D_FW_UPLOAD_TOTAL_SECTORS

LEMMA EveryCommandKeeps ==
  ASSUME NEW c \in All, NEW n, Uint32(n)
  PROVE  Keeps(c, Command(c, n)) /\ Keeps(c, Table[c])
<1>1. CASE c = "COMPLETE_TRANSFER_STEP1"
  <2>1. Command(c, n) = COMPLETE_TRANSFER_STEP1(n) /\ Table[c] = COMPLETE_TRANSFER_STEP1(0)
    BY <1>1, Lookup DEF Command
  <2>2. Uint32(0)
    BY DEF Uint32
  <2>3. QED
    BY <1>1, <2>1, <2>2, FirmwareFrame
<1>2. CASE c # "COMPLETE_TRANSFER_STEP1"
  <2>1. Command(c, n) = Table[c]
    BY <1>2 DEF Command
  <2>2. Keeps(c, Table[c])
    BY <1>2, Names, Lookup, OneByteKeep, TwoBytesKeep, PastedCommandsKeep,
       PollKeeps, FixedKeeps, DatetimeKeeps, PageKeeps
  <2>3. QED
    BY <2>1, <2>2
<1>3. QED
  BY <1>1, <1>2

(* The length check of a command outside Misread covers every place it     *)
(* prints from.                                                            *)
THEOREM ChecksCoverReads ==
  \A c \in All \ Misread : /\ LastPrinted(c) < Table[c].guard
                           /\ LastPrinted(c) \in 0..91
                           /\ Table[c].guard \in 7..18
<1>1. Uint32(0)
  BY DEF Uint32
<1>2. \A c \in All : Keeps(c, Table[c])
  BY <1>1, EveryCommandKeeps
<1> SUFFICES ASSUME NEW c \in All \ Misread
             PROVE  /\ LastPrinted(c) < Table[c].guard
                    /\ LastPrinted(c) \in 0..91
                    /\ Table[c].guard \in 7..18
  OBVIOUS
<1>3. PICK t : t = Table[c]
  OBVIOUS
<1>4. t.guard \in 7..18 /\ t.last \in -1..91 /\ t.last < t.guard
  BY <1>2, <1>3 DEF Keeps
<1>5. LastPrinted(c) = IF t.last = -1 THEN t.guard - 1 ELSE t.last
  BY <1>3 DEF LastPrinted, None
<1>6. QED
  BY <1>3, <1>4, <1>5

(***************************************************************************)
(* The link of TELink, for commands outside Misread with the length checks *)
(* the code makes and the frames it sends.                                 *)
(***************************************************************************)
CONSTANTS Called, MaxExchanges
VARIABLES linkPc, linkCmd, calls, te, ring, mux, rxpc, rxlen, data, linkLen,
          verdict, used, answered, taken, pending

Link == INSTANCE TELink_proofs WITH
  Commands <- Called,
  Guard <- [c \in Called |-> Table[c].guard],
  LastRead <- [c \in Called |-> LastPrinted(c)],
  Garbled <- Called \cap Missent,
  AnswerLengths <- AnswerLengths \ {0},
  pc <- linkPc, cmd <- linkCmd, len <- linkLen

LinkOptions ==
  /\ Called \subseteq All \ Misread
  /\ MaxExchanges \in Nat

LEMMA LinkAssumptions ==
  ASSUME LinkOptions
  PROVE  /\ [c \in Called |-> Table[c].guard] \in [Called -> Nat \ {0}]
         /\ [c \in Called |-> LastPrinted(c)] \in [Called -> 0..(Link!DataSize - 1)]
         /\ Called \cap Missent \subseteq Called
         /\ AnswerLengths \ {0} \subseteq Nat \ {0}
         /\ \A c \in Called : [d \in Called |-> LastPrinted(d)][c]
                                < [d \in Called |-> Table[d].guard][c]
<1>1. \A c \in Called : /\ LastPrinted(c) < Table[c].guard
                        /\ LastPrinted(c) \in 0..91
                        /\ Table[c].guard \in 7..18
  BY ChecksCoverReads DEF LinkOptions
<1>2. 0..91 \subseteq 0..(Link!DataSize - 1) /\ 7..18 \subseteq Nat \ {0}
  BY DEF Link!DataSize
<1>3. AnswerLengths \ {0} \subseteq Nat \ {0}
  BY AnswersAssumption
<1>4. QED
  BY <1>1, <1>2, <1>3

(* However late the TE answers and whatever rx_task takes from the line, a *)
(* command of the code outside Misread prints no field of an exchange that *)
(* was over when it was sent.                                              *)
THEOREM CodePrintsNothingOld ==
  ASSUME LinkOptions
  PROVE  Link!Spec => []Link!NoForgottenAnswer
BY LinkAssumptions, Link!NoForgottenAnswerHolds DEF LinkOptions

(* A call of it is an exchange of TEExchange: it ends with nothing or with *)
(* fields of answers still due, and answers come in the order of the calls.*)
THEOREM CodeExchanges ==
  ASSUME LinkOptions
  PROVE  Link!Spec => /\ Link!Exchange!Init
                      /\ [][Link!Exchange!Next]_(Link!Exchange!vars)
BY LinkAssumptions, Link!LinkImplementsExchange DEF LinkOptions

(***************************************************************************)
(* The commands at work.                                                   *)
(***************************************************************************)

(* The length of a firmware file: that of the last one, or of none.        *)
LEMMA FileFits ==
  \A n \in FileLengths \cup {0} : Uint32(n)
<1>1. Uint32(0)
  BY DEF Uint32
<1>2. QED
  BY <1>1, FilesAssumption

(* The highest place read of an answer that passed the length check.       *)
LEMMA LastIsKnown ==
  ASSUME NEW c \in All, NEW n \in Nat, NEW m \in Nat, Table[c].guard <= n
  PROVE  /\ LastPlace(c, n, m) \in Int
         /\ c \notin Misread => LastPlace(c, n, m) < n
         /\ \/ LastPlace(c, n, m) < BUF_SIZE
            \/ c = "send_READ_SOFTWARE_ID_command" /\ n > BUF_SIZE - 5
<1>1. PICK t : t = Table[c]
  OBVIOUS
<1>2. /\ t.guard \in Nat /\ t.last \in -1..91
      /\ c \notin Misread => t.last < t.guard
  <2>1. Uint32(0)
    BY DEF Uint32
  <2>2. Keeps(c, t)
    BY <1>1, <2>1, EveryCommandKeeps
  <2>3. QED
    BY <2>2 DEF Keeps
<1>3. CASE c = "send_READ_SOFTWARE_ID_command"
  <2>1. LastPlace(c, n, m) = n + 4 /\ c \in Misread
    BY <1>3 DEF LastPlace, Misread
  <2>2. QED
    BY <1>3, <2>1 DEF BUF_SIZE
<1>4. CASE c = "READ_MACINE_NAME"
  <2>1. LastPlace(c, n, m) = 5 + NameLength(m) /\ c \in Misread
    BY <1>4 DEF LastPlace, Misread
  <2>2. NameLength(m) \in Int /\ NameLength(m) <= 1018
    BY DEF NameLength, BUF_SIZE
  <2>3. QED
    BY <2>1, <2>2 DEF BUF_SIZE
<1>5. CASE c \notin {"send_READ_SOFTWARE_ID_command", "READ_MACINE_NAME"}
  <2>1. LastPlace(c, n, m) = t.last
    BY <1>1, <1>5 DEF LastPlace
  <2>2. t.guard <= n
    BY <1>1
  <2>3. QED
    BY <1>2, <2>1, <2>2 DEF BUF_SIZE
<1>6. QED
  BY <1>3, <1>4, <1>5

(* The command called last found one length of the file and sent what it   *)
(* builds for it; what it then read came from the answer, or nothing was.  *)
Consistent ==
  /\ stage = "sent" => wire = Command(cmd, file).sent
  /\ FieldsWereReceived
  /\ ReadsStayInBuffer

Inv == TypeOK /\ Consistent

LEMMA Initial == Init => Inv
BY DEF Init, Inv, TypeOK, Consistent, FieldsWereReceived, ReadsStayInBuffer,
       None, BUF_SIZE

LEMMA CallStep ==
  ASSUME Inv, NEW c \in Commands, Call(c)
  PROVE  Inv'
<1>1. PICK n \in FileLengths : file' = n /\ wire' = Command(c, n).sent
  BY DEF Call
<1>2. wire' \in Seq(0..255)
  <2>1. Keeps(c, Command(c, n))
    BY CommandsAssumption, FilesAssumption, EveryCommandKeeps
  <2>2. QED
    BY <1>1, <2>1 DEF Keeps, Bytes
<1>3. TypeOK'
  BY <1>1, <1>2 DEF Call, TypeOK, None
<1>4. Consistent'
  BY <1>1 DEF Call, Consistent, FieldsWereReceived, ReadsStayInBuffer, None, BUF_SIZE
<1>5. QED
  BY <1>3, <1>4 DEF Inv

LEMMA ReturnStep ==
  ASSUME Inv, Return
  PROVE  Inv'
<1>1. PICK n \in AnswerLengths, m \in MessageLengths :
        /\ len' = n
        /\ last' = IF n < Table[cmd].guard THEN None ELSE LastPlace(cmd, n, m)
  BY DEF Return
<1>2. n \in Nat /\ m \in Nat /\ cmd \in All
  <2>1. n \in Nat
    BY AnswersAssumption
  <2>2. m \in Nat
    BY MessagesAssumption
  <2>3. cmd \in All
    BY CommandsAssumption DEF Inv, TypeOK
  <2>4. QED
    BY <2>1, <2>2, <2>3
<1>3. Table[cmd].guard \in Nat
  <2>1. Uint32(0)
    BY DEF Uint32
  <2>2. Keeps(cmd, Table[cmd])
    BY <1>2, <2>1, EveryCommandKeeps
  <2>3. QED
    BY <2>2 DEF Keeps
<1>4. /\ last' \in Int
      /\ cmd \notin Misread => last' < n \/ last' = None
      /\ \/ last' < BUF_SIZE
         \/ cmd = "send_READ_SOFTWARE_ID_command" /\ n > BUF_SIZE - 5
  <2>1. CASE n < Table[cmd].guard
    BY <1>1, <2>1 DEF None, BUF_SIZE
  <2>2. CASE Table[cmd].guard <= n
    <3>1. last' = LastPlace(cmd, n, m)
      BY <1>1, <1>2, <1>3, <2>2
    <3>2. QED
      BY <1>2, <2>2, <3>1, LastIsKnown
  <2>3. QED
    BY <1>2, <1>3, <2>1, <2>2
<1>5. TypeOK'
  BY <1>1, <1>4 DEF Return, Inv, TypeOK
<1>6. Consistent'
  BY <1>1, <1>4 DEF Return, Consistent, FieldsWereReceived, ReadsStayInBuffer
<1>7. QED
  BY <1>5, <1>6 DEF Inv

LEMMA Invariance == Spec => []Inv
<1>1. Inv /\ [Next]_vars => Inv'
  <2>1. ASSUME Inv, UNCHANGED vars PROVE Inv'
    BY <2>1 DEF Inv, vars, TypeOK, Consistent, FieldsWereReceived, ReadsStayInBuffer
  <2>2. QED
    BY <2>1, CallStep, ReturnStep DEF Next
<1>2. QED
  BY <1>1, Initial, PTL DEF Spec

(* What has been sent is what a command builds that keeps to the rules.    *)
LEMMA BuiltKeeps ==
  ASSUME Inv, NEW c \in Commands
  PROVE  Keeps(c, Command(c, file))
<1>1. file \in FileLengths \cup {0} /\ c \in All
  BY CommandsAssumption DEF Inv, TypeOK
<1>2. Uint32(file)
  BY <1>1, FileFits
<1>3. QED
  BY <1>1, <1>2, EveryCommandKeeps

(* Types: whatever is called and answered, what goes to the UART is a      *)
(* sequence of bytes.                                                      *)
THEOREM TypesHold == Spec => []TypeOK
<1>1. Inv => TypeOK
  BY DEF Inv
<1>2. QED
  BY <1>1, Invariance, PTL

(* A frame announces the length of its payload, but for eight commands.    *)
THEOREM LengthsAnnounced == Spec => []AnnouncedLength
<1>1. Inv => AnnouncedLength
  <2>1. SUFFICES ASSUME Inv, stage = "sent", cmd \notin Misdeclared
                 PROVE  Announced(Built) = Len(Built) - 7
    BY DEF AnnouncedLength, SentBy, Announced
  <2>2. Keeps(cmd, Command(cmd, file))
    BY <2>1, BuiltKeeps DEF Inv, TypeOK
  <2>3. QED
    BY <2>1, <2>2 DEF Keeps, Built
<1>2. QED
  BY <1>1, Invariance, PTL

(* The XOR over a frame is 0, but for three commands.                      *)
THEOREM ChecksumsCover == Spec => []ChecksumCoversFrame
<1>1. Inv => ChecksumCoversFrame
  <2>1. SUFFICES ASSUME Inv, stage = "sent", cmd \notin Mischecked
                 PROVE  XorSum(Built) = 0
    BY DEF ChecksumCoversFrame, SentBy
  <2>2. Keeps(cmd, Command(cmd, file))
    BY <2>1, BuiltKeeps DEF Inv, TypeOK
  <2>3. QED
    BY <2>1, <2>2 DEF Keeps, Built
<1>2. QED
  BY <1>1, Invariance, PTL

LEMMA OneLong == ASSUME NEW x PROVE Len(<<x>>) = 1
OBVIOUS

LEMMA Longer == ASSUME NEW k \in Nat, k > 6 PROVE k # 1
OBVIOUS

(* No two commands send the same bytes, but for one pair and the four that *)
(* send a byte of code, and whatever the length of the firmware file.      *)
THEOREM FramesNameCommands == Spec => []FrameNamesCommand
<1>1. Inv => FrameNamesCommand
  <2>1. SUFFICES ASSUME Inv, stage = "sent", cmd \notin Misnamed, cmd \notin Missent,
                        NEW c \in Commands, Command(c, file).sent = wire
                 PROVE  c = cmd
    BY DEF FrameNamesCommand, SentBy
  <2>2. PICK m : m = Command(c, file)
    OBVIOUS
  <2>3. PICK n : n = Command(cmd, file)
    OBVIOUS
  <2>4. Keeps(c, m) /\ Keeps(cmd, n)
    BY <2>1, <2>2, <2>3, BuiltKeeps DEF Inv, TypeOK
  <2>5. m.sent = n.sent
    BY <2>1, <2>2, <2>3 DEF Inv, Consistent
  <2>6. n.sent = n.frame
    BY <2>1, <2>4 DEF Keeps
  <2>7. m.sent # <<CodeByte>>
    <3>1. Len(n.frame) # 1
      <4>1. Len(n.frame) \in Nat /\ Len(n.frame) > 6
        BY <2>4, Zenon DEF Keeps
      <4>2. QED
        BY <4>1, Longer
    <3>2. Len(<<CodeByte>>) = 1
      BY OneLong
    <3>3. QED
      BY <2>5, <2>6, <3>1, <3>2
  <2>8. m.sent = m.frame
    BY <2>4, <2>7 DEF Keeps
  <2>9. NameOf(c) = NameOf(cmd)
    BY <2>4, <2>5, <2>6, <2>8 DEF Keeps
  <2>10. QED
    BY <2>1, <2>9 DEF NameOf, Misnamed
<1>2. QED
  BY <1>1, Invariance, PTL

(* The length of the firmware file arrives, for every file of up to 4 GB.  *)
THEOREM FirmwareLengthsArrive == Spec => []FirmwareLengthArrives
<1>1. Inv => FirmwareLengthArrives
  <2>1. SUFFICES ASSUME Inv, cmd = "COMPLETE_TRANSFER_STEP1"
                 PROVE  Built[7] + 256 * Built[8] + 65536 * Built[9]
                          + 16777216 * Built[10] = file
    BY DEF FirmwareLengthArrives
  <2>2. Uint32(file)
    BY <2>1, FileFits DEF Inv, TypeOK
  <2>3. Built = COMPLETE_TRANSFER_STEP1(file).frame
    BY <2>1 DEF Built, Command
  <2>4. QED
    BY <2>2, <2>3, FirmwareFrame
<1>2. QED
  BY <1>1, Invariance, PTL

(* What is read was received, but for thirteen commands.                   *)
THEOREM FieldsReceived == Spec => []FieldsWereReceived
<1>1. Inv => FieldsWereReceived
  BY DEF Inv, Consistent
<1>2. QED
  BY <1>1, Invariance, PTL

(* No field is read beyond the end of data[].                              *)
THEOREM ReadsInside == Spec => []ReadsStayInBuffer
<1>1. Inv => ReadsStayInBuffer
  BY DEF Inv, Consistent
<1>2. QED
  BY <1>1, Invariance, PTL

(***************************************************************************)
(* The cloud-to-device writes, for every set of file sizes, every byte and *)
(* every failure of the file system and the heap.                          *)
(***************************************************************************)
(* %02X of a byte: two characters, which decode to the byte.               *)
LEMMA HexOfByte ==
  ASSUME NEW b \in 0..255
  PROVE  /\ Hex(b)[1] \in Nat /\ Hex(b)[2] \in Nat
         /\ 16 * Value(Hex(b)[1]) + Value(Hex(b)[2]) = b
<1>1. PICK high \in 0..15, low \in 0..15 :
        b = 16 * high + low /\ b \div 16 = high /\ b % 16 = low
  BY SMT
<1>2. ASSUME NEW d \in 0..15 PROVE Digit(d) \in Nat /\ Value(Digit(d)) = d
  BY DEF Digit, Value
<1>3. Hex(b)[1] = Digit(b \div 16) /\ Hex(b)[2] = Digit(b % 16)
  BY DEF Hex
<1>4. QED
  BY <1>1, <1>2, <1>3

(* The two bytes of a length that fits in 16 bits.                         *)
LEMMA LengthBytes ==
  ASSUME NEW n \in Nat
  PROVE  /\ Length(n).high \in Bytes /\ Length(n).low \in Bytes
         /\ n <= 65535 => 256 * Length(n).high + Length(n).low = n
<1>1. PICK high \in Nat, low \in 0..255 :
        n = 256 * high + low /\ n \div 256 = high /\ n % 256 = low
  BY SMT
<1>2. Length(n).high = (n \div 256) % 256 /\ Length(n).low = n % 256
  BY DEF Length
<1>3. Length(n).high \in Bytes /\ Length(n).low \in Bytes
  <2>1. high % 256 \in 0..255
    OBVIOUS
  <2>2. QED
    BY <1>1, <1>2, <2>1 DEF Bytes
<1>4. ASSUME n <= 65535 PROVE 256 * Length(n).high + Length(n).low = n
  <2>a. 256 * high <= n
    BY <1>1
  <2>1. high \in 0..255
    BY <1>4, <2>a
  <2>b. high % 256 = high
    BY <2>1
  <2>2. (n \div 256) % 256 = high
    BY <1>1, <2>b
  <2>3. Length(n).high = high /\ Length(n).low = low
    BY <1>1, <1>2, <2>2
  <2>4. QED
    BY <1>1, <2>3
<1>5. QED
  BY <1>3, <1>4

(***************************************************************************)
(* What a function holds depends only on where it is.                      *)
(***************************************************************************)
HeldBy(where) ==
  CASE where = "json"    -> {"file"}
    [] where = "hex"     -> {"json_data"}
    [] where = "message" -> {"json_data", "hex_string"}
    [] where = "send"    -> {"json_data", "hex_string", "message"}
    [] OTHER             -> {}

Places == {"idle", "json", "hex", "message", "send", "answer"}

HeldInv == pc \in Places /\ held = HeldBy(pc)

Calls == {\h04, \h47, \h48, \h49, \h4A, \h4B, \h4C}

LEMMA Cases ==
  ASSUME C2DNext
  PROVE  \/ \E code \in Calls : Open(code)
         \/ ReadFile \/ NoJson \/ Convert \/ NoHex \/ Fill \/ NoMemory
         \/ Send \/ Answer
BY DEF C2DNext, Calls, send_C2D_config_command, WRITE_C2D_TIMESTAMP,
   WRITE_C2D_MACHINE_NAME, WRITE_C2D_COMPANY_NAME, WRITE_C2D_ACCOUNT_NAME,
   WRITE_C2D_INSTALLERS_PASSWORD, WRITE_C2D_TUBE_ALARM

LEMMA NextHeld == HeldInv /\ [C2DNext]_c2dVars => HeldInv'
<1> SUFFICES ASSUME HeldInv, [C2DNext]_c2dVars PROVE HeldInv'
  OBVIOUS
<1> USE DEF HeldInv, HeldBy, Places
<1>1. ASSUME NEW code \in Calls, Open(code) PROVE HeldInv'
  BY <1>1 DEF Open
<1>2. CASE ReadFile
  BY <1>2 DEF ReadFile
<1>3. CASE NoJson
  BY <1>3 DEF NoJson
<1>4. CASE Convert
  BY <1>4 DEF Convert
<1>5. CASE NoHex
  BY <1>5 DEF NoHex
<1>6. CASE Fill
  BY <1>6 DEF Fill
<1>7. CASE NoMemory
  BY <1>7 DEF NoMemory
<1>8. CASE Send
  BY <1>8 DEF Send
<1>9. CASE Answer
  BY <1>9 DEF Answer
<1>10. CASE UNCHANGED c2dVars
  BY <1>10 DEF c2dVars
<1>11. QED
  BY <1>1, <1>2, <1>3, <1>4, <1>5, <1>6, <1>7, <1>8, <1>9, <1>10, Cases

(* A write never returns with the file open or a buffer allocated.         *)
THEOREM NothingHeldOnReturnHolds == C2DSpec => []NothingHeldOnReturn
<1>1. C2DInit => HeldInv
  BY DEF C2DInit, HeldInv, HeldBy, Places
<1>2. HeldInv => NothingHeldOnReturn
  BY DEF HeldInv, HeldBy, NothingHeldOnReturn
<1>3. QED
  BY <1>1, <1>2, NextHeld, PTL DEF C2DSpec

(***************************************************************************)
(* The frame is made by Fill from the file that is still named when it is  *)
(* sent; no step before the return changes either.                         *)
(***************************************************************************)
ArrivesInv ==
  /\ json_file \in Files
  /\ got \in Nat
  /\ command \in 0..255
  /\ junk \in 0..255
  /\ FileArrives

LEMMA NextArrives == ArrivesInv /\ [C2DNext]_c2dVars => ArrivesInv'
<1> SUFFICES ASSUME ArrivesInv, [C2DNext]_c2dVars PROVE ArrivesInv'
  OBVIOUS
<1> USE DEF ArrivesInv, callVars, readVars, resultVars
<1>f. json_file.size \in Nat /\ json_file.byte \in 0..255
  BY C2DFilesAssumption DEF Files
<1>1. ASSUME NEW code \in Calls, Open(code) PROVE ArrivesInv'
  BY <1>1 DEF Open, FileArrives, Calls
<1>2. CASE ReadFile
  BY <1>2, <1>f, C2DFilesAssumption DEF ReadFile, FileArrives
<1>3. CASE NoJson
  BY <1>3 DEF NoJson, FileArrives
<1>4. CASE Convert
  BY <1>4 DEF Convert, FileArrives
<1>5. CASE NoHex
  BY <1>5 DEF NoHex, FileArrives
<1>6. CASE Fill
  <2> DEFINE l == Length(2 * json_file.size)
  <2>1. l.high \in 0..255 /\ l.low \in 0..255
    <3>1. 2 * json_file.size \in Nat
      BY <1>f
    <3>2. \A n \in Nat : Length(n).high \in Bytes /\ Length(n).low \in Bytes
      BY LengthBytes
    <3>3. QED
      BY <3>1, <3>2, Zenon DEF Bytes
  <2>2. /\ message'.command = command
        /\ message'.high = l.high /\ message'.low = l.low
        /\ message'.text = Hex(json_file.byte)
        /\ message'.checksum =
             Checksum([command |-> command, high |-> l.high, low |-> l.low],
                      Hex(json_file.byte), Hex(junk))
    BY <1>6 DEF Fill
  <2>w. message'.whole = (got = json_file.size \/ junk = json_file.byte)
    BY <1>6 DEF Fill
  <2>3. json_file' = json_file /\ got' = got /\ command' = command /\ junk' = junk
    BY <1>6 DEF Fill
  <2>4. ASSUME json_file.size <= 32767, got = json_file.size
        PROVE  /\ 256 * message'.high + message'.low = 2 * json_file.size
               /\ 16 * Value(message'.text[1]) + Value(message'.text[2])
                    = json_file.byte
               /\ message'.whole
               /\ message'.checksum =
                    (72 + 83 + message'.command + message'.high + message'.low
                     + json_file.size * (message'.text[1] + message'.text[2])) % 256
    <3>1. 256 * l.high + l.low = 2 * json_file.size
      BY <1>f, <2>4, LengthBytes
    <3>2. 16 * Value(message'.text[1]) + Value(message'.text[2]) = json_file.byte
      BY <1>f, <2>2, HexOfByte
    <3>3. message'.whole
      <4>1. (got = json_file.size \/ junk = json_file.byte) = TRUE
        BY <2>4
      <4>2. message'.whole = TRUE
        BY <2>w, <4>1, Zenon
      <4>3. QED
        BY <4>2, Zenon
    <3>4. (json_file.size - got) * (Hex(junk)[1] + Hex(junk)[2]) = 0
      <4>1. Hex(junk)[1] \in Nat /\ Hex(junk)[2] \in Nat
        BY HexOfByte
      <4>2. json_file.size - got = 0
        BY <1>f, <2>4
      <4>3. QED
        BY <4>1, <4>2
    <3>5. Hex(json_file.byte)[1] \in Nat /\ Hex(json_file.byte)[2] \in Nat
      BY <1>f, HexOfByte
    <3>6. message'.checksum =
            (72 + 83 + message'.command + message'.high + message'.low
             + json_file.size * (message'.text[1] + message'.text[2])) % 256
      <4> DEFINE header == 72 + 83 + command + l.high + l.low
                 text == got * (Hex(json_file.byte)[1] + Hex(json_file.byte)[2])
                 rest == (json_file.size - got) * (Hex(junk)[1] + Hex(junk)[2])
      <4>1. message'.checksum = (header + text + rest) % 256
        BY <2>2 DEF Checksum
      <4>2. header \in Nat /\ text \in Nat
        <5>1. header \in Nat
          <6>1. \A h \in 0..255, w \in 0..255 : 72 + 83 + command + h + w \in Nat
            OBVIOUS
          <6>2. QED
            BY <2>1, <6>1
        <5>2. \A n \in Nat : got * n \in Nat
          BY SMT
        <5>3. Hex(json_file.byte)[1] + Hex(json_file.byte)[2] \in Nat
          BY <3>5
        <5>4. QED
          BY <5>1, <5>2, <5>3
      <4>3. rest = 0
        BY <3>4
      <4> HIDE DEF header, text, rest
      <4>4. message'.checksum = (header + text) % 256
        BY <4>1, <4>2, <4>3
      <4> USE DEF header, text
      <4>5. QED
        BY <2>2, <2>4, <4>4
    <3>7. QED
      BY <2>2, <3>1, <3>2, <3>3, <3>6
  <2>5. QED
    BY <2>3, <2>4 DEF FileArrives
<1>7. CASE NoMemory
  BY <1>7 DEF NoMemory, FileArrives
<1>8. CASE Send
  BY <1>8 DEF Send, FileArrives
<1>9. CASE Answer
  BY <1>9 DEF Answer, FileArrives
<1>10. CASE UNCHANGED c2dVars
  BY <1>10 DEF c2dVars, FileArrives
<1>11. QED
  BY <1>1, <1>2, <1>3, <1>4, <1>5, <1>6, <1>7, <1>8, <1>9, <1>10, Cases

(* A file of at most 32767 bytes that is read in full arrives: the length  *)
(* the frame announces is that of its text, the text decodes to the file   *)
(* and the checksum is right, whatever the size and the bytes.             *)
THEOREM FileArrivesHolds == C2DSpec => []FileArrives
<1>1. C2DInit => ArrivesInv
  BY C2DFilesAssumption DEF C2DInit, ArrivesInv, FileArrives
<1>2. ArrivesInv => FileArrives
  BY DEF ArrivesInv
<1>3. QED
  BY <1>1, <1>2, NextArrives, PTL DEF C2DSpec
=============================================================================
