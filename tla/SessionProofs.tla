---------------------------- MODULE SessionProofs ----------------------------
(***************************************************************************)
(* Proofs about Session, for every size of a sector and of the SS.ComSt    *)
(* payload, every set of opcodes a driver uses, every filling of payloads  *)
(* and any number of commands under way: types, and on a line that loses   *)
(* nothing, that the session takes for an opcode what the guest sent as    *)
(* one and answers the command the guest is waiting on.                    *)
(***************************************************************************)
EXTENDS Session, SequenceTheorems, TLAPS

Byte == [val : 0..255, cmd : 0..2, start : BOOLEAN]
Ops  == DOMAIN OpByte \cup {"FastWrite"}

\* The opcodes whose handler looks at the second payload byte.
TwoByte == {"SerReadM", "SerWriteM", "SerSetStat"}

----------------------------------------------------------------------------
(* Opcodes *)

LEMMA OpBytes ==
  /\ DOMAIN OpByte = {"Nop", "Time", "WirebugMode", "SerRead", "SerGetStat", "SerInit",
       "PrintFlush", "GetStat", "Init", "OpPrint", "Read", "SetStat", "Term", "Write", "DwInit",
       "SerReadM", "SerWriteM", "Reread", "Rewrite", "SerWrite", "SerSetStat", "SerTerm",
       "ReadEx", "RereadEx", "Reset3", "Reset2", "Reset1"}
  /\ \A o \in DOMAIN OpByte : OpByte[o] \in 0..255 /\ OpByte[o] \notin 128..143
  BY DEF OpByte

\* No two opcodes share a byte.
LEMMA OpByteInjective ==
  ASSUME NEW o \in DOMAIN OpByte, NEW p \in DOMAIN OpByte, OpByte[o] = OpByte[p]
  PROVE  o = p
  BY DEF OpByte

\* The byte a driver sends for opcode o, and what the server makes of it.
Opcode(o) == IF o = "FastWrite" THEN FastWriteBase ELSE OpByte[o]

LEMMA Decodes ==
  ASSUME NEW o \in Ops
  PROVE  FromByte(Opcode(o)) = o /\ Opcode(o) \in 0..255
<1>1. CASE o = "FastWrite"
  BY <1>1 DEF Opcode, FromByte, FastWriteBase
<1>2. CASE o \in DOMAIN OpByte
  <2>0. o # "FastWrite"
    BY <1>2, OpBytes
  <2>1. \A p \in DOMAIN OpByte : OpByte[p] = OpByte[o] <=> p = o
    BY <1>2, OpByteInjective
  <2>2. (CHOOSE p \in DOMAIN OpByte : OpByte[p] = OpByte[o]) = o
    BY <1>2, <2>1
  <2>3. OpByte[o] \in 0..255 /\ OpByte[o] \notin FastWriteBase..(FastWriteBase + 15)
    BY <1>2, OpBytes DEF FastWriteBase
  <2> QED
    BY <1>2, <2>0, <2>2, <2>3 DEF FromByte, Opcode
<1> QED
  BY <1>1, <1>2 DEF Ops

LEMMA FromByteType == ASSUME NEW b PROVE FromByte(b) \in Ops \cup {"Unknown"}
  BY DEF FromByte, Ops

LEMMA PayloadLens ==
  /\ \A o : PayloadLen(o) \in Nat
  /\ \A o \in TwoByte : PayloadLen(o) = 2
  /\ \A o \in {"Read", "Reread", "ReadEx", "RereadEx"} : PayloadLen(o) = 4
  /\ \A o \in {"none", "Unknown", "Time", "SerRead", "ReadExSum", "SerWriteMBody", "ComStBody"} :
       PayloadLen(o) = 0
  BY SessionAssumption DEF PayloadLen, TwoByte

LEMMA ExpectedType == ASSUME NEW o, NEW k \in Nat PROVE Expected(o, k) \in Nat
  BY SessionAssumption DEF Expected

LEMMA RepeatIs ==
  ASSUME NEW S, NEW v \in S, NEW k \in Nat
  PROVE  /\ Repeat(k, v) \in Seq(S)
         /\ Len(Repeat(k, v)) = k
         /\ \A i \in 1..k : Repeat(k, v)[i] = v
<1>1. Repeat(k, v) \in [1..k -> S]
  BY DEF Repeat
<1>2. \A i \in 1..k : Repeat(k, v)[i] = v
  BY DEF Repeat
<1> QED
  BY <1>1, <1>2

----------------------------------------------------------------------------
(* What the guest sends *)

\* Payload bytes behind the first read of opcode o, v being its second byte.
Extra(o, v) ==
  IF o = "SerWriteM" THEN v
    ELSE IF o = "SerSetStat" /\ v = ComSt THEN ComStLen ELSE 0

\* The driver's payload is as long as the handler's reads, which depend on the
\* second payload byte only.
LEMMA PayloadsFit ==
  ASSUME NEW o \in Ops, NEW v \in PayloadBytes, NEW k \in Counts, NEW p \in Payloads(o, v, k)
  PROVE  /\ p \in Seq(0..255)
         /\ Len(p) = PayloadLen(o) + Extra(o, p[2])
         /\ o \in TwoByte => Len(p) >= 2
         /\ Expected(o, k) = Expected(o, p[2])
<1>1. v \in 0..255 /\ k \in 0..255 /\ k \in Nat /\ SectorSize \in Nat /\ ComStLen \in Nat
  BY SessionAssumption
<1>2. \A n \in Nat : Repeat(n, v) \in Seq(0..255) /\ Len(Repeat(n, v)) = n
  BY <1>1, RepeatIs
<1>3. CASE o \in {"Read", "Reread", "ReadEx", "RereadEx"}
  <2>1. p = Repeat(4, v)
    BY <1>3 DEF Payloads
  <2> QED
    BY <1>2, <1>3, <2>1 DEF PayloadLen, Extra, Expected, TwoByte
<1>4. CASE o \in {"Write", "Rewrite"}
  <2>1. p = Repeat(SectorSize + 6, v)
    BY <1>4 DEF Payloads
  <2>2. PayloadLen(o) = 4 + SectorSize + 2
    BY <1>4 DEF PayloadLen
  <2>3. Len(p) = SectorSize + 6 /\ p \in Seq(0..255)
    BY <1>1, <1>2, <2>1
  <2>4. Extra(o, p[2]) = 0
    BY <1>4 DEF Extra
  <2> QED
    BY <1>1, <1>4, <2>2, <2>3, <2>4 DEF Expected, TwoByte
<1>5. CASE o \in {"GetStat", "SetStat", "SerGetStat", "SerWrite"}
  <2>1. p = <<v, v>>
    BY <1>5 DEF Payloads
  <2> QED
    BY <1>1, <1>5, <2>1 DEF PayloadLen, Extra, Expected, TwoByte
<1>6. CASE o \in {"DwInit", "OpPrint", "SerInit", "SerTerm", "FastWrite"}
  <2>1. p = <<v>>
    BY <1>6 DEF Payloads
  <2> QED
    BY <1>1, <1>6, <2>1 DEF PayloadLen, Extra, Expected, TwoByte
<1>7. CASE o = "SerReadM"
  <2>1. p = <<v, k>>
    BY <1>7 DEF Payloads
  <2> QED
    BY <1>1, <1>7, <2>1 DEF PayloadLen, Extra, Expected, TwoByte
<1>8. CASE o = "SerWriteM"
  <2>1. p = <<v, k>> \o Repeat(k, v)
    BY <1>8 DEF Payloads
  <2>2. PICK r \in Seq(0..255) : r = Repeat(k, v) /\ Len(r) = k
    BY <1>1, <1>2
  <2>3. <<v, k>> \in Seq(0..255)
    BY <1>1
  <2>4. p \in Seq(0..255) /\ Len(p) = 2 + k /\ p[2] = k
    BY <1>1, <2>1, <2>2, <2>3
  <2> QED
    BY <1>1, <1>8, <2>4 DEF PayloadLen, Extra, Expected, TwoByte
<1>9. CASE o = "SerSetStat"
  <2>1. CASE p = <<v, ComSt>> \o Repeat(ComStLen, v)
    <3>1. PICK r \in Seq(0..255) : r = Repeat(ComStLen, v) /\ Len(r) = ComStLen
      BY <1>1, <1>2
    <3>2. <<v, ComSt>> \in Seq(0..255)
      BY <1>1 DEF ComSt
    <3>3. p \in Seq(0..255) /\ Len(p) = 2 + ComStLen /\ p[2] = ComSt
      BY <1>1, <2>1, <3>1, <3>2
    <3> QED
      BY <1>1, <1>9, <3>3 DEF PayloadLen, Extra, Expected, TwoByte
  <2>2. CASE p = <<v, ComSt + 1>>
    BY <1>1, <1>9, <2>2 DEF PayloadLen, Extra, Expected, TwoByte, ComSt
  <2> QED
    BY <1>9, <2>1, <2>2 DEF Payloads
<1>10. CASE o \in {"Nop", "Time", "WirebugMode", "SerRead", "PrintFlush", "Init", "Term",
                   "Reset1", "Reset2", "Reset3"}
  <2>1. p = <<>>
    BY <1>10 DEF Payloads
  <2> QED
    BY <1>10, <2>1 DEF PayloadLen, Extra, Expected, TwoByte
<1> QED
  BY <1>3, <1>4, <1>5, <1>6, <1>7, <1>8, <1>9, <1>10, OpBytes DEF Ops

\* The bytes of a message.
Message(vals, c, first) ==
  [i \in 1..Len(vals) |-> [val |-> vals[i], cmd |-> c, start |-> first /\ i = 1]]

LEMMA MessageIs ==
  ASSUME NEW vals \in Seq(0..255), NEW c \in 0..2, NEW first \in BOOLEAN
  PROVE  /\ Message(vals, c, first) \in Seq(Byte)
         /\ Len(Message(vals, c, first)) = Len(vals)
         /\ \A i \in 1..Len(vals) : /\ Message(vals, c, first)[i].val = vals[i]
                                    /\ Message(vals, c, first)[i].cmd = c
                                    /\ Message(vals, c, first)[i].start <=> (first /\ i = 1)
<1> DEFINE m == Message(vals, c, first)
           B(i) == first /\ i = 1
<1>1. /\ DOMAIN m = 1..Len(vals)
      /\ \A i \in 1..Len(vals) : m[i] = [val |-> vals[i], cmd |-> c, start |-> B(i)]
  BY DEF Message
<1>2. \A i : B(i) \in BOOLEAN
  BY Zenon
<1>3. m = [i \in 1..Len(vals) |-> m[i]]
  BY Zenon DEF Message
<1>b. \A i : B(i) <=> (first /\ i = 1)
  OBVIOUS
<1> HIDE DEF m, B
<1>4. Len(vals) \in Nat /\ \A i \in 1..Len(vals) : vals[i] \in 0..255
  BY LenProperties, ElementOfSeq
<1>c. \A x \in 0..255, z \in BOOLEAN : [val |-> x, cmd |-> c, start |-> z] \in Byte
  BY DEF Byte
<1>5. \A i \in 1..Len(vals) : m[i] \in Byte
  BY <1>1, <1>2, <1>4, <1>c, Zenon
<1>6. m \in [1..Len(vals) -> Byte]
  BY <1>3, <1>5
<1>7. m \in Seq(Byte) /\ Len(m) = Len(vals)
  BY <1>4, <1>6
<1>8. \A i \in 1..Len(vals) : m[i].val = vals[i] /\ m[i].cmd = c /\ m[i].start = B(i)
  BY <1>1
<1>9. \A i \in 1..Len(vals) : m[i].start <=> (first /\ i = 1)
  BY <1>8, <1>b, Zenon
<1> QED
  BY <1>7, <1>8, <1>9 DEF m

\* The first byte of a command is marked, no byte of a checksum is.
CommandMsg(vals, c) == Message(vals, c, TRUE)
SumMsg(vals, c)     == Message(vals, c, FALSE)

LEMMA CommandMessage ==
  ASSUME NEW vals \in Seq(0..255), NEW c \in 0..2
  PROVE  /\ CommandMsg(vals, c) \in Seq(Byte)
         /\ Len(CommandMsg(vals, c)) = Len(vals)
         /\ \A i \in 1..Len(vals) : /\ CommandMsg(vals, c)[i].val = vals[i]
                                    /\ CommandMsg(vals, c)[i].cmd = c
                                    /\ CommandMsg(vals, c)[i].start <=> i = 1
<1>1. PICK yes \in BOOLEAN : yes /\ yes = TRUE
  OBVIOUS
<1> DEFINE m == Message(vals, c, yes)
<1>2. /\ m \in Seq(Byte)
      /\ Len(m) = Len(vals)
      /\ \A i \in 1..Len(vals) : /\ m[i].val = vals[i]
                                 /\ m[i].cmd = c
                                 /\ m[i].start <=> (yes /\ i = 1)
  BY MessageIs
<1>3. m = CommandMsg(vals, c)
  BY <1>1 DEF CommandMsg
<1> HIDE DEF m
<1>4. \A i \in 1..Len(vals) : m[i].start <=> i = 1
  BY <1>1, <1>2
<1> QED
  BY <1>2, <1>3, <1>4

LEMMA SumMessage ==
  ASSUME NEW vals \in Seq(0..255), NEW c \in 0..2
  PROVE  /\ SumMsg(vals, c) \in Seq(Byte)
         /\ Len(SumMsg(vals, c)) = Len(vals)
         /\ \A i \in 1..Len(vals) : ~SumMsg(vals, c)[i].start
<1>1. PICK no \in BOOLEAN : ~no /\ no = FALSE
  OBVIOUS
<1> DEFINE m == Message(vals, c, no)
<1>2. /\ m \in Seq(Byte)
      /\ Len(m) = Len(vals)
      /\ \A i \in 1..Len(vals) : m[i].start <=> (no /\ i = 1)
  BY MessageIs
<1>3. m = SumMsg(vals, c)
  BY <1>1 DEF SumMsg
<1> HIDE DEF m
<1>4. \A i \in 1..Len(vals) : ~m[i].start
  BY <1>1, <1>2
<1> QED
  BY <1>2, <1>3, <1>4

----------------------------------------------------------------------------
(* Types *)

\* A handler that looks at the second payload byte reads two bytes first.
HeaderRead == op \in TwoByte => Len(pay) + need = 2

TypeInv == TypeOK /\ HeaderRead

LEMMA TypeInit == Init => TypeInv
<1>1. <<>> \in Seq(Byte) /\ <<>> \in Seq(0..NotACommand) /\ <<>> \in Seq(0..255)
  OBVIOUS
<1>2. 0 \in 0..NotACommand /\ 0 \in 0..MaxDrops
  BY SessionAssumption DEF NotACommand
<1>3. Init => HeaderRead
  BY DEF Init, HeaderRead, TwoByte
<1>4. Init => TypeOK
  <2> SUFFICES ASSUME Init PROVE TypeOK
    OBVIOUS
  <2>1. up \in Seq(Byte) /\ down \in Seq(0..NotACommand) /\ pay \in Seq(0..255)
    BY <1>1 DEF Init
  <2>2. cmd \in 0..NotACommand /\ drops \in 0..MaxDrops /\ sent \in 0..2
    BY <1>2 DEF Init
  <2> QED
    BY <2>1, <2>2 DEF Init, TypeOK, Byte
<1> QED
  BY <1>3, <1>4 DEF TypeInv

\* What a session writes.
LEMMA ReplyType ==
  ASSUME TypeOK, NEW k \in Nat, NEW c \in 0..NotACommand
  PROVE  /\ down \o Repeat(k, c) \in Seq(0..NotACommand)
         /\ Len(down \o Repeat(k, c)) = Len(down) + k
<1>1. PICK r \in Seq(0..NotACommand) : r = Repeat(k, c) /\ Len(r) = k
  BY RepeatIs
<1>2. down \in Seq(0..NotACommand)
  BY DEF TypeOK
<1>3. down \o r \in Seq(0..NotACommand) /\ Len(down \o r) = Len(down) + Len(r)
  BY <1>2, ConcatProperties
<1> QED
  BY <1>1, <1>3

\* The end of a handler, and its second read.
LEMMA HandlerEnds ==
  ASSUME TypeInv, NEW ops, PayloadRead(ops), NEW k \in Nat,
         down' = down \o Repeat(k, cmd) \/ UNCHANGED down,
         Done
  PROVE  TypeInv'
<1>1. down' \in Seq(0..NotACommand)
  BY ReplyType DEF TypeInv, TypeOK
<1>2. <<>> \in Seq(0..255)
  OBVIOUS
<1>3. op' = "none" /\ need' = 0 /\ pay' = <<>>
      /\ UNCHANGED <<up, link, cmd, sent, reset, waiting, sumDue, flushing, drops>>
  BY DEF Done, PayloadRead, guestVars
<1> QED
  BY <1>1, <1>2, <1>3 DEF TypeInv, TypeOK, HeaderRead, TwoByte

LEMMA HandlerReadsOn ==
  ASSUME TypeInv, NEW ops, PayloadRead(ops), NEW k \in Nat,
         down' = down \o Repeat(k, cmd) \/ UNCHANGED down,
         NEW o \in {"ReadExSum", "SerWriteMBody", "ComStBody"}, NEW n \in Nat, ReadMore(o, n)
  PROVE  TypeInv'
<1>1. down' \in Seq(0..NotACommand)
  BY ReplyType DEF TypeInv, TypeOK
<1>2. <<>> \in Seq(0..255)
  OBVIOUS
<1>3. op' = o /\ need' = n /\ pay' = <<>>
      /\ UNCHANGED <<up, link, cmd, sent, reset, waiting, sumDue, flushing, drops>>
  BY DEF ReadMore, PayloadRead, guestVars
<1>4. o \in Reading
  BY DEF Reading
<1> QED
  BY <1>1, <1>2, <1>3, <1>4 DEF TypeInv, TypeOK, HeaderRead, TwoByte

\* The second payload byte, when a handler looks at it.
LEMMA SecondByte ==
  ASSUME TypeInv, op \in TwoByte, need = 0
  PROVE  Len(pay) = 2 /\ pay[2] \in 0..255 /\ pay[2] \in Nat
<1>1. Len(pay) = 2 /\ pay \in Seq(0..255)
  BY DEF TypeInv, TypeOK, HeaderRead
<1>2. 2 \in 1..Len(pay)
  BY <1>1
<1>3. pay[2] \in 0..255
  <2>1. pay \in Seq(0..255)
    BY <1>1
  <2>2. \A n \in 1..Len(pay) : pay[n] \in 0..255
    BY <2>1, ElementOfSeq
  <2> QED
    BY <1>2, <2>2, Zenon
<1>4. \A n \in 0..255 : n \in Nat
  OBVIOUS
<1>5. pay[2] \in Nat
  BY <1>3, <1>4
<1>6. Len(pay) = 2
  BY <1>1
<1> QED
  BY <1>3, <1>5, <1>6

LEMMA HandlerTypes ==
  ASSUME TypeInv,
         \/ HandleRead \/ HandleReadEx \/ HandleWrite \/ HandleDwInit \/ HandleSilent
         \/ HandleSerReadM \/ HandleSerWriteM \/ HandleSerSetStat
  PROVE  TypeInv'
<1>0. SectorSize \in Nat /\ SectorSize + 2 \in Nat /\ ComStLen \in Nat /\ 1 \in Nat /\ 2 \in Nat
  BY SessionAssumption
<1>1. CASE HandleRead
  BY <1>0, <1>1, HandlerEnds DEF HandleRead, WriteAll
<1>2. CASE HandleReadEx
  <2>1. CASE /\ PayloadRead({"ReadEx", "RereadEx"})
             /\ WriteAll(SectorSize)
             /\ ReadMore("ReadExSum", 2)
    BY <1>0, <2>1, HandlerReadsOn DEF WriteAll
  <2>2. CASE PayloadRead({"ReadExSum"}) /\ WriteAll(1) /\ Done
    BY <1>0, <2>2, HandlerEnds DEF WriteAll
  <2> QED
    BY <1>2, <2>1, <2>2 DEF HandleReadEx
<1>3. CASE HandleWrite
  BY <1>0, <1>3, HandlerEnds DEF HandleWrite, WriteAll
<1>4. CASE HandleDwInit
  BY <1>0, <1>4, HandlerEnds DEF HandleDwInit, WriteAll
<1>5. CASE HandleSilent
  BY <1>0, <1>5, HandlerEnds DEF HandleSilent
<1>6. CASE HandleSerReadM
  <2>1. pay[2] \in Nat
    BY <1>6, SecondByte DEF HandleSerReadM, PayloadRead, TwoByte
  <2> QED
    BY <1>6, <2>1, HandlerEnds DEF HandleSerReadM, WriteAll
<1>7. CASE HandleSerWriteM
  <2>1. CASE PayloadRead({"SerWriteM"}) /\ ReadMore("SerWriteMBody", pay[2]) /\ UNCHANGED down
    <3>1. pay[2] \in Nat
      BY <2>1, SecondByte DEF PayloadRead, TwoByte
    <3> QED
      BY <1>0, <2>1, <3>1, HandlerReadsOn
  <2>2. CASE PayloadRead({"SerWriteMBody"}) /\ Done /\ UNCHANGED down
    BY <1>0, <2>2, HandlerEnds
  <2> QED
    BY <1>7, <2>1, <2>2 DEF HandleSerWriteM
<1>8. CASE HandleSerSetStat
  <2>1. CASE PayloadRead({"SerSetStat"}) /\ ReadMore("ComStBody", ComStLen) /\ UNCHANGED down
    BY <1>0, <2>1, HandlerReadsOn
  <2>2. CASE PayloadRead({"SerSetStat"}) /\ Done /\ UNCHANGED down
    BY <1>0, <2>2, HandlerEnds
  <2>3. CASE PayloadRead({"ComStBody"}) /\ Done /\ UNCHANGED down
    BY <1>0, <2>3, HandlerEnds
  <2> QED
    BY <1>8, <2>1, <2>2, <2>3 DEF HandleSerSetStat
<1> QED
  BY <1>1, <1>2, <1>3, <1>4, <1>5, <1>6, <1>7, <1>8

\* Taking the first byte off the line.
LEMMA HeadTail ==
  ASSUME TypeOK, up # <<>>
  PROVE  /\ up \in Seq(Byte) /\ Len(up) \in Nat \ {0} /\ Head(up) = up[1] /\ up[1] \in Byte
         /\ Tail(up) \in Seq(Byte)
         /\ Len(Tail(up)) = Len(up) - 1
         /\ \A i \in 1..(Len(up) - 1) : Tail(up)[i] = up[i + 1]
<1>1. up \in Seq(Byte)
  BY DEF TypeOK, Byte
<1>2. /\ Len(up) \in Nat \ {0} /\ Head(up) = up[1]
      /\ Tail(up) \in Seq(Byte) /\ Len(Tail(up)) = Len(up) - 1
      /\ \A i \in 1..(Len(up) - 1) : Tail(up)[i] = up[i + 1]
  BY <1>1, EmptySeq, HeadTailProperties
<1>3. up[1] \in Byte
  BY <1>1, <1>2, ElementOfSeq
<1> QED
  BY <1>1, <1>2, <1>3

LEMMA ReadTypes ==
  ASSUME TypeInv, ReadOpcode \/ ReadPayload
  PROVE  TypeInv'
<1>0. /\ up # <<>> /\ up' = Tail(up)
      /\ UNCHANGED <<link, sent, reset, waiting, sumDue, flushing, drops>>
  BY DEF ReadOpcode, ReadPayload, guestVars
<1>1. up' \in Seq(Byte) /\ Head(up) \in Byte
  BY <1>0, HeadTail DEF TypeInv
<1>2. CASE ReadOpcode
  <2> DEFINE o == FromByte(Head(up).val)
  <2>1. PICK k \in Nat : down' = down \o Repeat(k, cmd')
    <3>1. TimeLen \in Nat /\ 2 \in Nat /\ 0 \in Nat
      BY DEF TimeLen
    <3> QED
      BY <1>2, <3>1 DEF ReadOpcode
  <2>2. cmd' \in 0..NotACommand
    <3>1. cmd' = IF Head(up).start THEN Head(up).cmd ELSE NotACommand
      BY <1>2 DEF ReadOpcode
    <3>2. Head(up).cmd \in 0..2
      BY <1>1 DEF Byte
    <3> QED
      BY <3>1, <3>2 DEF NotACommand
  <2>3. /\ op' = IF PayloadLen(o) = 0 THEN "none" ELSE o
        /\ need' = PayloadLen(o) /\ pay' = <<>>
    BY <1>2 DEF ReadOpcode
  <2>4. o \in Ops \cup {"Unknown"}
    BY FromByteType
  <2> HIDE DEF o
  <2>5. op' \in Reading \cup {"none"} /\ need' \in Nat
    BY <2>3, <2>4, PayloadLens DEF Reading, Ops
  <2>6. pay' \in Seq(0..255) /\ Len(pay') = 0
    BY <2>3
  <2>7. HeaderRead'
    BY <2>3, <2>6, PayloadLens DEF HeaderRead, TwoByte
  <2>8. down' \in Seq(0..NotACommand)
    BY <2>1, <2>2, ReplyType DEF TypeInv
  <2> QED
    BY <1>0, <1>1, <2>2, <2>5, <2>6, <2>7, <2>8 DEF TypeInv, TypeOK, Byte
<1>3. CASE ReadPayload
  <2>1. /\ UNCHANGED <<down, op, cmd>> /\ need > 0 /\ need' = need - 1
        /\ pay' = IF Len(pay) < 2 THEN Append(pay, Head(up).val) ELSE pay
    BY <1>3 DEF ReadPayload
  <2>2. pay \in Seq(0..255) /\ need \in Nat /\ Len(pay) \in Nat /\ Head(up).val \in 0..255
    BY <1>1 DEF TypeInv, TypeOK, Byte
  <2>3. /\ Append(pay, Head(up).val) \in Seq(0..255)
        /\ Len(Append(pay, Head(up).val)) = Len(pay) + 1
    BY <2>2, AppendProperties
  <2>4. pay' \in Seq(0..255) /\ need' \in Nat
    BY <2>1, <2>2, <2>3
  <2>5. HeaderRead'
    BY <2>1, <2>2, <2>3 DEF TypeInv, HeaderRead
  <2> QED
    BY <1>0, <1>1, <2>1, <2>4, <2>5 DEF TypeInv, TypeOK, Byte
<1> QED
  BY <1>2, <1>3

\* What a command or a checksum adds to the line.
LEMMA SendIs ==
  ASSUME TypeOK, NEW vals \in Seq(0..255), NEW c \in 0..2, NEW first \in BOOLEAN,
         Send(vals, c, first)
  PROVE  /\ up' = up \o Message(vals, c, first)
         /\ up' \in Seq(Byte)
<1>1. up' = up \o Message(vals, c, first)
  BY DEF Send, Message
<1>2. Message(vals, c, first) \in Seq(Byte) /\ up \in Seq(Byte)
  BY MessageIs DEF TypeOK, Byte
<1> QED
  BY <1>1, <1>2, ConcatProperties

\* The bytes of a command: its opcode and its payload.
LEMMA CommandBytes ==
  ASSUME NEW o \in Ops, NEW p \in Seq(0..255)
  PROVE  /\ <<Opcode(o)>> \o p \in Seq(0..255)
         /\ Len(<<Opcode(o)>> \o p) = 1 + Len(p)
         /\ (<<Opcode(o)>> \o p)[1] = Opcode(o)
         /\ Len(p) >= 2 => (<<Opcode(o)>> \o p)[3] = p[2]
<1>1. PICK b \in 0..255 : b = Opcode(o)
  BY Decodes
<1>2. <<b>> \in Seq(0..255) /\ Len(<<b>>) = 1 /\ <<b>>[1] = b
  OBVIOUS
<1>3. Len(p) \in Nat
  OBVIOUS
<1>4. /\ <<b>> \o p \in Seq(0..255)
      /\ Len(<<b>> \o p) = 1 + Len(p)
      /\ (<<b>> \o p)[1] = b
      /\ Len(p) >= 2 => (<<b>> \o p)[3] = p[2]
  BY <1>2, <1>3
<1> QED
  BY <1>1, <1>4

LEMMA GuestCommandIs ==
  ASSUME TypeOK, GuestCommand
  PROVE  /\ link = "up" /\ waiting = 0 /\ ~sumDue /\ down = <<>>
         /\ \E o \in Ops, v \in PayloadBytes, k \in Counts :
              \E p \in Payloads(o, v, k) :
                /\ Send(<<Opcode(o)>> \o p, sent', TRUE)
                /\ sent' = (sent + 1) % 3
                /\ reset' \in BOOLEAN
                /\ waiting' = Expected(o, k)
                /\ sumDue' = (o \in {"ReadEx", "RereadEx"})
         /\ UNCHANGED <<down, link, op, cmd, need, pay, flushing, drops>>
<1>1. /\ link = "up" /\ waiting = 0 /\ ~sumDue /\ down = <<>>
      /\ UNCHANGED <<down, link, op, cmd, need, pay, flushing, drops>>
  BY DEF GuestCommand, serverVars
<1>2. PICK o \in IF flushing THEN {"Nop"} ELSE GuestOps, v \in PayloadBytes, k \in Counts :
        \E p \in Payloads(o, v, k) :
          /\ Send(<<IF o = "FastWrite" THEN FastWriteBase ELSE OpByte[o]>> \o p,
                  (sent + 1) % 3, TRUE)
          /\ sent' = (sent + 1) % 3
          /\ reset' = (o \in Resets)
          /\ waiting' = Expected(o, k)
          /\ sumDue' = (o \in {"ReadEx", "RereadEx"})
  BY DEF GuestCommand
<1>3. o \in Ops
  BY GuestOpsAssumption, OpBytes DEF Ops
<1>4. PICK p \in Payloads(o, v, k) :
          /\ Send(<<IF o = "FastWrite" THEN FastWriteBase ELSE OpByte[o]>> \o p,
                  (sent + 1) % 3, TRUE)
          /\ sent' = (sent + 1) % 3
          /\ reset' = (o \in Resets)
          /\ waiting' = Expected(o, k)
          /\ sumDue' = (o \in {"ReadEx", "RereadEx"})
  BY <1>2
<1>5. Send(<<Opcode(o)>> \o p, sent', TRUE)
  BY <1>4 DEF Opcode
<1>6. reset' \in BOOLEAN
  BY <1>4
<1> QED
  BY <1>1, <1>3, <1>4, <1>5, <1>6

LEMMA GuestTypes ==
  ASSUME TypeInv, Guest \/ Drop \/ SessionEnds
  PROVE  TypeInv'
<1>t. TypeOK /\ HeaderRead
  BY DEF TypeInv
<1>1. CASE GuestCommand
  <2>0. PICK o \in Ops, v \in PayloadBytes, k \in Counts :
          \E p \in Payloads(o, v, k) :
           /\ Send(<<Opcode(o)>> \o p, sent', TRUE)
           /\ sent' = (sent + 1) % 3
           /\ reset' \in BOOLEAN
           /\ waiting' = Expected(o, k)
           /\ sumDue' = (o \in {"ReadEx", "RereadEx"})
    BY <1>t, <1>1, GuestCommandIs
  <2>1. PICK p \in Payloads(o, v, k) :
           /\ Send(<<Opcode(o)>> \o p, sent', TRUE)
           /\ sent' = (sent + 1) % 3
           /\ reset' \in BOOLEAN
           /\ waiting' = Expected(o, k)
           /\ sumDue' = (o \in {"ReadEx", "RereadEx"})
    BY <2>0
  <2>2. sent' \in 0..2
    BY <1>t, <2>1 DEF TypeOK
  <2>3. <<Opcode(o)>> \o p \in Seq(0..255)
    BY PayloadsFit, CommandBytes
  <2>4. up' \in Seq(Byte)
    BY <1>t, <2>1, <2>2, <2>3, SendIs
  <2>5. waiting' \in Nat /\ sumDue' \in BOOLEAN
    BY <2>1, ExpectedType, SessionAssumption
  <2>6. UNCHANGED <<down, link, op, cmd, need, pay, flushing, drops>>
    BY <1>t, <1>1, GuestCommandIs
  <2> QED
    BY <1>t, <2>1, <2>2, <2>4, <2>5, <2>6 DEF TypeInv, TypeOK, HeaderRead, Byte
<1>2. CASE GuestReads
  <2>1. Tail(down) \in Seq(0..NotACommand) /\ waiting - 1 \in Nat
    BY <1>t, <1>2, EmptySeq, HeadTailProperties DEF TypeOK, GuestReads
  <2> QED
    BY <1>t, <1>2, <2>1 DEF TypeInv, TypeOK, HeaderRead, GuestReads, serverVars
<1>3. CASE GuestOverrun
  BY <1>t, <1>3 DEF TypeInv, TypeOK, HeaderRead, GuestOverrun, serverVars, guestVars
<1>4. CASE GuestSum
  <2>1. PICK v \in PayloadBytes : Send(<<v, v>>, sent, FALSE)
    BY <1>4 DEF GuestSum
  <2>2. <<v, v>> \in Seq(0..255) /\ sent \in 0..2
    BY <1>t, SessionAssumption DEF TypeOK
  <2>3. up' \in Seq(Byte)
    BY <1>t, <2>1, <2>2, SendIs
  <2> QED
    BY <1>t, <1>4, <2>3 DEF TypeInv, TypeOK, HeaderRead, GuestSum, serverVars, Byte
<1>5. CASE GuestTimeout \/ GuestFlush
  <2>1. CASE GuestTimeout
    BY <1>t, <2>1 DEF TypeInv, TypeOK, HeaderRead, GuestTimeout, serverVars
  <2>2. CASE GuestFlush
    <3>1. flushing' \in BOOLEAN
      BY <2>2 DEF GuestFlush
    <3> QED
      BY <1>t, <2>2, <3>1 DEF TypeInv, TypeOK, HeaderRead, GuestFlush, serverVars
  <2> QED
    BY <1>5, <2>1, <2>2
<1>6. CASE HangUp \/ SessionEnds
  BY <1>t, <1>6 DEF TypeInv, TypeOK, HeaderRead, HangUp, SessionEnds, serverVars, guestVars
<1>7. CASE Reconnect
  <2>1. <<>> \in Seq(Byte) /\ <<>> \in Seq(0..NotACommand) /\ <<>> \in Seq(0..255)
    OBVIOUS
  <2> QED
    BY <1>t, <1>7, <2>1 DEF TypeInv, TypeOK, HeaderRead, TwoByte, Reconnect, Byte
<1>8. CASE Drop
  <2>1. PICK i, j \in 1..Len(up) : up' = SubSeq(up, 1, i - 1) \o SubSeq(up, j + 1, Len(up))
    BY <1>8 DEF Drop
  <2>2. up \in Seq(Byte)
    BY <1>t DEF TypeOK, Byte
  <2>3. up' \in Seq(Byte)
    BY <2>1, <2>2
  <2>4. drops' \in 0..MaxDrops /\ UNCHANGED <<down, link, serverVars, guestVars>>
    BY <1>t, <1>8, SessionAssumption DEF Drop, TypeOK
  <2> QED
    BY <1>t, <2>3, <2>4 DEF TypeInv, TypeOK, HeaderRead, serverVars, guestVars, Byte
<1> QED
  BY <1>1, <1>2, <1>3, <1>4, <1>5, <1>6, <1>7, <1>8 DEF Guest

LEMMA TypeStep == TypeInv /\ [Next]_vars => TypeInv'
<1> SUFFICES ASSUME TypeInv, [Next]_vars PROVE TypeInv'
  OBVIOUS
<1>1. CASE UNCHANGED vars
  BY <1>1 DEF vars, serverVars, guestVars, TypeInv, TypeOK, HeaderRead
<1>2. CASE Session
  BY <1>2, HandlerTypes, ReadTypes, GuestTypes DEF Session
<1>3. CASE Guest \/ Drop
  BY <1>3, GuestTypes
<1> QED
  BY <1>1, <1>2, <1>3 DEF Next

LEMMA TypeInvariant == Spec => []TypeInv
  BY TypeInit, TypeStep, PTL DEF Spec

\* The streams and reads of a session are well formed on any line, also one
\* that loses bytes: no read goes below zero, and no handler looks at a payload
\* byte it has not read.
THEOREM SessionTypes == Spec => []TypeOK
<1>1. TypeInv => TypeOK
  BY DEF TypeInv
<1> QED
  BY <1>1, TypeInvariant, PTL

----------------------------------------------------------------------------
(* In step. On a line that loses nothing the bytes under way are those the *)
(* session's handler still has to read, and then whole commands; of these  *)
(* only the last one the guest has sent has a reply.                       *)

Exs == {"ReadEx", "RereadEx"}

OpAt(q, i)   == FromByte(q[i].val)
Answer(q, i) == Expected(OpAt(q, i), q[i + 2].val)

\* The bytes i to e of q are payload, and a command begins behind them.
Payload(q, i, e) ==
  /\ \A j \in i..e : ~q[j].start
  /\ e < Len(q) => q[e + 1].start

\* The command that begins at i has the payload that its handler will read.
Frame(q, i) ==
  \E e \in i..Len(q) :
    /\ Payload(q, i + 1, e)
    /\ OpAt(q, i) \in TwoByte => i + 2 <= e
    /\ e - i = PayloadLen(OpAt(q, i)) + Extra(OpAt(q, i), q[i + 2].val)

\* The second payload byte of the command being served, read or not yet.
Second == IF need = 0 THEN pay[2] ELSE up[need].val

\* The session waits for the checksum of a sector the guest has not yet had.
SumAwaited == op = "ReadExSum" /\ sumDue

\* What is still to be read and to be answered of the command being served.
Rest == IF op = "none" \/ SumAwaited THEN 0 ELSE need + Extra(op, Second)
Due  == IF op = "none" \/ SumAwaited THEN 0
          ELSE IF op = "ReadExSum" THEN 1 ELSE Expected(op, Second)

InStep ==
  /\ Rest \in 0..Len(up) /\ Payload(up, 1, Rest)
  /\ op \in TwoByte => need <= Len(up)
  /\ \A i \in 1..Len(up) : up[i].start => Frame(up, i)

Silent  == \A i \in 1..Len(up) : ~up[i].start
Serving == op = "ReadExSum" \/ Due > 0
Loud(i) == up[i].start /\ Answer(up, i) > 0

\* A command with a reply is the last one sent, and nothing else is answered
\* while it is under way, while it is being served, ...
AskedLast ==
  \A i \in 1..Len(up) : Loud(i) =>
    /\ \A j \in 1..Len(up) : up[j].start => j <= i
    /\ ~Serving
    /\ down = <<>> /\ waiting = Answer(up, i) /\ up[i].cmd = sent
    /\ sumDue <=> OpAt(up, i) \in Exs

ServedLast ==
  Serving =>
    /\ Silent
    /\ cmd = sent
    /\ waiting = Len(down) + Due
    /\ Due > 0 => down = <<>>
    /\ op # "ReadExSum" => (sumDue <=> op \in Exs)
    /\ SumAwaited => need = 2 /\ up = <<>>

\* ... and after that the guest waits for what is on the line to it.
AnsweredLast ==
  ~Serving /\ (\A i \in 1..Len(up) : ~Loud(i)) => waiting = Len(down) /\ ~sumDue

Ours == \A i \in 1..Len(down) : down[i] = sent

SyncInv == TypeInv /\ InStep /\ AskedLast /\ ServedLast /\ AnsweredLast /\ Ours

----------------------------------------------------------------------------
(* Frames *)

\* Only three opcodes depend on their second payload byte.
LEMMA Irrelevant ==
  ASSUME NEW o, o \notin TwoByte, NEW v, NEW w
  PROVE  Extra(o, v) = 0 /\ Expected(o, v) = Expected(o, w)
  BY DEF TwoByte, Extra, Expected

LEMMA ExtraType == ASSUME NEW o, NEW v \in Nat PROVE Extra(o, v) \in Nat
  BY SessionAssumption DEF Extra

\* Frames in what is left when the first byte is taken.
LEMMA TailFrame ==
  ASSUME NEW q \in Seq(Byte), NEW t \in Seq(Byte), Len(q) > 0, Len(t) = Len(q) - 1,
         \A i \in 1..(Len(q) - 1) : t[i] = q[i + 1],
         NEW i \in 1..Len(t), Frame(q, i + 1)
  PROVE  /\ Frame(t, i)
         /\ OpAt(t, i) = OpAt(q, i + 1)
         /\ Answer(t, i) = Answer(q, i + 1)
<1> DEFINE L == Len(q)
           o == OpAt(q, i + 1)
<1>1. L \in Nat /\ i \in 1..(L - 1) /\ Len(t) = L - 1 /\ i + 1 \in 1..L
  OBVIOUS
<1>2. OpAt(t, i) = o
  BY <1>1 DEF OpAt
<1>3. PICK e \in (i + 1)..L :
        /\ Payload(q, (i + 1) + 1, e)
        /\ o \in TwoByte => (i + 1) + 2 <= e
        /\ e - (i + 1) = PayloadLen(o) + Extra(o, q[(i + 1) + 2].val)
  BY DEF Frame
<1>4. o \in TwoByte => t[i + 2].val = q[(i + 1) + 2].val
  BY <1>1, <1>3
<1>5. /\ Extra(o, t[i + 2].val) = Extra(o, q[(i + 1) + 2].val)
      /\ Expected(o, t[i + 2].val) = Expected(o, q[(i + 1) + 2].val)
  BY <1>4, Irrelevant
<1>6. Payload(t, i + 1, e - 1)
  <2>1. \A j \in (i + 1)..(e - 1) : ~t[j].start
    <3> SUFFICES ASSUME NEW j \in (i + 1)..(e - 1) PROVE ~t[j].start
      OBVIOUS
    <3>1. j \in 1..(L - 1) /\ j + 1 \in ((i + 1) + 1)..e
      BY <1>1, <1>3
    <3> QED
      BY <1>3, <3>1 DEF Payload
  <2>2. ASSUME e - 1 < Len(t) PROVE t[(e - 1) + 1].start
    <3>1. e < L /\ e \in 1..(L - 1) /\ (e - 1) + 1 = e
      BY <1>1, <1>3, <2>2
    <3> QED
      BY <1>3, <3>1 DEF Payload
  <2> QED
    BY <2>1, <2>2 DEF Payload
<1>7. e - 1 \in i..Len(t) /\ (o \in TwoByte => i + 2 <= e - 1)
      /\ (e - 1) - i = e - (i + 1)
  BY <1>1, <1>3
<1> HIDE DEF o
<1>8. Frame(t, i)
  BY <1>2, <1>3, <1>5, <1>6, <1>7 DEF Frame
<1> QED
  BY <1>2, <1>5, <1>8 DEF Answer, o

LEMMA TailPayload ==
  ASSUME NEW q \in Seq(Byte), NEW t \in Seq(Byte), Len(q) > 0, Len(t) = Len(q) - 1,
         \A i \in 1..(Len(q) - 1) : t[i] = q[i + 1],
         NEW b \in {1, 2}, NEW e \in 1..Len(q), Payload(q, b, e)
  PROVE  Payload(t, 1, e - 1)
<1> DEFINE L == Len(q)
<1>1. L \in Nat /\ Len(t) = L - 1 /\ e \in 1..L
  OBVIOUS
<1>2. ASSUME NEW j \in 1..(e - 1) PROVE ~t[j].start
  <2>1. j \in 1..(L - 1) /\ j + 1 \in b..e
    BY <1>1
  <2> QED
    BY <2>1 DEF Payload
<1>3. ASSUME e - 1 < Len(t) PROVE t[(e - 1) + 1].start
  <2>1. e < L /\ e \in 1..(L - 1) /\ (e - 1) + 1 = e
    BY <1>1, <1>3
  <2> QED
    BY <2>1 DEF Payload
<1> QED
  BY <1>2, <1>3 DEF Payload

\* Frames when another command is put behind them.
LEMMA AppendFrame ==
  ASSUME NEW q \in Seq(Byte), NEW f \in Seq(Byte), Len(f) > 0, f[1].start,
         NEW i \in 1..Len(q), Frame(q, i)
  PROVE  /\ Frame(q \o f, i)
         /\ OpAt(q \o f, i) = OpAt(q, i)
         /\ Answer(q \o f, i) = Answer(q, i)
<1> DEFINE L == Len(q)
           r == q \o f
           o == OpAt(q, i)
<1>1. /\ L \in Nat /\ Len(r) = L + Len(f) /\ Len(f) \in Nat
      /\ \A j \in 1..L : r[j] = q[j]
      /\ r[L + 1] = f[1]
  BY ConcatProperties, LenProperties
<1> HIDE DEF r
<1>2. OpAt(r, i) = o
  BY <1>1 DEF OpAt
<1>3. PICK e \in i..L :
        /\ Payload(q, i + 1, e)
        /\ o \in TwoByte => i + 2 <= e
        /\ e - i = PayloadLen(o) + Extra(o, q[i + 2].val)
  BY DEF Frame
<1>4. o \in TwoByte => r[i + 2].val = q[i + 2].val
  BY <1>1, <1>3
<1>5. /\ Extra(o, r[i + 2].val) = Extra(o, q[i + 2].val)
      /\ Expected(o, r[i + 2].val) = Expected(o, q[i + 2].val)
  BY <1>4, Irrelevant
<1>6. Payload(r, i + 1, e)
  <2>1. ASSUME NEW j \in (i + 1)..e PROVE ~r[j].start
    <3>1. j \in 1..L
      BY <1>1, <1>3
    <3> QED
      BY <1>1, <1>3, <3>1 DEF Payload
  <2>2. r[e + 1].start
    <3>1. CASE e = L
      BY <1>1, <3>1
    <3>2. CASE e < L
      <4>1. e + 1 \in 1..L
        BY <1>1, <1>3, <3>2
      <4> QED
        BY <1>1, <1>3, <3>2, <4>1 DEF Payload
    <3> QED
      BY <1>1, <1>3, <3>1, <3>2
  <2> QED
    BY <2>1, <2>2 DEF Payload
<1>7. e \in i..Len(r)
  BY <1>1, <1>3
<1> HIDE DEF o
<1>8. Frame(r, i)
  BY <1>2, <1>3, <1>5, <1>6, <1>7 DEF Frame
<1> QED
  BY <1>2, <1>5, <1>8 DEF Answer, o, r

LEMMA AppendPayload ==
  ASSUME NEW q \in Seq(Byte), NEW f \in Seq(Byte), Len(f) > 0, f[1].start,
         NEW e \in 0..Len(q), Payload(q, 1, e)
  PROVE  Payload(q \o f, 1, e)
<1> DEFINE L == Len(q)
           r == q \o f
<1>1. /\ L \in Nat /\ Len(r) = L + Len(f) /\ Len(f) \in Nat
      /\ \A j \in 1..L : r[j] = q[j]
      /\ r[L + 1] = f[1]
  BY ConcatProperties, LenProperties
<1> HIDE DEF r
<1>2. ASSUME NEW j \in 1..e PROVE ~r[j].start
  <2>1. j \in 1..L
    BY <1>1
  <2> QED
    BY <1>1, <2>1 DEF Payload
<1>3. r[e + 1].start
  <2>1. CASE e = L
    BY <1>1, <2>1
  <2>2. CASE e < L
    <3>1. e + 1 \in 1..L
      BY <1>1, <2>2
    <3> QED
      BY <1>1, <2>2, <3>1 DEF Payload
  <2> QED
    BY <1>1, <2>1, <2>2
<1>4. Payload(r, 1, e)
  BY <1>2, <1>3 DEF Payload
<1> QED
  BY <1>4 DEF r

\* The message f is opcode o with a payload that fits, v its second byte.
Fits(f, o, v) ==
  /\ Len(f) > 0 /\ \A j \in 2..Len(f) : ~f[j].start
  /\ FromByte(f[1].val) = o
  /\ Len(f) - 1 = PayloadLen(o) + Extra(o, v)
  /\ o \in TwoByte => Len(f) >= 3 /\ f[3].val = v

LEMMA NewFrame ==
  ASSUME NEW q \in Seq(Byte), NEW f \in Seq(Byte), NEW o, NEW v, Fits(f, o, v)
  PROVE  /\ Frame(q \o f, Len(q) + 1)
         /\ OpAt(q \o f, Len(q) + 1) = o
         /\ Answer(q \o f, Len(q) + 1) = Expected(o, v)
<1> DEFINE L == Len(q)
           M == Len(f)
           r == q \o f
<1>0. /\ M > 0 /\ \A j \in 2..M : ~f[j].start
      /\ FromByte(f[1].val) = o
      /\ M - 1 = PayloadLen(o) + Extra(o, v)
      /\ o \in TwoByte => M >= 3 /\ f[3].val = v
  BY DEF Fits
<1>1. /\ L \in Nat /\ M \in Nat /\ M > 0 /\ Len(r) = L + M
      /\ \A j \in 1..M : r[L + j] = f[j]
  BY <1>0, ConcatProperties, LenProperties
<1> HIDE DEF r
<1>2. OpAt(r, L + 1) = o
  BY <1>0, <1>1 DEF OpAt
<1>3. o \in TwoByte => r[(L + 1) + 2].val = v
  <2>1. (L + 1) + 2 = L + 3
    BY <1>0, <1>1
  <2> QED
    BY <1>0, <1>1, <2>1
<1>4. Extra(o, r[(L + 1) + 2].val) = Extra(o, v) /\ Expected(o, r[(L + 1) + 2].val) = Expected(o, v)
  BY <1>3, Irrelevant
<1>5. Payload(r, (L + 1) + 1, L + M)
  <2>1. ASSUME NEW j \in ((L + 1) + 1)..(L + M) PROVE ~r[j].start
    <3>1. j - L \in 2..M /\ L + (j - L) = j
      BY <1>0, <1>1
    <3>2. r[j] = f[j - L]
      BY <1>0, <1>1, <3>1
    <3> QED
      BY <1>0, <3>1, <3>2
  <2> QED
    BY <1>0, <1>1, <2>1 DEF Payload
<1>6. L + M \in (L + 1)..Len(r) /\ (o \in TwoByte => (L + 1) + 2 <= L + M)
      /\ (L + M) - (L + 1) = M - 1
  BY <1>0, <1>1
<1>7. Frame(r, L + 1)
  BY <1>0, <1>2, <1>4, <1>5, <1>6 DEF Frame
<1> QED
  BY <1>2, <1>4, <1>7 DEF Answer, r

\* Only the first byte of f begins a command, and that is command c.
OneCommand(f, c) == f[1].start /\ f[1].cmd = c /\ \A j \in 2..Len(f) : ~f[j].start

\* A command that a driver sends is a frame behind what is under way.
LEMMA CommandFrame ==
  ASSUME NEW q \in Seq(Byte), NEW o \in Ops, NEW c \in 0..2, NEW p \in Seq(0..255),
         Len(p) = PayloadLen(o) + Extra(o, p[2]), o \in TwoByte => Len(p) >= 2,
         NEW f, f = CommandMsg(<<Opcode(o)>> \o p, c)
  PROVE  /\ f \in Seq(Byte) /\ Len(f) \in Nat /\ Len(f) > 0
         /\ OneCommand(f, c)
         /\ Frame(q \o f, Len(q) + 1)
         /\ OpAt(q \o f, Len(q) + 1) = o
         /\ Answer(q \o f, Len(q) + 1) = Expected(o, p[2])
<1>1. PICK b \in Seq(0..255) :
        /\ b = <<Opcode(o)>> \o p /\ Len(b) = 1 + Len(p) /\ b[1] = Opcode(o)
        /\ Len(p) >= 2 => b[3] = p[2]
  BY CommandBytes
<1>2. Len(p) \in Nat
  BY LenProperties
<1>3. f = CommandMsg(b, c)
  BY <1>1
<1>4. f \in Seq(Byte) /\ Len(f) = Len(b)
  BY <1>3, CommandMessage
<1>5. \A i \in 1..Len(b) : f[i].val = b[i] /\ f[i].cmd = c /\ (f[i].start <=> i = 1)
  BY <1>3, CommandMessage
<1>6. Len(f) \in Nat /\ Len(f) > 0 /\ Len(f) - 1 = PayloadLen(o) + Extra(o, p[2])
  BY <1>1, <1>2, <1>4
<1>7. f[1].start /\ f[1].cmd = c /\ f[1].val = b[1] /\ \A j \in 2..Len(f) : ~f[j].start
  <2>1. 1 \in 1..Len(b)
    BY <1>4, <1>6
  <2>2. f[1].start /\ f[1].cmd = c /\ f[1].val = b[1]
    BY <1>5, <2>1, Zenon
  <2>3. \A j \in 2..Len(f) : j \in 1..Len(b) /\ j # 1
    BY <1>4, <1>6
  <2>4. \A j \in 2..Len(f) : ~f[j].start
    BY <1>5, <2>3, Zenon
  <2> QED
    BY <2>2, <2>4
<1>8. FromByte(f[1].val) = o
  <2>1. f[1].val = Opcode(o)
    BY <1>1, <1>7, Zenon
  <2>2. FromByte(Opcode(o)) = o
    BY Decodes
  <2> QED
    BY <2>1, <2>2, Zenon
<1>9. o \in TwoByte => Len(f) >= 3 /\ f[3].val = p[2]
  <2> SUFFICES ASSUME o \in TwoByte PROVE Len(f) >= 3 /\ f[3].val = p[2]
    OBVIOUS
  <2>1. 3 \in 1..Len(b) /\ Len(f) >= 3
    BY <1>1, <1>2, <1>4
  <2> QED
    BY <1>1, <1>5, <2>1
<1> DEFINE v == p[2]
<1>10. Len(f) - 1 = PayloadLen(o) + Extra(o, v) /\ (o \in TwoByte => Len(f) >= 3 /\ f[3].val = v)
  BY <1>6, <1>9
<1> HIDE DEF v
<1>11. /\ Frame(q \o f, Len(q) + 1)
       /\ OpAt(q \o f, Len(q) + 1) = o
       /\ Answer(q \o f, Len(q) + 1) = Expected(o, v)
  <2>1. Fits(f, o, v)
    BY <1>6, <1>7, <1>8, <1>10 DEF Fits
  <2> QED
    BY <1>4, <2>1, NewFrame
<1> QED
  BY <1>4, <1>6, <1>7, <1>11 DEF v, OneCommand

----------------------------------------------------------------------------
(* The session's steps *)

LEMMA ByteFields ==
  ASSUME NEW b \in Byte
  PROVE  b.val \in Nat /\ b.cmd \in 0..2 /\ b.start \in BOOLEAN
<1>1. b.val \in 0..255 /\ b.cmd \in 0..2 /\ b.start \in BOOLEAN
  BY DEF Byte
<1>2. \A n \in 0..255 : n \in Nat
  OBVIOUS
<1> QED
  BY <1>1, <1>2

LEMMA SecondType ==
  ASSUME TypeInv, op \in TwoByte, need <= Len(up)
  PROVE  Second \in Nat
<1>1. CASE need = 0
  BY <1>1, SecondByte DEF Second
<1>2. CASE need # 0
  <2>1. need \in 1..Len(up) /\ up \in Seq(Byte)
    BY <1>2 DEF TypeInv, TypeOK, Byte
  <2>2. up[need] \in Byte
    BY <2>1, ElementOfSeq
  <2>3. up[need].val \in Nat
    BY <2>2, ByteFields
  <2>4. Second = up[need].val
    BY <1>2 DEF Second
  <2> QED
    BY <2>3, <2>4
<1> QED
  BY <1>1, <1>2

LEMMA Owed ==
  ASSUME TypeInv, op \in TwoByte => need <= Len(up)
  PROVE  Extra(op, Second) \in Nat /\ Due \in Nat
<1>1. CASE op \in TwoByte
  BY <1>1, SecondType, ExtraType, ExpectedType DEF Due
<1>2. CASE op \notin TwoByte
  <2>1. Extra(op, Second) = 0 /\ Expected(op, Second) = Expected(op, 0)
    BY <1>2, Irrelevant
  <2> QED
    BY <2>1, ExpectedType DEF Due
<1> QED
  BY <1>1, <1>2

\* Dispatch moves what the first command under way is owed to the line or to
\* the command being served.
LEMMA DispatchOwes ==
  ASSUME SyncInv, ReadOpcode
  PROVE  /\ op = "none" /\ ~Serving /\ up # <<>> /\ up[1].start /\ cmd' = up[1].cmd
         /\ Answer(up, 1) \in Nat
         /\ Rest' \in 0..Len(up') /\ Payload(up', 1, Rest')
         /\ op' \in TwoByte => need' <= Len(up')
         /\ op' # "ReadExSum"
         /\ Due' > 0 => op' = OpAt(up, 1) /\ Due' = Answer(up, 1) /\ UNCHANGED down
         /\ Due' = 0 => down' = down \o Repeat(Answer(up, 1), cmd')
         /\ OpAt(up, 1) \in Exs => Due' > 0
         /\ Due' \in Nat
<1>t. TypeOK
  BY DEF SyncInv, TypeInv
<1>0. up # <<>> /\ op = "none" /\ up' = Tail(up)
  BY DEF ReadOpcode
<1>1. /\ up \in Seq(Byte) /\ Len(up) \in Nat \ {0} /\ Head(up) = up[1] /\ up[1] \in Byte
      /\ up' \in Seq(Byte)
      /\ Len(up') = Len(up) - 1
      /\ \A i \in 1..(Len(up) - 1) : up'[i] = up[i + 1]
  BY <1>t, <1>0, HeadTail
<1> DEFINE o == FromByte(Head(up).val)
           k == CASE o = "Time" -> TimeLen [] o = "SerRead" -> 2 [] OTHER -> 0
<1>2. /\ op' = IF PayloadLen(o) = 0 THEN "none" ELSE o
      /\ need' = PayloadLen(o) /\ pay' = <<>> /\ UNCHANGED sumDue
      /\ cmd' = IF Head(up).start THEN Head(up).cmd ELSE NotACommand
      /\ down' = down \o Repeat(k, cmd')
  BY DEF ReadOpcode, guestVars
<1>3. OpAt(up, 1) = o
  BY <1>1 DEF OpAt
<1>4. o \in Ops \cup {"Unknown"}
  BY FromByteType
<1>k. /\ o = "Time" => k = 6
      /\ o = "SerRead" => k = 2
      /\ o \notin {"Time", "SerRead"} => k = 0
  BY DEF TimeLen
<1> HIDE DEF o, k
<1>5. ~Serving
  BY <1>0 DEF Serving, Due
<1>6. up[1].start
  BY <1>0, <1>1 DEF SyncInv, InStep, Rest, Payload
<1>7. cmd' = up[1].cmd
  BY <1>1, <1>2, <1>6
<1>8. PICK e \in 1..Len(up) :
        /\ Payload(up, 2, e)
        /\ o \in TwoByte => 3 <= e
        /\ e - 1 = PayloadLen(o) + Extra(o, up[3].val)
  <2>1. Frame(up, 1)
    BY <1>1, <1>6 DEF SyncInv, InStep
  <2>2. 1 + 1 = 2 /\ 1 + 2 = 3
    OBVIOUS
  <2> QED
    BY <1>3, <2>1, <2>2 DEF Frame
<1>9. o \in TwoByte => up'[2] = up[3] /\ up[3] \in Byte /\ Len(up') >= 2
  <2> SUFFICES ASSUME o \in TwoByte PROVE up'[2] = up[3] /\ up[3] \in Byte /\ Len(up') >= 2
    OBVIOUS
  <2>1. 3 \in 1..Len(up) /\ 2 \in 1..(Len(up) - 1) /\ 2 + 1 = 3
    BY <1>1, <1>8
  <2>2. up[3] \in Byte
    BY <1>1, <2>1, ElementOfSeq
  <2> QED
    BY <1>1, <2>1, <2>2
<1>10. Answer(up, 1) = Expected(o, up[3].val) /\ Answer(up, 1) \in Nat
  <2>1. Answer(up, 1) = Expected(o, up[3].val)
    <3>1. 1 + 2 = 3
      OBVIOUS
    <3> QED
      BY <1>3, <3>1 DEF Answer
  <2>2. CASE o \in TwoByte
    <3>1. up[3].val \in Nat
      BY <1>9, <2>2, ByteFields
    <3>2. Expected(o, up[3].val) \in Nat
      BY <3>1, ExpectedType
    <3> QED
      BY <2>1, <3>2
  <2>3. CASE o \notin TwoByte
    <3>1. Expected(o, up[3].val) = Expected(o, 0)
      BY <2>3, Irrelevant
    <3> QED
      BY <2>1, <3>1, ExpectedType
  <2> QED
    BY <2>1, <2>2, <2>3
<1>11. Payload(up', 1, e - 1)
  BY <1>1, <1>8, TailPayload
<1>12. op' # "ReadExSum"
  <2>1. "ReadExSum" \notin Ops \cup {"Unknown", "none"}
    BY OpBytes DEF Ops
  <2> QED
    BY <1>2, <1>4, <2>1
<1>13. o \in Exs => PayloadLen(o) # 0 /\ Expected(o, up[3].val) = SectorSize /\ SectorSize > 0
  BY SessionAssumption DEF Exs, PayloadLen, Expected
<1>14. CASE PayloadLen(o) = 0
  <2>1. o \notin TwoByte /\ o \notin Exs
    BY <1>14, PayloadLens DEF Exs
  <2>2. e - 1 = 0
    BY <1>8, <1>14, <2>1, Irrelevant
  <2>3. op' = "none" /\ Rest' = 0 /\ Due' = 0
    BY <1>2, <1>14 DEF Rest, Due
  <2>4. Expected(o, up[3].val) = k
    <3>1. CASE o \in {"Time", "SerRead"}
      BY <1>k, <3>1 DEF Expected
    <3>2. CASE o \notin {"Time", "SerRead"}
      <4>1. o \notin {"Read", "Reread", "ReadEx", "RereadEx", "Write", "Rewrite", "DwInit", "SerReadM"}
        BY <1>14, SessionAssumption DEF PayloadLen
      <4> QED
        BY <1>k, <3>2, <4>1 DEF Expected
    <3> QED
      BY <3>1, <3>2
  <2> QED
    BY <1>0, <1>1, <1>2, <1>3, <1>5, <1>6, <1>7, <1>10, <1>11, <1>12, <2>1, <2>2, <2>3, <2>4
       DEF TwoByte
<1>15. CASE PayloadLen(o) # 0
  <2>1. o \notin {"Time", "SerRead", "none", "ReadExSum", "Unknown"} /\ k = 0
    BY <1>15, <1>k, PayloadLens
  <2>2. op' = o /\ need' = PayloadLen(o)
    BY <1>2, <1>15
  <2>3. o \in TwoByte => need' = 2 /\ Second' = up[3].val
    BY <1>9, <2>2, PayloadLens DEF Second
  <2>4. Extra(o, Second') = Extra(o, up[3].val) /\ Expected(o, Second') = Expected(o, up[3].val)
    BY <2>3, Irrelevant
  <2>5. Rest' = e - 1
    BY <1>8, <2>1, <2>2, <2>4 DEF Rest, SumAwaited
  <2>6. Due' = Answer(up, 1)
    BY <1>10, <2>1, <2>2, <2>4 DEF Due, SumAwaited
  <2>7. down' = down \o Repeat(0, cmd') /\ down' = down
    <3>1. down \o Repeat(0, cmd') = down
      <4>1. Repeat(0, cmd') = <<>>
        BY DEF Repeat
      <4> QED
        BY <1>t, <4>1, ConcatEmptySeq DEF TypeOK
    <3> QED
      BY <1>2, <2>1, <3>1
  <2>8. e - 1 \in 0..Len(up')
    BY <1>1
  <2> QED
    BY <1>0, <1>1, <1>3, <1>5, <1>6, <1>7, <1>9, <1>10, <1>11, <1>12, <1>13,
       <2>2, <2>3, <2>5, <2>6, <2>7, <2>8
<1> QED
  BY <1>14, <1>15

\* What a reply adds to the bytes on their way to the guest.
LEMMA ReplyIs ==
  ASSUME TypeOK, NEW k \in Nat, NEW c \in 0..NotACommand
  PROVE  /\ Len(down \o Repeat(k, c)) = Len(down) + k
         /\ k = 0 => down \o Repeat(k, c) = down
         /\ down = <<>> => \A i \in 1..k : (down \o Repeat(k, c))[i] = c
<1>1. PICK r \in Seq(0..NotACommand) :
        r = Repeat(k, c) /\ Len(r) = k /\ \A i \in 1..k : r[i] = c
  <2>1. /\ Repeat(k, c) \in Seq(0..NotACommand)
        /\ Len(Repeat(k, c)) = k
        /\ \A i \in 1..k : Repeat(k, c)[i] = c
    BY RepeatIs
  <2> QED
    BY <2>1, Zenon
<1>2. down \in Seq(0..NotACommand)
  BY DEF TypeOK
<1>3. Len(down \o r) = Len(down) + Len(r)
  BY <1>2, ConcatProperties
<1>4. k = 0 => down \o r = down
  BY <1>1, <1>2, ConcatEmptySeq, EmptySeq
<1>5. down = <<>> => down \o r = r
  BY <1>1, ConcatEmptySeq
<1> QED
  BY <1>1, <1>3, <1>4, <1>5

\* Taking the first byte moves the commands behind it one place.
LEMMA TailIs ==
  ASSUME TypeOK, InStep, up # <<>>, up' = Tail(up)
  PROVE  /\ \A i \in 1..Len(up') : up'[i].start =>
              /\ up[i + 1].start
              /\ Frame(up', i)
              /\ OpAt(up', i) = OpAt(up, i + 1)
              /\ Answer(up', i) = Answer(up, i + 1)
              /\ up'[i].cmd = up[i + 1].cmd
         /\ \A i \in 1..Len(up') : Loud(i)' => Loud(i + 1)
         /\ (\A i \in 1..Len(up') : ~Loud(i)') /\ ~Loud(1) => \A i \in 1..Len(up) : ~Loud(i)
<1>1. /\ up \in Seq(Byte) /\ Len(up) \in Nat \ {0}
      /\ up' \in Seq(Byte)
      /\ Len(up') = Len(up) - 1
      /\ \A i \in 1..(Len(up) - 1) : up'[i] = up[i + 1]
  BY HeadTail
<1>2. \A i \in 1..Len(up') : up'[i].start =>
        /\ up[i + 1].start
        /\ Frame(up', i)
        /\ OpAt(up', i) = OpAt(up, i + 1)
        /\ Answer(up', i) = Answer(up, i + 1)
        /\ up'[i].cmd = up[i + 1].cmd
  <2> SUFFICES ASSUME NEW i \in 1..Len(up'), up'[i].start
               PROVE  /\ up[i + 1].start
                      /\ Frame(up', i)
                      /\ OpAt(up', i) = OpAt(up, i + 1)
                      /\ Answer(up', i) = Answer(up, i + 1)
                      /\ up'[i].cmd = up[i + 1].cmd
    OBVIOUS
  <2>1. i \in 1..(Len(up) - 1) /\ i + 1 \in 1..Len(up) /\ up'[i] = up[i + 1]
    BY <1>1
  <2>2. Frame(up, i + 1)
    BY <2>1 DEF InStep
  <2>3. Len(up) > 0
    BY <1>1
  <2> QED
    BY <1>1, <2>1, <2>2, <2>3, TailFrame
<1>3. \A i \in 1..Len(up') : Loud(i)' => Loud(i + 1)
  BY <1>2 DEF Loud
<1>4. ASSUME \A i \in 1..Len(up') : ~Loud(i)', ~Loud(1), NEW i \in 1..Len(up)
      PROVE  ~Loud(i)
  <2>1. CASE i = 1
    BY <1>4, <2>1
  <2>2. CASE i # 1
    <3>1. i - 1 \in 1..Len(up') /\ i - 1 \in 1..(Len(up) - 1) /\ (i - 1) + 1 = i
      BY <1>1, <2>2
    <3>2. ~Loud(i - 1)' /\ up'[i - 1] = up[i]
      BY <1>1, <1>4, <3>1
    <3>3. up'[i - 1].start => Answer(up', i - 1) = Answer(up, i)
      BY <1>2, <3>1
    <3> QED
      BY <3>2, <3>3 DEF Loud
  <2> QED
    BY <2>1, <2>2
<1> QED
  BY <1>2, <1>3, <1>4

LEMMA OpcodeStep == ASSUME SyncInv, ReadOpcode PROVE SyncInv'
<1>t. TypeOK /\ TypeInv'
  BY ReadTypes DEF SyncInv, TypeInv
<1>0. up # <<>> /\ up' = Tail(up) /\ UNCHANGED <<sent, waiting, sumDue>>
  BY DEF ReadOpcode, guestVars
<1>1. /\ up \in Seq(Byte) /\ Len(up) \in Nat \ {0} /\ up[1] \in Byte
      /\ up' \in Seq(Byte)
      /\ Len(up') = Len(up) - 1
      /\ \A i \in 1..(Len(up) - 1) : up'[i] = up[i + 1]
  BY <1>t, <1>0, HeadTail
<1>2. /\ op = "none" /\ ~Serving /\ up[1].start /\ cmd' = up[1].cmd
      /\ Answer(up, 1) \in Nat
      /\ Rest' \in 0..Len(up') /\ Payload(up', 1, Rest')
      /\ op' \in TwoByte => need' <= Len(up')
      /\ op' # "ReadExSum"
      /\ Due' > 0 => op' = OpAt(up, 1) /\ Due' = Answer(up, 1) /\ UNCHANGED down
      /\ Due' = 0 => down' = down \o Repeat(Answer(up, 1), cmd')
      /\ OpAt(up, 1) \in Exs => Due' > 0
      /\ Due' \in Nat
  BY DispatchOwes
<1>3. \A i \in 1..Len(up') : i + 1 \in 1..Len(up)
  BY <1>1
<1>4. \A i \in 1..Len(up') : up'[i].start =>
        /\ up[i + 1].start
        /\ Frame(up', i)
        /\ OpAt(up', i) = OpAt(up, i + 1)
        /\ Answer(up', i) = Answer(up, i + 1)
        /\ up'[i].cmd = up[i + 1].cmd
  BY <1>t, <1>0, TailIs DEF SyncInv
<1>5. InStep'
  BY <1>2, <1>4 DEF InStep
<1>6. \A i \in 1..Len(up') : Loud(i)' => Loud(i + 1)
  BY <1>t, <1>0, TailIs DEF SyncInv
<1>7. Loud(1) <=> Answer(up, 1) > 0
  BY <1>2 DEF Loud
<1>8. 1 \in 1..Len(up)
  BY <1>1
<1>9. Loud(1) => /\ \A i \in 1..Len(up') : ~up'[i].start
                 /\ down = <<>> /\ waiting = Answer(up, 1) /\ up[1].cmd = sent
                 /\ sumDue <=> OpAt(up, 1) \in Exs
  <2> SUFFICES ASSUME Loud(1)
               PROVE  /\ \A i \in 1..Len(up') : ~up'[i].start
                      /\ down = <<>> /\ waiting = Answer(up, 1) /\ up[1].cmd = sent
                      /\ sumDue <=> OpAt(up, 1) \in Exs
    OBVIOUS
  <2>1. /\ \A j \in 1..Len(up) : up[j].start => j <= 1
        /\ down = <<>> /\ waiting = Answer(up, 1) /\ up[1].cmd = sent
        /\ sumDue <=> OpAt(up, 1) \in Exs
    BY <1>8 DEF SyncInv, AskedLast
  <2> QED
    BY <1>3, <1>4, <2>1
<1>10. cmd' \in 0..NotACommand
  BY <1>t DEF TypeInv, TypeOK
<1>11. /\ Len(down \o Repeat(Answer(up, 1), cmd')) = Len(down) + Answer(up, 1)
       /\ Answer(up, 1) = 0 => down \o Repeat(Answer(up, 1), cmd') = down
       /\ down = <<>> => \A i \in 1..Answer(up, 1) : (down \o Repeat(Answer(up, 1), cmd'))[i] = cmd'
  BY <1>t, <1>2, <1>10, ReplyIs
<1>12. Serving' <=> Due' > 0
  BY <1>2 DEF Serving
<1>13. ~Loud(1) => Due' = 0 /\ UNCHANGED down /\ ~Serving'
  BY <1>2, <1>7, <1>11, <1>12
<1>14. AskedLast'
  <2> SUFFICES ASSUME NEW i \in 1..Len(up'), Loud(i)'
               PROVE  /\ \A j \in 1..Len(up') : up'[j].start => j <= i
                      /\ ~Serving'
                      /\ down' = <<>> /\ waiting' = Answer(up', i) /\ up'[i].cmd = sent'
                      /\ sumDue' <=> OpAt(up', i) \in Exs
    BY DEF AskedLast
  <2>1. up'[i].start /\ Loud(i + 1) /\ i + 1 \in 1..Len(up)
    BY <1>3, <1>6 DEF Loud
  <2>2. /\ \A j \in 1..Len(up) : up[j].start => j <= i + 1
        /\ down = <<>> /\ waiting = Answer(up, i + 1) /\ up[i + 1].cmd = sent
        /\ sumDue <=> OpAt(up, i + 1) \in Exs
    BY <2>1 DEF SyncInv, AskedLast
  <2>3. ~Loud(1)
    BY <1>9, <2>1
  <2>4. \A j \in 1..Len(up') : up'[j].start => j <= i
    BY <1>1, <1>3, <1>4, <2>2
  <2> QED
    BY <1>0, <1>4, <1>13, <2>1, <2>2, <2>3, <2>4
<1>15. ServedLast'
  <2> SUFFICES ASSUME Serving'
               PROVE  /\ Silent'
                      /\ cmd' = sent'
                      /\ waiting' = Len(down') + Due'
                      /\ down' = <<>>
                      /\ sumDue' <=> op' \in Exs
                      /\ ~SumAwaited'
    BY DEF ServedLast
  <2>1. Due' > 0 /\ Loud(1)
    BY <1>12, <1>13
  <2>2. Silent'
    BY <1>9, <2>1 DEF Silent
  <2>3. ~SumAwaited'
    BY <1>2 DEF SumAwaited
  <2> QED
    BY <1>0, <1>2, <1>9, <2>1, <2>2, <2>3
<1>16. AnsweredLast'
  <2> SUFFICES ASSUME ~Serving', \A i \in 1..Len(up') : ~Loud(i)'
               PROVE  waiting' = Len(down') /\ ~sumDue'
    BY DEF AnsweredLast
  <2>1. Due' = 0
    BY <1>2, <1>12
  <2>2. CASE Loud(1)
    BY <1>0, <1>2, <1>9, <1>11, <2>1, <2>2
  <2>3. CASE ~Loud(1)
    <3>1. \A i \in 1..Len(up) : ~Loud(i)
      BY <1>t, <1>0, <2>3, TailIs DEF SyncInv
    <3> QED
      BY <1>0, <1>2, <1>13, <2>3, <3>1 DEF SyncInv, AnsweredLast
  <2> QED
    BY <2>2, <2>3
<1>17. Ours'
  <2>1. CASE Loud(1) /\ Due' = 0
    BY <1>0, <1>2, <1>9, <1>11, <2>1 DEF Ours
  <2>2. CASE Loud(1) /\ Due' > 0
    BY <1>0, <1>2, <2>2 DEF SyncInv, Ours
  <2>3. CASE ~Loud(1)
    BY <1>0, <1>13, <2>3 DEF SyncInv, Ours
  <2> QED
    BY <1>2, <2>1, <2>2, <2>3
<1> QED
  BY <1>t, <1>5, <1>14, <1>15, <1>16, <1>17 DEF SyncInv

\* A payload byte brings the handler one byte nearer to its end, and leaves
\* what it owes.
LEMMA PayloadOwes ==
  ASSUME SyncInv, ReadPayload
  PROVE  /\ ~SumAwaited /\ ~SumAwaited'
         /\ Rest \in 1..Len(up) /\ Rest' = Rest - 1 /\ Due' = Due
         /\ op \in TwoByte => need' <= Len(up')
<1>t. TypeOK /\ HeaderRead
  BY DEF SyncInv, TypeInv
<1>0. /\ up # <<>> /\ up' = Tail(up) /\ op # "none" /\ need > 0 /\ need' = need - 1
      /\ pay' = IF Len(pay) < 2 THEN Append(pay, Head(up).val) ELSE pay
      /\ UNCHANGED <<op, sumDue>>
  BY DEF ReadPayload, guestVars
<1>1. /\ up \in Seq(Byte) /\ Len(up) \in Nat \ {0} /\ Head(up) = up[1] /\ up[1] \in Byte
      /\ Len(up') = Len(up) - 1
      /\ \A i \in 1..(Len(up) - 1) : up'[i] = up[i + 1]
  BY <1>t, <1>0, HeadTail
<1>2. ~SumAwaited /\ ~SumAwaited'
  BY <1>0 DEF SyncInv, ServedLast, Serving, SumAwaited
<1>3. need \in Nat /\ pay \in Seq(0..255) /\ Len(pay) \in Nat
  BY <1>t DEF TypeOK
<1>4. op \in TwoByte => /\ Len(pay) + need = 2 /\ need <= Len(up)
                        /\ Second' = Second /\ Second \in Nat
  <2> SUFFICES ASSUME op \in TwoByte
               PROVE  /\ Len(pay) + need = 2 /\ need <= Len(up)
                      /\ Second' = Second /\ Second \in Nat
    OBVIOUS
  <2>1. Len(pay) + need = 2 /\ need <= Len(up)
    BY <1>t DEF HeaderRead, SyncInv, InStep
  <2>2. CASE need = 1
    <3>0. need' = need - 1
      BY <1>0
    <3>a. Len(pay) \in Nat /\ Len(pay) + 1 = 2
      BY <1>3, <2>1, <2>2
    <3>b. need' = 0
      BY <2>2, <3>0
    <3>c. \A n \in Nat : n + 1 = 2 => n = 1
      OBVIOUS
    <3>1. Len(pay) = 1 /\ need' = 0
      BY <3>a, <3>b, <3>c, Zenon
    <3>2. up[1].val \in 0..255 /\ up[1].val \in Nat
      BY <1>1, ByteFields DEF Byte
    <3>3. pay' = Append(pay, up[1].val)
      BY <1>0, <1>1, <3>1
    <3>4. Append(pay, up[1].val)[2] = up[1].val
      <4>1. Append(pay, up[1].val)[Len(pay) + 1] = up[1].val
        BY <1>3, <3>2, AppendProperties
      <4> QED
        BY <3>1, <4>1
    <3>5. Second = up[1].val /\ Second' = pay'[2]
      BY <2>2, <3>1 DEF Second
    <3> QED
      BY <2>1, <3>2, <3>3, <3>4, <3>5
  <2>3. CASE need = 2
    <3>1. need' = 1 /\ 1 \in 1..(Len(up) - 1) /\ 1 + 1 = 2 /\ 2 \in 1..Len(up)
      BY <1>0, <1>1, <2>1, <2>3
    <3>2. up'[1] = up[2] /\ up[2] \in Byte
      BY <1>1, <3>1, ElementOfSeq
    <3>3. up[2].val \in Nat
      BY <3>2, ByteFields
    <3> QED
      BY <2>1, <2>3, <3>1, <3>2, <3>3 DEF Second
  <2> QED
    BY <1>0, <1>3, <2>1, <2>2, <2>3
<1>5. Extra(op, Second') = Extra(op, Second) /\ Expected(op, Second') = Expected(op, Second)
  BY <1>4, Irrelevant
<1>6. Extra(op, Second) \in Nat
  BY <1>4, Irrelevant, ExtraType
<1>7. Rest = need + Extra(op, Second) /\ Rest' = need' + Extra(op, Second')
  BY <1>0, <1>2 DEF Rest
<1>8. Rest' = Rest - 1 /\ Rest > 0
  BY <1>0, <1>3, <1>5, <1>6, <1>7
<1>9. Due' = Due
  BY <1>0, <1>2, <1>5 DEF Due
<1>10. Rest \in 1..Len(up)
  BY <1>8 DEF SyncInv, InStep
<1>11. op \in TwoByte => need' <= Len(up')
  BY <1>0, <1>1, <1>3, <1>4
<1> QED
  BY <1>2, <1>8, <1>9, <1>10, <1>11

LEMMA PayloadStep == ASSUME SyncInv, ReadPayload PROVE SyncInv'
<1>t. TypeOK /\ TypeInv' /\ InStep
  BY ReadTypes DEF SyncInv, TypeInv
<1>0. up # <<>> /\ up' = Tail(up) /\ UNCHANGED <<down, op, cmd, sent, waiting, sumDue>>
  BY DEF ReadPayload, guestVars
<1>1. /\ up \in Seq(Byte) /\ Len(up) \in Nat \ {0}
      /\ up' \in Seq(Byte)
      /\ Len(up') = Len(up) - 1
      /\ \A i \in 1..(Len(up) - 1) : up'[i] = up[i + 1]
  BY <1>t, <1>0, HeadTail
<1>2. /\ ~SumAwaited /\ ~SumAwaited'
      /\ Rest \in 1..Len(up) /\ Rest' = Rest - 1 /\ Due' = Due
      /\ op \in TwoByte => need' <= Len(up')
  BY PayloadOwes
<1>3. Serving' <=> Serving
  BY <1>0, <1>2 DEF Serving
<1>4. /\ \A i \in 1..Len(up') : up'[i].start =>
           /\ up[i + 1].start
           /\ Frame(up', i)
           /\ OpAt(up', i) = OpAt(up, i + 1)
           /\ Answer(up', i) = Answer(up, i + 1)
           /\ up'[i].cmd = up[i + 1].cmd
      /\ \A i \in 1..Len(up') : Loud(i)' => Loud(i + 1)
      /\ (\A i \in 1..Len(up') : ~Loud(i)') /\ ~Loud(1) => \A i \in 1..Len(up) : ~Loud(i)
  BY <1>t, <1>0, TailIs
<1>5. ~Loud(1)
  BY <1>1, <1>2, <1>t DEF InStep, Payload, Loud
<1>6. InStep'
  <2>1. Payload(up, 1, Rest)
    BY <1>t DEF InStep
  <2>2. Payload(up', 1, Rest')
    <3>1. Len(up) > 0
      BY <1>1
    <3> QED
      BY <1>1, <1>2, <2>1, <3>1, TailPayload
  <2>3. Rest' \in 0..Len(up')
    BY <1>1, <1>2
  <2> QED
    BY <1>0, <1>2, <1>4, <2>2, <2>3 DEF InStep
<1>7. AskedLast'
  <2> SUFFICES ASSUME NEW i \in 1..Len(up'), Loud(i)'
               PROVE  /\ \A j \in 1..Len(up') : up'[j].start => j <= i
                      /\ ~Serving'
                      /\ down' = <<>> /\ waiting' = Answer(up', i) /\ up'[i].cmd = sent'
                      /\ sumDue' <=> OpAt(up', i) \in Exs
    BY DEF AskedLast
  <2>1. up'[i].start /\ Loud(i + 1) /\ i + 1 \in 1..Len(up)
    BY <1>1, <1>4 DEF Loud
  <2>2. /\ \A j \in 1..Len(up) : up[j].start => j <= i + 1
        /\ ~Serving
        /\ down = <<>> /\ waiting = Answer(up, i + 1) /\ up[i + 1].cmd = sent
        /\ sumDue <=> OpAt(up, i + 1) \in Exs
    BY <2>1 DEF SyncInv, AskedLast
  <2>3. \A j \in 1..Len(up') : up'[j].start => j <= i
    BY <1>1, <1>4, <2>2
  <2> QED
    BY <1>0, <1>3, <1>4, <2>1, <2>2, <2>3
<1>8. ServedLast'
  <2> SUFFICES ASSUME Serving'
               PROVE  /\ Silent'
                      /\ cmd' = sent'
                      /\ waiting' = Len(down') + Due'
                      /\ Due' > 0 => down' = <<>>
                      /\ op' # "ReadExSum" => (sumDue' <=> op' \in Exs)
                      /\ ~SumAwaited'
    BY DEF ServedLast
  <2>1. Silent'
    BY <1>1, <1>3, <1>4 DEF SyncInv, ServedLast, Silent
  <2> QED
    BY <1>0, <1>2, <1>3, <2>1 DEF SyncInv, ServedLast
<1>9. AnsweredLast'
  BY <1>0, <1>3, <1>4, <1>5 DEF SyncInv, AnsweredLast
<1>10. Ours'
  BY <1>0 DEF SyncInv, Ours
<1> QED
  BY <1>t, <1>6, <1>7, <1>8, <1>9, <1>10 DEF SyncInv

\* A handler that returns has read all its bytes, and has answered what it
\* owed.
LEMMA HandlerDone ==
  ASSUME SyncInv, TypeInv', NEW ops, PayloadRead(ops), Done,
         op \notin Exs, Extra(op, Second) = 0,
         down' = down \o Repeat(Due, cmd)
  PROVE  SyncInv'
<1>1. /\ need = 0 /\ op' = "none" /\ need' = 0
      /\ UNCHANGED <<up, cmd, sent, waiting, sumDue>>
  BY DEF PayloadRead, Done, guestVars
<1>2. ~SumAwaited
  BY <1>1 DEF SyncInv, ServedLast, Serving, SumAwaited
<1>3. Rest = 0 /\ Rest' = 0 /\ Due' = 0 /\ ~Serving'
  BY <1>1, <1>2 DEF Rest, Due, Serving
<1>4. Due \in Nat /\ cmd \in 0..NotACommand /\ TypeOK
  BY Owed DEF SyncInv, InStep, TypeInv, TypeOK
<1>5. /\ Len(down') = Len(down) + Due
      /\ Due = 0 => down' = down
      /\ down = <<>> => \A i \in 1..Due : down'[i] = cmd
  BY <1>4, ReplyIs
<1>6. down \in Seq(0..NotACommand) /\ Len(down) \in Nat
  BY <1>4 DEF TypeOK
<1>7. InStep'
  BY <1>1, <1>3 DEF SyncInv, InStep, TwoByte
<1>8. Serving \/ Due = 0
  BY <1>4 DEF Serving
<1>9. AskedLast'
  BY <1>1, <1>3, <1>5, <1>8 DEF SyncInv, AskedLast, Loud
<1>10. ServedLast'
  BY <1>3 DEF ServedLast
<1>11. AnsweredLast'
  <2> SUFFICES ASSUME \A i \in 1..Len(up) : ~Loud(i) PROVE waiting = Len(down') /\ ~sumDue
    BY <1>1 DEF AnsweredLast, Loud
  <2>1. CASE Serving
    BY <1>2, <1>5, <2>1 DEF SyncInv, ServedLast, SumAwaited
  <2>2. CASE ~Serving
    BY <1>5, <1>8, <2>2 DEF SyncInv, AnsweredLast
  <2> QED
    BY <2>1, <2>2
<1>12. Ours'
  <2>1. CASE Due = 0
    BY <1>1, <1>5, <2>1 DEF SyncInv, Ours
  <2>2. CASE Due > 0
    <3>1. down = <<>> /\ cmd = sent /\ Len(down) = 0
      BY <1>8, <2>2 DEF SyncInv, ServedLast
    <3>2. Len(down') = Due
      BY <1>4, <1>5, <3>1
    <3> QED
      BY <1>1, <1>5, <3>1, <3>2 DEF Ours
  <2> QED
    BY <1>4, <2>1, <2>2
<1> QED
  BY <1>7, <1>9, <1>10, <1>11, <1>12 DEF SyncInv

\* A handler without a reply that reads on is owed as many bytes as before.
LEMMA HandlerGoesOn ==
  ASSUME SyncInv, TypeInv', NEW ops, PayloadRead(ops), UNCHANGED down,
         op \in {"SerWriteM", "SerSetStat"}, NEW o \in {"SerWriteMBody", "ComStBody"},
         ReadMore(o, Extra(op, Second))
  PROVE  SyncInv'
<1>1. /\ need = 0 /\ op' = o /\ need' = Extra(op, Second)
      /\ UNCHANGED <<up, cmd, sent, waiting, sumDue>>
  BY DEF PayloadRead, ReadMore, guestVars
<1>2. Extra(op, Second) \in Nat
  BY Owed DEF SyncInv, InStep
<1>3. Extra(o, Second') = 0 /\ Expected(o, Second') = 0 /\ Expected(op, Second) = 0
  BY DEF Extra, Expected
<1>4. ~SumAwaited /\ ~SumAwaited'
  BY <1>1 DEF SumAwaited
<1>5. Rest = Extra(op, Second) /\ Rest' = need' + Extra(o, Second')
  BY <1>1, <1>2, <1>4 DEF Rest
<1>6. Rest' = Rest
  BY <1>1, <1>2, <1>3, <1>5
<1>7. Due = 0 /\ Due' = 0
  BY <1>1, <1>3, <1>4 DEF Due
<1>8. ~Serving /\ ~Serving'
  BY <1>1, <1>7 DEF Serving
<1>9. InStep'
  BY <1>1, <1>6 DEF SyncInv, InStep, TwoByte
<1>10. AskedLast' /\ ServedLast' /\ AnsweredLast' /\ Ours'
  BY <1>1, <1>8 DEF SyncInv, AskedLast, ServedLast, AnsweredLast, Ours, Loud
<1> QED
  BY <1>9, <1>10 DEF SyncInv

\* The sector of a READEX: the handler goes on to read the checksum of a guest
\* that has nothing else under way.
LEMMA SectorSent ==
  ASSUME SyncInv, TypeInv', PayloadRead(Exs), WriteAll(SectorSize), ReadMore("ReadExSum", 2)
  PROVE  SyncInv'
<1>1. /\ need = 0 /\ op \in Exs /\ op' = "ReadExSum" /\ need' = 2
      /\ down' = down \o Repeat(SectorSize, cmd)
      /\ UNCHANGED <<up, cmd, sent, waiting, sumDue>>
  BY DEF PayloadRead, ReadMore, WriteAll, guestVars
<1>2. op # "none" /\ op # "ReadExSum" /\ Extra(op, Second) = 0 /\ Expected(op, Second) = SectorSize
  BY <1>1 DEF Exs, Extra, Expected
<1>3. Rest = 0 /\ Due = SectorSize /\ SectorSize \in Nat /\ SectorSize > 0
  BY <1>1, <1>2, SessionAssumption DEF Rest, Due, SumAwaited
<1>4. Silent /\ cmd = sent /\ waiting = Len(down) + SectorSize /\ down = <<>> /\ sumDue
  BY <1>1, <1>2, <1>3 DEF SyncInv, ServedLast, Serving
<1>5. up = <<>> /\ Len(up) = 0
  <2>1. up \in Seq(Byte) /\ Len(up) \in Nat
    BY DEF SyncInv, TypeInv, TypeOK, Byte
  <2>2. ASSUME Len(up) > 0 PROVE FALSE
    <3>1. up[1].start
      BY <1>3, <2>2 DEF SyncInv, InStep, Payload
    <3> QED
      BY <1>4, <2>1, <2>2, <3>1 DEF Silent
  <2> QED
    BY <2>1, <2>2, EmptySeq
<1>6. SumAwaited' /\ Rest' = 0 /\ Due' = 0 /\ Serving'
  BY <1>1, <1>4 DEF SumAwaited, Rest, Due, Serving
<1>7. TypeOK /\ cmd \in 0..NotACommand
  BY DEF SyncInv, TypeInv, TypeOK
<1>8. Len(down') = SectorSize /\ \A i \in 1..SectorSize : down'[i] = cmd
  <2>1. /\ Len(down') = Len(down) + SectorSize
        /\ \A i \in 1..SectorSize : down'[i] = cmd
    BY <1>1, <1>3, <1>4, <1>7, ReplyIs
  <2>2. Len(down) = 0
    BY <1>4
  <2> QED
    BY <1>3, <2>1, <2>2
<1>9. InStep'
  BY <1>1, <1>5, <1>6 DEF InStep, Payload, TwoByte
<1>10. AskedLast' /\ AnsweredLast'
  BY <1>1, <1>5, <1>6 DEF AskedLast, AnsweredLast
<1>11. ServedLast'
  <2>1. Silent'
    BY <1>1, <1>4 DEF Silent
  <2>2. waiting' = Len(down') + Due'
    <3>1. Len(down) = 0
      BY <1>4
    <3> QED
      BY <1>1, <1>3, <1>4, <1>6, <1>8, <3>1
  <2> QED
    BY <1>1, <1>4, <1>5, <1>6, <2>1, <2>2 DEF ServedLast
<1>12. Ours'
  BY <1>1, <1>4, <1>8 DEF Ours
<1> QED
  BY <1>9, <1>10, <1>11, <1>12 DEF SyncInv

LEMMA HandlerStep ==
  ASSUME SyncInv,
         \/ HandleRead \/ HandleReadEx \/ HandleWrite \/ HandleDwInit \/ HandleSilent
         \/ HandleSerReadM \/ HandleSerWriteM \/ HandleSerSetStat
  PROVE  SyncInv'
<1>t. TypeInv /\ TypeInv' /\ TypeOK /\ cmd \in 0..NotACommand
  BY HandlerTypes DEF SyncInv, TypeInv, TypeOK
<1>0. UNCHANGED down => down' = down \o Repeat(0, cmd)
  BY <1>t, ReplyIs
<1>s. op # "ReadExSum" => ~SumAwaited
  BY DEF SumAwaited
<1>1. CASE HandleRead
  <2>1. PayloadRead({"Read", "Reread"}) /\ Done /\ down' = down \o Repeat(SectorSize + 2, cmd)
    BY <1>1 DEF HandleRead, WriteAll
  <2>2. op \in {"Read", "Reread"}
    BY <2>1 DEF PayloadRead
  <2>3. op \notin Exs /\ Extra(op, Second) = 0 /\ Due = SectorSize + 2
    BY <1>s, <2>2 DEF Exs, Extra, Due, Expected
  <2> QED
    BY <1>t, <2>1, <2>3, HandlerDone
<1>2. CASE HandleReadEx
  <2>1. CASE PayloadRead(Exs) /\ WriteAll(SectorSize) /\ ReadMore("ReadExSum", 2)
    BY <1>t, <2>1, SectorSent
  <2>2. CASE PayloadRead({"ReadExSum"}) /\ WriteAll(1) /\ Done
    <3>1. op = "ReadExSum" /\ need = 0
      BY <2>2 DEF PayloadRead
    <3>2. ~SumAwaited
      BY <3>1 DEF SyncInv, ServedLast, Serving, SumAwaited
    <3>3. op \notin Exs /\ Extra(op, Second) = 0 /\ Due = 1
      BY <3>1, <3>2 DEF Exs, Extra, Due
    <3>4. down' = down \o Repeat(1, cmd)
      BY <2>2 DEF WriteAll
    <3> QED
      BY <1>t, <2>2, <3>3, <3>4, HandlerDone
  <2> QED
    BY <1>2, <2>1, <2>2 DEF HandleReadEx, Exs
<1>3. CASE HandleWrite
  <2>1. PayloadRead({"Write", "Rewrite"}) /\ Done /\ down' = down \o Repeat(1, cmd)
    BY <1>3 DEF HandleWrite, WriteAll
  <2>2. op \in {"Write", "Rewrite"}
    BY <2>1 DEF PayloadRead
  <2>3. op \notin Exs /\ Extra(op, Second) = 0 /\ Due = 1
    BY <1>s, <2>2 DEF Exs, Extra, Due, Expected
  <2> QED
    BY <1>t, <2>1, <2>3, HandlerDone
<1>4. CASE HandleDwInit
  <2>1. PayloadRead({"DwInit"}) /\ Done /\ down' = down \o Repeat(1, cmd)
    BY <1>4 DEF HandleDwInit, WriteAll
  <2>2. op = "DwInit"
    BY <2>1 DEF PayloadRead
  <2>3. op \notin Exs /\ Extra(op, Second) = 0 /\ Due = 1
    BY <1>s, <2>2 DEF Exs, Extra, Due, Expected
  <2> QED
    BY <1>t, <2>1, <2>3, HandlerDone
<1>5. CASE HandleSilent
  <2>1. PayloadRead({"GetStat", "SetStat", "OpPrint", "SerInit", "SerTerm", "SerWrite",
                     "SerGetStat", "FastWrite"}) /\ Done /\ down' = down \o Repeat(0, cmd)
    BY <1>0, <1>5 DEF HandleSilent
  <2>2. op \in {"GetStat", "SetStat", "OpPrint", "SerInit", "SerTerm", "SerWrite",
                "SerGetStat", "FastWrite"}
    BY <2>1 DEF PayloadRead
  <2>3. op \notin Exs /\ Extra(op, Second) = 0 /\ Due = 0
    BY <1>s, <2>2 DEF Exs, Extra, Due, Expected
  <2> QED
    BY <1>t, <2>1, <2>3, HandlerDone
<1>6. CASE HandleSerReadM
  <2>1. PayloadRead({"SerReadM"}) /\ Done /\ down' = down \o Repeat(pay[2], cmd)
    BY <1>6 DEF HandleSerReadM, WriteAll
  <2>2. op = "SerReadM" /\ need = 0
    BY <2>1 DEF PayloadRead
  <2>3. op \notin Exs /\ Extra(op, Second) = 0 /\ Due = pay[2]
    BY <1>s, <2>2 DEF Exs, Extra, Due, Expected, Second
  <2> QED
    BY <1>t, <2>1, <2>3, HandlerDone
<1>7. CASE HandleSerWriteM
  <2>1. CASE PayloadRead({"SerWriteM"}) /\ ReadMore("SerWriteMBody", pay[2]) /\ UNCHANGED down
    <3>1. op = "SerWriteM" /\ need = 0
      BY <2>1 DEF PayloadRead
    <3>2. Extra(op, Second) = pay[2]
      BY <3>1 DEF Extra, Second
    <3> QED
      BY <1>t, <2>1, <3>1, <3>2, HandlerGoesOn
  <2>2. CASE PayloadRead({"SerWriteMBody"}) /\ Done /\ UNCHANGED down
    <3>1. op = "SerWriteMBody"
      BY <2>2 DEF PayloadRead
    <3>2. op \notin Exs /\ Extra(op, Second) = 0 /\ Due = 0
      BY <1>s, <3>1 DEF Exs, Extra, Due, Expected
    <3> QED
      BY <1>t, <1>0, <2>2, <3>2, HandlerDone
  <2> QED
    BY <1>7, <2>1, <2>2 DEF HandleSerWriteM
<1>8. CASE HandleSerSetStat
  <2>1. CASE /\ PayloadRead({"SerSetStat"}) /\ pay[2] = ComSt
             /\ ReadMore("ComStBody", ComStLen) /\ UNCHANGED down
    <3>1. op = "SerSetStat" /\ need = 0
      BY <2>1 DEF PayloadRead
    <3>2. Extra(op, Second) = ComStLen
      BY <2>1, <3>1 DEF Extra, Second
    <3> QED
      BY <1>t, <2>1, <3>1, <3>2, HandlerGoesOn
  <2>2. CASE PayloadRead({"SerSetStat"}) /\ pay[2] # ComSt /\ Done /\ UNCHANGED down
    <3>1. op = "SerSetStat" /\ need = 0
      BY <2>2 DEF PayloadRead
    <3>2. op \notin Exs /\ Extra(op, Second) = 0 /\ Due = 0
      BY <1>s, <2>2, <3>1 DEF Exs, Extra, Second, Due, Expected
    <3> QED
      BY <1>t, <1>0, <2>2, <3>2, HandlerDone
  <2>3. CASE PayloadRead({"ComStBody"}) /\ Done /\ UNCHANGED down
    <3>1. op = "ComStBody"
      BY <2>3 DEF PayloadRead
    <3>2. op \notin Exs /\ Extra(op, Second) = 0 /\ Due = 0
      BY <1>s, <3>1 DEF Exs, Extra, Due, Expected
    <3> QED
      BY <1>t, <1>0, <2>3, <3>2, HandlerDone
  <2> QED
    BY <1>8, <2>1, <2>2, <2>3 DEF HandleSerSetStat
<1> QED
  BY <1>1, <1>2, <1>3, <1>4, <1>5, <1>6, <1>7, <1>8

----------------------------------------------------------------------------
(* The guest's steps *)

\* A guest that waits for nothing, and has no checksum to send, has nothing
\* with a reply under way.
LEMMA Idle ==
  ASSUME SyncInv, waiting = 0, ~sumDue
  PROVE  /\ \A i \in 1..Len(up) : ~Loud(i)
         /\ ~Serving /\ op # "ReadExSum" /\ Due = 0
         /\ down = <<>>
<1>1. Due \in Nat
  BY Owed DEF SyncInv, InStep
<1>2. down \in Seq(0..NotACommand) /\ Len(down) \in Nat
  BY DEF SyncInv, TypeInv, TypeOK
<1>3. Due = 0
  BY <1>1, <1>2 DEF SyncInv, ServedLast, Serving
<1>4. op # "ReadExSum" /\ ~Serving
  BY <1>3 DEF Due, SumAwaited, Serving
<1>5. \A i \in 1..Len(up) : ~Loud(i)
  BY DEF SyncInv, AskedLast, Loud
<1>6. down = <<>>
  BY <1>2, <1>4, <1>5, EmptySeq DEF SyncInv, AnsweredLast
<1> QED
  BY <1>3, <1>4, <1>5, <1>6

LEMMA SyncUnchanged ==
  ASSUME SyncInv, TypeInv', UNCHANGED <<up, down, op, cmd, need, pay, sent, waiting, sumDue>>
  PROVE  SyncInv'
<1>1. Second' = Second /\ SumAwaited' = SumAwaited
  BY DEF Second, SumAwaited
<1>2. Rest' = Rest /\ Due' = Due
  BY <1>1 DEF Rest, Due
<1>3. Serving' = Serving
  BY <1>2 DEF Serving
<1>4. \A i : Loud(i)' = Loud(i)
  BY DEF Loud
<1>5. InStep'
  BY <1>2 DEF SyncInv, InStep
<1>6. AskedLast' /\ AnsweredLast' /\ Ours'
  BY <1>3, <1>4 DEF SyncInv, AskedLast, AnsweredLast, Ours
<1>7. ServedLast'
  BY <1>1, <1>2, <1>3 DEF SyncInv, ServedLast, Silent
<1> QED
  BY <1>5, <1>6, <1>7 DEF SyncInv

LEMMA ReadsStep == ASSUME SyncInv, GuestReads PROVE SyncInv'
<1>t. TypeInv'
  BY GuestTypes DEF SyncInv, Guest
<1>1. /\ waiting > 0 /\ down # <<>> /\ down' = Tail(down) /\ waiting' = waiting - 1
      /\ UNCHANGED <<up, op, cmd, need, pay, sent, sumDue>>
  BY DEF GuestReads, serverVars
<1>2. down \in Seq(0..NotACommand) /\ waiting \in Nat /\ Due \in Nat
  BY Owed DEF SyncInv, InStep, TypeInv, TypeOK
<1>3. /\ Len(down) \in Nat \ {0} /\ Len(down') = Len(down) - 1
      /\ \A i \in 1..Len(down') : down'[i] = down[i + 1] /\ i + 1 \in 1..Len(down)
  <2>1. /\ Len(down) \in Nat \ {0} /\ Len(Tail(down)) = Len(down) - 1
        /\ \A i \in 1..(Len(down) - 1) : Tail(down)[i] = down[i + 1]
    BY <1>1, <1>2, EmptySeq, HeadTailProperties
  <2> QED
    BY <1>1, <2>1
<1>4. Second' = Second /\ SumAwaited' = SumAwaited
  BY <1>1 DEF Second, SumAwaited
<1>5. Rest' = Rest /\ Due' = Due
  BY <1>1, <1>4 DEF Rest, Due
<1>6. Serving' = Serving
  BY <1>1, <1>5 DEF Serving
<1>7. \A i \in 1..Len(up) : ~Loud(i) /\ ~Loud(i)'
  BY <1>1 DEF SyncInv, AskedLast, Loud
<1>8. InStep'
  BY <1>1, <1>5 DEF SyncInv, InStep
<1>9. AskedLast' /\ AnsweredLast'
  BY <1>1, <1>2, <1>3, <1>6, <1>7 DEF SyncInv, AskedLast, AnsweredLast
<1>10. ServedLast'
  BY <1>1, <1>2, <1>3, <1>4, <1>5, <1>6 DEF SyncInv, ServedLast, Silent
<1>11. Ours'
  BY <1>1, <1>3 DEF SyncInv, Ours
<1> QED
  BY <1>t, <1>8, <1>9, <1>10, <1>11 DEF SyncInv

\* The checksum of a sector is all there is under way, and goes to the handler
\* that waits for it.
LEMMA SumStep == ASSUME SyncInv, GuestSum PROVE SyncInv'
<1>t. TypeInv' /\ TypeOK
  BY GuestTypes DEF SyncInv, TypeInv, Guest
<1>1. /\ waiting = 0 /\ sumDue /\ ~sumDue' /\ waiting' = 1
      /\ UNCHANGED <<down, op, cmd, need, pay, sent>>
  BY DEF GuestSum, serverVars
<1>2. Due \in Nat /\ down \in Seq(0..NotACommand) /\ Len(down) \in Nat
  BY Owed DEF SyncInv, InStep, TypeInv, TypeOK
<1>3. \A i \in 1..Len(up) : ~Loud(i)
  BY <1>1 DEF SyncInv, AskedLast, Loud
<1>4. Serving
  BY <1>1, <1>3 DEF SyncInv, AnsweredLast
<1>5. Due = 0 /\ Len(down) = 0
  BY <1>1, <1>2, <1>4 DEF SyncInv, ServedLast
<1>6. op = "ReadExSum" /\ need = 2 /\ up = <<>> /\ cmd = sent /\ down = <<>>
  <2>1. op = "ReadExSum"
    BY <1>4, <1>5 DEF Serving
  <2>2. SumAwaited
    BY <1>1, <2>1 DEF SumAwaited
  <2> QED
    BY <1>2, <1>4, <1>5, <2>1, <2>2, EmptySeq DEF SyncInv, ServedLast
<1>7. PICK v \in PayloadBytes : Send(<<v, v>>, sent, FALSE)
  BY DEF GuestSum
<1>8. <<v, v>> \in Seq(0..255) /\ Len(<<v, v>>) = 2 /\ sent \in 0..2
  BY <1>t, SessionAssumption DEF TypeOK
<1> DEFINE m == SumMsg(<<v, v>>, sent)
<1>9. m \in Seq(Byte) /\ Len(m) = 2 /\ \A i \in 1..2 : ~m[i].start
  <2>1. PICK vals \in Seq(0..255) : vals = <<v, v>> /\ Len(vals) = 2
    BY <1>8
  <2>2. /\ SumMsg(vals, sent) \in Seq(Byte)
        /\ Len(SumMsg(vals, sent)) = Len(vals)
        /\ \A i \in 1..Len(vals) : ~SumMsg(vals, sent)[i].start
    BY <1>8, SumMessage
  <2> QED
    BY <2>1, <2>2
<1>10. up' = up \o m
  BY <1>t, <1>7, <1>8, SendIs DEF SumMsg
<1> HIDE DEF m
<1>11. up' = m
  BY <1>6, <1>9, <1>10, ConcatEmptySeq
<1>12. Silent' /\ Len(up') = 2
  BY <1>9, <1>11 DEF Silent
<1>13. ~SumAwaited' /\ Rest' = 2 /\ Due' = 1
  BY <1>1, <1>6 DEF SumAwaited, Rest, Due, Extra
<1>14. Serving' /\ op' = "ReadExSum"
  BY <1>1, <1>6 DEF Serving
<1>15. InStep'
  BY <1>12, <1>13, <1>14 DEF InStep, Payload, Silent, TwoByte
<1>16. AskedLast' /\ AnsweredLast'
  BY <1>12, <1>14 DEF AskedLast, AnsweredLast, Loud, Silent
<1>17. ServedLast'
  BY <1>1, <1>5, <1>6, <1>12, <1>13, <1>14 DEF ServedLast
<1>18. Ours'
  BY <1>1, <1>5 DEF Ours
<1> QED
  BY <1>t, <1>15, <1>16, <1>17, <1>18 DEF SyncInv

\* A command is put behind what is under way, and what the guest then waits
\* for is its answer.
LEMMA CommandStep == ASSUME SyncInv, GuestCommand PROVE SyncInv'
<1>t. TypeInv' /\ TypeOK /\ TypeInv
  BY GuestTypes DEF SyncInv, TypeInv, Guest
<1>1. /\ waiting = 0 /\ ~sumDue
      /\ UNCHANGED <<down, op, cmd, need, pay>>
  BY <1>t, GuestCommandIs
<1>2. /\ \A i \in 1..Len(up) : ~Loud(i)
      /\ ~Serving /\ op # "ReadExSum" /\ Due = 0
      /\ down = <<>>
  BY <1>1, Idle
<1>3. PICK o \in Ops, v \in PayloadBytes, k \in Counts :
        \E p \in Payloads(o, v, k) :
          /\ Send(<<Opcode(o)>> \o p, sent', TRUE)
          /\ waiting' = Expected(o, k)
          /\ sumDue' = (o \in {"ReadEx", "RereadEx"})
  BY <1>t, GuestCommandIs
<1>4. PICK p \in Payloads(o, v, k) :
          /\ Send(<<Opcode(o)>> \o p, sent', TRUE)
          /\ waiting' = Expected(o, k)
          /\ sumDue' = (o \in {"ReadEx", "RereadEx"})
  BY <1>3
<1>5. /\ p \in Seq(0..255) /\ Len(p) = PayloadLen(o) + Extra(o, p[2])
      /\ o \in TwoByte => Len(p) >= 2
      /\ Expected(o, k) = Expected(o, p[2])
  BY PayloadsFit
<1>6. sent' \in 0..2
  BY <1>t DEF TypeInv, TypeOK
<1>7. up \in Seq(Byte) /\ Len(up) \in Nat
  BY <1>t DEF TypeOK, Byte
<1>8. PICK f : f = CommandMsg(<<Opcode(o)>> \o p, sent')
  OBVIOUS
<1>9. /\ f \in Seq(Byte) /\ Len(f) \in Nat /\ Len(f) > 0
      /\ OneCommand(f, sent')
      /\ Frame(up \o f, Len(up) + 1)
      /\ OpAt(up \o f, Len(up) + 1) = o
      /\ Answer(up \o f, Len(up) + 1) = Expected(o, p[2])
  BY <1>5, <1>6, <1>8, <1>7, CommandFrame
<1>10. up' = up \o f
  <2>1. <<Opcode(o)>> \o p \in Seq(0..255)
    BY <1>5, CommandBytes
  <2>2. up' = up \o Message(<<Opcode(o)>> \o p, sent', TRUE)
    BY <1>t, <1>4, <1>6, <2>1, SendIs
  <2> QED
    BY <1>8, <2>2, Zenon DEF CommandMsg
<1>11. f \in Seq(Byte)
  BY <1>9
<1>12. Len(f) \in Nat /\ Len(f) > 0
  BY <1>9
<1>13. f[1].start /\ f[1].cmd = sent' /\ \A j \in 2..Len(f) : ~f[j].start
  BY <1>9 DEF OneCommand
<1> DEFINE n == Len(up) + 1
<1>14. Frame(up', n) /\ OpAt(up', n) = o /\ Answer(up', n) = Expected(o, p[2])
  BY <1>9, <1>10, Zenon
<1>15. /\ Len(up') = Len(up) + Len(f)
       /\ \A i \in 1..Len(up) : up'[i] = up[i]
       /\ \A i \in 1..Len(f) : up'[Len(up) + i] = f[i]
  <2>1. /\ Len(up \o f) = Len(up) + Len(f)
        /\ \A i \in 1..Len(up) : (up \o f)[i] = up[i]
        /\ \A i \in 1..Len(f) : (up \o f)[Len(up) + i] = f[i]
    <3>1. f \in Seq(Byte)
      BY <1>11
    <3> QED
      BY <1>12, <1>7, <3>1, ConcatProperties, LenProperties
  <2> QED
    BY <1>10, <2>1, Zenon
<1>16. \A i \in 1..Len(up') : i \in 1..Len(up) \/ i = n \/ ~up'[i].start
  <2> SUFFICES ASSUME NEW i \in 1..Len(up'), i \notin 1..Len(up), i # n PROVE ~up'[i].start
    OBVIOUS
  <2>1. i - Len(up) \in 2..Len(f) /\ i - Len(up) \in 1..Len(f) /\ Len(up) + (i - Len(up)) = i
    BY <1>12, <1>7, <1>15
  <2>2. up'[i] = f[i - Len(up)]
    BY <1>15, <2>1
  <2> QED
    BY <1>13, <2>1, <2>2
<1>17. up'[n] = f[1] /\ n \in 1..Len(up')
  BY <1>12, <1>7, <1>15
<1>18. \A i \in 1..Len(up) : up[i].start => Frame(up', i) /\ Answer(up', i) = Answer(up, i)
  <2> SUFFICES ASSUME NEW i \in 1..Len(up), up[i].start
               PROVE  Frame(up', i) /\ Answer(up', i) = Answer(up, i)
    OBVIOUS
  <2>1. Frame(up, i)
    BY DEF SyncInv, InStep
  <2> QED
    BY <1>10, <1>11, <1>12, <1>13, <1>7, <2>1, AppendFrame
<1> HIDE DEF n
<1>19. Extra(op, Second') = Extra(op, Second) /\ Expected(op, Second') = Expected(op, Second)
  <2>1. CASE op \in TwoByte
    <3>1. need \in Nat /\ (need # 0 => need \in 1..Len(up))
      BY <1>7, <1>t, <2>1 DEF SyncInv, InStep, TypeOK
    <3>2. Second' = Second
      BY <1>1, <1>15, <3>1 DEF Second
    <3> QED
      BY <3>2
  <2>2. CASE op \notin TwoByte
    BY <2>2, Irrelevant
  <2> QED
    BY <2>1, <2>2
<1>20. Rest' = Rest /\ Due' = 0 /\ ~Serving'
  <2>1. ~SumAwaited /\ ~SumAwaited'
    BY <1>1, <1>2 DEF SumAwaited
  <2>2. Rest' = Rest
    BY <1>1, <1>19, <2>1 DEF Rest
  <2>3. Due' = 0
    BY <1>1, <1>2, <1>19, <2>1 DEF Due
  <2> QED
    BY <1>1, <1>2, <2>2, <2>3 DEF Serving
<1>21. InStep'
  <2>1. Rest \in 0..Len(up) /\ Payload(up, 1, Rest)
    BY DEF SyncInv, InStep
  <2>2. Payload(up', 1, Rest)
    BY <1>10, <1>11, <1>12, <1>13, <1>7, <2>1, AppendPayload
  <2>3. Rest' \in 0..Len(up')
    BY <1>12, <1>7, <1>15, <1>20, <2>1
  <2>4. op' \in TwoByte => need' <= Len(up')
    <3>1. op \in TwoByte => need <= Len(up)
      BY DEF SyncInv, InStep
    <3>2. need \in Nat
      BY <1>t DEF TypeOK
    <3> QED
      BY <1>1, <1>12, <1>7, <1>15, <3>1, <3>2
  <2>5. ASSUME NEW i \in 1..Len(up'), up'[i].start PROVE Frame(up', i)
    BY <1>14, <1>15, <1>16, <1>18, <2>5
  <2> QED
    BY <1>20, <2>2, <2>3, <2>4, <2>5 DEF InStep
<1>22. \A i \in 1..Len(up') : Loud(i)' => i = n
  BY <1>2, <1>15, <1>16, <1>18 DEF Loud
<1>23. down' = <<>> /\ Len(down') = 0
  BY <1>1, <1>2
<1>24. Answer(up', n) = waiting' /\ up'[n].cmd = sent' /\ (sumDue' <=> OpAt(up', n) \in Exs)
  BY <1>4, <1>5, <1>13, <1>14, <1>17 DEF Exs
<1>25. AskedLast'
  <2> SUFFICES ASSUME NEW i \in 1..Len(up'), Loud(i)'
               PROVE  /\ \A j \in 1..Len(up') : up'[j].start => j <= i
                      /\ ~Serving'
                      /\ down' = <<>> /\ waiting' = Answer(up', i) /\ up'[i].cmd = sent'
                      /\ sumDue' <=> OpAt(up', i) \in Exs
    BY DEF AskedLast
  <2>1. i = n
    BY <1>22
  <2>2. \A j \in 1..Len(up') : up'[j].start => j <= n
    BY <1>7, <1>16 DEF n
  <2> QED
    BY <1>20, <1>23, <1>24, <2>1, <2>2
<1>26. ServedLast'
  BY <1>20 DEF ServedLast
<1>27. AnsweredLast'
  <2> SUFFICES ASSUME \A i \in 1..Len(up') : ~Loud(i)' PROVE waiting' = 0 /\ ~sumDue'
    BY <1>23 DEF AnsweredLast
  <2>1. ~(Answer(up', n) > 0)
    BY <1>13, <1>17 DEF Loud
  <2>2. waiting' \in Nat
    BY <1>t DEF TypeInv, TypeOK
  <2>3. waiting' = 0
    BY <1>24, <2>1, <2>2
  <2>4. o \notin Exs
    <3>1. o \in Exs => Expected(o, k) = SectorSize /\ SectorSize # 0
      BY SessionAssumption DEF Exs, Expected
    <3> QED
      BY <1>4, <2>3, <3>1
  <2> QED
    BY <1>14, <1>24, <2>3, <2>4
<1>28. Ours'
  BY <1>23 DEF Ours
<1> QED
  BY <1>t, <1>21, <1>25, <1>26, <1>27, <1>28 DEF SyncInv

----------------------------------------------------------------------------
(* The invariant *)

\* A new connection has nothing under way.
LEMMA Fresh ==
  ASSUME up = <<>>, down = <<>>, op = "none", waiting = 0, ~sumDue, TypeInv
  PROVE  SyncInv
<1>1. Len(up) = 0 /\ Len(down) = 0
  OBVIOUS
<1>2. Rest = 0 /\ Due = 0 /\ ~Serving
  BY DEF Rest, Due, Serving
<1>3. InStep
  BY <1>1, <1>2 DEF InStep, Payload, TwoByte
<1>4. AskedLast /\ ServedLast /\ AnsweredLast /\ Ours
  BY <1>1, <1>2 DEF AskedLast, ServedLast, AnsweredLast, Ours
<1> QED
  BY <1>3, <1>4 DEF SyncInv

LEMMA ReconnectStep == ASSUME SyncInv, Reconnect PROVE SyncInv'
<1>1. TypeInv'
  BY GuestTypes DEF SyncInv, Guest
<1>2. up' = <<>> /\ down' = <<>> /\ op' = "none" /\ waiting' = 0 /\ ~sumDue'
  BY DEF Reconnect
<1>3. Len(up') = 0 /\ Len(down') = 0
  BY <1>2
<1>4. Rest' = 0 /\ Due' = 0 /\ ~Serving'
  BY <1>2 DEF Rest, Due, Serving
<1>5. InStep'
  BY <1>2, <1>3, <1>4 DEF InStep, Payload, TwoByte
<1>6. AskedLast' /\ ServedLast' /\ AnsweredLast' /\ Ours'
  BY <1>2, <1>3, <1>4 DEF AskedLast, ServedLast, AnsweredLast, Ours
<1> QED
  BY <1>1, <1>5, <1>6 DEF SyncInv

LEMMA SyncInit == Init => SyncInv
  BY TypeInit, Fresh DEF Init

\* In step as long as the line has lost nothing.
NoLoss  == drops = 0
LineInv == TypeInv /\ (NoLoss => SyncInv)

LEMMA SyncStep == ASSUME LineInv, [Next]_vars, NoLoss' PROVE SyncInv'
<1>t. TypeInv /\ drops \in Nat
  BY DEF LineInv, TypeInv, TypeOK
<1>1. TypeInv'
  BY <1>t, TypeStep
<1>2. drops = 0 /\ ~Drop
  <2>1. drops' = drops \/ drops' = drops + 1
    BY DEF Next, Session, Guest, Drop, vars, ReadOpcode, ReadPayload, HandleRead, HandleReadEx,
           HandleWrite, HandleDwInit, HandleSilent, HandleSerReadM, HandleSerWriteM,
           HandleSerSetStat, PayloadRead, SessionEnds, GuestCommand, GuestReads, GuestOverrun,
           GuestSum, GuestTimeout, GuestFlush, HangUp, Reconnect
  <2>2. Drop => drops' = drops + 1
    BY DEF Drop
  <2> QED
    BY <1>t, <2>1, <2>2 DEF NoLoss
<1>s. SyncInv
  BY <1>2 DEF LineInv, NoLoss
<1>3. CASE UNCHANGED vars
  BY <1>1, <1>3, <1>s, SyncUnchanged DEF vars, serverVars, guestVars
<1>4. CASE Session
  <2>1. CASE ReadOpcode
    BY <1>s, <2>1, OpcodeStep
  <2>2. CASE ReadPayload
    BY <1>s, <2>2, PayloadStep
  <2>3. CASE SessionEnds
    BY <1>1, <1>s, <2>3, SyncUnchanged DEF SessionEnds, serverVars, guestVars
  <2> QED
    BY <1>4, <1>s, <2>1, <2>2, <2>3, HandlerStep DEF Session
<1>5. CASE Guest
  <2>1. CASE GuestCommand
    BY <1>s, <2>1, CommandStep
  <2>2. CASE GuestReads
    BY <1>s, <2>2, ReadsStep
  <2>3. CASE GuestOverrun
    BY <1>s, <2>3, Idle DEF GuestOverrun
  <2>4. CASE GuestSum
    BY <1>s, <2>4, SumStep
  <2>5. CASE GuestTimeout
    BY <1>2, <2>5 DEF GuestTimeout
  <2>6. CASE GuestFlush
    BY <1>2, <2>6 DEF GuestFlush
  <2>7. CASE HangUp
    BY <1>1, <1>s, <2>7, SyncUnchanged DEF HangUp, serverVars, guestVars
  <2>8. CASE Reconnect
    BY <1>s, <2>8, ReconnectStep
  <2> QED
    BY <1>5, <2>1, <2>2, <2>3, <2>4, <2>5, <2>6, <2>7, <2>8 DEF Guest
<1> QED
  BY <1>2, <1>3, <1>4, <1>5 DEF Next

LEMMA SyncInvariant == Spec => []LineInv
<1>1. Init => LineInv
  BY TypeInit, SyncInit DEF LineInv
<1>2. LineInv /\ [Next]_vars => LineInv'
  <2> SUFFICES ASSUME LineInv, [Next]_vars PROVE LineInv'
    OBVIOUS
  <2>1. TypeInv'
    BY TypeStep DEF LineInv
  <2>2. NoLoss' => SyncInv'
    BY SyncStep
  <2> QED
    BY <2>1, <2>2 DEF LineInv
<1> QED
  BY <1>1, <1>2, PTL DEF Spec

LEMMA SyncedOpcodes == SyncInv => InSync
<1> SUFFICES ASSUME SyncInv, up # <<>>
             PROVE  /\ op = "none" => Head(up).start
                    /\ op # "none" /\ need > 0 => ~Head(up).start
  BY DEF InSync
<1>1. up \in Seq(Byte) /\ Len(up) \in Nat \ {0} /\ Head(up) = up[1]
  BY HeadTail DEF SyncInv, TypeInv
<1>2. Rest \in 0..Len(up) /\ Payload(up, 1, Rest)
  BY DEF SyncInv, InStep
<1>3. op = "none" => Head(up).start
  BY <1>1, <1>2 DEF Payload, Rest
<1>4. op # "none" /\ need > 0 => ~Head(up).start
  <2> SUFFICES ASSUME op # "none", need > 0 PROVE ~Head(up).start
    OBVIOUS
  <2>1. ~SumAwaited
    BY DEF SyncInv, ServedLast, Serving, SumAwaited
  <2>2. Extra(op, Second) \in Nat /\ need \in Nat
    BY Owed DEF SyncInv, InStep, TypeInv, TypeOK
  <2>3. Rest > 0
    BY <2>1, <2>2 DEF Rest
  <2>4. 1 \in 1..Rest
    BY <1>2, <2>3
  <2> QED
    BY <1>1, <1>2, <2>4 DEF Payload
<1> QED
  BY <1>3, <1>4

LEMMA SyncedReplies == SyncInv => RightReply
<1> SUFFICES ASSUME SyncInv, NEW i \in 1..Len(down)
             PROVE  waiting >= Len(down) /\ down[i] = sent
  BY DEF RightReply
<1>1. down \in Seq(0..NotACommand) /\ Len(down) \in Nat /\ Due \in Nat
  BY Owed DEF SyncInv, InStep, TypeInv, TypeOK
<1>2. \A j \in 1..Len(up) : ~Loud(j)
  BY <1>1 DEF SyncInv, AskedLast
<1>3. waiting = Len(down) \/ waiting = Len(down) + Due
  BY <1>2 DEF SyncInv, ServedLast, AnsweredLast
<1> QED
  BY <1>1, <1>3 DEF SyncInv, Ours

\* As long as the line has lost nothing the session takes for an opcode exactly
\* the bytes the guest sent as opcodes, whatever is under way: every arm of run
\* consumes its payload, no more and no less.
THEOREM OpcodesInSync == Spec => [](drops = 0 => InSync)
<1>1. LineInv => (drops = 0 => InSync)
  BY SyncedOpcodes DEF LineInv, NoLoss
<1> QED
  BY <1>1, SyncInvariant, PTL

\* As long as the line has lost nothing every reply byte on it answers the
\* command the guest is waiting on, and the guest waits for all of them.
THEOREM RepliesInSync == Spec => [](drops = 0 => RightReply)
<1>1. LineInv => (drops = 0 => RightReply)
  BY SyncedReplies DEF LineInv, NoLoss
<1> QED
  BY <1>1, SyncInvariant, PTL

\* A line that loses nothing, a TCP connection say, keeps the two in step for
\* ever, also over any number of connections.
THEOREM ReliableLine == ASSUME MaxDrops = 0 PROVE Spec => [](InSync /\ RightReply)
<1>1. LineInv => NoLoss
  BY DEF LineInv, TypeInv, TypeOK, NoLoss
<1>2. LineInv => InSync /\ RightReply
  BY <1>1, SyncedOpcodes, SyncedReplies DEF LineInv
<1> QED
  BY <1>2, SyncInvariant, PTL
=============================================================================
