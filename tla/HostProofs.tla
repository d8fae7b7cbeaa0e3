----------------------------- MODULE HostProofs -----------------------------
(***************************************************************************)
(* Theorems about Host and its parts, for every set of units and key       *)
(* pairs, every number of failing statements and every size of the buffer  *)
(* and of the lines. The reader of the serial port comes first.            *)
(***************************************************************************)
EXTENDS Host, SequenceFacts

(* While no read has failed since the last newline, the buffer begins with *)
(* the line, as far as the line fits, and nRead is where its next byte     *)
(* goes: behind it, or on the last cell for good.                          *)
LineKept ==
    /\ ~init_ok => line = << >> /\ frame = << >>
    /\ ~unread => /\ nRead = IF Len(line) < N - 1 THEN Len(line) ELSE N - 1
                  /\ \A i \in 1 .. Len(line) : i < N => buff[i - 1] = line[i]

SerialInv == SerialTypeOK /\ LineKept /\ FramesAreLines

----------------------------------------------------------------------------
EndsAt(b, n) ==
    /\ n \in 0 .. N
    /\ \A i \in 0 .. n - 1 : b[i] # Zero
    /\ n = N \/ b[n] = Zero

(* The string in a buffer ends at one place.                               *)
LEMMA StringForm ==
    ASSUME NEW b \in [Cell -> Byte]
    PROVE  \E n \in 0 .. N : EndsAt(b, n) /\ String(b) = [i \in 1 .. n |-> b[i - 1]]
<1> DEFINE T == {n \in 0 .. N : n = N \/ b[n] = Zero}
<1>1. N \in Nat
  BY SerialAssumption
<1>2. PICK m \in T : \A k \in T : m <= k
  <2>1. T \in SUBSET Nat /\ N \in T
    BY <1>1
  <2> HIDE DEF T
  <2> QED
    BY <2>1, MinOfNaturals
<1>3. EndsAt(b, m)
  BY <1>1, <1>2 DEF EndsAt
<1> DEFINE n == CHOOSE n \in 0 .. N : /\ \A i \in 0 .. n - 1 : b[i] # Zero
                                      /\ n = N \/ b[n] = Zero
<1>4. EndsAt(b, n)
  BY <1>3 DEF EndsAt
<1>5. String(b) = [i \in 1 .. n |-> b[i - 1]]
  BY DEF String
<1> HIDE DEF n
<1> QED
  BY <1>4, <1>5 DEF EndsAt

(* Buffers that agree up to a zero hold the same string.                   *)
LEMMA StringAgrees ==
    ASSUME NEW b \in [Cell -> Byte], NEW d \in [Cell -> Byte], NEW k \in Cell,
           \A i \in 0 .. k : b[i] = d[i], b[k] = Zero
    PROVE  String(b) = String(d)
<1>1. N \in Nat
  BY SerialAssumption
<1>2. PICK m \in 0 .. N : EndsAt(b, m) /\ String(b) = [i \in 1 .. m |-> b[i - 1]]
  BY StringForm
<1>3. PICK n \in 0 .. N : EndsAt(d, n) /\ String(d) = [i \in 1 .. n |-> d[i - 1]]
  BY StringForm
<1>4. m <= k /\ n <= k
  BY <1>1, <1>2, <1>3 DEF EndsAt, Cell
<1>5. m = n
  BY <1>1, <1>2, <1>3, <1>4 DEF EndsAt, Cell
<1>6. \A i \in 1 .. m : i - 1 \in 0 .. k /\ b[i - 1] = d[i - 1]
  BY <1>1, <1>4 DEF Cell
<1>7. [i \in 1 .. m |-> b[i - 1]] = [i \in 1 .. m |-> d[i - 1]]
  BY <1>6
<1> QED
  BY <1>2, <1>3, <1>5, <1>7

LEMMA StringType ==
    ASSUME NEW b \in [Cell -> Byte]
    PROVE  String(b) \in Seq(Byte)
<1>1. PICK n \in 0 .. N : String(b) = [i \in 1 .. n |-> b[i - 1]]
  BY StringForm
<1>2. \A i \in 1 .. n : i - 1 \in Cell
  BY SerialAssumption DEF Cell
<1>3. String(b) \in [1 .. n -> Byte]
  BY <1>1, <1>2
<1> QED
  BY <1>3, SerialAssumption

LEMMA InfoType ==
    ASSUME NEW s \in Seq(Byte)
    PROVE  Info(s) \in Seq(Seq(Byte)) /\ Len(Info(s)) <= 1
<1>1. CASE Holds(s, Equals)
  <2> DEFINE T == {i \in DOMAIN s : s[i] = Equals}
  <2>1. T \in SUBSET Nat /\ T # {}
    BY <1>1 DEF Holds
  <2>2. PICK m \in T : \A k \in T : m <= k
    <3> HIDE DEF T
    <3> QED
      BY <2>1, MinOfNaturals
  <2>3. m \in DOMAIN s /\ s[m] = Equals /\ \A j \in 1 .. m - 1 : s[j] # Equals
    BY <2>2
  <2> DEFINE i == CHOOSE i \in DOMAIN s :
                      s[i] = Equals /\ \A j \in 1 .. i - 1 : s[j] # Equals
  <2>4. i \in DOMAIN s
    BY <2>3
  <2>5. AfterEquals(s) = SubSeq(s, i + 1, Len(s))
    BY DEF AfterEquals
  <2> HIDE DEF i
  <2>6. AfterEquals(s) \in Seq(Byte)
    BY <2>4, <2>5
  <2> QED
    BY <2>6 DEF Info
<1>2. CASE ~Holds(s, Equals)
  BY <1>2 DEF Info
<1> QED
  BY <1>1, <1>2

----------------------------------------------------------------------------
LEMMA SizeOfBuffer ==
    /\ N \in Nat /\ N >= 2 /\ MaxLine \in Nat /\ MaxLine >= 1
    /\ 0 \in Cell /\ N - 1 \in Cell /\ Zero \in Byte /\ Newline \in Byte
BY SerialAssumption DEF Cell, Byte

LEMMA SerialInitial == SerialInit => SerialInv
BY SizeOfBuffer DEF SerialInit, SerialInv, SerialTypeOK, LineKept, FramesAreLines

LEMMA StartReadStep ==
    ASSUME SerialInv, start_read
    PROVE  SerialInv'
<1>1. SerialTypeOK'
  BY DEF SerialInv, SerialTypeOK, start_read
<1>2. LineKept' /\ FramesAreLines'
  BY DEF SerialInv, LineKept, FramesAreLines, start_read
<1> QED
  BY <1>1, <1>2 DEF SerialInv

(* The types after a round, with any byte in its cell.                     *)
LEMMA RoundType ==
    ASSUME SerialTypeOK, NEW b \in [Cell -> Byte], Round(b)
    PROVE  /\ buff' \in [Cell -> Byte] /\ nRead' \in Cell
           /\ pushed' \in Seq(Seq(Byte)) /\ Len(pushed') <= 1
           /\ b[nRead] = Newline => /\ nRead' = 0 /\ buff' = Terminated(b)
                                     /\ pushed' = Info(String(buff'))
           /\ b[nRead] # Newline => nRead' = Clamped(nRead + 1) /\ buff' = b
<1>1. CASE b[nRead] = Newline
  <2>1. buff' = Terminated(b) /\ pushed' = Info(String(buff')) /\ nRead' = 0
    BY <1>1 DEF Round
  <2>2. buff' \in [Cell -> Byte]
    BY <2>1, SizeOfBuffer DEF Terminated, SerialTypeOK, Cell
  <2> QED
    BY <1>1, <2>1, <2>2, StringType, InfoType, SizeOfBuffer
<1>2. CASE b[nRead] # Newline
  <2>1. buff' = b /\ nRead' = Clamped(nRead + 1) /\ pushed' = << >>
    BY <1>2 DEF Round
  <2>2. nRead' \in Cell
    BY <2>1, SizeOfBuffer DEF SerialTypeOK, Clamped, Cell
  <2> QED
    BY <1>2, <2>1, <2>2
<1> QED
  BY <1>1, <1>2

LEMMA ReadFailsStep ==
    ASSUME SerialInv, ReadFails
    PROVE  SerialInv'
<1>1. /\ Round(buff) /\ init_ok' = init_ok
      /\ line' = << >> /\ frame' = << >> /\ unread' = (buff[nRead] # Newline)
  BY DEF ReadFails
<1>2. /\ buff' \in [Cell -> Byte] /\ nRead' \in Cell
      /\ pushed' \in Seq(Seq(Byte)) /\ Len(pushed') <= 1
      /\ buff[nRead] = Newline => nRead' = 0
  BY <1>1, RoundType DEF SerialInv, SerialTypeOK
<1>3. SerialTypeOK'
  BY <1>1, <1>2, SizeOfBuffer DEF SerialInv, SerialTypeOK
<1>4. LineKept'
  <2>1. init_ok'
    BY Zenon DEF ReadFails
  <2>2. ASSUME ~unread' PROVE nRead' = 0
    <3>1. unread' = (buff[nRead] # Newline)
      BY <1>1
    <3>2. buff[nRead] = Newline
      BY <2>2, <3>1, Zenon
    <3> QED
      BY <1>2, <3>2
  <2>3. Len(line') = 0
    BY <1>1
  <2> QED
    BY <2>1, <2>2, <2>3, SizeOfBuffer DEF LineKept
<1>5. FramesAreLines'
  BY <1>1 DEF FramesAreLines
<1> QED
  BY <1>3, <1>4, <1>5 DEF SerialInv

(* A byte that is no newline is one more of the line.                      *)
LEMMA ByteStep ==
    ASSUME SerialInv, NEW c \in Byte \ {Newline}, ReadByte(c)
    PROVE  SerialInv'
<1> DEFINE b == [buff EXCEPT ![nRead] = c]
<1>1. /\ Round(b) /\ init_ok' = init_ok /\ frame' = << >> /\ unread' = unread
      /\ line' = IF unread THEN << >> ELSE Append(line, c)
      /\ unread \/ Len(line) < MaxLine
  BY DEF ReadByte
<1>2. b \in [Cell -> Byte] /\ b[nRead] = c
  BY DEF SerialInv, SerialTypeOK
<1>3. /\ buff' = b /\ nRead' = Clamped(nRead + 1) /\ nRead' \in Cell
      /\ pushed' \in Seq(Seq(Byte)) /\ Len(pushed') <= 1
  <2> HIDE DEF b
  <2> QED
    BY <1>1, <1>2, RoundType DEF SerialInv
<1>4. line' \in Seq(Byte) /\ Len(line') <= MaxLine
  BY <1>1, SizeOfBuffer DEF SerialInv, SerialTypeOK
<1>5. SerialTypeOK'
  BY <1>1, <1>2, <1>3, <1>4 DEF SerialInv, SerialTypeOK
<1>6. LineKept'
  <2> SUFFICES ASSUME ~unread
               PROVE  /\ nRead' = IF Len(line') < N - 1 THEN Len(line') ELSE N - 1
                      /\ \A i \in 1 .. Len(line') : i < N => buff'[i - 1] = line'[i]
    BY <1>1 DEF LineKept, ReadByte
  <2>1. /\ line' = Append(line, c) /\ line \in Seq(Byte) /\ Len(line) \in Nat
        /\ Len(line') = Len(line) + 1
    BY <1>1 DEF SerialInv, SerialTypeOK
  <2>2. /\ nRead = IF Len(line) < N - 1 THEN Len(line) ELSE N - 1
        /\ \A i \in 1 .. Len(line) : i < N => buff[i - 1] = line[i]
    BY DEF SerialInv, LineKept
  <2>3. nRead' = IF Len(line') < N - 1 THEN Len(line') ELSE N - 1
    BY <1>3, <2>1, <2>2, SizeOfBuffer DEF Clamped
  <2>4. ASSUME NEW i \in 1 .. Len(line'), i < N
        PROVE  buff'[i - 1] = line'[i]
    <3>1. CASE i <= Len(line)
      <4>1. line'[i] = line[i] /\ buff[i - 1] = line[i]
        BY <2>1, <2>2, <2>4, <3>1
      <4>2. i - 1 \in Cell /\ i - 1 # nRead
        BY <2>1, <2>2, <2>4, <3>1, SizeOfBuffer DEF Cell
      <4> QED
        BY <1>3, <4>1, <4>2 DEF SerialInv, SerialTypeOK
    <3>2. CASE i = Len(line) + 1
      <4>1. line'[i] = c /\ i - 1 = nRead
        BY <2>1, <2>2, <2>4, <3>2, SizeOfBuffer
      <4> QED
        BY <1>2, <1>3, <4>1
    <3> QED
      BY <2>1, <3>1, <3>2
  <2> QED
    BY <2>3, <2>4
<1>7. FramesAreLines'
  BY <1>1 DEF FramesAreLines
<1> QED
  BY <1>5, <1>6, <1>7 DEF SerialInv

(* A newline ends a frame: what the buffer then holds and what is wanted   *)
(* of the line agree up to a zero.                                         *)
LEMMA NewlineStep ==
    ASSUME SerialInv, ReadByte(Newline)
    PROVE  SerialInv'
<1> DEFINE b == [buff EXCEPT ![nRead] = Newline]
<1>1. /\ Round(b) /\ init_ok' = init_ok /\ line' = << >> /\ unread' = FALSE
      /\ frame' = IF unread THEN << >> ELSE Append(line, Newline)
  BY DEF ReadByte
<1>2. b \in [Cell -> Byte] /\ b[nRead] = Newline
  BY SizeOfBuffer DEF SerialInv, SerialTypeOK
<1>3. /\ buff' = Terminated(b) /\ nRead' = 0 /\ buff' \in [Cell -> Byte]
      /\ pushed' = Info(String(buff'))
      /\ pushed' \in Seq(Seq(Byte)) /\ Len(pushed') <= 1
  <2> HIDE DEF b
  <2> QED
    BY <1>1, <1>2, RoundType DEF SerialInv
<1>4. SerialTypeOK'
  <2>1. frame' \in Seq(Byte) /\ line' \in Seq(Byte) /\ Len(line') <= MaxLine
    BY <1>1, SizeOfBuffer DEF SerialInv, SerialTypeOK
  <2>2. init_ok' \in BOOLEAN /\ unread' \in BOOLEAN
    BY <1>1, Zenon DEF SerialInv, SerialTypeOK
  <2> QED
    BY <1>3, <2>1, <2>2, SizeOfBuffer DEF SerialTypeOK
<1>5. LineKept'
  <2>1. init_ok' /\ Len(line') = 0 /\ nRead' = 0
    BY <1>1, <1>3 DEF ReadByte
  <2> QED
    BY <2>1, SizeOfBuffer DEF LineKept
<1>6. FramesAreLines'
  <2> SUFFICES ASSUME ~unread PROVE pushed' = Wanted(frame')
    BY <1>1 DEF FramesAreLines
  <2>1. /\ frame' = Append(line, Newline) /\ line \in Seq(Byte) /\ Len(line) \in Nat
        /\ Len(frame') = Len(line) + 1 /\ frame' \in Seq(Byte)
        /\ frame'[Len(line) + 1] = Newline
        /\ \A i \in 1 .. Len(line) : frame'[i] = line[i]
    BY <1>1, SizeOfBuffer DEF SerialInv, SerialTypeOK
  <2>2. /\ nRead = IF Len(line) < N - 1 THEN Len(line) ELSE N - 1
        /\ \A i \in 1 .. Len(line) : i < N => buff[i - 1] = line[i]
    BY DEF SerialInv, LineKept
  <2> DEFINE kept == [i \in Cell |-> IF i + 1 \in DOMAIN frame' /\ i < N - 1
                                     THEN frame'[i + 1] ELSE Zero]
  <2>3. kept \in [Cell -> Byte]
    BY <2>1, SizeOfBuffer DEF Cell
  <2>4. Wanted(frame') = Info(String(kept))
    BY DEF Wanted
  <2>5. ASSUME NEW i \in Cell, i < N - 1, i < Len(line)
        PROVE  b[i] = line[i + 1] /\ kept[i] = line[i + 1]
    <3>1. i + 1 \in 1 .. Len(line) /\ i + 1 < N /\ i # nRead
      BY <2>1, <2>2, <2>5, SizeOfBuffer DEF Cell
    <3>2. b[i] = buff[i] /\ buff[i] = line[i + 1]
      <4>1. buff[(i + 1) - 1] = line[i + 1] /\ (i + 1) - 1 = i
        BY <2>2, <3>1 DEF Cell
      <4> QED
        BY <3>1, <4>1 DEF SerialInv, SerialTypeOK
    <3>3. kept[i] = line[i + 1]
      BY <2>1, <2>5, <3>1
    <3> QED
      BY <3>2, <3>3
  <2>6. CASE nRead < N - 1
    <3>1. nRead = Len(line) /\ nRead + 1 \in Cell /\ nRead \in Cell
      BY <2>1, <2>2, <2>6, SizeOfBuffer DEF Cell
    <3>2. buff' = [b EXCEPT ![nRead + 1] = Zero]
      BY <1>3, <2>6 DEF Terminated
    <3>3. buff'[nRead + 1] = Zero
      BY <1>2, <3>1, <3>2
    <3>4. kept[nRead + 1] = Zero /\ kept[nRead] = Newline
      BY <2>1, <2>6, <3>1, SizeOfBuffer
    <3>5. ASSUME NEW i \in 0 .. nRead + 1 PROVE buff'[i] = kept[i]
      <4>1. CASE i < nRead
        BY <1>2, <2>5, <2>6, <3>1, <3>2, <4>1, SizeOfBuffer DEF Cell
      <4>2. CASE i = nRead
        BY <1>2, <3>1, <3>2, <3>4, <4>2, SizeOfBuffer DEF Cell
      <4>3. CASE i = nRead + 1
        BY <3>3, <3>4, <4>3
      <4> QED
        BY <3>1, <4>1, <4>2, <4>3, SizeOfBuffer DEF Cell
    <3> HIDE DEF kept, b
    <3> QED
      BY <1>3, <2>3, <2>4, <3>1, <3>3, <3>5, StringAgrees
  <2>7. CASE ~(nRead < N - 1)
    <3>1. nRead = N - 1 /\ nRead \in Cell /\ Len(line) >= N - 1
      BY <2>1, <2>2, <2>7, SizeOfBuffer DEF Cell
    <3>2. buff' = [b EXCEPT ![nRead] = Zero]
      BY <1>3, <2>7 DEF Terminated
    <3>3. buff'[nRead] = Zero /\ kept[nRead] = Zero
      BY <1>2, <3>1, <3>2, SizeOfBuffer
    <3>4. ASSUME NEW i \in 0 .. nRead PROVE buff'[i] = kept[i]
      <4>1. CASE i < nRead
        <5>1. i \in Cell /\ i < N - 1 /\ i < Len(line) /\ i # nRead
          BY <2>1, <3>1, <4>1, SizeOfBuffer DEF Cell
        <5>2. b[i] = kept[i]
          BY <2>5, <5>1
        <5> HIDE DEF kept, b
        <5> QED
          BY <1>2, <3>2, <5>1, <5>2
      <4>2. CASE i = nRead
        BY <3>3, <4>2
      <4> QED
        BY <3>1, <4>1, <4>2, SizeOfBuffer DEF Cell
    <3> HIDE DEF kept, b
    <3> QED
      BY <1>3, <2>3, <2>4, <3>1, <3>3, <3>4, StringAgrees
  <2> QED
    BY <2>6, <2>7
<1> QED
  BY <1>4, <1>5, <1>6 DEF SerialInv

LEMMA SerialInvStep ==
    ASSUME SerialInv, [start_read \/ SerialStep]_serialVars
    PROVE  SerialInv'
<1>1. CASE start_read
  BY <1>1, StartReadStep
<1>2. CASE ReadFails
  BY <1>2, ReadFailsStep
<1>3. CASE \E c \in Byte : ReadByte(c)
  BY <1>3, ByteStep, NewlineStep
<1>4. CASE UNCHANGED serialVars
  BY <1>4 DEF serialVars, SerialInv, SerialTypeOK, LineKept, FramesAreLines
<1> QED
  BY <1>1, <1>2, <1>3, <1>4 DEF SerialStep

----------------------------------------------------------------------------

(* What has been made of the schema when the start has come so far; the    *)
(* trigger statements throw where the table is missing, Dag::init where    *)
(* the table of keys is.                                                   *)
Schema ==
    /\ at > FirstTrigger => "Unit" \in file
    /\ \A i \in FirstTrigger .. 7 : at > i => Part[i] \in file \cup failed
    /\ at = Up => "key_pairs" \in file

(* A process has a key only when it is up, the stored one if there is one. *)
KeyInUse ==
    /\ at # Up => myKey_ = NoKey
    /\ at = Up => myKey_ # NoKey
    /\ at = Up /\ key_pairs # << >> => myKey_ = Head(key_pairs)

NodeInv == NodeTypeOK /\ Schema /\ KeyInUse /\ BroadcastVerifies

----------------------------------------------------------------------------
(* The forms of a unit.                                                    *)

JsonField == Field \ {"version"}

LEMMA Fields ==
    /\ Column \subseteq Field
    /\ "hash" \in Column /\ "signature" \in Column /\ "version" \in Column
    /\ "hash" \in JsonField /\ "signature" \in JsonField
    /\ Column \ {"version"} \subseteq JsonField
    /\ Header \subseteq Column
BY DEF Column, Field, Header, Tx, JsonField

LEMMA ToJson ==
    ASSUME NEW x
    PROVE  /\ DOMAIN to_json(x) = JsonField
           /\ \A f \in JsonField : to_json(x)[f] = x[f]
BY DEF to_json, Restrict, JsonField

LEMMA SealedForm ==
    ASSUME NEW u
    PROVE  /\ DOMAIN Sealed(u) = Field
           /\ Sealed(u)["version"] = u
           /\ Verifies(to_json(Sealed(u)))
<1> DEFINE t == [Fresh(u) EXCEPT !["nonce"] = u, !["timestamp"] = u]
           p == [t EXCEPT !["hash"] = <<to_json(t)>>]
           s == [p EXCEPT !["signature"] = <<to_json(p)>>]
           json == to_json(s)
<1>1. Sealed(u) = s
  BY DEF Sealed, sinature, PoW
<1>2. /\ DOMAIN t = Field /\ DOMAIN p = Field /\ DOMAIN s = Field
      /\ t["hash"] = << >> /\ t["signature"] = << >>
      /\ t["version"] = u
  BY DEF Fresh, Field, Header, Tx
<1>3. /\ \A f \in Field \ {"hash"} : p[f] = t[f]
      /\ \A f \in Field \ {"signature"} : s[f] = p[f]
      /\ s["signature"] = <<to_json(p)>> /\ s["hash"] = <<to_json(t)>>
  <2> HIDE DEF t
  <2>1. /\ \A f \in Field \ {"hash"} : p[f] = t[f]
        /\ p["hash"] = <<to_json(t)>>
    BY <1>2, Fields
  <2> HIDE DEF p
  <2>2. /\ \A f \in Field \ {"signature"} : s[f] = p[f]
        /\ s["signature"] = <<to_json(p)>>
    BY <1>2, Fields
  <2> QED
    BY <2>1, <2>2, Fields
<1> HIDE DEF t, p, s
<1>4. s["version"] = u
  BY <1>2, <1>3, Fields
<1>5. /\ DOMAIN json = JsonField
      /\ \A f \in JsonField : json[f] = s[f]
  BY ToJson
<1>6. verifySignature(json)
  <2>1. [json EXCEPT !["signature"] = << >>] = to_json(p)
    <3> DEFINE l == [json EXCEPT !["signature"] = << >>]
               r == to_json(p)
    <3>1. l = [f \in JsonField |-> l[f]] /\ r = [f \in JsonField |-> r[f]]
      BY <1>5 DEF to_json, Restrict, JsonField
    <3>2. ASSUME NEW f \in JsonField PROVE l[f] = r[f]
      BY <1>2, <1>3, <1>5, ToJson, Fields DEF JsonField
    <3>3. l = r
      <4> HIDE DEF l, r
      <4> QED
        BY <3>1, <3>2
    <3> QED
      BY <3>3
  <2>2. json["signature"] = <<to_json(p)>>
    BY <1>3, <1>5, Fields
  <2> QED
    BY <2>1, <2>2 DEF verifySignature
<1>7. verifyPoW(json)
  <2>1. [json EXCEPT !["signature"] = << >>, !["hash"] = << >>] = to_json(t)
    <3> DEFINE l == [json EXCEPT !["signature"] = << >>, !["hash"] = << >>]
               r == to_json(t)
    <3>1. l = [f \in JsonField |-> l[f]] /\ r = [f \in JsonField |-> r[f]]
      BY <1>5 DEF to_json, Restrict, JsonField
    <3>2. ASSUME NEW f \in JsonField PROVE l[f] = r[f]
      BY <1>2, <1>3, <1>5, ToJson, Fields DEF JsonField
    <3>3. l = r
      <4> HIDE DEF l, r
      <4> QED
        BY <3>1, <3>2
    <3> QED
      BY <3>3
  <2>2. json["hash"] = <<to_json(t)>>
    BY <1>3, <1>5, Fields
  <2> QED
    BY <2>1, <2>2 DEF verifyPoW
<1> QED
  BY <1>1, <1>2, <1>4, <1>6, <1>7 DEF Verifies

(* Every unit, the genesis unit among them, has its version.               *)
LEMMA OriginalForm ==
    ASSUME NEW u
    PROVE  DOMAIN Original(u) = Field /\ Original(u)["version"] = u
<1>1. DOMAIN genesis(u) = Field /\ genesis(u)["version"] = u
  BY DEF genesis, Field, Header, Tx
<1> QED
  BY <1>1, SealedForm DEF Original

(* A copy read from the document of any form of a unit is one of Copies.   *)
LEMMA CopyForm ==
    ASSUME NEW u
    PROVE  /\ DOMAIN Copy(u) = Field
           /\ \A f \in Column : Copy(u)[f] = Original(u)[f]
<1>1. Header \ {"version"} \subseteq DOMAIN to_json(Original(u))
  BY ToJson, Fields DEF JsonField, Field
<1>2. Copy(u) = [f \in Field |-> CASE f = "version" -> u
                                   [] f = "tx_timestamp" -> Unset
                                   [] OTHER -> to_json(Original(u))[f]]
  BY <1>1 DEF Copy, Unit
<1>3. ASSUME NEW f \in Column PROVE Copy(u)[f] = Original(u)[f]
  BY <1>2, ToJson, OriginalForm, Fields DEF Column, JsonField
<1> QED
  BY <1>2, <1>3

LEMMA RowForm ==
    ASSUME NEW x
    PROVE  /\ DOMAIN Row(x) = Column
           /\ \A f \in Column : Row(x)[f] = x[f]
BY DEF Row, Restrict

(* No two columns have the same key in the document of a row.              *)
LEMMA KeysDiffer == \A f, g \in Column : Key(f) = Key(g) => f = g
BY DEF Key, Column, Field, Header, Tx

(* The document of a row is read back as that row.                         *)
LEMMA RowRoundTrip ==
    ASSUME NEW x
    PROVE  json_to_row(row_to_json(Row(x))) = Row(x)
<1> DEFINE keys == {Key(f) : f \in Column}
           json == row_to_json(Row(x))
<1>1. json = [k \in keys |-> Row(x)[CHOOSE f \in Column : Key(f) = k]]
  BY DEF row_to_json
<1>2. ASSUME NEW f \in Column
      PROVE  Key(f) \in DOMAIN json /\ json[Key(f)] = Row(x)[f]
  <2>1. (CHOOSE g \in Column : Key(g) = Key(f)) = f
    BY KeysDiffer
  <2> QED
    BY <1>1, <2>1
<1>3. json_to_row(json) = [f \in Column |-> json[Key(f)]]
  <2> HIDE DEF json
  <2> QED
    BY <1>2 DEF json_to_row, KeyRead
<1>4. Row(x) = [f \in Column |-> Row(x)[f]]
  BY DEF Row, Restrict
<1> HIDE DEF json
<1> QED
  BY <1>2, <1>3, <1>4 DEF json

LEMMA AllAgree ==
    /\ \A c \in Copies : Agrees(c) /\ Agrees(Row(c))
<1>1. ASSUME NEW u \in Units
      PROVE  /\ Agrees(Original(u)) /\ Agrees(Row(Original(u)))
             /\ Agrees(Copy(u)) /\ Agrees(Row(Copy(u)))
  BY CopyForm, RowForm DEF Agrees
<1> QED
  BY <1>1 DEF Copies

LEMMA SyncedRows ==
    ASSUME NEW held \in SUBSET Units
    PROVE  {json_to_row(json) : json \in {row_to_json(Row(Copy(u))) : u \in held}}
              \subseteq {Row(c) : c \in Copies}
<1>1. ASSUME NEW u \in held
      PROVE  json_to_row(row_to_json(Row(Copy(u)))) \in {Row(c) : c \in Copies}
  BY RowRoundTrip DEF Copies
<1> QED
  BY <1>1

----------------------------------------------------------------------------
(* One lemma per part of the invariant.                                    *)

LEMMA TypeInit == NodeInit => NodeInv
BY NodeFileAssumption
   DEF NodeInit, NodeInv, NodeTypeOK, Schema, KeyInUse, BroadcastVerifies,
       Down, FirstTrigger, Up

LEMMA Steps ==
    DOMAIN Part = 1 .. 7
BY DEF Part

(* The end of a process, whatever ends it, leaves nothing to be shown but  *)
(* that the file is as it was.                                             *)
LEMMA EndStep ==
    ASSUME NodeInv, EndProcess, UNCHANGED fileVars
    PROVE  NodeInv'
BY DEF NodeInv, EndProcess, fileVars, NodeTypeOK, Schema, KeyInUse, BroadcastVerifies,
       Down, FirstTrigger, Up

LEMMA StartStep ==
    ASSUME NodeInv, Start
    PROVE  NodeInv'
BY DEF NodeInv, Start, NodeTypeOK, Schema, KeyInUse, BroadcastVerifies,
       Down, FirstTrigger, Up

LEMMA MakeStep ==
    ASSUME NodeInv, Make \/ MakeFails
    PROVE  NodeInv'
<1>1. at \in 1 .. 7 /\ at' = at + 1 /\ (at < 3 \/ "Unit" \in file)
  BY Steps DEF Make, MakeFails, Prepared, Index
<1>2. /\ Part[at] \in Range(Part)
      /\ file \subseteq file' /\ file' \subseteq file \cup {Part[at]}
      /\ failed \subseteq failed' /\ failed' \subseteq failed \cup {Part[at]}
      /\ Part[at] \in file' \cup failed'
      /\ UNCHANGED <<rows, key_pairs, tipsPool_, myKey_, sent>>
  BY <1>1, Steps DEF Make, MakeFails, fileVars, Range
<1>3. NodeTypeOK'
  BY <1>1, <1>2 DEF NodeInv, NodeTypeOK, Down, Up
<1>4. Schema'
  BY <1>1, <1>2 DEF NodeInv, Schema, FirstTrigger, Up
<1>5. KeyInUse' /\ BroadcastVerifies'
  BY <1>1, <1>2 DEF NodeInv, KeyInUse, BroadcastVerifies, Up
<1> QED
  BY <1>3, <1>4, <1>5 DEF NodeInv

LEMMA ThrowStep ==
    ASSUME NodeInv, MakeThrows
    PROVE  NodeInv'
<1>1. CASE at = Index
  BY <1>1 DEF NodeInv, MakeThrows, fileVars, NodeTypeOK, Schema, KeyInUse,
              BroadcastVerifies, Down, Index, FirstTrigger, Up
<1>2. CASE at # Index
  BY <1>2, EndStep DEF MakeThrows
<1> QED
  BY <1>1, <1>2

LEMMA StoredType ==
    ASSUME NodeTypeOK, NEW set, set \subseteq {Row(c) : c \in Copies}
    PROVE  Stored(set) \subseteq {Row(c) : c \in Copies}
BY DEF NodeTypeOK, Stored

LEMMA SyncStep ==
    ASSUME NodeInv, Alone \/ Synchronised
    PROVE  NodeInv'
<1>1. CASE Alone
  BY <1>1 DEF NodeInv, Alone, fileVars, NodeTypeOK, Schema, KeyInUse,
              BroadcastVerifies, Down, Sync, DagInit, FirstTrigger, Up
<1>2. CASE Synchronised
  <2>1. PICK held \in SUBSET Units, tips \in SUBSET Units :
           at = Sync /\ pushAllUnit({row_to_json(Row(Copy(u))) : u \in held},
                                    {Copy(u) : u \in tips})
    BY <1>2 DEF Synchronised
  <2> DEFINE database == {row_to_json(Row(Copy(u))) : u \in held}
             docs == {Copy(u) : u \in tips}
  <2>2. docs \subseteq Copies
    BY DEF Copies
  <2>3. Stored({json_to_row(json) : json \in database}) \subseteq {Row(c) : c \in Copies}
    BY SyncedRows, StoredType DEF NodeInv
  <2> HIDE DEF database, docs
  <2>4. pushAllUnit(database, docs)
    BY <2>1 DEF database, docs
  <2>5. CASE EndProcess /\ UNCHANGED fileVars
    BY <2>5, EndStep
  <2>6. CASE /\ rows' \in {Stored({json_to_row(json) : json \in database}), rows}
             /\ tipsPool_' = docs
             /\ at' = DagInit
             /\ UNCHANGED <<file, key_pairs, failed, myKey_, sent>>
    <3>1. rows' \subseteq {Row(c) : c \in Copies}
      BY <2>3, <2>6 DEF NodeInv, NodeTypeOK
    <3> QED
      BY <2>1, <2>2, <2>6, <3>1
         DEF NodeInv, NodeTypeOK, Schema, KeyInUse, BroadcastVerifies,
             Down, Sync, DagInit, FirstTrigger, Up
  <2> QED
    BY <2>4, <2>5, <2>6 DEF pushAllUnit
<1> QED
  BY <1>1, <1>2

LEMMA InitStep ==
    ASSUME NodeInv, Dag_init
    PROVE  NodeInv'
<1>1. tipsPool_' \subseteq Copies
  BY DEF Dag_init, NodeInv, NodeTypeOK, Copies, Units, Original
<1>2. /\ myKey_' \in KeyName
      /\ key_pairs' \in Seq(KeyName)
      /\ key_pairs' # << >> => myKey_' = Head(key_pairs')
  BY DEF Dag_init, NoKeyPair, NodeInv, NodeTypeOK
<1>3. at = DagInit /\ at' = Up /\ UNCHANGED <<file, rows, failed, sent>>
      /\ "key_pairs" \in file
  BY DEF Dag_init, KeyTableThere
<1>4. NodeTypeOK'
  BY <1>1, <1>2, <1>3 DEF NodeInv, NodeTypeOK, Down, Up
<1>5. Schema'
  BY <1>3 DEF NodeInv, Schema, DagInit, FirstTrigger, Up
<1>6. KeyInUse'
  BY <1>2, <1>3, NodeFileAssumption DEF KeyInUse
<1>7. BroadcastVerifies'
  BY <1>3 DEF NodeInv, BroadcastVerifies
<1> QED
  BY <1>4, <1>5, <1>6, <1>7 DEF NodeInv

(* A unit that is made or received: what goes to the table was in the      *)
(* pool, what goes into the pool is a copy, what is sent is the maker's    *)
(* document.                                                               *)
LEMMA ServeStep ==
    ASSUME NodeInv, NEW u \in Own \cup Peer, creatUnit(u) \/ pushUnit(u)
    PROVE  NodeInv'
<1>1. Original(u) = Sealed(u)
  BY NodeFileAssumption DEF Original
<1>2. PICK named \in SUBSET tipsPool_, unit \in Copies : Approve(named, unit)
  BY <1>1 DEF creatUnit, pushUnit, Copies, Units, Copy
<1>3. rows' \subseteq {Row(c) : c \in Copies} /\ tipsPool_' \subseteq Copies
  BY <1>2, StoredType DEF Approve, NodeInv, NodeTypeOK
<1>4. sent' = <<to_json(Sealed(u))>> /\ UNCHANGED <<file, key_pairs, at, failed, myKey_>>
  BY DEF creatUnit, pushUnit, Relayed
<1>5. BroadcastVerifies' /\ Len(sent') <= 1
  <2>1. sent' = <<to_json(Sealed(u))>> /\ Verifies(to_json(Sealed(u)))
    BY <1>4, SealedForm
  <2> DEFINE j == to_json(Sealed(u))
  <2> HIDE DEF j
  <2>2. sent' = <<j>> /\ Verifies(j)
    BY <2>1 DEF j
  <2>3. \A i \in DOMAIN sent' : sent'[i] = j
    BY <2>2
  <2>4. Len(sent') <= 1
    BY <2>2
  <2>5. \A i \in DOMAIN sent' : Verifies(sent'[i])
    BY <2>2, <2>3
  <2> QED
    BY <2>4, <2>5 DEF BroadcastVerifies, Verifies, verifySignature, verifyPoW
<1>6. NodeTypeOK'
  BY <1>3, <1>4, <1>5 DEF NodeInv, NodeTypeOK
<1>7. Schema' /\ KeyInUse'
  BY <1>4 DEF NodeInv, Schema, KeyInUse
<1> QED
  BY <1>5, <1>6, <1>7 DEF NodeInv

LEMMA NodeStep == NodeInv /\ [NodeNext]_nodeVars => NodeInv'
<1> SUFFICES ASSUME NodeInv, [NodeNext]_nodeVars PROVE NodeInv'
  OBVIOUS
<1>1. CASE NodeNext
  <2>1. CASE Crash \/ Dag_initThrows
    BY <2>1, EndStep DEF Crash, Dag_initThrows
  <2> QED
    BY <1>1, <2>1, StartStep, MakeStep, ThrowStep, SyncStep, InitStep, ServeStep
       DEF NodeNext
<1>2. CASE UNCHANGED nodeVars
  BY <1>2 DEF nodeVars, fileVars, memVars, NodeInv, NodeTypeOK, Schema, KeyInUse,
              BroadcastVerifies
<1> QED
  BY <1>1, <1>2

LEMMA NodeInvariant == Spec => []NodeInv
<1>1. Init => NodeInv
  BY TypeInit DEF Init
<1>2. [Next]_vars => [NodeNext]_nodeVars
  BY DEF Next, vars
<1> QED
  BY <1>1, <1>2, NodeStep, PTL DEF Spec

LEMMA ReaderInvariant == Spec => []SerialInv
<1>1. Init => SerialInv
  BY SerialInitial DEF Init
<1>2. [Next]_vars => [start_read \/ SerialStep]_serialVars
  BY DEF Next, vars
<1> QED
  BY <1>1, <1>2, SerialInvStep, PTL DEF Spec

----------------------------------------------------------------------------
(* What is held in the file, in memory and in the buffer of the reader is  *)
(* of its type at every moment: nRead stays inside buff (serial.cpp:181).  *)
THEOREM HostTypes == Spec => []TypeOK
BY NodeInvariant, ReaderInvariant, PTL DEF TypeOK, NodeInv, SerialInv

(* No byte of an earlier frame is left in what is handed on, whatever the  *)
(* sizes of the buffer and of the lines (serial.cpp:173-206).              *)
THEOREM FramesWhole == Spec => []FramesAreLines
BY ReaderInvariant, PTL DEF SerialInv

(* A node never serves from a half-made file (database.cpp:37-75, 325-387, *)
(* dag.cpp:37).                                                            *)
THEOREM ServesOnlyWhole == Spec => []ServesWhole
<1>1. NodeInv => ServesWhole
  <2> SUFFICES ASSUME NodeInv, at = Up PROVE ServesWhole
    BY DEF ServesWhole
  <2>1. \A i \in 4 .. 7 : Part[i] \in file \cup failed
    BY DEF NodeInv, Schema, FirstTrigger, Up
  <2>2. Triggers \ failed \subseteq file
    BY <2>1 DEF Triggers
  <2> QED
    BY <2>2 DEF ServesWhole, NodeInv, Schema, KeyInUse, Tables, FirstTrigger, Up
<1> QED
  BY <1>1, NodeInvariant, PTL

(* Every copy of a unit agrees with the original, however it came          *)
(* (unit.cpp:13, transaction.cpp:38, database.cpp:425, 449, 503).          *)
THEOREM CopiesAgree == Spec => []CopiesSound
<1>1. NodeInv => CopiesSound
  BY AllAgree DEF NodeInv, NodeTypeOK, CopiesSound
<1> QED
  BY <1>1, NodeInvariant, PTL

(* Whatever is broadcast passes the verification of its receivers          *)
(* (Network.h:364, dag.cpp:71-88, consensus.cpp:36-39).                    *)
THEOREM SendsVerify == Spec => []BroadcastVerifies
BY NodeInvariant, PTL DEF NodeInv

(* A stored key pair is the node's identity for good (dag.cpp:37-42,       *)
(* database.cpp:568-583).                                                  *)
THEOREM IdentityKept == Spec => KeyForGood
<1>1. NodeInv /\ [Next]_vars =>
         [/\ key_pairs # << >> => key_pairs' = key_pairs
          /\ key_pairs' # << >> => myKey_' \in {NoKey, Head(key_pairs')}]_nodeVars
  <2> SUFFICES ASSUME NodeInv, [NodeNext]_nodeVars
               PROVE  /\ key_pairs # << >> => key_pairs' = key_pairs
                      /\ key_pairs' # << >> => myKey_' \in {NoKey, Head(key_pairs')}
    BY DEF Next, vars
  <2>1. key_pairs # << >> => key_pairs' = key_pairs
    <3>1. CASE Dag_init
      BY <3>1 DEF Dag_init, NoKeyPair
    <3>2. CASE ~Dag_init
      BY <3>2 DEF NodeNext, nodeVars, Crash, Start, Make, MakeFails, MakeThrows, Alone,
                  Synchronised, pushAllUnit, Dag_initThrows, creatUnit, pushUnit, fileVars
    <3> QED
      BY <3>1, <3>2
  <2>2. NodeInv'
    BY NodeStep
  <2> QED
    BY <2>1, <2>2 DEF NodeInv, KeyInUse
<1> QED
  BY <1>1, NodeInvariant, PTL DEF Spec, KeyForGood
=============================================================================
