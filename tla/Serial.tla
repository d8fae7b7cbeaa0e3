------------------------------- MODULE Serial -------------------------------
(***************************************************************************)
(* embeded_data::serial, the thread that reads the frames of the sensors:  *)
(* one byte after another into a buffer on its stack; a frame is a line.   *)
(*                                                                         *)
(* The header "rf_rx_data" takes one cell of the buffer here.  A read may  *)
(* fail (select reports a line that was hung up as readable); its result   *)
(* is not looked at, and what the buffer holds is taken for the byte.      *)
(***************************************************************************)
EXTENDS Naturals, Sequences, FiniteSets

CONSTANTS READ_HEAD, Equals, Data, Zero, Newline,   \* bytes
          N,         \* the size of buff
          MaxLine    \* bound: the bytes of a line

ASSUME SerialAssumption ==
    /\ N \in Nat \ {0, 1} /\ MaxLine \in Nat \ {0}
    /\ Cardinality({READ_HEAD, Equals, Data, Zero, Newline}) = 5

VARIABLES init_ok,   \* the port is open and the thread reads
          buff, nRead,
          line,      \* ghost: the bytes since the last newline
          unread,    \* ghost: a read failed since then
          frame,     \* ghost: the line that was read whole in this round
          pushed     \* what this round handed to pushInfo, if anything

serialVars == <<init_ok, buff, nRead, line, unread, frame, pushed>>

Byte == {READ_HEAD, Equals, Data, Zero, Newline}
Cell == 0 .. N - 1

SerialTypeOK ==
    /\ init_ok \in BOOLEAN
    /\ buff \in [Cell -> Byte]
    /\ nRead \in Cell
    /\ unread \in BOOLEAN
    /\ line \in Seq(Byte) /\ Len(line) <= MaxLine
    /\ frame \in Seq(Byte)
    /\ pushed \in Seq(Seq(Byte)) /\ Len(pushed) <= 1

SerialInit ==
    /\ init_ok = FALSE
    /\ buff = [i \in Cell |-> Zero] /\ nRead = 0
    /\ line = << >> /\ unread = FALSE /\ frame = << >> /\ pushed = << >>

(* The buffer is not initialised: its cells hold the same byte here, but   *)
(* it may be any.                                                          *)
start_read ==
    /\ ~init_ok
    /\ init_ok' = TRUE
    /\ \E c \in Byte : buff' = [i \in Cell |-> c]
    /\ UNCHANGED <<nRead, line, unread, frame, pushed>>

----------------------------------------------------------------------------
(* The string in a buffer: up to the first zero.                           *)
String(b) ==
    LET n == CHOOSE n \in 0 .. N :
                 /\ \A i \in 0 .. n - 1 : b[i] # Zero
                 /\ n = N \/ b[n] = Zero
    IN  [i \in 1 .. n |-> b[i - 1]]

Holds(s, c) == \E i \in DOMAIN s : s[i] = c

(* What follows the first "=".                                             *)
AfterEquals(s) ==
    LET i == CHOOSE i \in DOMAIN s : s[i] = Equals /\ \A j \in 1 .. i - 1 : s[j] # Equals
    IN  SubSeq(s, i + 1, Len(s))

(* Only a line with the header and a "=" is handed on.                     *)
Info(s) == IF Holds(s, READ_HEAD) /\ Holds(s, Equals) THEN <<AfterEquals(s)>> ELSE << >>

Unterminated(b) == b
Terminated(b) ==
    IF nRead < N - 1 THEN [b EXCEPT ![nRead + 1] = Zero] ELSE [b EXCEPT ![nRead] = Zero]

Unclamped(n) == n
Clamped(n) == IF n >= N - 1 THEN N - 1 ELSE n

(* One round of the loop, with the byte in its cell.                       *)
Round(b) ==
    IF b[nRead] = Newline
    THEN /\ buff' = Terminated(b)
         /\ pushed' = Info(String(buff'))
         /\ nRead' = 0
    ELSE /\ buff' = b
         /\ nRead' = Clamped(nRead + 1)
         /\ pushed' = << >>

ReadByte(c) ==
    /\ init_ok
    /\ c = Newline \/ unread \/ Len(line) < MaxLine
    /\ Round([buff EXCEPT ![nRead] = c])
    /\ IF c = Newline
       THEN /\ line' = << >> /\ unread' = FALSE
            /\ frame' = IF unread THEN << >> ELSE Append(line, c)
       ELSE /\ line' = IF unread THEN << >> ELSE Append(line, c)
            /\ frame' = << >> /\ UNCHANGED unread
    /\ UNCHANGED init_ok

(* Nothing is read; the stale byte may even be a newline, that of the line *)
(* before among them.                                                      *)
ReadFails ==
    /\ init_ok
    /\ Round(buff)
    /\ line' = << >> /\ frame' = << >>
    /\ unread' = (buff[nRead] # Newline)
    /\ UNCHANGED init_ok

SerialStep == ReadFails \/ \E c \in Byte : ReadByte(c)

----------------------------------------------------------------------------
(* What is packed into a unit comes from one line, however long the lines  *)
(* before it were: no byte of an earlier frame is left in it, and of a     *)
(* line that is longer than the buffer its beginning is taken.  A line is  *)
(* only vouched for when none of its reads failed (serial.cpp:173-206).    *)
Wanted(l) ==
    LET kept == [i \in Cell |-> IF i + 1 \in DOMAIN l /\ i < N - 1 THEN l[i + 1] ELSE Zero]
    IN  Info(String(kept))

FramesAreLines == frame # << >> => pushed = Wanted(frame)
=============================================================================
