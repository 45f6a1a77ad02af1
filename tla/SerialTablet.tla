---------------------------- MODULE SerialTablet ----------------------------
(***************************************************************************)
(* wacom-input on a serial tablet (src/wacom): the main loop, the packet   *)
(* reader SerialReadRaw with its search for the start of a packet, the     *)
(* check of SerialParseData, the count of bit errors that leads to a reset *)
(* of the tablet, and what is reported to uinput.  The line loses bytes,   *)
(* read returns any part of what has arrived, and writes may fail.         *)
(*                                                                         *)
(* A packet is PacketLength bytes, of which the first alone has its high   *)
(* bit set; it says where the pen is: the first byte whether it is near,   *)
(* the last one whether it is pressed down.                                *)
(***************************************************************************)
EXTENDS Integers, Sequences

CONSTANTS
    PacketLength,  \* uPacketLength
    MaxBitErrors,  \* how many bit errors are put up with
    Failing,       \* what may fail, of "send", "read" and "hangup"
    MaxPackets,    \* bound: packets that the tablet sends
    MaxLosses,     \* bound: bytes that the line loses
    MaxQueue       \* bound: bytes that wait to be read

ASSUME TabletAssumption ==
    /\ PacketLength \in Nat /\ PacketLength > 1
    /\ MaxBitErrors \in Nat
    /\ Failing \subseteq {"send", "read", "hangup"}
    /\ MaxPackets \in Nat /\ MaxLosses \in Nat /\ MaxQueue \in Nat \ {0}

Pens == {"away", "near", "down"}

\* A byte: which packet it belongs to, its place in it, and that packet's pen.
Byte == [pkt: 1..MaxPackets, pos: 0..(PacketLength - 1), pen: Pens]

VARIABLES
    tablet,        \* sending or stopped; the next byte's packet, place and pen
    tty,           \* bytes that have arrived and are not read yet
    pc,            \* "start", "readraw", "select", "parse" or "exited"
    puchData,      \* the bytes of the packet read so far; its length is uCnt
    nBitErrors,
    touch,         \* BTN_TOUCH as uinput last heard of it
    damaged,       \* history: packets of which a byte was lost or thrown away
    flushed,       \* history: the last packet that a reset may have thrown away
    lossAt,        \* history: when the last byte was lost, in bytes sent
    closeLosses,   \* history: two were lost less than a packet apart
    lastOK,        \* history: the packet that was accepted last
    losses         \* counter of the bound

line == <<tablet, tty>>
history == <<damaged, flushed, lossAt, closeLosses, losses>>
vars == <<line, pc, puchData, nBitErrors, touch, history, lastOK>>

HighBit(b) == b.pos = 0

Fails(call) == call \in Failing

-----------------------------------------------------------------------------
(* The tablet and the line                                                  *)

\* The byte that the tablet sends next; a new packet takes the pen of now.
NextByte(pen) ==
    [pkt |-> tablet.pkt, pos |-> tablet.pos,
     pen |-> IF tablet.pos = 0 THEN pen ELSE tablet.pen]

Advance(b) ==
    IF b.pos = PacketLength - 1
    THEN [on |-> TRUE, pkt |-> b.pkt + 1, pos |-> 0, pen |-> b.pen]
    ELSE [on |-> TRUE, pkt |-> b.pkt, pos |-> b.pos + 1, pen |-> b.pen]

\* How many bytes have been sent.
Clock == (tablet.pkt - 1) * PacketLength + tablet.pos

TabletSends ==
    /\ pc \notin {"start", "exited"}
    /\ tablet.on /\ tablet.pkt <= MaxPackets
    /\ \E pen \in Pens :
          LET b == NextByte(pen) IN
          /\ tablet' = Advance(b)
          /\ \/ /\ Len(tty) < MaxQueue
                /\ tty' = Append(tty, b)
                /\ UNCHANGED history
             \/ /\ losses < MaxLosses
                /\ losses' = losses + 1
                /\ damaged' = damaged \cup {b.pkt}
                /\ closeLosses' = \/ closeLosses
                                  \/ losses > 0 /\ Clock - lossAt < PacketLength
                /\ lossAt' = Clock
                /\ UNCHANGED <<tty, flushed>>
    /\ UNCHANGED <<pc, puchData, nBitErrors, touch, lastOK>>

-----------------------------------------------------------------------------
(* Reset and start                                                          *)

\* Where the tablet stands after a reset: at the start of a packet.
Rest(on) ==
    [tablet EXCEPT !.on = on, !.pos = 0,
                   !.pkt = IF tablet.pos = 0 THEN @ ELSE @ + 1]

\* SerialReset comes to its end: reset, stop, flush and start.  Whether the start
\* could be sent is not looked at.
Restarted ==
    /\ tty' = << >>
    /\ \/ tablet' = Rest(TRUE)
       \/ Fails("send") /\ tablet' = Rest(FALSE)

\* A write fails: the tablet is left as it was, or stopped with or without a flush.
GivenUp ==
    /\ Fails("send")
    /\ \/ UNCHANGED line
       \/ tty' \in {tty, << >>} /\ tablet' = Rest(FALSE)

\* main opens the tablet and uinput and ends when either fails.
Startup ==
    /\ pc = "start"
    /\ \/ Restarted /\ pc' \in {"readraw", "exited"}
       \/ GivenUp /\ pc' = "exited"
    /\ UNCHANGED <<puchData, nBitErrors, touch, history, lastOK>>

Exited == pc = "exited" /\ UNCHANGED vars

-----------------------------------------------------------------------------
(* The main loop                                                            *)

\* SerialReadRaw is called: too many bit errors reset the tablet, and what comes
\* of that is not looked at.
ReadRaw ==
    /\ pc = "readraw"
    /\ IF nBitErrors > MaxBitErrors
       THEN /\ nBitErrors' = 0
            /\ Restarted \/ GivenUp
            /\ flushed' = Rest(TRUE).pkt - 1
       ELSE UNCHANGED <<nBitErrors, line, flushed>>
    /\ puchData' = << >>
    /\ pc' = "select"
    /\ UNCHANGED <<touch, damaged, lossAt, closeLosses, losses, lastOK>>

\* How many of the first n bytes of data come before the first high bit.
Misplaced(data, n) ==
    LET high == {k \in 1..n : HighBit(data[k])}
    IN  IF high = {} THEN n ELSE (CHOOSE k \in high : \A l \in high : k <= l) - 1

\* Mutant of Synchronised: bytes before the start of a packet are kept.
SynchronisedNot(data, n) == data

\* Mutant of Synchronised: the whole of what was read is thrown away.
SynchronisedDropsAll(data, n) == IF Misplaced(data, n) > 0 THEN << >> ELSE data

\* The search begins at the start of the buffer and goes as far as read returned,
\* and moves what follows down.
Synchronised(data, n) == SubSeq(data, Misplaced(data, n) + 1, Len(data))

\* select says that there are bytes, and read returns n of them.
Read(n) ==
    /\ pc = "select" /\ n <= Len(tty) /\ n <= PacketLength - Len(puchData)
    /\ LET data == puchData \o SubSeq(tty, 1, n) IN
          /\ puchData' = Synchronised(data, n)
          /\ nBitErrors' = IF Misplaced(data, n) > 0 THEN nBitErrors + 1 ELSE nBitErrors
    /\ tty' = SubSeq(tty, n + 1, Len(tty))
    /\ pc' = IF Len(puchData') = PacketLength THEN "parse" ELSE "select"
    /\ UNCHANGED <<tablet, touch, history, lastOK>>

\* select's time runs out.  The half second is set once for the whole packet and
\* select takes off what it waits, so a line that was idle for most of it times out
\* in the middle of the packet that follows.  What was read of it is thrown away.
Timeout ==
    /\ pc = "select" /\ tty = << >>
    /\ damaged' = damaged \cup {puchData[k].pkt : k \in DOMAIN puchData}
    /\ pc' = "readraw"
    /\ UNCHANGED <<line, puchData, nBitErrors, touch, flushed, lossAt, closeLosses,
                   losses, lastOK>>

\* read fails, or returns 0.  In the second case SerialParseData looks at the byte
\* that the buffer happens to start with, and the parser refuses the length.
ReadFails ==
    /\ pc = "select"
    /\ \/ Fails("read") /\ UNCHANGED nBitErrors
       \/ Fails("hangup") /\ nBitErrors' \in {0, nBitErrors + 1}
    /\ damaged' = damaged \cup {puchData[k].pkt : k \in DOMAIN puchData}
    /\ pc' = "readraw"
    /\ UNCHANGED <<line, puchData, touch, flushed, lossAt, closeLosses, losses, lastOK>>

\* Mutant of LowBits: the last byte is not looked at.
LowBitsButLast(data) == \A k \in 2..(Len(data) - 1) : ~HighBit(data[k])

\* No byte but the first has its high bit set.
LowBits(data) == \A k \in 2..Len(data) : ~HighBit(data[k])

\* BTN_TOUCH for a packet.
Touches(data) == data[1].pen # "away" /\ data[Len(data)].pen = "down"

\* Mutant of Parse: a pen that has gone is not reported.
ParseStaysDown ==
    /\ pc = "parse"
    /\ IF HighBit(puchData[1]) /\ LowBits(puchData)
       THEN /\ nBitErrors' = 0
            /\ touch' = IF puchData[1].pen = "away" THEN touch ELSE Touches(puchData)
            /\ lastOK' = puchData[1].pkt
       ELSE /\ nBitErrors' = nBitErrors + 1
            /\ UNCHANGED <<touch, lastOK>>
    /\ pc' = "readraw"
    /\ UNCHANGED <<line, puchData, history>>

\* SerialParseData, and the report to uinput when it succeeds.
Parse ==
    /\ pc = "parse"
    /\ IF HighBit(puchData[1]) /\ LowBits(puchData)
       THEN /\ nBitErrors' = 0
            /\ touch' = Touches(puchData)
            /\ lastOK' = puchData[1].pkt
       ELSE /\ nBitErrors' = nBitErrors + 1
            /\ UNCHANGED <<touch, lastOK>>
    /\ pc' = "readraw"
    /\ UNCHANGED <<line, puchData, history>>

Reader == \/ ReadRaw \/ Timeout \/ ReadFails \/ Parse
          \/ \E n \in 1..PacketLength : Read(n)

Init ==
    /\ tablet \in [on: BOOLEAN, pkt: {1}, pos: {0}, pen: {"away"}]
    /\ tty = << >>
    /\ pc = "start"
    /\ puchData = << >>
    /\ nBitErrors = 0
    /\ touch = FALSE
    /\ damaged = {} /\ flushed = 0 /\ lastOK = 0
    /\ lossAt = 0 /\ closeLosses = FALSE /\ losses = 0

Next == Startup \/ Exited \/ TabletSends \/ Reader

Spec == Init /\ [][Next]_vars

-----------------------------------------------------------------------------
(* Properties                                                               *)

\* Every variable holds a value of its type, and the buffer never starts with a
\* byte that is not the first of a packet.
TypeOK ==
    /\ tablet \in [on: BOOLEAN, pkt: 1..(MaxPackets + 1),
                   pos: 0..(PacketLength - 1), pen: Pens]
    /\ tty \in Seq(Byte) /\ Len(tty) <= MaxQueue
    /\ pc \in {"start", "readraw", "select", "parse", "exited"}
    /\ puchData \in Seq(Byte) /\ Len(puchData) <= PacketLength
    /\ puchData # << >> => HighBit(puchData[1])
    /\ nBitErrors \in Nat
    /\ touch \in BOOLEAN
    /\ damaged \subseteq 1..MaxPackets
    /\ flushed \in 0..MaxPackets /\ lastOK \in 0..MaxPackets

\* A packet about to be accepted.
Accepting == pc = "parse" /\ HighBit(puchData[1]) /\ LowBits(puchData)

\* SerialParseData has nothing but the high bits to go by.  They are enough as long
\* as no two bytes are lost within a packet's length: what is accepted is then one
\* packet as the tablet sent it, never the beginning of one with the end of another.
NoSplice ==
    Accepting /\ ~closeLosses => \A k \in 1..PacketLength : puchData[k].pkt = puchData[1].pkt

\* The search for the high bit costs little: a packet is only missed when the line
\* lost a byte of it or of the one before, when a timeout or a failing read came in
\* the middle of either, or when a reset threw it away.
WholePacketsAreRead ==
    Accepting =>
        \A p \in (lastOK + 1)..(puchData[1].pkt - 1) :
            p \in damaged \/ p - 1 \in damaged \/ p <= flushed

\* Nothing is on its way from the tablet to uinput.
Quiet == tty = << >> /\ pc = "select" /\ puchData = << >> /\ tablet.pos = 0

\* When the line is quiet BTN_TOUCH is what the pen does, unless the last packet or
\* the one before lost a byte, met a timeout or a failing read half way, or was
\* thrown away by a reset.  In those cases it may stay down with the pen away.
TouchIsPen ==
    LET p == tablet.pkt - 1 IN
    Quiet /\ p > flushed /\ damaged \cap {p - 1, p} = {} =>
        touch = (tablet.pen = "down")
=============================================================================
