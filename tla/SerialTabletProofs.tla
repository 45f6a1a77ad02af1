------------------------- MODULE SerialTabletProofs -------------------------
(***************************************************************************)
(* Proofs about SerialTablet: the buffer of SerialReadRaw always starts at *)
(* the start of a packet, and what SerialParseData accepts is one packet   *)
(* as the tablet sent it unless two bytes were lost within a packet's      *)
(* length; which packets are not missed; and that BTN_TOUCH is what the    *)
(* pen does when nothing is on its way.  For any packet length, any number *)
(* of packets, and however the line cuts the stream into reads.            *)
(***************************************************************************)
EXTENDS SerialTablet, WellFoundedInduction, TLAPS

-----------------------------------------------------------------------------
(* Numbers and sequences                                                    *)

\* A set of natural numbers has a least one.
LEMMA LeastNumber ==
    ASSUME NEW T, T \subseteq Nat, T # {}
    PROVE  \E x \in T : \A y \in T : x <= y
  <1> DEFINE R == OpToRel(<, Nat)
  <1>1. IsWellFoundedOn(R, Nat)
    BY NatLessThanWellFounded
  <1>2. \A x, y \in Nat : x < y => <<x, y>> \in R
    BY DEF OpToRel
  <1> HIDE DEF R
  <1>3. PICK x \in T : \A y \in T : ~(<<y, x>> \in R)
    BY <1>1, WFMin, Zenon
  <1>4. ASSUME NEW y \in T PROVE x <= y
    <2>1. x \in Nat /\ y \in Nat /\ ~(y < x)
      BY <1>2, <1>3, Zenon
    <2> QED
      BY <2>1
  <1> QED
    BY <1>4

\* What is left of a sequence without its first m elements.
LEMMA DropFacts ==
    ASSUME NEW S, NEW s \in Seq(S), NEW m \in 0..Len(s)
    PROVE  /\ SubSeq(s, m + 1, Len(s)) \in Seq(S)
           /\ Len(SubSeq(s, m + 1, Len(s))) = Len(s) - m
           /\ \A k \in 1..(Len(s) - m) : SubSeq(s, m + 1, Len(s))[k] = s[k + m]
  OBVIOUS

\* The first n elements of a sequence.
LEMMA TakeFacts ==
    ASSUME NEW S, NEW s \in Seq(S), NEW n \in 0..Len(s)
    PROVE  /\ SubSeq(s, 1, n) \in Seq(S)
           /\ Len(SubSeq(s, 1, n)) = n
           /\ \A k \in 1..n : SubSeq(s, 1, n)[k] = s[k]
  OBVIOUS

\* Two sequences in a row.
LEMMA ConcatFacts ==
    ASSUME NEW S, NEW s \in Seq(S), NEW t \in Seq(S)
    PROVE  /\ s \o t \in Seq(S) /\ Len(s \o t) = Len(s) + Len(t)
           /\ \A k \in 1..Len(s) : (s \o t)[k] = s[k]
           /\ \A k \in 1..Len(t) : (s \o t)[Len(s) + k] = t[k]
           /\ \A k \in 1..(Len(s) + Len(t)) : k > Len(s) => (s \o t)[k] = t[k - Len(s)]
  OBVIOUS

\* One more element.
LEMMA AppendFacts ==
    ASSUME NEW S, NEW s \in Seq(S), NEW x \in S
    PROVE  /\ Append(s, x) \in Seq(S) /\ Len(Append(s, x)) = Len(s) + 1
           /\ \A k \in 1..Len(s) : Append(s, x)[k] = s[k]
           /\ Append(s, x)[Len(s) + 1] = x
  OBVIOUS

-----------------------------------------------------------------------------
(* The search for the start of a packet                                     *)

\* Misplaced is the number of bytes before the first one with its high bit set, or all
\* that were looked at.
LEMMA MisplacedFacts ==
    ASSUME NEW data \in Seq(Byte), NEW n \in 0..Len(data)
    PROVE  /\ Misplaced(data, n) \in 0..n
           /\ \A k \in 1..Misplaced(data, n) : ~HighBit(data[k])
           /\ Misplaced(data, n) < n => HighBit(data[Misplaced(data, n) + 1])
  <1> DEFINE high == {k \in 1..n : HighBit(data[k])}
  <1>1. CASE high = {}
    BY <1>1 DEF Misplaced
  <1>2. CASE high # {}
    <2> DEFINE first == CHOOSE k \in high : \A l \in high : k <= l
    <2>1. \E k \in high : \A l \in high : k <= l
      <3>1. high \subseteq Nat
        OBVIOUS
      <3> QED
        BY <1>2, <3>1, LeastNumber
    <2>2. first \in high /\ \A l \in high : first <= l
      BY <2>1, Zenon
    <2>3. Misplaced(data, n) = first - 1
      BY <1>2 DEF Misplaced
    <2> HIDE DEF first
    <2> QED
      BY <2>2, <2>3
  <1> QED
    BY <1>1, <1>2

-----------------------------------------------------------------------------
(* Clocks                                                                   *)

\* When a byte was sent, in bytes sent before it.
At(b) == (b.pkt - 1) * PacketLength + b.pos

\* Products by the packet length, which the provers do not multiply out by themselves.
LEMMA Products ==
    ASSUME NEW p \in Nat \ {0}, NEW q \in Nat \ {0}
    PROVE  /\ (p - 1) * PacketLength \in Nat
           /\ p * PacketLength = (p - 1) * PacketLength + PacketLength
           /\ p < q => (q - 1) * PacketLength >= (p - 1) * PacketLength + PacketLength
  <1>1. PacketLength \in Nat
    BY TabletAssumption
  <1>2. \A x, y \in Nat : x * y \in Nat
    OBVIOUS
  <1>3. p * PacketLength = (p - 1) * PacketLength + PacketLength
    BY <1>1
  <1>4. ASSUME p < q
        PROVE  (q - 1) * PacketLength >= (p - 1) * PacketLength + PacketLength
    <2>1. q - 1 - p \in Nat
      BY <1>4
    <2>2. (q - 1 - p) * PacketLength \in Nat
      BY <1>1, <1>2, <2>1
    <2>3. (q - 1) * PacketLength = (q - 1 - p) * PacketLength + p * PacketLength
      BY <1>1
    <2> QED
      BY <1>1, <1>3, <2>2, <2>3
  <1> QED
    BY <1>1, <1>2, <1>3, <1>4

\* Where a byte stands to one that starts a packet.
LEMMA AtFacts ==
    ASSUME NEW b \in Byte, NEW d \in Byte, b.pos = 0
    PROVE  /\ At(b) \in Nat /\ At(d) \in Nat
           /\ d.pkt = b.pkt => At(d) = At(b) + d.pos
           /\ d.pkt > b.pkt => At(d) >= At(b) + PacketLength + d.pos
           /\ d.pkt < b.pkt => At(d) < At(b)
  <1>1. /\ b.pkt \in Nat \ {0} /\ d.pkt \in Nat \ {0}
        /\ d.pos \in 0..(PacketLength - 1) /\ PacketLength \in Nat
    BY TabletAssumption DEF Byte
  <1>2. (b.pkt - 1) * PacketLength \in Nat /\ (d.pkt - 1) * PacketLength \in Nat
    BY <1>1, Products
  <1>3. d.pkt > b.pkt => (d.pkt - 1) * PacketLength >= (b.pkt - 1) * PacketLength + PacketLength
    BY <1>1, Products
  <1>4. d.pkt < b.pkt => (b.pkt - 1) * PacketLength >= (d.pkt - 1) * PacketLength + PacketLength
    BY <1>1, Products
  <1> QED
    BY <1>1, <1>2, <1>3, <1>4 DEF At

-----------------------------------------------------------------------------
(* Types                                                                    *)

TabletType == [on: BOOLEAN, pkt: 1..(MaxPackets + 1), pos: 0..(PacketLength - 1), pen: Pens]

\* TypeOK with what it needs: the tablet stops at the end of its last packet, nothing
\* has been read before the start, and only a full buffer is parsed.
TypeInv ==
    /\ TypeOK
    /\ tablet.pos # 0 => tablet.pkt <= MaxPackets
    /\ pc = "start" => puchData = << >> /\ tty = << >>
    /\ pc = "parse" => Len(puchData) = PacketLength
    /\ losses \in Nat /\ lossAt \in Nat /\ closeLosses \in BOOLEAN

LEMMA ClockType ==
    ASSUME TypeInv
    PROVE  Clock \in Nat /\ (tablet.pkt - 1) * PacketLength \in Nat
  <1>1. tablet.pkt \in Nat \ {0} /\ tablet.pos \in Nat
    BY TabletAssumption DEF TypeInv, TypeOK
  <1>2. (tablet.pkt - 1) * PacketLength \in Nat
    BY <1>1, Products
  <1> QED
    BY <1>1, <1>2 DEF Clock

LEMMA ClockTypeNext ==
    ASSUME TypeInv'
    PROVE  Clock' \in Nat
  <1>1. tablet'.pkt \in Nat \ {0} /\ tablet'.pos \in Nat
    BY TabletAssumption, SMTT(30) DEF TypeInv, TypeOK
  <1>2. (tablet'.pkt - 1) * PacketLength \in Nat
    BY <1>1, Products
  <1> QED
    BY <1>1, <1>2 DEF Clock

\* The tablet goes on to the next byte.
LEMMA SendsEffect ==
    ASSUME TypeInv, NEW pen \in Pens, tablet.pkt <= MaxPackets, tablet' = Advance(NextByte(pen))
    PROVE  /\ NextByte(pen) \in Byte /\ At(NextByte(pen)) = Clock
           /\ NextByte(pen).pkt = tablet.pkt /\ NextByte(pen).pos = tablet.pos
           /\ tablet' \in TabletType /\ (tablet'.pos # 0 => tablet'.pkt <= MaxPackets)
           /\ tablet'.on = TRUE /\ tablet'.pen = NextByte(pen).pen
           /\ \/ /\ tablet.pos = PacketLength - 1
                 /\ tablet'.pkt = tablet.pkt + 1 /\ tablet'.pos = 0
              \/ /\ tablet.pos < PacketLength - 1
                 /\ tablet'.pkt = tablet.pkt /\ tablet'.pos = tablet.pos + 1
           /\ Clock' = Clock + 1
  <1> DEFINE b == NextByte(pen)
  <1>1. /\ tablet.pkt \in 1..MaxPackets /\ tablet.pos \in 0..(PacketLength - 1)
        /\ tablet.pen \in Pens /\ PacketLength \in Nat /\ MaxPackets \in Nat
    BY TabletAssumption DEF TypeInv, TypeOK
  <1>2. b \in Byte /\ b.pkt = tablet.pkt /\ b.pos = tablet.pos
    BY <1>1 DEF NextByte, Byte
  <1>3. At(b) = Clock
    BY <1>2 DEF At, Clock
  <1>4. (tablet.pkt - 1) * PacketLength \in Nat
    BY ClockType
  <1>5. tablet.pkt * PacketLength = (tablet.pkt - 1) * PacketLength + PacketLength
    BY <1>1, Products
  <1> HIDE DEF b
  <1>6. b.pen \in Pens
    BY <1>2 DEF Byte
  <1>7. CASE tablet.pos = PacketLength - 1
    <2>1. tablet' = [on |-> TRUE, pkt |-> tablet.pkt + 1, pos |-> 0, pen |-> b.pen]
      BY <1>2, <1>7 DEF Advance, b
    <2>2. tablet'.pkt = tablet.pkt + 1 /\ tablet'.pos = 0 /\ tablet'.on = TRUE /\ tablet'.pen = b.pen
      BY <2>1
    <2>3. tablet' \in TabletType
      BY <1>1, <1>6, <2>1 DEF TabletType
    <2>4. Clock' = tablet.pkt * PacketLength
      BY <1>1, <1>4, <1>5, <2>2 DEF Clock
    <2>5. Clock' = Clock + 1
      BY <1>1, <1>4, <1>5, <1>7, <2>4 DEF Clock
    <2> QED
      BY <1>2, <1>3, <1>7, <2>2, <2>3, <2>5 DEF b
  <1>8. CASE tablet.pos # PacketLength - 1
    <2>1. tablet' = [on |-> TRUE, pkt |-> tablet.pkt, pos |-> tablet.pos + 1, pen |-> b.pen]
      BY <1>2, <1>8 DEF Advance, b
    <2>2. /\ tablet'.pkt = tablet.pkt /\ tablet'.pos = tablet.pos + 1 /\ tablet'.on = TRUE
          /\ tablet'.pen = b.pen
      BY <2>1
    <2>3. tablet' \in TabletType /\ tablet.pos < PacketLength - 1
      BY <1>1, <1>6, <1>8, <2>1 DEF TabletType
    <2>4. Clock' = Clock + 1
      BY <1>1, <1>4, <2>2 DEF Clock
    <2> QED
      BY <1>1, <1>2, <1>3, <2>2, <2>3, <2>4 DEF b
  <1> QED
    BY <1>7, <1>8

\* A reset leaves the tablet at the start of a packet.
LEMMA RestEffect ==
    ASSUME TypeInv, NEW on \in BOOLEAN
    PROVE  /\ Rest(on) \in TabletType
           /\ Rest(on).on = on /\ Rest(on).pos = 0 /\ Rest(on).pen = tablet.pen
           /\ Rest(on).pkt = IF tablet.pos = 0 THEN tablet.pkt ELSE tablet.pkt + 1
           /\ Rest(on).pkt - 1 \in 0..MaxPackets
           /\ (Rest(on).pkt - 1) * PacketLength >= Clock
  <1>1. /\ tablet \in TabletType /\ MaxPackets \in Nat /\ PacketLength \in Nat
        /\ tablet.pkt \in 1..(MaxPackets + 1) /\ tablet.pos \in 0..(PacketLength - 1)
        /\ tablet.pos # 0 => tablet.pkt <= MaxPackets
    BY TabletAssumption DEF TypeInv, TypeOK, TabletType
  <1> DEFINE pkt == IF tablet.pos = 0 THEN tablet.pkt ELSE tablet.pkt + 1
  <1>2. pkt \in 1..(MaxPackets + 1) /\ pkt - 1 \in 0..MaxPackets
    BY <1>1
  <1>3. Rest(on) = [tablet EXCEPT !.on = on, !.pos = 0, !.pkt = pkt]
    BY DEF Rest
  <1> HIDE DEF pkt
  <1>4. /\ Rest(on).on = on /\ Rest(on).pos = 0 /\ Rest(on).pkt = pkt
        /\ Rest(on).pen = tablet.pen
    BY <1>1, <1>3 DEF TabletType
  <1>5. 0 \in 0..(PacketLength - 1)
    BY TabletAssumption
  <1>6. Rest(on) \in TabletType
    BY <1>1, <1>2, <1>3, <1>5 DEF TabletType
  <1>7. (pkt - 1) * PacketLength >= Clock
    <2>1. /\ tablet.pkt * PacketLength = (tablet.pkt - 1) * PacketLength + PacketLength
          /\ (tablet.pkt - 1) * PacketLength \in Nat
      BY <1>1, Products
    <2>2. CASE tablet.pos = 0
      BY <1>1, <2>1, <2>2 DEF pkt, Clock
    <2>3. CASE tablet.pos # 0
      <3>1. pkt - 1 = tablet.pkt
        BY <1>1, <2>3 DEF pkt
      <3> QED
        BY <1>1, <2>1, <3>1 DEF Clock
    <2> QED
      BY <2>2, <2>3
  <1> QED
    BY <1>2, <1>4, <1>6, <1>7 DEF pkt

LEMMA RestClock ==
    ASSUME TypeInv, NEW on \in BOOLEAN, tablet' = Rest(on)
    PROVE  /\ Clock' >= Clock /\ tablet'.on = on /\ tablet'.pos = 0 /\ tablet'.pen = tablet.pen
           /\ tablet'.pkt = IF tablet.pos = 0 THEN tablet.pkt ELSE tablet.pkt + 1
  <1>1. /\ (tablet'.pkt - 1) * PacketLength >= Clock /\ tablet'.pkt - 1 \in 0..MaxPackets
        /\ tablet'.on = on /\ tablet'.pos = 0 /\ tablet'.pen = tablet.pen
        /\ tablet'.pkt = IF tablet.pos = 0 THEN tablet.pkt ELSE tablet.pkt + 1
    BY RestEffect, Zenon
  <1>2. (tablet'.pkt - 1) * PacketLength \in Nat
    <2>1. tablet'.pkt - 1 \in Nat /\ PacketLength \in Nat
      BY <1>1, TabletAssumption
    <2> QED
      BY <2>1
  <1>3. Clock' = (tablet'.pkt - 1) * PacketLength
    BY <1>1, <1>2 DEF Clock
  <1> QED
    BY <1>1, <1>3

\* The bytes on their way: those in the buffer and those that wait behind them.
Stream == puchData \o tty

LEMMA StreamType ==
    ASSUME TypeInv
    PROVE  /\ Stream \in Seq(Byte) /\ Len(Stream) = Len(puchData) + Len(tty)
           /\ Len(Stream) \in Nat /\ Len(puchData) \in Nat /\ Len(tty) \in Nat
           /\ \A k \in 1..Len(Stream) : Stream[k] \in Byte /\ At(Stream[k]) \in Nat
           /\ \A k \in 1..Len(puchData) : Stream[k] = puchData[k]
           /\ \A k \in 1..Len(tty) : Stream[Len(puchData) + k] = tty[k]
  <1>1. puchData \in Seq(Byte) /\ tty \in Seq(Byte)
    BY DEF TypeInv, TypeOK
  <1>2. /\ Stream \in Seq(Byte) /\ Len(Stream) = Len(puchData) + Len(tty)
        /\ \A k \in 1..Len(puchData) : Stream[k] = puchData[k]
        /\ \A k \in 1..Len(tty) : Stream[Len(puchData) + k] = tty[k]
    BY <1>1, ConcatFacts DEF Stream
  <1>3. Len(puchData) \in Nat /\ Len(tty) \in Nat /\ Len(Stream) \in Nat
    BY <1>1, <1>2
  <1>4. ASSUME NEW k \in 1..Len(Stream) PROVE Stream[k] \in Byte /\ At(Stream[k]) \in Nat
    <2>1. Stream[k] \in Byte
      BY <1>2
    <2>2. Stream[k].pkt \in Nat \ {0} /\ Stream[k].pos \in Nat
      BY <2>1, TabletAssumption DEF Byte
    <2>3. (Stream[k].pkt - 1) * PacketLength \in Nat
      BY <2>2, Products
    <2> QED
      BY <2>1, <2>2, <2>3 DEF At
  <1> QED
    BY <1>2, <1>3, <1>4

\* A read takes n bytes off the line and drops the first m of them, which are not the
\* start of a packet; it drops none once the buffer has one.
LEMMA ReadEffect ==
    ASSUME TypeInv, NEW n \in 1..PacketLength, Read(n)
    PROVE  \E m \in 0..n :
              /\ puchData' \in Seq(Byte) /\ Len(puchData') = Len(puchData) + n - m
              /\ tty' \in Seq(Byte) /\ Len(tty') = Len(tty) - n
              /\ Len(Stream') = Len(Stream) - m /\ m <= Len(Stream)
              /\ \A k \in 1..Len(Stream') : Stream'[k] = Stream[k + m]
              /\ \A k \in 1..m : ~HighBit(Stream[k])
              /\ puchData # << >> => m = 0
              /\ puchData' # << >> => HighBit(puchData'[1])
              /\ nBitErrors' \in Nat
  <1> DEFINE front == SubSeq(tty, 1, n)
             data == puchData \o front
             m == Misplaced(data, n)
  <1>1. /\ puchData \in Seq(Byte) /\ tty \in Seq(Byte) /\ n \in 1..Len(tty)
        /\ puchData' = SubSeq(data, m + 1, Len(data))
        /\ tty' = SubSeq(tty, n + 1, Len(tty))
        /\ nBitErrors' = IF m > 0 THEN nBitErrors + 1 ELSE nBitErrors
    BY TabletAssumption DEF TypeInv, TypeOK, Read, Synchronised
  <1>2. front \in Seq(Byte) /\ Len(front) = n /\ \A k \in 1..n : front[k] = tty[k]
    BY <1>1, TakeFacts
  <1> HIDE DEF front
  <1>3. /\ data \in Seq(Byte) /\ Len(data) = Len(puchData) + n
        /\ \A k \in 1..Len(puchData) : data[k] = puchData[k]
        /\ \A k \in 1..n : data[Len(puchData) + k] = tty[k]
    BY <1>1, <1>2, ConcatFacts
  <1> HIDE DEF data
  <1>4. Len(puchData) \in Nat /\ n \in 0..Len(data) /\ Len(data) \in Nat
    BY <1>1, <1>3
  <1>5. /\ m \in 0..n /\ \A k \in 1..m : ~HighBit(data[k])
        /\ m < n => HighBit(data[m + 1])
    BY <1>3, <1>4, MisplacedFacts
  <1> HIDE DEF m
  <1>6. /\ puchData' \in Seq(Byte) /\ Len(puchData') = Len(data) - m
        /\ \A k \in 1..(Len(data) - m) : puchData'[k] = data[k + m]
    <2>1. m \in 0..Len(data)
      BY <1>4, <1>5
    <2> QED
      BY <1>1, <1>3, <2>1, DropFacts
  <1>7. /\ tty' \in Seq(Byte) /\ Len(tty') = Len(tty) - n
        /\ \A k \in 1..(Len(tty) - n) : tty'[k] = tty[k + n]
    <2>1. n \in 0..Len(tty)
      BY <1>1
    <2> QED
      BY <1>1, <2>1, DropFacts
  <1>8. puchData # << >> => m = 0
    <2> SUFFICES ASSUME puchData # << >>, m # 0 PROVE FALSE
      OBVIOUS
    <2>1. 1 \in 1..Len(puchData) /\ HighBit(puchData[1])
      BY <1>1 DEF TypeInv, TypeOK
    <2>2. 1 \in 1..m
      BY <1>5
    <2> QED
      BY <1>3, <1>5, <2>1, <2>2
  <1>9. puchData' # << >> => HighBit(puchData'[1])
    <2> SUFFICES ASSUME puchData' # << >> PROVE HighBit(puchData'[1])
      OBVIOUS
    <2>1. Len(data) - m >= 1
      BY <1>6
    <2>2. puchData'[1] = data[m + 1]
      BY <1>4, <1>5, <1>6, <2>1
    <2>3. CASE puchData # << >>
      <3>1. 1 \in 1..Len(puchData) /\ HighBit(puchData[1])
        BY <1>1, <2>3 DEF TypeInv, TypeOK
      <3> QED
        BY <1>3, <1>8, <2>2, <2>3, <3>1
    <2>4. CASE puchData = << >>
      <3>1. m < n
        BY <1>3, <1>5, <2>1, <2>4
      <3> QED
        BY <1>5, <2>2, <3>1
    <2> QED
      BY <2>3, <2>4
  <1>10. /\ Len(Stream) = Len(puchData) + Len(tty) /\ Len(tty) \in Nat
         /\ \A k \in 1..Len(puchData) : Stream[k] = puchData[k]
         /\ \A k \in 1..Len(tty) : Stream[Len(puchData) + k] = tty[k]
    BY StreamType
  <1>11. \A k \in 1..Len(data) : Stream[k] = data[k]
    <2> SUFFICES ASSUME NEW k \in 1..Len(data) PROVE Stream[k] = data[k]
      OBVIOUS
    <2>1. CASE k <= Len(puchData)
      BY <1>3, <1>4, <1>10, <2>1
    <2>2. CASE k > Len(puchData)
      <3> DEFINE l == k - Len(puchData)
      <3>1. l \in 1..n /\ l \in 1..Len(tty) /\ k = Len(puchData) + l
        BY <1>1, <1>3, <1>4, <2>2
      <3> HIDE DEF l
      <3>2. data[k] = tty[l]
        BY <1>3, <3>1
      <3>3. Stream[k] = tty[l]
        BY <1>10, <3>1
      <3> QED
        BY <3>2, <3>3
    <2> QED
      BY <1>4, <2>1, <2>2
  <1>12. /\ Len(Stream') = Len(puchData') + Len(tty')
         /\ \A k \in 1..Len(puchData') : Stream'[k] = puchData'[k]
         /\ \A k \in 1..(Len(puchData') + Len(tty')) :
               k > Len(puchData') => Stream'[k] = tty'[k - Len(puchData')]
    BY <1>6, <1>7, ConcatFacts DEF Stream
  <1>13. Len(Stream') = Len(Stream) - m /\ m <= Len(Stream)
    BY <1>1, <1>3, <1>4, <1>5, <1>6, <1>7, <1>10, <1>12
  <1>14. \A k \in 1..Len(Stream') : Stream'[k] = Stream[k + m]
    <2> SUFFICES ASSUME NEW k \in 1..Len(Stream') PROVE Stream'[k] = Stream[k + m]
      OBVIOUS
    <2>1. CASE k <= Len(puchData')
      <3>1. k \in 1..(Len(data) - m) /\ k + m \in 1..Len(data)
        BY <1>4, <1>5, <1>6, <2>1
      <3> QED
        BY <1>6, <1>11, <1>12, <2>1, <3>1
    <2>2. CASE k > Len(puchData')
      <3> DEFINE l == k - Len(puchData')
      <3>1. l \in 1..(Len(tty) - n) /\ l + n \in 1..Len(tty)
        BY <1>1, <1>4, <1>5, <1>6, <1>7, <1>12, <2>2, SMTT(30)
      <3>2. Stream'[k] = tty[l + n]
        BY <1>7, <1>12, <2>2, <3>1
      <3>3. k + m = Len(puchData) + (l + n)
        BY <1>3, <1>4, <1>5, <1>6
      <3> QED
        BY <1>10, <3>1, <3>2, <3>3
    <2> QED
      BY <1>4, <1>5, <1>6, <2>1, <2>2
  <1>15. nBitErrors' \in Nat
    BY <1>1 DEF TypeInv, TypeOK
  <1>16. \A k \in 1..m : ~HighBit(Stream[k])
    BY <1>4, <1>5, <1>11
  <1>17. Len(puchData') = Len(puchData) + n - m
    BY <1>3, <1>4, <1>5, <1>6
  <1> QED
    BY <1>5, <1>6, <1>7, <1>8, <1>9, <1>13, <1>14, <1>15, <1>16, <1>17

\* Every action keeps the types.
LEMMA TypeStep ==
    ASSUME TypeInv, [Next]_vars
    PROVE  TypeInv'
  <1> USE TabletAssumption
  <1>1. ASSUME TabletSends PROVE TypeInv'
    <2>1. PICK pen \in Pens :
            LET b == NextByte(pen) IN
            /\ tablet' = Advance(b)
            /\ \/ /\ Len(tty) < MaxQueue
                  /\ tty' = Append(tty, b)
                  /\ UNCHANGED history
               \/ /\ losses < MaxLosses
                  /\ losses' = losses + 1
                  /\ damaged' = damaged \cup {b.pkt}
                  /\ closeLosses' = \/ closeLosses
                                    \/ losses > 0 /\ Clock - lossAt < PacketLength
                  /\ lossAt' = Clock
                  /\ UNCHANGED <<tty, flushed>>
      BY <1>1 DEF TabletSends
    <2> DEFINE b == NextByte(pen)
    <2>2. /\ b \in Byte /\ b.pkt = tablet.pkt /\ tablet' \in TabletType
          /\ tablet'.pos # 0 => tablet'.pkt <= MaxPackets
      BY <1>1, <2>1, SendsEffect DEF TabletSends
    <2> HIDE DEF b
    <2>3. /\ tablet.pkt \in 1..MaxPackets /\ pc \notin {"start"}
          /\ UNCHANGED <<pc, puchData, nBitErrors, touch, lastOK>>
      BY <1>1 DEF TabletSends, TypeInv, TypeOK
    <2>4. tty' \in Seq(Byte) /\ Len(tty') <= MaxQueue
      <3>1. tty \in Seq(Byte) /\ Len(tty) <= MaxQueue
        BY DEF TypeInv, TypeOK
      <3>2. Append(tty, b) \in Seq(Byte) /\ Len(Append(tty, b)) = Len(tty) + 1
        BY <2>2, <3>1, AppendFacts
      <3>3. tty' = tty \/ (tty' = Append(tty, b) /\ Len(tty) < MaxQueue)
        BY <2>1 DEF b
      <3> QED
        BY <3>1, <3>2, <3>3
    <2>5. /\ losses' \in Nat /\ lossAt' \in Nat /\ closeLosses' \in BOOLEAN
          /\ damaged' \subseteq 1..MaxPackets /\ flushed' = flushed
      <3>1. CASE UNCHANGED history
        BY <3>1 DEF history, TypeInv, TypeOK
      <3>2. CASE ~UNCHANGED history
        <4>1. /\ losses' = losses + 1 /\ damaged' = damaged \cup {b.pkt} /\ lossAt' = Clock
              /\ flushed' = flushed
          BY <2>1, <3>2 DEF b
        <4>2. closeLosses' = (closeLosses \/ (losses > 0 /\ Clock - lossAt < PacketLength))
          BY <2>1, <3>2
        <4>3. closeLosses' \in BOOLEAN
          BY <4>2, Zenon
        <4>4. Clock \in Nat
          BY ClockType
        <4>5. damaged' \subseteq 1..MaxPackets
          BY <2>2, <2>3, <4>1 DEF TypeInv, TypeOK
        <4>6. losses' \in Nat
          BY <4>1 DEF TypeInv
        <4> QED
          BY <4>1, <4>3, <4>4, <4>5, <4>6
      <3> QED
        BY <3>1, <3>2
    <2> QED
      BY <2>2, <2>3, <2>4, <2>5 DEF TypeInv, TypeOK, TabletType
  <1>2. ASSUME Restarted \/ GivenUp
        PROVE  /\ tablet' \in TabletType /\ (tablet'.pos # 0 => tablet'.pkt <= MaxPackets)
               /\ tty' \in Seq(Byte) /\ Len(tty') <= MaxQueue
    <2>1. tablet' \in {tablet, Rest(TRUE), Rest(FALSE)} /\ tty' \in {tty, << >>}
      BY <1>2 DEF Restarted, GivenUp, line
    <2>2. /\ Rest(TRUE) \in TabletType /\ Rest(TRUE).pos = 0
          /\ Rest(FALSE) \in TabletType /\ Rest(FALSE).pos = 0
      BY RestEffect
    <2>3. tablet \in TabletType /\ (tablet.pos # 0 => tablet.pkt <= MaxPackets)
      BY DEF TypeInv, TypeOK, TabletType
    <2>4. tablet' \in TabletType /\ (tablet'.pos # 0 => tablet'.pkt <= MaxPackets)
      BY <2>1, <2>2, <2>3
    <2>5. tty' \in Seq(Byte) /\ Len(tty') <= MaxQueue
      <3>1. CASE tty' = tty
        BY <3>1 DEF TypeInv, TypeOK
      <3>2. CASE tty' = << >>
        BY <3>2
      <3> QED
        BY <2>1, <3>1, <3>2
    <2> QED
      BY <2>4, <2>5
  <1>3. ASSUME Startup PROVE TypeInv'
    BY <1>2, <1>3 DEF Startup, TypeInv, TypeOK, TabletType, history
  <1>4. ASSUME ReadRaw PROVE TypeInv'
    <2>1. /\ tablet' \in TabletType /\ (tablet'.pos # 0 => tablet'.pkt <= MaxPackets)
          /\ tty' \in Seq(Byte) /\ Len(tty') <= MaxQueue
      BY <1>2, <1>4 DEF ReadRaw, TypeInv, TypeOK, TabletType, line
    <2>2. flushed' \in 0..MaxPackets /\ nBitErrors' \in Nat
      <3> DEFINE last == Rest(TRUE).pkt - 1
      <3>1. last \in 0..MaxPackets
        BY RestEffect
      <3>2. flushed' \in {flushed, last} /\ nBitErrors' \in {nBitErrors, 0}
        BY <1>4 DEF ReadRaw
      <3> HIDE DEF last
      <3> QED
        BY <3>1, <3>2 DEF TypeInv, TypeOK
    <2> QED
      BY <1>4, <2>1, <2>2 DEF ReadRaw, TypeInv, TypeOK, TabletType
  <1>5. ASSUME NEW n \in 1..PacketLength, Read(n) PROVE TypeInv'
    <2>1. PICK m \in 0..n :
              /\ puchData' \in Seq(Byte) /\ Len(puchData') = Len(puchData) + n - m
              /\ tty' \in Seq(Byte) /\ Len(tty') = Len(tty) - n
              /\ puchData' # << >> => HighBit(puchData'[1])
              /\ nBitErrors' \in Nat
      BY <1>5, ReadEffect
    <2>2. Len(puchData') <= PacketLength /\ Len(tty') <= MaxQueue
      BY <1>5, <2>1 DEF Read, TypeInv, TypeOK
    <2> QED
      BY <1>5, <2>1, <2>2 DEF Read, TypeInv, TypeOK, TabletType, history
  <1>6. ASSUME Timeout \/ ReadFails PROVE TypeInv'
    <2>1. damaged' \subseteq 1..MaxPackets
      <3>1. \A k \in DOMAIN puchData : puchData[k] \in Byte
        BY DEF TypeInv, TypeOK
      <3>2. \A k \in DOMAIN puchData : puchData[k].pkt \in 1..MaxPackets
        BY <3>1 DEF Byte
      <3>3. damaged' = damaged \cup {puchData[k].pkt : k \in DOMAIN puchData}
        BY <1>6 DEF Timeout, ReadFails
      <3>4. damaged \subseteq 1..MaxPackets
        BY DEF TypeInv, TypeOK
      <3> QED
        BY <3>2, <3>3, <3>4
    <2>2. nBitErrors' \in Nat /\ pc' = "readraw"
      BY <1>6 DEF Timeout, ReadFails, TypeInv, TypeOK
    <2>3. UNCHANGED <<line, puchData, touch, flushed, lossAt, closeLosses, losses, lastOK>>
      BY <1>6 DEF Timeout, ReadFails
    <2> QED
      BY <2>1, <2>2, <2>3 DEF TypeInv, TypeOK, line
  <1>8. ASSUME Parse PROVE TypeInv'
    <2>1. puchData[1].pkt \in 0..MaxPackets
      <3>1. puchData[1] \in Byte
        BY <1>8 DEF Parse, TypeInv, TypeOK
      <3> QED
        BY <3>1 DEF Byte
    <2>2. Touches(puchData) \in BOOLEAN
      BY DEF Touches
    <2> QED
      BY <1>8, <2>1, <2>2, SMTT(30) DEF Parse, TypeInv, TypeOK, line, history
  <1>9. CASE UNCHANGED vars
    BY <1>9 DEF vars, line, history, TypeInv, TypeOK
  <1> QED
    BY <1>1, <1>3, <1>4, <1>5, <1>6, <1>8, <1>9 DEF Next, Reader, Exited

LEMMA TypeInit == Init => TypeInv
  <1> SUFFICES ASSUME Init PROVE TypeInv
    OBVIOUS
  <1>1. /\ tablet.on \in BOOLEAN /\ tablet.pkt = 1 /\ tablet.pos = 0 /\ tablet.pen = "away"
        /\ tablet = [on |-> tablet.on, pkt |-> tablet.pkt, pos |-> tablet.pos,
                     pen |-> tablet.pen]
    BY DEF Init
  <1>2. 1 \in 1..(MaxPackets + 1) /\ 0 \in 0..(PacketLength - 1) /\ 0 \in 0..MaxPackets
    BY TabletAssumption
  <1>3. tablet \in TabletType
    BY <1>1, <1>2 DEF TabletType, Pens
  <1>4. tty = << >> /\ tty \in Seq(Byte) /\ Len(tty) <= MaxQueue
    BY TabletAssumption DEF Init
  <1>5. puchData = << >> /\ puchData \in Seq(Byte) /\ Len(puchData) <= PacketLength
    BY TabletAssumption DEF Init
  <1> QED
    BY <1>1, <1>2, <1>3, <1>4, <1>5 DEF Init, TypeInv, TypeOK, TabletType

\* Every variable keeps its type: in particular the buffer of SerialReadRaw, which takes
\* PacketLength bytes, is never filled beyond them and starts at the start of a packet,
\* however the line cuts the bytes into reads.
THEOREM TypeCorrect == Spec => []TypeOK
  <1>1. TypeInv /\ [Next]_vars => TypeInv'
    BY TypeStep
  <1>2. TypeInv => TypeOK
    BY DEF TypeInv
  <1> QED
    BY <1>1, <1>2, TypeInit, PTL DEF Spec

-----------------------------------------------------------------------------
(* What a step does to the bytes on their way                               *)

\* The tablet sent b, which arrived.
Grown(b) ==
    /\ Len(Stream') = Len(Stream) + 1
    /\ \A k \in 1..Len(Stream) : Stream'[k] = Stream[k]
    /\ Stream'[Len(Stream) + 1] = b
    /\ UNCHANGED history

\* The tablet sent b, which was lost.
Lost(b) ==
    /\ UNCHANGED <<Stream, flushed>>
    /\ losses' = losses + 1 /\ lossAt' = Clock
    /\ damaged' = damaged \cup {b.pkt}
    /\ ~closeLosses' => ~closeLosses /\ (losses = 0 \/ Clock - lossAt >= PacketLength)

\* The last packet of which a byte was sent.
Latest == IF tablet.pos = 0 THEN tablet.pkt - 1 ELSE tablet.pkt

\* The reader is still to judge the k-th byte: after a packet was parsed or given up the
\* buffer's bytes stay in it until SerialReadRaw is called again.
Ahead(k) == pc = "readraw" => k > Len(puchData)

\* The first m bytes have gone: none that starts a packet and was still to be judged, but
\* in a reset.  A tablet that goes on as it was, or one that starts again with nothing on
\* its way.
Shifted(m) ==
    /\ m \in 0..Len(Stream) /\ Len(Stream') = Len(Stream) - m
    /\ \A k \in 1..Len(Stream') : Stream'[k] = Stream[k + m]
    /\ \A k \in 1..m : HighBit(Stream[k]) /\ Ahead(k) => Latest <= flushed'
    /\ \A k \in 1..Len(Stream') : Ahead(k)' => Ahead(k + m)
    /\ Clock' >= Clock
    /\ tablet'.on => tablet' = tablet \/ Len(Stream') = 0
    /\ Latest' = Latest /\ tablet'.pen = tablet.pen
    /\ UNCHANGED <<lossAt, closeLosses, losses>>
    /\ damaged \subseteq damaged'

\* A byte is sent.
LEMMA SendStep ==
    ASSUME TypeInv, TabletSends
    PROVE  \E pen \in Pens :
              /\ tablet' = Advance(NextByte(pen)) /\ tablet.on /\ tablet.pkt <= MaxPackets
              /\ Grown(NextByte(pen)) \/ Lost(NextByte(pen))
              /\ UNCHANGED <<pc, puchData, nBitErrors, touch, lastOK>>
  <1>1. PICK pen \in Pens :
          LET b == NextByte(pen) IN
          /\ tablet' = Advance(b)
          /\ \/ /\ Len(tty) < MaxQueue
                /\ tty' = Append(tty, b)
                /\ UNCHANGED history
             \/ /\ losses < MaxLosses
                /\ losses' = losses + 1
                /\ damaged' = damaged \cup {b.pkt}
                /\ closeLosses' = \/ closeLosses
                                  \/ losses > 0 /\ Clock - lossAt < PacketLength
                /\ lossAt' = Clock
                /\ UNCHANGED <<tty, flushed>>
    BY DEF TabletSends
  <1> DEFINE b == NextByte(pen)
  <1>2. /\ tablet.on /\ tablet.pkt <= MaxPackets
        /\ UNCHANGED <<pc, puchData, nBitErrors, touch, lastOK>>
    BY DEF TabletSends
  <1>3. b \in Byte
    BY <1>1, <1>2, SendsEffect
  <1>4. ASSUME tty' = Append(tty, b), UNCHANGED history
        PROVE  Grown(b)
    <2>1. puchData \in Seq(Byte) /\ tty \in Seq(Byte)
      BY DEF TypeInv, TypeOK
    <2> HIDE DEF b
    <2>2. /\ tty' \in Seq(Byte) /\ Len(tty') = Len(tty) + 1 /\ tty'[Len(tty) + 1] = b
          /\ \A k \in 1..Len(tty) : tty'[k] = tty[k]
      BY <1>3, <1>4, <2>1, AppendFacts
    <2>4. /\ Len(Stream') = Len(puchData) + Len(tty')
          /\ \A k \in 1..Len(puchData) : Stream'[k] = puchData[k]
          /\ \A k \in 1..Len(tty') : Stream'[Len(puchData) + k] = tty'[k]
      <3>1. puchData' \in Seq(Byte) /\ tty' \in Seq(Byte)
        BY <1>2, <2>1, <2>2
      <3> QED
        BY <1>2, <3>1, ConcatFacts DEF Stream
    <2>5. /\ Len(Stream) = Len(puchData) + Len(tty)
          /\ Len(puchData) \in Nat /\ Len(tty) \in Nat
          /\ \A k \in 1..Len(puchData) : Stream[k] = puchData[k]
          /\ \A k \in 1..Len(tty) : Stream[Len(puchData) + k] = tty[k]
      BY StreamType
    <2>6. Len(Stream') = Len(Stream) + 1
      BY <2>2, <2>4, <2>5
    <2>7. Stream'[Len(Stream) + 1] = b
      <3>1. Len(tty) + 1 \in 1..Len(tty') /\ Len(Stream) + 1 = Len(puchData) + (Len(tty) + 1)
        BY <2>2, <2>5
      <3> QED
        BY <2>2, <2>4, <3>1
    <2>8. ASSUME NEW k \in 1..Len(Stream) PROVE Stream'[k] = Stream[k]
      <3>1. CASE k <= Len(puchData)
        <4>1. k \in 1..Len(puchData)
          BY <2>5, <3>1
        <4> QED
          BY <2>4, <2>5, <4>1
      <3>2. CASE k > Len(puchData)
        <4> DEFINE l == k - Len(puchData)
        <4>1. l \in 1..Len(tty) /\ l \in 1..Len(tty') /\ k = Len(puchData) + l
          BY <2>2, <2>5, <3>2
        <4> HIDE DEF l
        <4> QED
          BY <2>2, <2>4, <2>5, <4>1
      <3> QED
        BY <2>5, <3>1, <3>2
    <2> QED
      BY <1>4, <2>6, <2>7, <2>8 DEF Grown
  <1>5. ASSUME tty' = tty, flushed' = flushed, losses' = losses + 1, lossAt' = Clock,
               damaged' = damaged \cup {b.pkt},
               closeLosses' = \/ closeLosses
                              \/ losses > 0 /\ Clock - lossAt < PacketLength
        PROVE  Lost(b)
    <2>1. Clock \in Nat /\ lossAt \in Nat /\ losses \in Nat /\ PacketLength \in Nat
      BY ClockType, TabletAssumption DEF TypeInv
    <2>2. ~closeLosses' => ~closeLosses /\ (losses = 0 \/ Clock - lossAt >= PacketLength)
      <3>1. ~closeLosses' => ~closeLosses /\ ~(losses > 0 /\ Clock - lossAt < PacketLength)
        BY <1>5, Zenon
      <3> QED
        BY <2>1, <3>1
    <2>3. Stream' = Stream
      BY <1>2, <1>5 DEF Stream
    <2> QED
      BY <1>5, <2>2, <2>3 DEF Lost
  <1>6. Grown(b) \/ Lost(b)
    BY <1>1, <1>4, <1>5
  <1> QED
    BY <1>1, <1>2, <1>6

\* A reset can throw away no packet after the last that was sent.
LEMMA LatestIsRest ==
    ASSUME TypeInv
    PROVE  Latest = Rest(TRUE).pkt - 1 /\ Latest \in Nat
  <1>1. Rest(TRUE).pkt = IF tablet.pos = 0 THEN tablet.pkt ELSE tablet.pkt + 1
    BY RestEffect, Zenon
  <1>2. PICK pkt : pkt = Rest(TRUE).pkt
    OBVIOUS
  <1>3. tablet.pkt \in Nat \ {0}
    BY TabletAssumption DEF TypeInv, TypeOK
  <1>4. pkt = IF tablet.pos = 0 THEN tablet.pkt ELSE tablet.pkt + 1
    BY <1>1, <1>2, Zenon
  <1>5. Latest = pkt - 1 /\ Latest \in Nat
    BY <1>3, <1>4 DEF Latest
  <1> QED
    BY <1>2, <1>5, Zenon

\* A reset leaves the last packet that was sent what it is.
LEMMA RestLatest ==
    ASSUME TypeInv, NEW on \in BOOLEAN, tablet' = Rest(on)
    PROVE  Latest' = Latest
  <1>1. /\ tablet'.pos = 0 /\ tablet.pkt \in Nat
        /\ tablet'.pkt = IF tablet.pos = 0 THEN tablet.pkt ELSE tablet.pkt + 1
    BY RestClock, TabletAssumption DEF TypeInv, TypeOK
  <1> QED
    BY <1>1 DEF Latest

\* The reader only ever takes bytes from the front.
LEMMA ReaderStep ==
    ASSUME TypeInv, Startup \/ Exited \/ Reader \/ UNCHANGED vars
    PROVE  \E m \in 0..Len(Stream) : Shifted(m)
  <1>1. ASSUME UNCHANGED <<puchData, line, lossAt, closeLosses, losses>>,
               damaged \subseteq damaged', pc = "readraw" => pc' = pc
        PROVE  Shifted(0)
    <2>1. Stream' = Stream /\ tablet' = tablet /\ Clock' = Clock /\ Latest' = Latest
      BY <1>1 DEF Stream, Clock, line, Latest
    <2>2. Clock \in Nat /\ Len(Stream) \in Nat
      BY ClockType, StreamType
    <2>3. \A k \in 1..Len(Stream) : Ahead(k)' => Ahead(k + 0)
      BY <1>1, <2>2 DEF Ahead
    <2> QED
      BY <1>1, <2>1, <2>2, <2>3 DEF Shifted
  <1>2. 0 \in 0..Len(Stream) /\ Len(Stream) \in 0..Len(Stream)
    BY StreamType
  <1>3. ASSUME Restarted \/ GivenUp
        PROVE  /\ Clock' >= Clock
               /\ tablet'.on => tablet' = tablet \/ tty' = << >>
               /\ tty' = tty \/ tty' = << >>
               /\ Latest' = Latest /\ tablet'.pen = tablet.pen
    <2>1. Clock \in Nat
      BY ClockType
    <2>2. CASE UNCHANGED line
      BY <2>1, <2>2 DEF line, Clock, Latest
    <2>3. CASE tablet' = Rest(TRUE) /\ tty' = << >>
      BY <2>3, RestClock, RestLatest
    <2>4. CASE tablet' = Rest(FALSE) /\ tty' \in {tty, << >>}
      BY <2>4, RestClock, RestLatest
    <2> QED
      BY <1>3, <2>2, <2>3, <2>4 DEF Restarted, GivenUp
  <1>4. ASSUME puchData' = << >>, UNCHANGED <<lossAt, closeLosses, losses, damaged>>,
               Clock' >= Clock, tablet'.on => tablet' = tablet \/ tty' = << >>,
               tty' = tty \/ tty' = << >>,
               Latest' = Latest, tablet'.pen = tablet.pen,
               pc = "readraw" \/ puchData = << >>,
               tty' = tty \/ Latest <= flushed' \/ Len(Stream) = 0
        PROVE  \E m \in 0..Len(Stream) : Shifted(m)
    <2>1. /\ tty \in Seq(Byte) /\ puchData \in Seq(Byte)
          /\ puchData = << >> => Len(puchData) = 0
      BY DEF TypeInv, TypeOK
    <2>2. CASE tty' = << >> /\ (Latest <= flushed' \/ Len(Stream) = 0)
      <3>1. Stream' = << >> /\ Len(Stream') = 0
        BY <1>4, <2>2 DEF Stream
      <3>2. Shifted(Len(Stream))
        BY <1>2, <1>4, <2>2, <3>1, StreamType DEF Shifted
      <3> QED
        BY <1>2, <3>2
    <2>3. CASE tty' = tty
      <3>1. Stream' = tty
        BY <1>4, <2>1, <2>3 DEF Stream
      <3>2. /\ Len(Stream) = Len(puchData) + Len(tty)
            /\ Len(puchData) \in Nat /\ Len(tty) \in Nat
            /\ \A k \in 1..Len(tty) : Stream[Len(puchData) + k] = tty[k]
        BY StreamType
      <3>3. /\ Len(puchData) \in 0..Len(Stream) /\ Len(Stream') = Len(Stream) - Len(puchData)
            /\ \A k \in 1..Len(Stream') : Stream'[k] = Stream[k + Len(puchData)]
        BY <3>1, <3>2
      <3>4. tty' = << >> => Len(Stream') = 0
        BY <2>3, <3>1
      <3>5. /\ \A k \in 1..Len(puchData) : ~Ahead(k)
            /\ \A k \in 1..Len(Stream') : Ahead(k + Len(puchData))
        BY <1>4, <2>1, <3>2, <3>3 DEF Ahead
      <3>6. Shifted(Len(puchData))
        BY <1>4, <3>3, <3>4, <3>5 DEF Shifted
      <3> QED
        BY <3>3, <3>6
    <2> QED
      BY <1>4, <2>2, <2>3
  <1>5. CASE Startup
    <2>1. puchData = << >> /\ tty = << >> /\ Len(Stream) = 0 /\ puchData' = << >>
      BY <1>5 DEF Startup, TypeInv, Stream
    <2> QED
      BY <1>3, <1>4, <1>5, <2>1 DEF Startup, history
  <1>6. CASE ReadRaw
    <2>1. /\ Clock' >= Clock /\ (tty' = tty \/ tty' = << >>)
          /\ tablet'.on => tablet' = tablet \/ tty' = << >>
          /\ Latest' = Latest /\ tablet'.pen = tablet.pen
          /\ tty' = tty \/ Latest <= flushed'
      <3>1. CASE nBitErrors > MaxBitErrors
        <4>1. flushed' = Latest /\ Latest \in Nat
          BY <1>6, <3>1, LatestIsRest DEF ReadRaw
        <4> QED
          BY <1>3, <1>6, <3>1, <4>1 DEF ReadRaw
      <3>2. CASE ~(nBitErrors > MaxBitErrors)
        BY <1>6, <3>2, ClockType DEF ReadRaw, line, Clock, Latest
      <3> QED
        BY <3>1, <3>2
    <2> QED
      BY <1>4, <1>6, <2>1 DEF ReadRaw
  <1>7. CASE \E n \in 1..PacketLength : Read(n)
    <2>1. PICK n \in 1..PacketLength : Read(n)
      BY <1>7
    <2>2. PICK m \in 0..n : /\ Len(Stream') = Len(Stream) - m /\ m <= Len(Stream)
                            /\ \A k \in 1..Len(Stream') : Stream'[k] = Stream[k + m]
                            /\ \A k \in 1..m : ~HighBit(Stream[k])
      BY <2>1, ReadEffect
    <2>3. /\ Clock' = Clock /\ Clock \in Nat /\ Latest' = Latest
          /\ UNCHANGED <<tablet, lossAt, closeLosses, losses, damaged>>
      BY <2>1, ClockType DEF Read, Clock, Latest, history
    <2>4. m \in 0..Len(Stream)
      BY <2>2, StreamType
    <2>5. \A k : Ahead(k)
      BY <2>1 DEF Ahead, Read
    <2> QED
      BY <2>2, <2>3, <2>4, <2>5 DEF Shifted
  <1>8. CASE Timeout \/ ReadFails \/ Parse \/ Exited \/ UNCHANGED vars
    <2>1. /\ UNCHANGED <<puchData, line, lossAt, closeLosses, losses>>
          /\ damaged \subseteq damaged'
      BY <1>8 DEF Timeout, ReadFails, Parse, Exited, vars, history
    <2>2. pc = "readraw" => pc' = pc
      BY <1>8 DEF Timeout, ReadFails, Parse, Exited, vars
    <2> QED
      BY <1>1, <1>2, <2>1, <2>2
  <1> QED
    BY <1>5, <1>6, <1>7, <1>8 DEF Reader

-----------------------------------------------------------------------------
(* Losses                                                                   *)

\* When the k-th of the bytes on their way was sent.
Sent(k) == At(Stream[k])

\* Bytes stay in order, and those that were lost are not among them.
OrderInv ==
    /\ \A i, j \in 1..Len(Stream) : i < j => Sent(i) < Sent(j)
    /\ \A i \in 1..Len(Stream) : Sent(i) < Clock
    /\ losses > 0 => lossAt < Clock /\ \A i \in 1..Len(Stream) : Sent(i) # lossAt

\* How far apart in time two bytes on their way can be, one that is still to be sent
\* included, when losses are not close to one another: no two bytes are missing side by
\* side, and but one is missing within a packet's length.
SpacedInv ==
    /\ \A i, j \in 1..Len(Stream) : j = i + 1 => Sent(j) <= Sent(i) + 2
    /\ \A i, j \in 1..Len(Stream) :
          i < j /\ Sent(j) <= Sent(i) + PacketLength + 1 => Sent(j) <= Sent(i) + (j - i) + 1

NextInv ==
    /\ \A i \in 1..Len(Stream) : i = Len(Stream) => Clock <= Sent(i) + 2
    /\ \A i \in 1..Len(Stream) :
          Clock <= Sent(i) + PacketLength + 1 => Clock <= Sent(i) + (Len(Stream) - i) + 2
    /\ \A i \in 1..Len(Stream) :
          losses = 0 \/ lossAt < Sent(i) => Clock <= Sent(i) + (Len(Stream) - i) + 1

LossInv ==
    /\ OrderInv
    /\ ~closeLosses => SpacedInv
    /\ ~closeLosses /\ tablet.on => NextInv

\* Taking bytes from the front changes nothing of this.
LEMMA LossShifted ==
    ASSUME TypeInv, TypeInv', LossInv, NEW m \in 0..Len(Stream), Shifted(m)
    PROVE  LossInv'
  <1>1. /\ Len(Stream) \in Nat /\ Len(Stream') = Len(Stream) - m
        /\ \A k \in 1..Len(Stream) : Sent(k) \in Nat
    BY StreamType DEF Shifted, Sent
  <1>2. \A k \in 1..Len(Stream') : k + m \in 1..Len(Stream) /\ Sent(k)' = Sent(k + m)
    BY <1>1 DEF Shifted, Sent
  <1>3. /\ Clock \in Nat /\ Clock' \in Nat /\ Clock' >= Clock /\ PacketLength \in Nat
        /\ UNCHANGED <<lossAt, closeLosses, losses>> /\ lossAt \in Nat
    BY ClockType, ClockTypeNext, TabletAssumption DEF Shifted, TypeInv
  <1>4. OrderInv'
    <2>1. \A i, j \in 1..Len(Stream') : i < j => Sent(i)' < Sent(j)'
      BY <1>1, <1>2 DEF LossInv, OrderInv
    <2>2. \A i \in 1..Len(Stream') : Sent(i)' < Clock'
      BY <1>1, <1>2, <1>3 DEF LossInv, OrderInv
    <2>3. losses > 0 => lossAt < Clock' /\ \A i \in 1..Len(Stream') : Sent(i)' # lossAt
      BY <1>1, <1>2, <1>3 DEF LossInv, OrderInv
    <2> QED
      BY <1>3, <2>1, <2>2, <2>3 DEF OrderInv
  <1>5. ~closeLosses => SpacedInv'
    <2> SUFFICES ASSUME SpacedInv PROVE SpacedInv'
      BY DEF LossInv
    <2>1. ASSUME NEW i \in 1..Len(Stream'), NEW j \in 1..Len(Stream')
          PROVE  /\ j = i + 1 => Sent(j)' <= Sent(i)' + 2
                 /\ i < j /\ Sent(j)' <= Sent(i)' + PacketLength + 1
                      => Sent(j)' <= Sent(i)' + (j - i) + 1
      <3> DEFINE i1 == i + m
                 j1 == j + m
      <3>1. /\ i1 \in 1..Len(Stream) /\ j1 \in 1..Len(Stream) /\ j1 - i1 = j - i
            /\ (j = i + 1 <=> j1 = i1 + 1) /\ (i < j <=> i1 < j1)
            /\ Sent(i)' = Sent(i1) /\ Sent(j)' = Sent(j1)
        BY <1>1, <1>2
      <3> HIDE DEF i1, j1
      <3> QED
        BY <3>1 DEF SpacedInv
    <2> QED
      BY <2>1 DEF SpacedInv
  <1>6. ~closeLosses /\ tablet'.on => NextInv'
    <2> SUFFICES ASSUME ~closeLosses, tablet'.on PROVE NextInv'
      OBVIOUS
    <2>1. CASE Len(Stream') = 0
      BY <2>1 DEF NextInv
    <2>2. CASE tablet' = tablet
      <3>1. NextInv /\ Clock' = Clock
        BY <2>2 DEF LossInv, Clock
      <3>2. ASSUME NEW i \in 1..Len(Stream')
            PROVE  /\ i = Len(Stream') => Clock <= Sent(i)' + 2
                   /\ Clock <= Sent(i)' + PacketLength + 1
                        => Clock <= Sent(i)' + (Len(Stream') - i) + 2
                   /\ losses = 0 \/ lossAt < Sent(i)'
                        => Clock <= Sent(i)' + (Len(Stream') - i) + 1
        <4> DEFINE i1 == i + m
        <4>1. /\ i1 \in 1..Len(Stream) /\ Len(Stream) - i1 = Len(Stream') - i
              /\ (i = Len(Stream') => i1 = Len(Stream)) /\ Sent(i)' = Sent(i1)
          BY <1>1, <1>2
        <4> HIDE DEF i1
        <4> QED
          BY <3>1, <4>1 DEF NextInv
      <3> QED
        BY <1>3, <3>1, <3>2 DEF NextInv
    <2> QED
      BY <2>1, <2>2 DEF Shifted
  <1> QED
    BY <1>3, <1>4, <1>5, <1>6 DEF LossInv

\* A byte that arrives.
LEMMA LossGrown ==
    ASSUME TypeInv, LossInv, tablet.on, NEW b \in Byte, At(b) = Clock, Clock' = Clock + 1, Grown(b)
    PROVE  LossInv'
  <1>0. PICK N \in Nat : N = Len(Stream)
    BY StreamType
  <1>1. Len(Stream') = N + 1 /\ \A k \in 1..N : Sent(k) \in Nat
    BY <1>0, StreamType DEF Grown, Sent
  <1>2. (\A k \in 1..N : Sent(k)' = Sent(k)) /\ Sent(N + 1)' = Clock
    BY <1>0 DEF Grown, Sent
  <1>3. /\ Clock \in Nat /\ PacketLength \in Nat /\ lossAt \in Nat
        /\ UNCHANGED <<lossAt, closeLosses, losses>>
    BY ClockType, TabletAssumption DEF Grown, history, TypeInv
  <1>4. \A k \in 1..(N + 1) : k \in 1..N \/ k = N + 1
    BY <1>1
  <1>5. OrderInv'
    <2>1. \A i, j \in 1..(N + 1) : i < j => Sent(i)' < Sent(j)'
      BY <1>0, <1>1, <1>2, <1>3, <1>4 DEF LossInv, OrderInv
    <2>2. \A i \in 1..(N + 1) : Sent(i)' < Clock + 1
      BY <1>0, <1>1, <1>2, <1>3, <1>4 DEF LossInv, OrderInv
    <2>3. losses > 0 => lossAt < Clock + 1 /\ \A i \in 1..(N + 1) : Sent(i)' # lossAt
      BY <1>0, <1>1, <1>2, <1>3, <1>4 DEF LossInv, OrderInv
    <2> QED
      BY <1>1, <1>3, <2>1, <2>2, <2>3 DEF OrderInv
  <1>6. ~closeLosses => SpacedInv' /\ NextInv'
    <2> SUFFICES ASSUME SpacedInv, NextInv PROVE SpacedInv' /\ NextInv'
      BY DEF LossInv
    <2>1. ASSUME NEW i \in 1..(N + 1), NEW j \in 1..(N + 1)
          PROVE  /\ j = i + 1 => Sent(j)' <= Sent(i)' + 2
                 /\ i < j /\ Sent(j)' <= Sent(i)' + PacketLength + 1
                      => Sent(j)' <= Sent(i)' + (j - i) + 1
      <3>1. CASE i \in 1..N /\ j \in 1..N
        BY <1>0, <1>2, <3>1 DEF SpacedInv
      <3>2. CASE i \in 1..N /\ j = N + 1
        BY <1>0, <1>1, <1>2, <1>3, <3>2 DEF NextInv
      <3>3. CASE i = N + 1
        BY <1>1, <3>3
      <3> QED
        BY <1>4, <3>1, <3>2, <3>3
    <2>2. ASSUME NEW i \in 1..(N + 1)
          PROVE  /\ i = N + 1 => Clock + 1 <= Sent(i)' + 2
                 /\ Clock + 1 <= Sent(i)' + PacketLength + 1
                      => Clock + 1 <= Sent(i)' + (N + 1 - i) + 2
                 /\ losses = 0 \/ lossAt < Sent(i)'
                      => Clock + 1 <= Sent(i)' + (N + 1 - i) + 1
      <3>1. CASE i \in 1..N
        <4>1. Sent(i)' = Sent(i) /\ Sent(i) \in Nat /\ i # N + 1
          BY <1>1, <1>2, <3>1
        <4>2. /\ Clock <= Sent(i) + PacketLength + 1 => Clock <= Sent(i) + (N - i) + 2
              /\ losses = 0 \/ lossAt < Sent(i) => Clock <= Sent(i) + (N - i) + 1
          BY <1>0, <3>1 DEF NextInv
        <4> QED
          BY <1>3, <4>1, <4>2
      <3>2. CASE i = N + 1
        BY <1>1, <1>2, <1>3, <3>2
      <3> QED
        BY <1>4, <3>1, <3>2
    <2>3. SpacedInv'
      BY <1>1, <2>1 DEF SpacedInv
    <2>4. NextInv'
      BY <1>1, <1>3, <2>2 DEF NextInv
    <2> QED
      BY <2>3, <2>4
  <1> QED
    BY <1>3, <1>5, <1>6 DEF LossInv

\* A byte that is lost, not within a packet's length of the one before.
LEMMA LossLost ==
    ASSUME TypeInv, LossInv, tablet.on, NEW b, Clock' = Clock + 1, Lost(b)
    PROVE  LossInv'
  <1> DEFINE N == Len(Stream)
  <1>1. N \in Nat /\ Len(Stream') = N /\ \A k \in 1..N : Sent(k) \in Nat /\ Sent(k)' = Sent(k)
    BY StreamType DEF Lost, Sent, At
  <1>2. /\ Clock \in Nat /\ PacketLength \in Nat /\ PacketLength > 1 /\ lossAt \in Nat
        /\ losses \in Nat /\ losses' > 0 /\ lossAt' = Clock
    BY ClockType, TabletAssumption DEF Lost, TypeInv
  <1> HIDE DEF N
  <1>3. OrderInv'
    BY <1>1, <1>2 DEF LossInv, OrderInv, N
  <1>4. ~closeLosses' => SpacedInv' /\ NextInv'
    <2> SUFFICES ASSUME ~closeLosses, losses = 0 \/ Clock - lossAt >= PacketLength
                 PROVE  SpacedInv' /\ NextInv'
      BY DEF Lost
    <2>1. SpacedInv /\ NextInv /\ OrderInv
      BY DEF LossInv
    <2>2. SpacedInv'
      BY <1>1, <2>1 DEF SpacedInv, N
    <2>3. ASSUME NEW i \in 1..N
          PROVE  Clock <= Sent(i) + PacketLength => losses = 0 \/ lossAt < Sent(i)
      BY <1>1, <1>2, <2>1 DEF OrderInv, N
    <2>4. ASSUME NEW i \in 1..N
          PROVE  /\ i = N => Clock + 1 <= Sent(i) + 2
                 /\ Clock + 1 <= Sent(i) + PacketLength + 1
                      => Clock + 1 <= Sent(i) + (N - i) + 2
      <3>1. Clock <= Sent(i) + PacketLength => Clock <= Sent(i) + (N - i) + 1
        BY <2>1, <2>3 DEF NextInv, N
      <3>2. i = N => Clock <= Sent(i) + 2
        BY <2>1 DEF NextInv, N
      <3> QED
        BY <1>1, <1>2, <3>1, <3>2
    <2>5. \A i \in 1..N : Sent(i) < Clock
      BY <2>1 DEF OrderInv, N
    <2>6. NextInv'
      BY <1>1, <1>2, <2>4, <2>5 DEF NextInv
    <2> QED
      BY <2>2, <2>6
  <1> QED
    BY <1>3, <1>4 DEF LossInv

LEMMA LossStep ==
    ASSUME TypeInv, LossInv, [Next]_vars
    PROVE  LossInv'
  <1>1. TypeInv'
    BY TypeStep
  <1>2. CASE TabletSends
    <2>1. PICK pen \in Pens :
              /\ tablet' = Advance(NextByte(pen)) /\ tablet.on /\ tablet.pkt <= MaxPackets
              /\ Grown(NextByte(pen)) \/ Lost(NextByte(pen))
      BY <1>2, SendStep
    <2>2. NextByte(pen) \in Byte /\ At(NextByte(pen)) = Clock /\ Clock' = Clock + 1
      BY <2>1, SendsEffect
    <2>3. CASE Grown(NextByte(pen))
      BY <2>1, <2>2, <2>3, LossGrown
    <2>4. CASE Lost(NextByte(pen))
      BY <2>1, <2>2, <2>4, LossLost
    <2> QED
      BY <2>1, <2>3, <2>4
  <1>3. CASE Startup \/ Exited \/ Reader \/ UNCHANGED vars
    BY <1>1, <1>3, ReaderStep, LossShifted
  <1> QED
    BY <1>2, <1>3 DEF Next

LEMMA LossInit == Init => LossInv
  <1> SUFFICES ASSUME Init PROVE LossInv
    OBVIOUS
  <1>1. Stream = << >> /\ Len(Stream) = 0 /\ losses = 0
    BY DEF Init, Stream
  <1> QED
    BY <1>1 DEF LossInv, OrderInv, SpacedInv, NextInv

\* What is accepted is one packet: for the first byte of another one to be in the
\* buffer, two bytes less than a packet apart must be missing before it.
LEMMA Unspliced ==
    ASSUME TypeInv, LossInv
    PROVE  NoSplice
  <1> SUFFICES ASSUME Accepting, ~closeLosses,
                      \E k \in 1..PacketLength : puchData[k].pkt # puchData[1].pkt
               PROVE  FALSE
    BY DEF NoSplice
  <1> DEFINE b == puchData[1]
             others == {k \in 1..PacketLength : puchData[k].pkt # b.pkt}
  <1>1. /\ puchData \in Seq(Byte) /\ Len(puchData) = PacketLength /\ PacketLength \in Nat
        /\ PacketLength > 1 /\ \A k \in 1..PacketLength : puchData[k] \in Byte
    BY TabletAssumption DEF Accepting, TypeInv, TypeOK
  <1>2. PICK k \in others : \A l \in others : k <= l
    <2>1. others \subseteq Nat /\ others # {}
      OBVIOUS
    <2> HIDE DEF others
    <2> QED
      BY <2>1, LeastNumber
  <1>3. /\ k \in 2..PacketLength /\ k - 1 \in 1..PacketLength /\ k - 1 \notin others
        /\ 1 \in 1..PacketLength
    BY <1>1, <1>2
  <1> DEFINE c == puchData[k - 1]
             d == puchData[k]
  <1>4. /\ b \in Byte /\ c \in Byte /\ d \in Byte
        /\ b.pos = 0 /\ d.pos # 0 /\ c.pkt = b.pkt /\ d.pkt # b.pkt
    BY <1>1, <1>2, <1>3 DEF Accepting, LowBits, HighBit
  <1>5. /\ c.pos <= PacketLength - 1 /\ d.pos >= 1 /\ c.pos \in Nat /\ d.pos \in Nat
        /\ b.pkt \in Nat /\ d.pkt \in Nat
    BY <1>1, <1>4 DEF Byte
  <1>6. At(b) = Sent(1) /\ At(c) = Sent(k - 1) /\ At(d) = Sent(k)
    BY <1>1, <1>3, StreamType DEF Sent
  <1>7. /\ 1 \in 1..Len(Stream) /\ k - 1 \in 1..Len(Stream) /\ k \in 1..Len(Stream)
        /\ k = (k - 1) + 1 /\ 1 < k
    BY <1>1, <1>3, StreamType
  <1>8. /\ At(b) < At(d) /\ At(d) <= At(c) + 2
        /\ At(d) <= At(b) + PacketLength + 1 => At(d) <= At(b) + (k - 1) + 1
    <2>1. OrderInv /\ SpacedInv
      BY DEF LossInv
    <2>2. At(b) < At(d)
      BY <1>6, <1>7, <2>1 DEF OrderInv
    <2>3. At(d) <= At(c) + 2
      BY <1>6, <1>7, <2>1 DEF SpacedInv
    <2>4. At(d) <= At(b) + PacketLength + 1 => At(d) <= At(b) + (k - 1) + 1
      BY <1>6, <1>7, <2>1 DEF SpacedInv
    <2> QED
      BY <2>2, <2>3, <2>4
  <1> HIDE DEF b, c, d, others
  <1>9. /\ At(b) \in Nat /\ At(c) = At(b) + c.pos /\ At(d) \in Nat
        /\ d.pkt > b.pkt => At(d) >= At(b) + PacketLength + d.pos
        /\ d.pkt < b.pkt => At(d) < At(b)
    BY <1>4, AtFacts
  <1>10. d.pkt > b.pkt
    BY <1>4, <1>5, <1>8, <1>9
  <1>11. At(d) <= At(b) + PacketLength + 1
    BY <1>1, <1>5, <1>8, <1>9
  <1>12. At(d) <= At(b) + PacketLength
    BY <1>1, <1>3, <1>8, <1>9, <1>11
  <1> QED
    BY <1>1, <1>5, <1>9, <1>10, <1>12

\* SerialParseData accepts no beginning of one packet with the end of another, unless
\* two bytes were lost less than a packet's length apart: the high bits it looks at
\* are enough, whatever the length of the packets, whatever else the line loses, and
\* through resets, timeouts and reads that fail.
THEOREM NothingSpliced == Spec => []NoSplice
  <1>1. TypeInv /\ LossInv /\ [Next]_vars => TypeInv' /\ LossInv'
    BY TypeStep, LossStep
  <1>2. TypeInv /\ LossInv => NoSplice
    BY Unspliced
  <1> QED
    BY <1>1, <1>2, TypeInit, LossInit, PTL DEF Spec

-----------------------------------------------------------------------------
(* Whole packets                                                            *)

\* When byte q of packet p is sent, in bytes sent before it.
Place(p, q) == (p - 1) * PacketLength + q

\* The i-th of the bytes on their way is byte q of packet p.
Holds(i, p, q) == Stream[i].pkt = p /\ Stream[i].pos = q

\* Places are in the order of packets, and within one of bytes.
LEMMA PlaceFacts ==
    ASSUME NEW p \in Nat \ {0}, NEW r \in Nat \ {0},
           NEW q \in 0..(PacketLength - 1), NEW s \in 0..(PacketLength - 1)
    PROVE  /\ Place(p, q) \in Nat /\ Place(p, 0) \in Nat /\ Place(p, q) = Place(p, 0) + q
           /\ p < r => Place(r, s) >= Place(p, 0) + PacketLength
           /\ Place(p, q) = Place(r, s) => p = r /\ q = s
  <1>1. PacketLength \in Nat /\ q \in Nat /\ s \in Nat /\ q < PacketLength /\ s < PacketLength
    BY TabletAssumption
  <1> DEFINE P == (p - 1) * PacketLength
             R == (r - 1) * PacketLength
  <1>2. P \in Nat /\ R \in Nat
    BY Products
  <1>3. p < r => R >= P + PacketLength
    BY Products
  <1>4. r < p => P >= R + PacketLength
    BY Products
  <1>5. Place(p, q) = P + q /\ Place(p, 0) = P + 0 /\ Place(r, s) = R + s
    BY DEF Place
  <1> HIDE DEF P, R
  <1>6. p = r => P = R
    BY DEF P, R
  <1> QED
    BY <1>1, <1>2, <1>3, <1>4, <1>5, <1>6

\* The places of the bytes on their way, and that of the next one.
LEMMA StreamPlaces ==
    ASSUME TypeInv
    PROVE  /\ \A i \in 1..Len(Stream) :
                 /\ Stream[i].pkt \in Nat \ {0} /\ Stream[i].pos \in 0..(PacketLength - 1)
                 /\ Stream[i].pkt \in 1..MaxPackets
                 /\ Sent(i) = Place(Stream[i].pkt, Stream[i].pos) /\ Sent(i) \in Nat
           /\ Clock = Place(tablet.pkt, tablet.pos) /\ Clock \in Nat
           /\ tablet.pkt \in Nat \ {0} /\ tablet.pos \in 0..(PacketLength - 1)
  <1>1. ASSUME NEW i \in 1..Len(Stream)
        PROVE  /\ Stream[i].pkt \in Nat \ {0} /\ Stream[i].pos \in 0..(PacketLength - 1)
               /\ Stream[i].pkt \in 1..MaxPackets
               /\ Sent(i) = Place(Stream[i].pkt, Stream[i].pos) /\ Sent(i) \in Nat
    <2>1. Stream[i] \in Byte /\ At(Stream[i]) \in Nat
      BY StreamType
    <2> QED
      BY <2>1, TabletAssumption DEF Byte, Sent, At, Place
  <1>2. Clock = Place(tablet.pkt, tablet.pos) /\ Clock \in Nat
    BY ClockType DEF Clock, Place
  <1>3. tablet.pkt \in Nat \ {0} /\ tablet.pos \in 0..(PacketLength - 1)
    BY TabletAssumption DEF TypeInv, TypeOK
  <1> QED
    BY <1>1, <1>2, <1>3

\* Every byte of an undamaged packet that was sent since the first one on its way is on
\* its way too.
PresentInv ==
    tablet.on =>
        \A r \in 1..MaxPackets, q \in 0..(PacketLength - 1) :
            /\ r \notin damaged /\ Len(Stream) > 0
            /\ Sent(1) <= Place(r, q) /\ Place(r, q) < Clock
            => \E i \in 1..Len(Stream) : Holds(i, r, q)

LEMMA PresentShifted ==
    ASSUME TypeInv, OrderInv, PresentInv, NEW m \in 0..Len(Stream), Shifted(m),
           damaged \subseteq damaged'
    PROVE  PresentInv'
  <1> SUFFICES ASSUME tablet'.on, NEW r \in 1..MaxPackets, NEW q \in 0..(PacketLength - 1),
                      r \notin damaged', Len(Stream') > 0,
                      Sent(1)' <= Place(r, q), Place(r, q) < Clock'
               PROVE  \E i \in 1..Len(Stream') : Holds(i, r, q)'
    BY DEF PresentInv, Holds, Place
  <1>1. PICK N \in Nat : N = Len(Stream)
    BY StreamType
  <1>2. tablet' = tablet /\ Clock' = Clock /\ r \notin damaged
    BY DEF Shifted, Clock
  <1>3. /\ Len(Stream') = N - m /\ m + 1 \in 1..N /\ 1 \in 1..N /\ m \in Nat
        /\ \A k \in 1..(N - m) : Stream'[k] = Stream[k + m]
    BY <1>1 DEF Shifted
  <1>4. Sent(1)' = Sent(m + 1)
    BY <1>3 DEF Sent, At
  <1>5. /\ \A i \in 1..N : Sent(i) \in Nat
        /\ \A i, j \in 1..N : i < j => Sent(i) < Sent(j)
    BY <1>1, StreamPlaces DEF OrderInv
  <1>6. Place(r, q) \in Nat
    <2>1. r \in Nat \ {0}
      BY TabletAssumption
    <2> QED
      BY <2>1, PlaceFacts
  <1>7. Sent(1) <= Sent(m + 1)
    BY <1>3, <1>5
  <1>8. PICK i \in 1..N : Holds(i, r, q)
    BY <1>1, <1>2, <1>3, <1>4, <1>5, <1>6, <1>7 DEF PresentInv
  <1>9. Sent(i) = Place(r, q)
    BY <1>1, <1>8, StreamPlaces DEF Holds
  <1>10. i >= m + 1
    BY <1>3, <1>4, <1>5, <1>9
  <1>11. i - m \in 1..(N - m) /\ Stream'[i - m] = Stream[i]
    BY <1>3, <1>10
  <1> QED
    BY <1>3, <1>8, <1>11 DEF Holds

\* The byte that is sent is at the place of the clock; no other is.
LEMMA NextPlace ==
    ASSUME TypeInv, TypeInv', NEW pen \in Pens, tablet.on, tablet.pkt <= MaxPackets,
           tablet' = Advance(NextByte(pen))
    PROVE  /\ NextByte(pen) \in Byte /\ NextByte(pen).pkt = tablet.pkt
           /\ NextByte(pen).pos = tablet.pos
           /\ At(NextByte(pen)) = Clock /\ Clock' = Clock + 1 /\ Clock \in Nat
           /\ tablet'.on
           /\ \A r \in 1..MaxPackets, q \in 0..(PacketLength - 1) :
                 /\ Place(r, q) \in Nat
                 /\ Place(r, q) = Clock => r = tablet.pkt /\ q = tablet.pos
  <1>1. NextByte(pen) \in Byte /\ At(NextByte(pen)) = Clock /\ Clock' = Clock + 1
    BY SendsEffect
  <1>2. tablet'.on /\ NextByte(pen).pkt = tablet.pkt /\ NextByte(pen).pos = tablet.pos
    BY SendsEffect
  <1>3. ASSUME NEW r \in 1..MaxPackets, NEW q \in 0..(PacketLength - 1)
        PROVE  /\ Place(r, q) \in Nat
               /\ Place(r, q) = Clock => r = tablet.pkt /\ q = tablet.pos
    <2>1. r \in Nat \ {0}
      BY TabletAssumption
    <2>2. Clock = Place(tablet.pkt, tablet.pos) /\ tablet.pkt \in Nat \ {0}
      BY StreamPlaces
    <2>3. tablet.pos \in 0..(PacketLength - 1)
      BY StreamPlaces
    <2> QED
      BY <2>1, <2>2, <2>3, PlaceFacts, SMTT(30)
  <1> QED
    BY <1>1, <1>2, <1>3, StreamPlaces

LEMMA PresentSent ==
    ASSUME TypeInv, TypeInv', OrderInv, PresentInv, NEW pen \in Pens, tablet.on,
           tablet.pkt <= MaxPackets, tablet' = Advance(NextByte(pen)),
           Grown(NextByte(pen)) \/ Lost(NextByte(pen))
    PROVE  PresentInv'
  <1> SUFFICES ASSUME NEW r \in 1..MaxPackets, NEW q \in 0..(PacketLength - 1),
                      r \notin damaged', Len(Stream') > 0,
                      Sent(1)' <= Place(r, q), Place(r, q) < Clock'
               PROVE  \E i \in 1..Len(Stream') : Holds(i, r, q)'
    BY DEF PresentInv, Holds, Place
  <1>1. PICK N \in Nat : N = Len(Stream)
    BY StreamType
  <1> DEFINE b == NextByte(pen)
  <1>2. /\ b.pkt = tablet.pkt /\ b.pos = tablet.pos /\ At(b) = Clock
        /\ Clock' = Clock + 1 /\ Clock \in Nat /\ Place(r, q) \in Nat
        /\ Place(r, q) = Clock => r = tablet.pkt /\ q = tablet.pos
    BY NextPlace
  <1> HIDE DEF b
  <1>3. CASE Lost(b)
    <2>1. Stream' = Stream /\ r \notin damaged /\ r # tablet.pkt
      BY <1>2, <1>3 DEF Lost
    <2>2. Sent(1)' = Sent(1) /\ Place(r, q) < Clock
      BY <1>2, <2>1 DEF Sent, At
    <2>3. PICK i \in 1..Len(Stream) : Holds(i, r, q)
      BY <2>1, <2>2 DEF PresentInv
    <2> QED
      BY <2>1, <2>3 DEF Holds
  <1>4. CASE Grown(b)
    <2>1. /\ Len(Stream') = N + 1 /\ \A k \in 1..N : Stream'[k] = Stream[k]
          /\ Stream'[N + 1] = b /\ damaged' = damaged
      BY <1>1, <1>4 DEF Grown, history
    <2>2. CASE Place(r, q) = Clock
      <3>1. Holds(N + 1, r, q)'
        BY <1>2, <2>1, <2>2 DEF Holds
      <3>2. N + 1 \in 1..Len(Stream')
        BY <2>1
      <3> QED
        BY <3>1, <3>2 DEF Holds
    <2>3. CASE Place(r, q) # Clock
      <3>1. Place(r, q) < Clock
        BY <1>2, <2>3
      <3>2. CASE N = 0
        BY <1>2, <2>1, <3>1, <3>2 DEF Sent
      <3>3. CASE N > 0
        <4>1. Sent(1)' = Sent(1) /\ r \notin damaged
          BY <2>1, <3>3 DEF Sent, At
        <4>2. PICK i \in 1..N : Holds(i, r, q)
          BY <1>1, <3>1, <3>3, <4>1 DEF PresentInv
        <4>3. Holds(i, r, q)' /\ i \in 1..Len(Stream')
          BY <2>1, <4>2 DEF Holds
        <4> QED
          BY <4>3 DEF Holds
      <3> QED
        BY <3>2, <3>3
    <2> QED
      BY <2>2, <2>3
  <1> QED
    BY <1>3, <1>4 DEF b

\* Byte k of an undamaged packet whose first byte is on its way.
LEMMA PresentByte ==
    ASSUME TypeInv, OrderInv, PresentInv, tablet.on, NEW i \in 1..Len(Stream),
           NEW p, NEW k \in 0..(PacketLength - 1), Holds(i, p, 0), p \notin damaged,
           Sent(i) + k < Clock
    PROVE  \E j \in 1..Len(Stream) : Holds(j, p, k) /\ Sent(j) = Sent(i) + k
  <1>1. /\ p \in 1..MaxPackets /\ p \in Nat \ {0} /\ Sent(i) = Place(p, 0) /\ Sent(i) \in Nat
        /\ Len(Stream) \in Nat /\ 1 \in 1..Len(Stream) /\ Sent(1) \in Nat
    BY StreamPlaces, StreamType DEF Holds
  <1>2. Place(p, k) = Sent(i) + k /\ k \in Nat
    BY <1>1, PlaceFacts, TabletAssumption
  <1>3. Sent(1) <= Place(p, k)
    BY <1>1, <1>2 DEF OrderInv
  <1>4. PICK j \in 1..Len(Stream) : Holds(j, p, k)
    BY <1>1, <1>2, <1>3 DEF PresentInv
  <1>5. Sent(j) = Place(p, k)
    BY <1>4, StreamPlaces DEF Holds
  <1> QED
    BY <1>2, <1>4, <1>5

\* The bytes of an undamaged packet that has been sent follow its first one.
LEMMA WholeRun ==
    ASSUME TypeInv, OrderInv, PresentInv, tablet.on, NEW i \in 1..Len(Stream),
           NEW p, Holds(i, p, 0), p \notin damaged, Sent(i) + PacketLength <= Clock
    PROVE  \A k \in 0..(PacketLength - 1) : i + k \in 1..Len(Stream) /\ Holds(i + k, p, k)
  <1> DEFINE gaps == {k \in 0..(PacketLength - 1) :
                         ~(i + k \in 1..Len(Stream) /\ Holds(i + k, p, k))}
  <1> SUFFICES ASSUME gaps # {} PROVE FALSE
    OBVIOUS
  <1>1. PacketLength \in Nat /\ Len(Stream) \in Nat /\ Clock \in Nat /\ Sent(i) \in Nat
    BY TabletAssumption, StreamPlaces, StreamType
  <1>2. PICK k \in gaps : \A l \in gaps : k <= l
    <2>1. gaps \subseteq Nat
      OBVIOUS
    <2> HIDE DEF gaps
    <2> QED
      BY <2>1, LeastNumber
  <1>3. k \in 1..(PacketLength - 1) /\ k - 1 \in 0..(PacketLength - 1) /\ k - 1 \notin gaps
    <2>1. 0 \notin gaps
      BY <1>1, StreamType
    <2>2. k \in 0..(PacketLength - 1) /\ k # 0
      BY <1>2, <2>1
    <2>3. k - 1 \notin gaps
      <3> HIDE DEF gaps
      <3> QED
        BY <1>1, <1>2, <2>2
    <2> QED
      BY <1>1, <2>2, <2>3
  <1>4. i + (k - 1) \in 1..Len(Stream) /\ Holds(i + (k - 1), p, k - 1)
    BY <1>3
  <1>5. ~(i + k \in 1..Len(Stream) /\ Holds(i + k, p, k)) /\ k \in 0..(PacketLength - 1)
    BY <1>2
  <1> HIDE DEF gaps
  <1>6. Sent(i) + k < Clock
    BY <1>1, <1>3
  <1>7. PICK j \in 1..Len(Stream) : Holds(j, p, k) /\ Sent(j) = Sent(i) + k
    BY <1>5, <1>6, PresentByte
  <1>8. PICK j1 \in 1..Len(Stream) : j1 = i + (k - 1)
    BY <1>4
  <1>9. Sent(j1) = Sent(i) + (k - 1)
    <2>1. p \in Nat \ {0} /\ Sent(i) = Place(p, 0) /\ Sent(j1) = Place(p, k - 1)
      BY <1>4, <1>8, StreamPlaces DEF Holds
    <2> QED
      BY <1>3, <2>1, PlaceFacts
  <1>10. \A x, y \in 1..Len(Stream) : x < y => Sent(x) < Sent(y) /\ Sent(x) \in Nat
    BY StreamPlaces DEF OrderInv
  <1>11. j > j1
    BY <1>1, <1>3, <1>7, <1>9, <1>10
  <1>12. j1 + 1 \in 1..Len(Stream) /\ j1 + 1 = i + k
    BY <1>1, <1>3, <1>8, <1>11
  <1>13. j = j1 + 1
    <2> SUFFICES ASSUME j > j1 + 1 PROVE FALSE
      BY <1>11, <1>12
    <2>1. Sent(j1) < Sent(j1 + 1) /\ Sent(j1 + 1) < Sent(j) /\ Sent(j1 + 1) \in Nat
      BY <1>10, <1>12
    <2> QED
      BY <1>1, <1>3, <1>7, <1>9, <2>1
  <1> QED
    BY <1>5, <1>7, <1>12, <1>13

\* Behind an undamaged packet the next one starts a packet's length later, at the least.
LEMMA StartsBehind ==
    ASSUME TypeInv, OrderInv, PresentInv, tablet.on, NEW i \in 1..Len(Stream), i > 1,
           NEW p, Holds(i, p, 0), p - 1 \notin damaged, Stream[1].pos = 0
    PROVE  i > PacketLength
  <1>1. /\ PacketLength \in Nat /\ Len(Stream) \in Nat /\ 1 \in 1..Len(Stream)
        /\ \A x \in 1..Len(Stream) : Sent(x) \in Nat
        /\ \A x, y \in 1..Len(Stream) : x < y => Sent(x) < Sent(y)
        /\ \A x \in 1..Len(Stream) : Sent(x) < Clock
    BY TabletAssumption, StreamType, StreamPlaces DEF OrderInv
  <1> DEFINE o == Stream[1].pkt
  <1>2. /\ p \in Nat \ {0} /\ p \in 1..MaxPackets /\ o \in Nat \ {0}
        /\ Sent(i) = Place(p, 0) /\ Sent(1) = Place(o, 0) /\ Sent(1) < Sent(i)
    BY <1>1, StreamPlaces DEF Holds
  <1> HIDE DEF o
  <1>3. 0 \in 0..(PacketLength - 1)
    BY TabletAssumption
  <1>4. o < p
    <2>1. p < o => Place(o, 0) >= Place(p, 0) + PacketLength
      BY <1>2, <1>3, PlaceFacts
    <2> QED
      BY <1>1, <1>2, <2>1
  <1> DEFINE r == p - 1
  <1>5. r \in Nat \ {0} /\ r \in 1..MaxPackets /\ o <= r /\ r < p
    BY <1>2, <1>4, TabletAssumption
  <1>6. Place(p, 0) >= Place(r, 0) + PacketLength /\ Place(r, 0) \in Nat
    BY <1>2, <1>3, <1>5, PlaceFacts
  <1>7. Place(o, 0) <= Place(r, 0)
    <2>1. o < r => Place(r, 0) >= Place(o, 0) + PacketLength
      BY <1>2, <1>3, <1>5, PlaceFacts
    <2>2. o = r => Place(o, 0) = Place(r, 0)
      OBVIOUS
    <2>3. Place(o, 0) \in Nat
      BY <1>1, <1>2
    <2> QED
      BY <1>1, <1>2, <1>5, <1>6, <2>1, <2>2, <2>3
  <1> HIDE DEF r
  <1>8. Clock \in Nat /\ r \notin damaged
    BY ClockType DEF r
  <1>9. Place(r, 0) < Clock
    BY <1>1, <1>2, <1>6, <1>8
  <1>10. PICK j \in 1..Len(Stream) : Holds(j, r, 0)
    BY <1>1, <1>2, <1>3, <1>5, <1>7, <1>8, <1>9 DEF PresentInv
  <1>11. Sent(j) = Place(r, 0)
    BY <1>10, StreamPlaces DEF Holds
  <1>12. Sent(j) + PacketLength <= Clock
    BY <1>1, <1>2, <1>6, <1>8, <1>11
  <1>13. \A k \in 0..(PacketLength - 1) : j + k \in 1..Len(Stream) /\ Holds(j + k, r, k)
    BY <1>8, <1>10, <1>12, WholeRun
  <1>14. i > j
    BY <1>1, <1>2, <1>6, <1>11, TabletAssumption
  <1>15. ASSUME i <= j + (PacketLength - 1) PROVE FALSE
    <2>1. i - j \in 0..(PacketLength - 1) /\ j + (i - j) = i
      BY <1>1, <1>14, <1>15
    <2>2. Holds(i, r, i - j)
      BY <1>13, <2>1
    <2> QED
      BY <1>5, <2>2 DEF Holds
  <1> QED
    BY <1>1, <1>15

-----------------------------------------------------------------------------
(* Packets that are read                                                    *)

\* A stopped tablet has sent nothing since the reset that left it so, and nothing is
\* sent before the start; while bytes are waited for the buffer has room for some.
StandInv ==
    /\ ~tablet.on \/ pc \in {"start", "exited"} => Latest <= flushed
    /\ pc = "select" => Len(puchData) < PacketLength

\* The packets that can still be accepted are newer than the last that was.
LastInv ==
    /\ lastOK <= Latest
    /\ \A i \in 1..Len(Stream) : HighBit(Stream[i]) /\ Ahead(i) => Stream[i].pkt > lastOK

\* A packet that WholePacketsAreRead promises to read and that was not accepted yet.
Awaited(p) ==
    /\ lastOK < p /\ flushed < p /\ p <= Latest
    /\ p \notin damaged /\ p - 1 \notin damaged

\* Its first byte is on its way.
FreshInv ==
    \A p \in 1..MaxPackets :
        Awaited(p) => \E i \in 1..Len(Stream) : Holds(i, p, 0) /\ Ahead(i)

\* The bytes of the newest packet tell the pen of now, and so does BTN_TOUCH when that
\* packet was accepted.
TouchInv ==
    /\ \A i \in 1..Len(Stream) : Stream[i].pkt = Latest => Stream[i].pen = tablet.pen
    /\ lastOK = Latest => touch = (tablet.pen = "down")

ReadInv == PresentInv /\ StandInv /\ LastInv /\ FreshInv /\ TouchInv

\* What has been sent is not after the newest packet, and that one has been started.
LEMMA LatestFacts ==
    ASSUME TypeInv, OrderInv
    PROVE  /\ Latest \in Nat
           /\ \A i \in 1..Len(Stream) : Stream[i].pkt <= Latest
           /\ \A p \in Nat \ {0} : p <= Latest /\ tablet.pos = 0 =>
                 Place(p, 0) + PacketLength <= Clock
  <1>1. /\ Clock = Place(tablet.pkt, tablet.pos) /\ Clock \in Nat /\ PacketLength \in Nat
        /\ tablet.pkt \in Nat \ {0} /\ 0 \in 0..(PacketLength - 1)
    BY StreamPlaces, TabletAssumption
  <1>2. tablet.pos \in 0..(PacketLength - 1)
    BY StreamPlaces
  <1>3. Latest \in Nat
    BY <1>1 DEF Latest
  <1>4. ASSUME NEW i \in 1..Len(Stream) PROVE Stream[i].pkt <= Latest
    <2> DEFINE r == Stream[i].pkt
               s == Stream[i].pos
    <2>1. /\ r \in Nat \ {0} /\ s \in 0..(PacketLength - 1)
          /\ Sent(i) = Place(r, s) /\ Sent(i) < Clock /\ Sent(i) \in Nat
      BY StreamPlaces DEF OrderInv
    <2> HIDE DEF r, s
    <2>2. Place(r, s) = Place(r, 0) + s /\ Place(r, 0) \in Nat
      BY <2>1, PlaceFacts
    <2>3. tablet.pkt < r => Place(r, s) >= Place(tablet.pkt, 0) + PacketLength
      BY <1>1, <2>1, PlaceFacts
    <2>4. /\ Clock = Place(tablet.pkt, 0) + tablet.pos /\ Place(tablet.pkt, 0) \in Nat
      BY <1>1, <1>2, PlaceFacts
    <2>5. r <= tablet.pkt
      BY <1>1, <1>2, <2>1, <2>3, <2>4
    <2>6. tablet.pos = 0 => r # tablet.pkt
      BY <1>1, <1>2, <2>1, <2>2, <2>4
    <2> QED
      BY <1>1, <2>1, <2>5, <2>6 DEF Latest, r
  <1>5. ASSUME NEW p \in Nat \ {0}, p <= Latest, tablet.pos = 0
        PROVE  Place(p, 0) + PacketLength <= Clock
    <2>1. p < tablet.pkt
      BY <1>1, <1>5 DEF Latest
    <2> QED
      BY <1>1, <1>2, <1>5, <2>1, PlaceFacts
  <1> QED
    BY <1>3, <1>4, <1>5

\* The reader takes bytes from the front and accepts nothing.
LEMMA LastShifted ==
    ASSUME TypeInv, LastInv, TouchInv, NEW m \in 0..Len(Stream), Shifted(m),
           UNCHANGED <<lastOK, touch>>
    PROVE  LastInv' /\ TouchInv'
  <1>1. /\ \A k \in 1..Len(Stream') : k + m \in 1..Len(Stream) /\ Stream'[k] = Stream[k + m]
        /\ \A k \in 1..Len(Stream') : Ahead(k)' => Ahead(k + m)
        /\ Latest' = Latest /\ tablet'.pen = tablet.pen
    BY StreamType DEF Shifted
  <1>2. LastInv'
    BY <1>1 DEF LastInv, HighBit
  <1>3. \A i \in 1..Len(Stream') : Stream'[i].pkt = Latest => Stream'[i].pen = tablet.pen
    BY <1>1 DEF TouchInv
  <1>4. lastOK = Latest => touch = (tablet.pen = "down")
    BY DEF TouchInv
  <1>5. TouchInv'
    BY <1>1, <1>3, <1>4, Zenon DEF TouchInv
  <1> QED
    BY <1>2, <1>5

\* Packets that are still awaited stay on their way.
LEMMA FreshShifted ==
    ASSUME TypeInv, FreshInv, NEW m \in 0..Len(Stream), Shifted(m),
           lastOK' = lastOK, flushed' = flushed \/ flushed' = Latest,
           pc' # "readraw" \/ UNCHANGED <<pc, puchData, line>>
    PROVE  FreshInv'
  <1> SUFFICES ASSUME NEW p \in 1..MaxPackets, Awaited(p)'
               PROVE  \E i \in 1..Len(Stream') : Holds(i, p, 0)' /\ Ahead(i)'
    BY DEF FreshInv, Holds
  <1>1. Latest \in Nat /\ flushed \in Nat /\ p \in Nat /\ MaxPackets \in Nat
    <2>1. Latest \in Nat
      BY LatestIsRest, Zenon
    <2> QED
      BY <2>1, TabletAssumption DEF TypeInv, TypeOK
  <1>2. /\ lastOK < p /\ flushed' < p /\ p <= Latest /\ p \notin damaged /\ p - 1 \notin damaged
    BY DEF Awaited, Shifted
  <1>3. flushed' = flushed /\ ~(Latest <= flushed')
    BY <1>1, <1>2
  <1>4. Awaited(p)
    BY <1>2, <1>3 DEF Awaited
  <1>5. PICK i \in 1..Len(Stream) : Holds(i, p, 0) /\ Ahead(i)
    BY <1>4 DEF FreshInv
  <1>6. i > m
    <2> SUFFICES ASSUME i \in 1..m PROVE FALSE
      BY StreamType
    <2>1. HighBit(Stream[i]) /\ Ahead(i)
      BY <1>5 DEF Holds, HighBit
    <2> QED
      BY <1>3, <2>1 DEF Shifted
  <1>7. /\ i - m \in 1..Len(Stream') /\ Stream'[i - m] = Stream[i]
    BY <1>6, StreamType DEF Shifted
  <1>8. Ahead(i - m)'
    <2>1. CASE pc' # "readraw"
      BY <2>1 DEF Ahead
    <2>2. CASE UNCHANGED <<pc, puchData, line>>
      <3>1. Stream' = Stream
        BY <2>2 DEF Stream, line
      <3>2. m = 0
        BY <3>1, StreamType DEF Shifted
      <3>3. i - m = i
        BY <3>2, StreamType
      <3> QED
        BY <1>5, <2>2, <3>3 DEF Ahead
    <2> QED
      BY <2>1, <2>2
  <1> QED
    BY <1>5, <1>7, <1>8 DEF Holds

\* The bytes of the buffer have been judged: nothing awaited starts among them.
LEMMA FreshJudged ==
    ASSUME TypeInv, FreshInv, UNCHANGED <<line, puchData, flushed>>, pc' = "readraw",
           damaged \subseteq damaged', lastOK' >= lastOK, lastOK' \in Nat,
           \A i \in 1..Len(puchData), p \in 1..MaxPackets : Holds(i, p, 0) => ~Awaited(p)'
    PROVE  FreshInv'
  <1> SUFFICES ASSUME NEW p \in 1..MaxPackets, Awaited(p)'
               PROVE  \E i \in 1..Len(Stream') : Holds(i, p, 0)' /\ Ahead(i)'
    BY DEF FreshInv, Holds
  <1>1. Stream' = Stream /\ Latest' = Latest /\ puchData' = puchData
    BY DEF Stream, Latest, line
  <1>2. lastOK \in Nat /\ p \in Nat
    BY TabletAssumption DEF TypeInv, TypeOK
  <1>3. Awaited(p)
    BY <1>1, <1>2 DEF Awaited
  <1>4. PICK i \in 1..Len(Stream) : Holds(i, p, 0) /\ Ahead(i)
    BY <1>3 DEF FreshInv
  <1>5. i > Len(puchData)
    BY <1>4, StreamType, SMTT(30)
  <1>6. Holds(i, p, 0)' /\ Ahead(i)' /\ i \in 1..Len(Stream')
    BY <1>1, <1>4, <1>5 DEF Holds, Ahead
  <1> QED
    BY <1>6 DEF Holds

\* A byte is sent.
LEMMA ReadSent ==
    ASSUME TypeInv, TypeInv', OrderInv, ReadInv, TabletSends
    PROVE  ReadInv'
  <1>1. PICK pen \in Pens :
            /\ tablet' = Advance(NextByte(pen)) /\ tablet.on /\ tablet.pkt <= MaxPackets
            /\ Grown(NextByte(pen)) \/ Lost(NextByte(pen))
            /\ UNCHANGED <<pc, puchData, nBitErrors, touch, lastOK>>
    BY SendStep
  <1> DEFINE b == NextByte(pen)
  <1>2. /\ b.pkt = tablet.pkt /\ b.pos = tablet.pos /\ tablet'.on = TRUE
        /\ tablet'.pen = b.pen
        /\ \/ tablet.pos = PacketLength - 1 /\ tablet'.pkt = tablet.pkt + 1 /\ tablet'.pos = 0
           \/ /\ tablet.pos < PacketLength - 1
              /\ tablet'.pkt = tablet.pkt /\ tablet'.pos = tablet.pos + 1
    BY <1>1, SendsEffect
  <1>3. b.pen = IF tablet.pos = 0 THEN pen ELSE tablet.pen
    BY DEF NextByte
  <1>4. Grown(b) \/ Lost(b)
    BY <1>1
  <1> HIDE DEF b
  <1>5. /\ tablet.pkt \in Nat \ {0} /\ tablet.pos \in Nat /\ PacketLength \in Nat
        /\ PacketLength > 1 /\ lastOK \in Nat /\ Latest \in Nat
        /\ \A i \in 1..Len(Stream) : Stream[i].pkt <= Latest /\ Stream[i].pkt \in Nat
    <2>1. tablet.pos \in Nat /\ PacketLength \in Nat /\ PacketLength > 1 /\ lastOK \in Nat
      BY TabletAssumption DEF TypeInv, TypeOK
    <2>2. /\ tablet.pkt \in Nat \ {0} /\ Latest \in Nat
          /\ \A i \in 1..Len(Stream) : Stream[i].pkt <= Latest /\ Stream[i].pkt \in Nat
      BY LatestFacts, StreamPlaces
    <2> QED
      BY <2>1, <2>2
  <1>6. /\ Latest' = tablet.pkt
        /\ tablet.pos = 0 => Latest = tablet.pkt - 1
        /\ tablet.pos # 0 => Latest = tablet.pkt /\ tablet'.pen = tablet.pen
    BY <1>2, <1>3, <1>5 DEF Latest
  <1>7. PICK N \in Nat : N = Len(Stream)
    BY StreamType
  <1>8. /\ Len(Stream') = N \/ (Len(Stream') = N + 1 /\ Stream'[N + 1] = b)
        /\ \A k \in 1..N : Stream'[k] = Stream[k]
        /\ damaged \subseteq damaged' /\ flushed' = flushed
        /\ Len(Stream') = N => b.pkt \in damaged'
    BY <1>4, <1>7 DEF Grown, Lost, history
  <1>9. \A k : Ahead(k)' <=> Ahead(k)
    BY <1>1 DEF Ahead
  <1>10. \A k \in 1..Len(Stream') : k \in 1..N \/ (k = N + 1 /\ Stream'[k] = b)
    BY <1>8
  <1>11. PresentInv'
    BY <1>1, PresentSent DEF ReadInv
  <1>12. StandInv'
    <2>1. pc' \notin {"start", "exited"} /\ UNCHANGED <<pc, puchData>>
      BY <1>1 DEF TabletSends
    <2> QED
      BY <1>2, <2>1 DEF ReadInv, StandInv
  <1>13. LastInv'
    <2>1. lastOK <= Latest /\ lastOK' = lastOK
      BY <1>1 DEF ReadInv, LastInv
    <2>2. lastOK <= tablet.pkt /\ (tablet.pos = 0 => lastOK < tablet.pkt)
      BY <1>5, <1>6, <2>1
    <2>3. ASSUME NEW i \in 1..Len(Stream'), HighBit(Stream'[i]), Ahead(i)'
          PROVE  Stream'[i].pkt > lastOK
      <3>1. CASE i \in 1..N
        BY <1>7, <1>8, <1>9, <2>3, <3>1 DEF ReadInv, LastInv
      <3>2. CASE Stream'[i] = b
        BY <1>2, <1>5, <2>2, <2>3, <3>2 DEF HighBit
      <3> QED
        BY <1>10, <3>1, <3>2
    <2> QED
      BY <1>6, <2>1, <2>2, <2>3 DEF LastInv
  <1>14. FreshInv'
    <2> SUFFICES ASSUME NEW p \in 1..MaxPackets, Awaited(p)'
                 PROVE  \E i \in 1..Len(Stream') : Holds(i, p, 0)' /\ Ahead(i)'
      BY DEF FreshInv, Holds
    <2>1. /\ lastOK < p /\ flushed < p /\ p <= tablet.pkt
          /\ p \notin damaged' /\ p \notin damaged /\ p - 1 \notin damaged
      BY <1>1, <1>6, <1>8 DEF Awaited
    <2>2. CASE p <= Latest
      <3>1. PICK i \in 1..N : Holds(i, p, 0) /\ Ahead(i)
        BY <1>7, <2>1, <2>2 DEF ReadInv, FreshInv, Awaited
      <3>2. i \in 1..Len(Stream') /\ Holds(i, p, 0)' /\ Ahead(i)'
        BY <1>8, <1>9, <3>1 DEF Holds
      <3> QED
        BY <3>2 DEF Holds
    <2>3. CASE ~(p <= Latest)
      <3>1. p = tablet.pkt /\ tablet.pos = 0
        BY <1>5, <1>6, <2>1, <2>3
      <3>2. Len(Stream') = N + 1 /\ Stream'[N + 1] = b /\ N + 1 \in 1..Len(Stream')
        BY <1>2, <1>8, <2>1, <3>1
      <3>3. Ahead(N + 1)'
        BY <1>7, <1>9, StreamType DEF Ahead
      <3>4. Holds(N + 1, p, 0)'
        BY <1>2, <3>1, <3>2 DEF Holds
      <3> QED
        BY <3>2, <3>3, <3>4 DEF Holds
    <2> QED
      BY <2>2, <2>3
  <1>15. TouchInv'
    <2>1. ASSUME NEW i \in 1..Len(Stream'), Stream'[i].pkt = tablet.pkt
          PROVE  Stream'[i].pen = tablet'.pen
      <3>1. CASE i \in 1..N
        <4>1. Stream[i].pkt = tablet.pkt /\ Stream'[i] = Stream[i] /\ i \in 1..Len(Stream)
          BY <1>7, <1>8, <2>1, <3>1
        <4>2. tablet.pos # 0
          BY <1>5, <1>6, <4>1
        <4> QED
          BY <1>6, <4>1, <4>2 DEF ReadInv, TouchInv
      <3>2. CASE Stream'[i] = b
        BY <1>2, <3>2
      <3> QED
        BY <1>10, <3>1, <3>2
    <2>2. ASSUME lastOK = tablet.pkt
          PROVE  touch = (tablet'.pen = "down")
      <3>1. tablet.pos # 0
        BY <1>5, <1>6, <2>2 DEF ReadInv, LastInv
      <3>2. lastOK = Latest => touch = (tablet.pen = "down")
        BY DEF ReadInv, TouchInv
      <3>3. lastOK = Latest /\ tablet'.pen = tablet.pen
        BY <1>6, <2>2, <3>1
      <3> QED
        BY <3>2, <3>3, Zenon
    <2> QED
      BY <1>1, <1>6, <2>1, <2>2, Zenon DEF TouchInv
  <1> QED
    BY <1>11, <1>12, <1>13, <1>14, <1>15 DEF ReadInv

\* SerialParseData judges a full buffer.
LEMMA ReadParsed ==
    ASSUME TypeInv, TypeInv', OrderInv, ReadInv, Parse
    PROVE  ReadInv'
  <1> DEFINE o == puchData[1].pkt
  <1>1. /\ UNCHANGED <<line, puchData, history>> /\ pc = "parse" /\ pc' = "readraw"
        /\ Stream' = Stream /\ Latest' = Latest /\ tablet' = tablet
        /\ damaged' = damaged /\ flushed' = flushed
    BY DEF Parse, Stream, Latest, line, history
  <1>2. /\ Len(puchData) = PacketLength /\ PacketLength \in Nat /\ PacketLength > 1
        /\ Len(Stream) \in Nat /\ Len(puchData) <= Len(Stream)
        /\ 1 \in 1..Len(Stream) /\ 1 \in 1..Len(puchData)
        /\ Stream[1] = puchData[1] /\ HighBit(Stream[1]) /\ Stream[1].pkt = o
    <2>1. puchData # << >> => HighBit(puchData[1])
      BY DEF TypeInv, TypeOK
    <2>2. Len(puchData) = PacketLength /\ PacketLength \in Nat /\ PacketLength > 1
      BY <1>1, TabletAssumption DEF TypeInv
    <2>3. puchData # << >>
      BY <2>2
    <2>4. /\ Len(Stream) \in Nat /\ Len(puchData) <= Len(Stream)
          /\ \A k \in 1..Len(puchData) : Stream[k] = puchData[k]
      BY StreamType
    <2> QED
      BY <2>1, <2>2, <2>3, <2>4
  <1> HIDE DEF o
  <1>3. /\ \A i \in 1..Len(Stream) :
              /\ Sent(i) = Place(Stream[i].pkt, Stream[i].pos) /\ Sent(i) \in Nat
              /\ Stream[i].pkt \in Nat \ {0} /\ Stream[i].pos \in 0..(PacketLength - 1)
              /\ Stream[i].pkt <= Latest /\ Sent(i) < Clock
        /\ \A i, j \in 1..Len(Stream) : i < j => Sent(i) < Sent(j)
        /\ Latest \in Nat /\ lastOK \in Nat /\ Clock \in Nat
    <2>1. lastOK \in Nat
      BY TabletAssumption DEF TypeInv, TypeOK
    <2> QED
      BY <2>1, StreamPlaces, LatestFacts DEF OrderInv
  <1>4. ASSUME NEW i \in 1..Len(Stream), NEW j \in 1..Len(Stream), i < j
        PROVE  /\ Stream[i].pkt <= Stream[j].pkt
               /\ HighBit(Stream[i]) /\ HighBit(Stream[j]) =>
                     Stream[i].pkt < Stream[j].pkt /\ Sent(i) + PacketLength <= Sent(j)
    <2> DEFINE p == Stream[i].pkt
               q == Stream[i].pos
               r == Stream[j].pkt
               s == Stream[j].pos
    <2>1. /\ p \in Nat \ {0} /\ q \in 0..(PacketLength - 1) /\ r \in Nat \ {0}
          /\ s \in 0..(PacketLength - 1) /\ Place(p, q) < Place(r, s)
          /\ Sent(i) = Place(p, q) /\ Sent(j) = Place(r, s)
      BY <1>3, <1>4
    <2> HIDE DEF p, q, r, s
    <2>2. /\ Place(p, q) = Place(p, 0) + q /\ Place(r, s) = Place(r, 0) + s
          /\ Place(p, 0) \in Nat /\ Place(r, 0) \in Nat
          /\ p < r => Place(r, s) >= Place(p, 0) + PacketLength
          /\ r < p => Place(p, q) >= Place(r, 0) + PacketLength
      BY <2>1, PlaceFacts
    <2>3. p <= r
      BY <1>2, <2>1, <2>2
    <2>4. q = 0 /\ s = 0 => p # r
      BY <2>1, <2>2
    <2>5. q = 0 /\ s = 0 => p < r /\ Place(p, q) + PacketLength <= Place(r, s)
      BY <2>1, <2>2, <2>3, <2>4
    <2> QED
      BY <2>1, <2>3, <2>5 DEF HighBit, p, q, r, s
  <1>5. o \in Nat /\ lastOK < o /\ o <= Latest
    <2>1. Ahead(1)
      BY <1>1 DEF Ahead
    <2> QED
      BY <1>2, <1>3, <2>1 DEF ReadInv, LastInv
  <1>6. \/ lastOK' = o /\ touch' = Touches(puchData)
        \/ lastOK' = lastOK /\ touch' = touch /\ ~LowBits(puchData)
    BY <1>2 DEF Parse, o
  <1>7. PresentInv'
    <2>1. PICK m \in 0..Len(Stream) : Shifted(m)
      BY ReaderStep DEF Reader
    <2> QED
      BY <1>1, <2>1, PresentShifted DEF ReadInv
  <1>8. StandInv'
    BY <1>1 DEF ReadInv, StandInv
  <1>9. LastInv'
    <2>1. lastOK' <= Latest
      BY <1>3, <1>5, <1>6
    <2>2. ASSUME NEW i \in 1..Len(Stream), HighBit(Stream[i]), i > Len(puchData)
          PROVE  Stream[i].pkt > lastOK'
      <3>1. Stream[i].pkt > o /\ Stream[i].pkt \in Nat
        BY <1>2, <1>3, <1>4, <2>2
      <3> QED
        BY <1>3, <1>5, <1>6, <3>1
    <2> QED
      BY <1>1, <2>1, <2>2 DEF LastInv, Ahead
  <1>10. FreshInv'
    <2>1. ASSUME NEW i \in 1..Len(puchData), NEW p \in 1..MaxPackets, Holds(i, p, 0),
                 Awaited(p)'
          PROVE  FALSE
      <3>1. /\ lastOK' < p /\ flushed < p /\ p <= Latest
            /\ p \notin damaged /\ p - 1 \notin damaged
        BY <1>1, <2>1 DEF Awaited
      <3>2. tablet.on
        <4>1. flushed \in Nat /\ p \in Nat
          BY TabletAssumption DEF TypeInv, TypeOK
        <4> QED
          BY <1>3, <3>1, <4>1 DEF ReadInv, StandInv
      <3>3. PresentInv /\ i \in 1..Len(Stream)
        BY <1>2 DEF ReadInv
      <3>4. CASE i > 1
        <4>1. i > PacketLength
          BY <1>2, <2>1, <3>1, <3>2, <3>3, <3>4, StartsBehind DEF HighBit
        <4> QED
          BY <1>2, <4>1
      <3>5. CASE i = 1
        <4>1. p = o
          BY <1>2, <2>1, <3>5 DEF Holds
        <4>2. ~LowBits(puchData)
          BY <1>5, <1>6, <3>1, <4>1
        <4>3. PICK k \in 2..PacketLength : HighBit(puchData[k])
          BY <1>2, <4>2 DEF LowBits
        <4>4. k \in 1..Len(Stream) /\ HighBit(Stream[k]) /\ 1 < k
          BY <1>2, <4>3, StreamType
        <4>5. Sent(1) + PacketLength <= Clock
          <5>1. Sent(1) + PacketLength <= Sent(k) /\ Sent(k) < Clock
            BY <1>2, <1>3, <1>4, <4>4
          <5> QED
            BY <1>2, <1>3, <4>4, <5>1
        <4>6. Holds(1, p, 0)
          BY <2>1, <3>5
        <4>7. \A l \in 0..(PacketLength - 1) : Holds(1 + l, p, l)
          BY <1>2, <3>1, <3>2, <3>3, <4>5, <4>6, WholeRun
        <4>8. k - 1 \in 0..(PacketLength - 1) /\ 1 + (k - 1) = k /\ k - 1 # 0
          BY <1>2, <4>3
        <4>9. Holds(k, p, k - 1)
          BY <4>7, <4>8
        <4> QED
          BY <4>4, <4>8, <4>9 DEF Holds, HighBit
      <3> QED
        BY <1>2, <3>4, <3>5
    <2>2. lastOK' >= lastOK /\ lastOK' \in Nat
      BY <1>3, <1>5, <1>6
    <2> QED
      BY <1>1, <2>1, <2>2, FreshJudged DEF ReadInv
  <1>11. TouchInv'
    <2>1. \A i \in 1..Len(Stream) : Stream[i].pkt = Latest => Stream[i].pen = tablet.pen
      BY DEF ReadInv, TouchInv
    <2>2. ASSUME lastOK' = Latest
          PROVE  touch' = (tablet.pen = "down")
      <3>1. CASE lastOK' = o /\ touch' = Touches(puchData)
        <4>1. o = Latest /\ PacketLength \in 1..Len(Stream) /\ 1 < PacketLength
          BY <1>2, <2>2, <3>1
        <4>2. Stream[PacketLength].pkt = Latest
          BY <1>2, <1>3, <1>4, <4>1
        <4>3. Stream[PacketLength] = puchData[PacketLength]
          BY <1>2, StreamType
        <4>4. puchData[1].pen = tablet.pen /\ puchData[Len(puchData)].pen = tablet.pen
          BY <1>2, <2>1, <4>1, <4>2, <4>3
        <4>5. Touches(puchData) = (tablet.pen # "away" /\ tablet.pen = "down")
          BY <4>4, Zenon DEF Touches
        <4>6. (tablet.pen # "away" /\ tablet.pen = "down") = (tablet.pen = "down")
          <5>1. "down" # "away"
            OBVIOUS
          <5> QED
            BY <5>1, Zenon
        <4> QED
          BY <3>1, <4>5, <4>6, Zenon
      <3>2. CASE lastOK' = lastOK /\ touch' = touch
        BY <1>3, <1>5, <2>2, <3>2
      <3> QED
        BY <1>6, <3>1, <3>2
    <2> QED
      BY <1>1, <2>1, <2>2, Zenon DEF TouchInv
  <1> QED
    BY <1>7, <1>8, <1>9, <1>10, <1>11 DEF ReadInv

\* The reader waits, reads, gives up or starts over.
LEMMA ReadMoved ==
    ASSUME TypeInv, TypeInv', OrderInv, ReadInv,
           \/ Startup \/ Exited \/ ReadRaw \/ Timeout \/ ReadFails \/ UNCHANGED vars
           \/ \E n \in 1..PacketLength : Read(n)
    PROVE  ReadInv'
  <1>1. PICK m \in 0..Len(Stream) : Shifted(m)
    BY ReaderStep DEF Reader
  <1>2. /\ UNCHANGED <<lastOK, touch>> /\ damaged \subseteq damaged' /\ Latest' = Latest
    <2>1. UNCHANGED <<lastOK, touch>>
      BY DEF Startup, Exited, ReadRaw, Timeout, ReadFails, Read, vars
    <2> QED
      BY <1>1, <2>1 DEF Shifted
  <1>3. PresentInv' /\ LastInv' /\ TouchInv'
    BY <1>1, <1>2, PresentShifted, LastShifted DEF ReadInv
  <1>4. /\ Latest \in Nat /\ PacketLength \in Nat /\ PacketLength > 1
        /\ flushed \in Nat /\ MaxPackets \in Nat
    <2>1. flushed \in Nat /\ PacketLength \in Nat /\ PacketLength > 1 /\ MaxPackets \in Nat
      BY TabletAssumption DEF TypeInv, TypeOK
    <2> QED
      BY <2>1, LatestFacts
  <1>5. \/ flushed' = flushed /\ (Startup \/ tablet' = tablet)
        \/ flushed' = Latest /\ ReadRaw
    <2>1. CASE ReadRaw
      <3>1. CASE nBitErrors > MaxBitErrors
        <4>1. flushed' = Rest(TRUE).pkt - 1
          BY <2>1, <3>1, Zenon DEF ReadRaw
        <4> QED
          BY <2>1, <4>1, LatestIsRest, Zenon
      <3>2. CASE ~(nBitErrors > MaxBitErrors)
        BY <2>1, <3>2 DEF ReadRaw, line
      <3> QED
        BY <3>1, <3>2
    <2>2. CASE ~ReadRaw
      BY <2>2 DEF Startup, Exited, Timeout, ReadFails, Read, vars, history, line
    <2> QED
      BY <2>1, <2>2
  <1>6. StandInv'
    <2>1. ~tablet'.on \/ pc' \in {"start", "exited"} => Latest <= flushed'
      <3>1. CASE flushed' = Latest
        BY <1>4, <3>1
      <3>2. CASE Startup /\ flushed' = flushed
        BY <3>2 DEF ReadInv, StandInv, Startup
      <3>3. CASE ~Startup /\ tablet' = tablet /\ flushed' = flushed
        <4>1. pc' \in {"start", "exited"} => pc' = pc
          BY <3>3 DEF Exited, ReadRaw, Timeout, ReadFails, Read, vars
        <4> QED
          BY <3>3, <4>1 DEF ReadInv, StandInv
      <3> QED
        BY <1>5, <3>1, <3>2, <3>3
    <2>2. ASSUME pc' = "select" PROVE Len(puchData') < PacketLength
      <3>1. CASE ReadRaw
        BY <1>4, <3>1 DEF ReadRaw
      <3>2. CASE \E n \in 1..PacketLength : Read(n)
        <4>1. Len(puchData') # PacketLength
          BY <2>2, <3>2 DEF Read
        <4>2. Len(puchData') <= PacketLength /\ Len(puchData') \in Nat
          BY DEF TypeInv, TypeOK
        <4> QED
          BY <1>4, <4>1, <4>2
      <3>3. CASE UNCHANGED vars
        BY <2>2, <3>3 DEF vars, ReadInv, StandInv
      <3> QED
        BY <2>2, <3>1, <3>2, <3>3 DEF Startup, Exited, Timeout, ReadFails
    <2> QED
      BY <1>2, <2>1, <2>2 DEF StandInv
  <1>7. ASSUME Timeout \/ ReadFails PROVE FreshInv'
    <2>1. ASSUME NEW i \in 1..Len(puchData), NEW p \in 1..MaxPackets, Holds(i, p, 0)
          PROVE  ~Awaited(p)'
      <3>1. i \in DOMAIN puchData /\ puchData[i].pkt = p
        <4>1. puchData \in Seq(Byte) /\ Stream[i] = puchData[i]
          BY StreamType DEF TypeInv, TypeOK
        <4> QED
          BY <2>1, <4>1 DEF Holds
      <3> QED
        BY <1>7, <3>1 DEF Timeout, ReadFails, Awaited
    <2> QED
      BY <1>2, <1>7, <2>1, FreshJudged DEF Timeout, ReadFails, ReadInv, TypeInv, TypeOK
  <1>9. ASSUME ~Timeout, ~ReadFails PROVE FreshInv'
    <2>1. Startup \/ pc' # "readraw" \/ UNCHANGED <<pc, puchData, line>>
      BY <1>9 DEF Startup, Exited, ReadRaw, Read, vars
    <2>2. CASE Startup
      <3>1. Latest' <= flushed'
        BY <1>2, <2>2 DEF Startup, history, ReadInv, StandInv
      <3>2. flushed' \in Nat /\ Latest' \in Nat
        BY <1>2, <1>4, <1>5
      <3> QED
        BY <1>4, <3>1, <3>2 DEF FreshInv, Awaited
    <2>3. CASE ~Startup
      BY <1>1, <1>2, <1>5, <2>1, <2>3, FreshShifted DEF ReadInv
    <2> QED
      BY <2>2, <2>3
  <1> QED
    BY <1>3, <1>6, <1>7, <1>9 DEF ReadInv

LEMMA ReadStep ==
    ASSUME TypeInv, LossInv, ReadInv, [Next]_vars
    PROVE  ReadInv'
  <1>1. TypeInv' /\ OrderInv
    BY TypeStep DEF LossInv
  <1> QED
    BY <1>1, ReadSent, ReadParsed, ReadMoved DEF Next, Reader

LEMMA ReadInit == Init => ReadInv
  <1> SUFFICES ASSUME Init PROVE ReadInv
    OBVIOUS
  <1>1. /\ Stream = << >> /\ Len(Stream) = 0 /\ tablet.pkt = 1 /\ tablet.pos = 0
        /\ tablet.pen = "away" /\ pc = "start" /\ flushed = 0 /\ lastOK = 0 /\ touch = FALSE
    BY DEF Init, Stream
  <1>2. Latest = 0
    BY <1>1 DEF Latest
  <1>3. PresentInv /\ StandInv /\ LastInv
    BY <1>1, <1>2 DEF PresentInv, StandInv, LastInv
  <1>4. FreshInv
    BY <1>1, <1>2, TabletAssumption DEF FreshInv, Awaited
  <1>5. touch = (tablet.pen = "down")
    <2>1. tablet.pen # "down"
      BY <1>1
    <2> QED
      BY <1>1, <2>1, Zenon
  <1>6. TouchInv
    BY <1>1, <1>5 DEF TouchInv
  <1> QED
    BY <1>3, <1>4, <1>6 DEF ReadInv

\* SerialReadRaw and its search for the high bit miss a packet only when a byte of it or
\* of the one before was lost, when a timeout or a failing read threw away what was read
\* of either, or when a reset did: for any packet length, however reads cut the stream,
\* whenever timeouts come and wherever bytes are lost.
THEOREM WholeAreRead == Spec => []WholePacketsAreRead
  <1>1. TypeInv /\ LossInv /\ ReadInv /\ [Next]_vars => TypeInv' /\ LossInv' /\ ReadInv'
    BY TypeStep, LossStep, ReadStep
  <1>2. ASSUME TypeInv, LossInv, ReadInv PROVE WholePacketsAreRead
    <2> SUFFICES ASSUME Accepting, NEW p \in (lastOK + 1)..(puchData[1].pkt - 1),
                        p \notin damaged, p - 1 \notin damaged, ~(p <= flushed)
                 PROVE  FALSE
      BY DEF WholePacketsAreRead
    <2>1. OrderInv
      BY <1>2 DEF LossInv
    <2>2. /\ 1 \in 1..Len(Stream) /\ Stream[1] = puchData[1] /\ Len(Stream) \in Nat
      <3>1. Len(puchData) = PacketLength /\ PacketLength \in Nat /\ PacketLength > 1
        BY <1>2, TabletAssumption DEF Accepting, TypeInv
      <3>2. 1 \in 1..Len(puchData)
        BY <3>1
      <3> QED
        BY <1>2, <3>2, StreamType
    <2> DEFINE o == Stream[1].pkt
    <2>3. /\ o \in Nat \ {0} /\ o \in 1..MaxPackets /\ o <= Latest /\ Latest \in Nat
          /\ Stream[1].pos = 0 /\ Sent(1) = Place(o, 0) /\ Sent(1) \in Nat
      BY <1>2, <2>1, <2>2, LatestFacts, StreamPlaces DEF Accepting, HighBit
    <2>4. lastOK \in Nat /\ flushed \in Nat
      BY <1>2, TabletAssumption DEF TypeInv, TypeOK
    <2>5. p \in 1..MaxPackets /\ p \in Nat \ {0} /\ lastOK < p /\ flushed < p /\ p < o /\ p <= Latest
      BY <2>2, <2>3, <2>4, TabletAssumption, SMTT(30)
    <2> HIDE DEF o
    <2>6. PICK i \in 1..Len(Stream) : Holds(i, p, 0)
      BY <1>2, <2>5 DEF ReadInv, FreshInv, Awaited
    <2>7. Sent(i) = Place(p, 0) /\ Sent(i) \in Nat
      BY <1>2, <2>6, StreamPlaces DEF Holds
    <2>8. Place(o, 0) >= Place(p, 0) + PacketLength /\ PacketLength \in Nat /\ PacketLength > 1
      <3>1. 0 \in 0..(PacketLength - 1)
        BY TabletAssumption
      <3> QED
        BY <2>3, <2>5, <3>1, PlaceFacts, TabletAssumption
    <2>9. i = 1 \/ Sent(1) < Sent(i)
      BY <2>1, <2>2 DEF OrderInv
    <2> QED
      BY <2>3, <2>7, <2>8, <2>9
  <1>3. TypeInv /\ LossInv /\ ReadInv => WholePacketsAreRead
    BY <1>2
  <1> QED
    BY <1>1, <1>3, TypeInit, LossInit, ReadInit, PTL DEF Spec

\* When nothing is on its way BTN_TOUCH is what the pen does: a pen that was lifted does
\* not stay down unless a byte of its last packet or of the one before was lost, or was
\* thrown away by a timeout, a failing read or a reset.
THEOREM TouchFollowsPen == Spec => []TouchIsPen
  <1>1. TypeInv /\ LossInv /\ ReadInv /\ [Next]_vars => TypeInv' /\ LossInv' /\ ReadInv'
    BY TypeStep, LossStep, ReadStep
  <1>2. ASSUME TypeInv, LossInv, ReadInv PROVE TouchIsPen
    <2> DEFINE p == tablet.pkt - 1
    <2> SUFFICES ASSUME Quiet, p > flushed, damaged \cap {p - 1, p} = {}
                 PROVE  touch = (tablet.pen = "down")
      BY DEF TouchIsPen
    <2>1. /\ tablet.pkt \in 1..(MaxPackets + 1) /\ flushed \in Nat /\ lastOK \in Nat
          /\ MaxPackets \in Nat
      BY <1>2, TabletAssumption DEF TypeInv, TypeOK
    <2>2. Latest = p /\ Len(Stream) = 0
      BY <2>1 DEF Quiet, Latest, Stream
    <2>3. p \in 1..MaxPackets /\ p \notin damaged /\ p - 1 \notin damaged
      BY <2>1
    <2>4. ~(lastOK < p)
      BY <1>2, <2>1, <2>2, <2>3 DEF ReadInv, FreshInv, Awaited
    <2>5. lastOK = Latest
      BY <1>2, <2>1, <2>2, <2>3, <2>4 DEF ReadInv, LastInv
    <2> QED
      BY <1>2, <2>5 DEF ReadInv, TouchInv
  <1>3. TypeInv /\ LossInv /\ ReadInv => TouchIsPen
    BY <1>2
  <1> QED
    BY <1>1, <1>3, TypeInit, LossInit, ReadInit, PTL DEF Spec
=============================================================================
