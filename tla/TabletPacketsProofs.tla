------------------------ MODULE TabletPacketsProofs ------------------------
(***************************************************************************)
(* Proofs about TabletPackets: what the parsers make of the packets is     *)
(* what the tablet meant, and applications are shown the tool as it is.    *)
(* For every place, pressure, tilt and combination of buttons of a tool,   *)
(* any threshold, and however many packets are lost.                       *)
(***************************************************************************)
EXTENDS TabletPackets, TLAPS

-----------------------------------------------------------------------------
(* Fields of octets                                                         *)

\* A packet's octets, counted from 0.
LEMMA Octets ==
    ASSUME NEW a0, NEW a1, NEW a2, NEW a3, NEW a4, NEW a5, NEW a6, NEW a7, NEW a8,
           NEW n \in {7, 9}, NEW d, d = Packet(<<a0, a1, a2, a3, a4, a5, a6, a7, a8>>, n)
    PROVE  /\ DOMAIN d = 0..(n - 1)
           /\ d[0] = a0 /\ d[1] = a1 /\ d[2] = a2 /\ d[3] = a3 /\ d[4] = a4 /\ d[5] = a5
           /\ d[6] = a6 /\ (n = 9 => d[7] = a7 /\ d[8] = a8)
  BY DEF Packet

\* The ranges of what a tool does, and of what is measured of it.
LEMMA SampleFacts ==
    ASSUME NEW s \in Sample
    PROVE  /\ s.x \in Int /\ 0 <= s.x /\ s.x <= 65535
           /\ s.y \in Int /\ 0 <= s.y /\ s.y <= 65535
           /\ s.press \in Int /\ 0 <= s.press /\ s.press <= 1023
           /\ s.tiltx \in Int /\ -64 <= s.tiltx /\ s.tiltx <= 63
           /\ s.tilty \in Int /\ -64 <= s.tilty /\ s.tilty <= 63
           /\ s.aux \in Int /\ -899 <= s.aux /\ s.aux <= 899
           /\ s.buttons \subseteq 0..7
  <1>1. Far \in Int /\ Full \in Int /\ Turn \in Int
    BY DEF Far, Full, Turn
  <1>2. /\ s.x \in 0..Far /\ s.y \in 0..Far /\ s.press \in 0..Full /\ s.buttons \in SUBSET (0..7)
        /\ s.tiltx \in -64..63 /\ s.tilty \in -64..63 /\ s.aux \in -Turn..Turn
    BY DEF Sample
  <1>3. /\ s.x \in Int /\ 0 <= s.x /\ s.x <= Far /\ s.y \in Int /\ 0 <= s.y /\ s.y <= Far
        /\ s.press \in Int /\ 0 <= s.press /\ s.press <= Full
        /\ s.aux \in Int /\ -Turn <= s.aux /\ s.aux <= Turn
    BY <1>1, <1>2
  <1>4. /\ s.tiltx \in Int /\ -64 <= s.tiltx /\ s.tiltx <= 63
        /\ s.tilty \in Int /\ -64 <= s.tilty /\ s.tilty <= 63
    BY <1>2
  <1>5. Far = 65535 /\ Full = 1023 /\ Turn = 899
    BY DEF Far, Full, Turn
  <1>6. s.buttons \subseteq 0..7
    BY <1>2
  <1> QED
    BY <1>3, <1>4, <1>5, <1>6

\* Seven bits are read as they are.
LEMMA SevenBits ==
    ASSUME NEW n \in Int, 0 <= n, n < 128
    PROVE  Field(n, 1, 128) = n
  BY SMT DEF Field

\* Protocol 5 and the tablet PC put the upper 14 bits of a place into two octets.
LEMMA HighBits ==
    ASSUME NEW x \in Int, 0 <= x, x <= 65535
    PROVE  /\ x \div 512 \in Int /\ 0 <= x \div 512 /\ x \div 512 < 128
           /\ (x \div 4) % 128 \in Int /\ 0 <= (x \div 4) % 128 /\ (x \div 4) % 128 < 128
           /\ x % 4 \in Int /\ 0 <= x % 4 /\ x % 4 < 4
           /\ (x \div 512) * 512 + ((x \div 4) % 128) * 4 + (x % 4) = x
  BY SMT

\* Two fields in one octet.
LEMMA TwoAndFive ==
    ASSUME NEW a \in Int, 0 <= a, a < 4, NEW b \in Int, 0 <= b, b < 32
    PROVE  Field(a * 32 + b, 32, 4) = a /\ Field(a * 32 + b, 1, 32) = b
  BY SMT DEF Field

LEMMA FourAndThree ==
    ASSUME NEW a \in Int, 0 <= a, a < 16, NEW b \in Int, 0 <= b, b < 8
    PROVE  Field(a * 8 + b, 8, 16) = a /\ Field(a * 8 + b, 1, 8) = b
  BY SMT DEF Field

LEMMA LowPlaceV ==
    ASSUME NEW y \in Int, 0 <= y, y <= 65535
    PROVE  /\ y \div 2048 \in Int /\ 0 <= y \div 2048 /\ y \div 2048 < 32
           /\ (y \div 16) % 128 \in Int /\ 0 <= (y \div 16) % 128 /\ (y \div 16) % 128 < 128
           /\ y % 16 \in Int /\ 0 <= y % 16 /\ y % 16 < 16
           /\ (y \div 2048) * 2048 + ((y \div 16) % 128) * 16 + (y % 16) = y
  BY SMT

LEMMA TenBits ==
    ASSUME NEW n \in Int, 0 <= n, n <= 1023
    PROVE  /\ n \div 128 \in Int /\ 0 <= n \div 128 /\ n \div 128 < 8
           /\ n % 128 \in Int /\ 0 <= n % 128 /\ n % 128 < 128
           /\ (n \div 128) * 128 + (n % 128) = n
  BY SMT

\* A tilt is read with its sign.
LEMMA Tilts ==
    ASSUME NEW i \in Int, -64 <= i, i <= 63
    PROVE  Signed(Seven(i)) = i
  BY SMT DEF Field, Signed, Set, Seven

-----------------------------------------------------------------------------
(* Protocol 5                                                               *)

\* The first octet tells the kinds of packets apart.
FirstIs(b, k) ==
    /\ k = "in" <=> Field(b, 4, 64) = Field(\hC0, 4, 64)
    /\ k = "out" <=> Field(b, 2, 128) = Field(\h80, 2, 128)
    /\ k = "pen" <=> Set(b, 128) /\ Field(b, 8, 8) = Field(\hA0, 8, 8)
    /\ k = "wheel" <=> Set(b, 128) /\ Field(b, 2, 32) = Field(\hB4, 2, 32)
    /\ k = "mouse" <=> \/ Set(b, 128) /\ Field(b, 2, 32) = Field(\hA8, 2, 32)
                       \/ Set(b, 128) /\ Field(b, 2, 32) = Field(\hB0, 2, 32)
    /\ k = "rot" <=> Set(b, 128) /\ Field(b, 2, 32) = Field(\hAA, 2, 32)

LEMMA FirstOctet ==
    /\ FirstIs(\hC0, "in") /\ FirstIs(\h80, "out") /\ FirstIs(\hF4, "wheel")
    /\ FirstIs(\hE8, "mouse") /\ FirstIs(\hEA, "rot")
    /\ \A i, j \in {0, 1} : /\ FirstIs(\hE0 + 2 * i + 4 * j, "pen")
                            /\ Set(\hE0 + 2 * i + 4 * j, 2) <=> i = 1
                            /\ Set(\hE0 + 2 * i + 4 * j, 4) <=> j = 1
  BY SMT DEF FirstIs, Set, Field

\* The octets of a place, and three bits behind it.
PlacedV(d, s, hi) ==
    /\ DOMAIN d = 0..8
    /\ d[1] = s.x \div 512 /\ d[2] = (s.x \div 4) % 128
    /\ d[3] = (s.x % 4) * 32 + (s.y \div 2048) /\ d[4] = (s.y \div 16) % 128
    /\ d[5] = (s.y % 16) * 8 + hi

\* They are read as the place and the three bits.
LEMMA PlaceReadV ==
    ASSUME NEW s \in Sample, NEW hi \in Int, 0 <= hi, hi < 8, NEW d, PlacedV(d, s, hi)
    PROVE  XOf(d) = s.x /\ YOf(d) = s.y /\ Field(d[5], 1, 8) = hi
  <1> DEFINE x == s.x
             y == s.y
  <1>1. x \in Int /\ 0 <= x /\ x <= 65535 /\ y \in Int /\ 0 <= y /\ y <= 65535
    BY SampleFacts
  <1>2. Field(d[1], 1, 128) = x \div 512 /\ Field(d[2], 1, 128) = (x \div 4) % 128
    BY <1>1, HighBits, SevenBits DEF PlacedV
  <1>3. Field(d[3], 32, 4) = x % 4 /\ Field(d[3], 1, 32) = y \div 2048
    BY <1>1, HighBits, LowPlaceV, TwoAndFive DEF PlacedV
  <1>4. Field(d[4], 1, 128) = (y \div 16) % 128
    BY <1>1, LowPlaceV, SevenBits DEF PlacedV
  <1>5. Field(d[5], 8, 16) = y % 16 /\ Field(d[5], 1, 8) = hi
    BY <1>1, LowPlaceV, FourAndThree DEF PlacedV
  <1>6. (x \div 512) * 512 + ((x \div 4) % 128) * 4 + (x % 4) = x
    BY <1>1, HighBits
  <1>7. (y \div 2048) * 2048 + ((y \div 16) % 128) * 16 + (y % 16) = y
    <2> HIDE DEF y
    <2> QED
      BY <1>1, LowPlaceV
  <1>8. Field(d[1], 1, 128) * 512 + Field(d[2], 1, 128) * 4 + Field(d[3], 32, 4) = x
    BY <1>2, <1>3, <1>6
  <1>9. Field(d[3], 1, 32) * 2048 + Field(d[4], 1, 128) * 16 + Field(d[5], 8, 16) = y
    BY <1>3, <1>4, <1>5, <1>7
  <1> QED
    BY <1>5, <1>8, <1>9 DEF XOf, YOf

\* So are the ten bits that the next octet ends.
LEMMA TenReadV ==
    ASSUME NEW s \in Sample, NEW n \in Int, 0 <= n, n <= 1023, NEW d,
           PlacedV(d, s, n \div 128), d[6] = n % 128
    PROVE  XOf(d) = s.x /\ YOf(d) = s.y /\ TenOf(d) = n
  <1>1. n \div 128 \in Int /\ 0 <= n \div 128 /\ n \div 128 < 8
    BY TenBits
  <1>2. XOf(d) = s.x /\ YOf(d) = s.y /\ Field(d[5], 1, 8) = n \div 128
    BY <1>1, PlaceReadV
  <1>3. Field(d[6], 1, 128) = n % 128
    BY TenBits, SevenBits
  <1>4. Field(d[5], 1, 8) * 128 + Field(d[6], 1, 128) = n
    BY <1>2, <1>3, TenBits
  <1> QED
    BY <1>2, <1>4 DEF TenOf

LEMMA DispatchV ==
    ASSUME NEW d, DOMAIN d = 0..8, NEW k, FirstIs(d[0], k)
    PROVE  /\ k = "in" => SerialParseWacomV(d)
                 = Result([state EXCEPT !.prox = 1, !.tool = ToolType(ToolOf(d))], ToolOf(d))
           /\ k = "out" => SerialParseWacomV(d) = Result(Zero, NoTool)
           /\ k = "pen" => SerialParseWacomV(d) = Result(PenPacket(d), nToolID)
           /\ k = "wheel" => SerialParseWacomV(d) = Result(WheelPacket(d), nToolID)
           /\ k = "mouse" => SerialParseWacomV(d) = Result(MousePacket(d), nToolID)
           /\ k = "rot" => SerialParseWacomV(d) = Result(RotationPacket(d), nToolID)
  BY DEF SerialParseWacomV, FirstIs

\* A tool comes and leaves.
LEMMA ReadInV ==
    ASSUME NEW t \in {Pen, Eraser, Airbrush, Mouse2D, Mouse4D, Lens}, NEW s
    PROVE  SerialParseWacomV(Encode("V", "in", t, s))
             = Result([state EXCEPT !.prox = 1, !.tool = ToolType(t)], t)
  <1> DEFINE d == Encode("V", "in", t, s)
  <1>1. d = Packet(<<\hC0, t \div 32, (t % 32) * 4, 0, 0, 0, 0, 0, 0>>, 9)
    BY DEF Encode, EncodeV
  <1> HIDE DEF d
  <1>2. DOMAIN d = 0..8 /\ d[0] = \hC0 /\ d[1] = t \div 32 /\ d[2] = (t % 32) * 4
    BY <1>1, Octets
  <1>3. t \in Int /\ 0 <= t /\ t < 4096
    BY DEF Pen, Eraser, Airbrush, Mouse2D, Mouse4D, Lens
  <1>4. Field(t \div 32, 1, 128) * 32 + Field((t % 32) * 4, 4, 32) = t
    <2> HIDE DEF Pen
    <2> QED
      BY <1>3, SMT DEF Field
  <1>5. ToolOf(d) = t
    BY <1>2, <1>4 DEF ToolOf
  <1>6. FirstIs(d[0], "in")
    BY <1>2, FirstOctet
  <1>7. SerialParseWacomV(d) = Result([state EXCEPT !.prox = 1, !.tool = ToolType(t)], t)
    BY <1>2, <1>5, <1>6, DispatchV
  <1> QED
    BY <1>7 DEF d

LEMMA ReadOutV ==
    ASSUME NEW t, NEW s
    PROVE  SerialParseWacomV(Encode("V", "out", t, s)) = Result(Zero, NoTool)
  <1> DEFINE d == Encode("V", "out", t, s)
  <1>1. d = Packet(<<\h80, 0, 0, 0, 0, 0, 0, 0, 0>>, 9)
    BY DEF Encode, EncodeV
  <1> HIDE DEF d
  <1>2. DOMAIN d = 0..8 /\ d[0] = \h80
    BY <1>1, Octets
  <1>3. FirstIs(d[0], "out")
    BY <1>2, FirstOctet
  <1> QED
    BY <1>2, <1>3, DispatchV DEF d

\* What a pen's packet is read as, and the second one of an airbrush.
PenRead(s) ==
    [state EXCEPT !.x = s.x, !.y = s.y, !.tiltx = s.tiltx, !.tilty = s.tilty,
                  !.press = s.press,
                  !.buttons = (When(s.press > 10, TOUCH) \cup When(STYLUS \in s.buttons, STYLUS))
                              \cup When(STYLUS2 \in s.buttons, STYLUS2),
                  !.abswheel = 0]
WheelRead(s) ==
    [state EXCEPT !.x = s.x, !.y = s.y, !.tiltx = s.tiltx, !.tilty = s.tilty, !.press = 0,
                  !.buttons = {}, !.abswheel = Abs(s.aux)]

LEMMA ReadPenV ==
    ASSUME NEW t, NEW s \in Sample
    PROVE  SerialParseWacomV(Encode("V", "pen", t, s)) = Result(PenRead(s), nToolID)
  <1> DEFINE d == Encode("V", "pen", t, s)
             i == Flag(STYLUS \in s.buttons, 1)
             j == Flag(STYLUS2 \in s.buttons, 1)
             a == Seven(s.tiltx)
             b == Seven(s.tilty)
  <1>1. d = Packet(<<\hE0 + 2 * i + 4 * j, s.x \div 512, (s.x \div 4) % 128,
                     (s.x % 4) * 32 + (s.y \div 2048), (s.y \div 16) % 128,
                     (s.y % 16) * 8 + (s.press \div 128), s.press % 128, a, b>>, 9)
    BY DEF Encode, EncodeV
  <1>2. i \in {0, 1} /\ j \in {0, 1} /\ (i = 1 <=> STYLUS \in s.buttons)
        /\ (j = 1 <=> STYLUS2 \in s.buttons)
    BY DEF Flag
  <1>3. Signed(a) = s.tiltx /\ Signed(b) = s.tilty
    BY SampleFacts, Tilts
  <1> HIDE DEF d, i, j, a, b
  <1>4. /\ PlacedV(d, s, s.press \div 128) /\ d[6] = s.press % 128
        /\ d[0] = \hE0 + 2 * i + 4 * j /\ d[7] = a /\ d[8] = b /\ DOMAIN d = 0..8
    BY <1>1, Octets DEF PlacedV
  <1>5. XOf(d) = s.x /\ YOf(d) = s.y /\ TenOf(d) = s.press
    BY <1>4, TenReadV, SampleFacts
  <1>6. /\ FirstIs(d[0], "pen") /\ (Set(d[0], 2) <=> STYLUS \in s.buttons)
        /\ (Set(d[0], 4) <=> STYLUS2 \in s.buttons)
    BY <1>2, <1>4, FirstOctet
  <1>7. SerialParseWacomV(d) = Result(PenRead(s), nToolID)
    <2>1. PenPacket(d) = PenRead(s)
      BY <1>3, <1>4, <1>5, <1>6, ZenonT(60) DEF PenPacket, PenRead, When
    <2> QED
      BY <1>4, <1>6, <2>1, DispatchV
  <1> QED
    BY <1>7 DEF d

LEMMA ReadWheelV ==
    ASSUME NEW t, NEW s \in Sample
    PROVE  SerialParseWacomV(Encode("V", "wheel", t, s)) = Result(WheelRead(s), nToolID)
  <1> DEFINE d == Encode("V", "wheel", t, s)
             n == Abs(s.aux)
             a == Seven(s.tiltx)
             b == Seven(s.tilty)
  <1>1. d = Packet(<<\hF4, s.x \div 512, (s.x \div 4) % 128, (s.x % 4) * 32 + (s.y \div 2048),
                     (s.y \div 16) % 128, (s.y % 16) * 8 + (n \div 128), n % 128, a, b>>, 9)
    BY DEF Encode, EncodeV
  <1>2. n \in Int /\ 0 <= n /\ n <= 1023
    BY SampleFacts DEF Abs
  <1>3. Signed(a) = s.tiltx /\ Signed(b) = s.tilty
    BY SampleFacts, Tilts
  <1> HIDE DEF d, n, a, b
  <1>4. /\ PlacedV(d, s, n \div 128) /\ d[6] = n % 128
        /\ d[0] = \hF4 /\ d[7] = a /\ d[8] = b /\ DOMAIN d = 0..8
    BY <1>1, Octets DEF PlacedV
  <1>5. XOf(d) = s.x /\ YOf(d) = s.y /\ TenOf(d) = n
    BY <1>2, <1>4, TenReadV
  <1>6. FirstIs(d[0], "wheel")
    BY <1>4, FirstOctet
  <1>7. SerialParseWacomV(d) = Result(WheelRead(s), nToolID)
    <2>1. WheelPacket(d) = WheelRead(s)
      BY <1>3, <1>4, <1>5 DEF WheelPacket, WheelRead, n
    <2> QED
      BY <1>4, <1>6, <2>1, DispatchV
  <1> QED
    BY <1>7 DEF d

\* Bits of an octet, and the buttons they stand for.
LEMMA FiveBits ==
    ASSUME NEW b0 \in {0, 1}, NEW b1 \in {0, 1}, NEW b2 \in {0, 1}, NEW b3 \in {0, 1},
           NEW b4 \in {0, 1}, NEW m, m = 16 * b4 + 8 * b3 + 4 * b2 + 2 * b1 + b0
    PROVE  /\ m \in Int /\ 0 <= m /\ m < 32
           /\ (Set(m, 1) <=> b0 = 1) /\ (Set(m, 2) <=> b1 = 1) /\ (Set(m, 4) <=> b2 = 1)
           /\ (Set(m, 8) <=> b3 = 1) /\ (Set(m, 16) <=> b4 = 1)
  BY SMT DEF Set, Field

Bit(bs, b) == Flag(b \in bs, 1)

LEMMA ButtonsRead ==
    ASSUME NEW bs, NEW m,
           m = 16 * Bit(bs, 4) + 8 * Bit(bs, 3) + 4 * Bit(bs, 2) + 2 * Bit(bs, 1) + Bit(bs, 0)
    PROVE  m \in Int /\ 0 <= m /\ m < 32 /\ ButtonsIn(m) = bs \cap (0..4)
  <1>1. \A b : Bit(bs, b) \in {0, 1} /\ (Bit(bs, b) = 1 <=> b \in bs)
    BY DEF Bit, Flag
  <1> HIDE DEF Bit
  <1>2. /\ m \in Int /\ 0 <= m /\ m < 32
        /\ (Set(m, 1) <=> 0 \in bs) /\ (Set(m, 2) <=> 1 \in bs) /\ (Set(m, 4) <=> 2 \in bs)
        /\ (Set(m, 8) <=> 3 \in bs) /\ (Set(m, 16) <=> 4 \in bs)
    BY <1>1, FiveBits
  <1>3. bs \cap (0..4) = bs \cap {0, 1, 2, 3, 4}
    BY SMT
  <1>4. ButtonsIn(m) = bs \cap {0, 1, 2, 3, 4}
    BY <1>2 DEF ButtonsIn, When
  <1> QED
    BY <1>2, <1>3, <1>4

\* The last octet of a mouse's packet.
Keys(t, s) ==
    CASE t = Mouse4D -> 32 * Bit(s.buttons, 4) + 16 * Bit(s.buttons, 3) + 8 * Flag(s.aux < 0, 1)
                        + 4 * Bit(s.buttons, 2) + 2 * Bit(s.buttons, 1) + Bit(s.buttons, 0)
      [] t = Lens -> 16 * Bit(s.buttons, 4) + 8 * Bit(s.buttons, 3) + 4 * Bit(s.buttons, 2)
                     + 2 * Bit(s.buttons, 1) + Bit(s.buttons, 0)
      [] OTHER -> 16 * Bit(s.buttons, 2) + 8 * Bit(s.buttons, 1) + 4 * Bit(s.buttons, 0)
                  + 2 * Flag(s.aux > 0, 1) + Flag(s.aux < 0, 1)

\* Whatever mouse it is taken for, it is one of these.
LEMMA AnyKeys ==
    ASSUME NEW id, NEW n \in Int
    PROVE  /\ MouseButtons(id, n) \subseteq 0..4
           /\ Field(n, 2, 2) - Field(n, 1, 2) \in -1..1
  <1>1. \A m : ButtonsIn(m) \subseteq 0..4
    BY DEF ButtonsIn, When
  <1>2. MouseButtons(id, n) \subseteq 0..4
    BY <1>1 DEF MouseButtons
  <1>3. Field(n, 2, 2) \in {0, 1} /\ Field(n, 1, 2) \in {0, 1}
    BY SMT DEF Field
  <1> QED
    BY <1>2, <1>3

\* The bits of the 4D mouse, which leave out that of the sign.
LEMMA SixBits ==
    ASSUME NEW b0 \in {0, 1}, NEW b1 \in {0, 1}, NEW b2 \in {0, 1}, NEW b3 \in {0, 1},
           NEW b4 \in {0, 1}, NEW g \in {0, 1}, NEW n,
           n = 32 * b4 + 16 * b3 + 8 * g + 4 * b2 + 2 * b1 + b0
    PROVE  /\ n \in Int /\ (Set(n, 8) <=> g = 1)
           /\ Field(n, 16, 8) * 8 + Field(n, 1, 8) = 16 * b4 + 8 * b3 + 4 * b2 + 2 * b1 + b0
  BY SMT DEF Set, Field

\* The bits of the 2D mouse.
LEMMA WheelBits ==
    ASSUME NEW b0 \in {0, 1}, NEW b1 \in {0, 1}, NEW b2 \in {0, 1}, NEW g \in {0, 1},
           NEW h \in {0, 1}, NEW n, n = 16 * b2 + 8 * b1 + 4 * b0 + 2 * h + g
    PROVE  /\ n \in Int /\ Field(n, 2, 2) = h /\ Field(n, 1, 2) = g
           /\ Field(n, 4, 8) = 4 * b2 + 2 * b1 + b0
  BY SMT DEF Field

\* The buttons of each mouse, and what else is in their octet.
LEMMA KeysRead ==
    ASSUME NEW t \in Mice, NEW s \in Sample, s.buttons \subseteq Has("V", t)
    PROVE  /\ Keys(t, s) \in Int /\ MouseButtons(t, Keys(t, s)) = s.buttons
           /\ t = Mouse4D => (Set(Keys(t, s), 8) <=> s.aux < 0)
           /\ t = Mouse2D => Field(Keys(t, s), 2, 2) - Field(Keys(t, s), 1, 2) = Sign(s.aux)
  <1> DEFINE n == Keys(t, s)
             bs == s.buttons
             g == Flag(s.aux < 0, 1)
             h == Flag(s.aux > 0, 1)
  <1>0. Mouse2D # Mouse4D /\ Mouse2D # Lens /\ Mouse4D # Lens
        /\ t \in {Mouse2D, Mouse4D, Lens}
    BY DEF Mouse2D, Mouse4D, Lens, Mice
  <1>1. \A b : Bit(bs, b) \in {0, 1} /\ (Bit(bs, b) = 1 <=> b \in bs)
    BY DEF Bit, Flag
  <1>2. g \in {0, 1} /\ h \in {0, 1} /\ (g = 1 <=> s.aux < 0) /\ h - g = Sign(s.aux)
    BY SampleFacts DEF Flag, Sign
  <1>3. CASE t = Mouse4D
    <2> DEFINE m == 16 * Bit(bs, 4) + 8 * Bit(bs, 3) + 4 * Bit(bs, 2) + 2 * Bit(bs, 1) + Bit(bs, 0)
    <2>1. n = 32 * Bit(bs, 4) + 16 * Bit(bs, 3) + 8 * g + 4 * Bit(bs, 2) + 2 * Bit(bs, 1) + Bit(bs, 0)
      BY <1>0, <1>3 DEF Keys
    <2> HIDE DEF n, g
    <2>2. n \in Int /\ (Set(n, 8) <=> g = 1) /\ Field(n, 16, 8) * 8 + Field(n, 1, 8) = m
      BY <1>1, <1>2, <2>1, SixBits
    <2>3. ButtonsIn(m) = bs \cap (0..4)
      BY ButtonsRead
    <2>4. MouseButtons(t, n) = ButtonsIn(m)
      <3> HIDE DEF m
      <3> QED
        BY <1>0, <1>3, <2>2 DEF MouseButtons
    <2>5. bs \subseteq 0..4
      BY <1>3 DEF Has, Mouse4D, Lens, Pen, Airbrush, Mouse2D
    <2>6. MouseButtons(t, n) = bs
      BY <2>3, <2>4, <2>5
    <2> QED
      BY <1>0, <1>2, <1>3, <2>2, <2>6 DEF n
  <1>4. CASE t = Lens
    <2>1. n = 16 * Bit(bs, 4) + 8 * Bit(bs, 3) + 4 * Bit(bs, 2) + 2 * Bit(bs, 1) + Bit(bs, 0)
      BY <1>0, <1>4 DEF Keys
    <2> HIDE DEF n
    <2>2. n \in Int /\ ButtonsIn(n) = bs \cap (0..4)
      BY <2>1, ButtonsRead
    <2>3. MouseButtons(t, n) = ButtonsIn(n)
      BY <1>0, <1>4 DEF MouseButtons
    <2>4. bs \subseteq 0..4
      BY <1>4 DEF Has, Mouse4D, Lens, Pen, Airbrush, Mouse2D
    <2>5. MouseButtons(t, n) = bs
      BY <2>2, <2>3, <2>4
    <2> QED
      BY <1>0, <1>4, <2>2, <2>5 DEF n
  <1>5. CASE t = Mouse2D
    <2> DEFINE m == 4 * Bit(bs, 2) + 2 * Bit(bs, 1) + Bit(bs, 0)
    <2>1. n = 16 * Bit(bs, 2) + 8 * Bit(bs, 1) + 4 * Bit(bs, 0) + 2 * h + g
      BY <1>0, <1>5 DEF Keys
    <2> HIDE DEF n, g, h
    <2>2. n \in Int /\ Field(n, 2, 2) = h /\ Field(n, 1, 2) = g /\ Field(n, 4, 8) = m
      BY <1>1, <1>2, <2>1, WheelBits
    <2>3. bs \subseteq 0..2
      BY <1>5 DEF Has, Mouse4D, Lens, Pen, Airbrush, Mouse2D
    <2>4. 3 \notin bs /\ 4 \notin bs
      BY <2>3
    <2>5. ButtonsIn(m) = bs \cap (0..4)
      <3>1. Bit(bs, 4) = 0 /\ Bit(bs, 3) = 0
        BY <2>4 DEF Bit, Flag
      <3>2. m = 16 * Bit(bs, 4) + 8 * Bit(bs, 3) + 4 * Bit(bs, 2) + 2 * Bit(bs, 1) + Bit(bs, 0)
        BY <1>1, <3>1
      <3> QED
        BY <3>2, ButtonsRead
    <2>6. MouseButtons(t, n) = ButtonsIn(m)
      <3> HIDE DEF m
      <3> QED
        BY <1>0, <1>5, <2>2 DEF MouseButtons
    <2>7. MouseButtons(t, n) = bs
      BY <2>3, <2>5, <2>6
    <2> QED
      BY <1>0, <1>2, <1>5, <2>2, <2>7 DEF n
  <1> QED
    BY <1>0, <1>3, <1>4, <1>5

\* A mouse's packet is read as one of some mouse, and as its own if the tool is known.
MouseRead(t, s, v) ==
    /\ v.relwheel \in -1..1 /\ v.throttle \in -Full..Full /\ v.buttons \cap (0..4) \subseteq 0..4
    /\ v = [state EXCEPT !.x = s.x, !.y = s.y, !.relwheel = v.relwheel,
                         !.throttle = v.throttle, !.buttons = v.buttons]
    /\ v.buttons \subseteq state.buttons \cup (0..4)
    /\ nToolID = t =>
          /\ v.buttons \cap (0..4) = s.buttons
          /\ t = Mouse4D => v.throttle = s.aux
          /\ t = Mouse2D => v.relwheel = Sign(s.aux)

LEMMA ReadMouseV ==
    ASSUME NEW t \in Mice, NEW s \in Sample, s.buttons \subseteq Has("V", t), state \in StateType
    PROVE  /\ SerialParseWacomV(Encode("V", "mouse", t, s))
                = Result(MousePacket(Encode("V", "mouse", t, s)), nToolID)
           /\ MouseRead(t, s, MousePacket(Encode("V", "mouse", t, s)))
  <1> DEFINE d == Encode("V", "mouse", t, s)
             n == IF t = Mouse4D THEN Abs(s.aux) ELSE 0
             k == Keys(t, s)
             v == MousePacket(d)
  <1>1. d = Packet(<<\hE8, s.x \div 512, (s.x \div 4) % 128, (s.x % 4) * 32 + (s.y \div 2048),
                     (s.y \div 16) % 128, (s.y % 16) * 8 + (n \div 128), n % 128, 0, k>>, 9)
    BY DEF Encode, EncodeV, Keys, Bit
  <1>2. n \in Int /\ 0 <= n /\ n <= 1023 /\ (t = Mouse4D => n = Abs(s.aux))
    BY SampleFacts DEF Abs
  <1>3. /\ k \in Int /\ MouseButtons(t, k) = s.buttons
        /\ t = Mouse4D => (Set(k, 8) <=> s.aux < 0)
        /\ t = Mouse2D => Field(k, 2, 2) - Field(k, 1, 2) = Sign(s.aux)
    BY KeysRead
  <1> HIDE DEF d, n, k
  <1>4. /\ PlacedV(d, s, n \div 128) /\ d[6] = n % 128
        /\ d[0] = \hE8 /\ d[8] = k /\ DOMAIN d = 0..8
    BY <1>1, Octets DEF PlacedV
  <1>5. XOf(d) = s.x /\ YOf(d) = s.y /\ TenOf(d) = n
    BY <1>2, <1>4, TenReadV
  <1>6. SerialParseWacomV(d) = Result(MousePacket(d), nToolID)
    BY <1>4, FirstOctet, DispatchV
  <1> DEFINE rel == IF nToolID \in {Mouse4D, Lens} THEN 0 ELSE Field(k, 2, 2) - Field(k, 1, 2)
             thr == IF Set(k, 8) THEN -n ELSE n
             bs == MouseButtons(nToolID, k)
  <1>7. v = [state EXCEPT !.x = s.x, !.y = s.y, !.relwheel = rel, !.throttle = thr,
                          !.buttons = (@ \ (0..4)) \cup bs]
    BY <1>4, <1>5 DEF MousePacket
  <1>8. rel \in -1..1 /\ bs \subseteq 0..4
    BY <1>3, AnyKeys
  <1>9. thr \in -Full..Full
    <2>1. n \in -Full..Full /\ -n \in -Full..Full
      BY <1>2 DEF Full
    <2> QED
      BY <2>1
  <1> HIDE DEF rel, thr, bs, v
  <1>10. v.relwheel = rel /\ v.throttle = thr /\ v.buttons = (state.buttons \ (0..4)) \cup bs
    BY <1>7 DEF StateType
  <1>11. v = [state EXCEPT !.x = s.x, !.y = s.y, !.relwheel = v.relwheel,
                         !.throttle = v.throttle, !.buttons = v.buttons]
    BY <1>7, <1>10
  <1>12. v.buttons \cap (0..4) = bs /\ v.buttons \subseteq state.buttons \cup (0..4)
    BY <1>8, <1>10
  <1>13. ASSUME nToolID = t
         PROVE  /\ bs = s.buttons /\ (t = Mouse4D => thr = s.aux)
                /\ (t = Mouse2D => rel = Sign(s.aux))
    <2>1. bs = s.buttons
      BY <1>3, <1>13 DEF bs
    <2>2. t = Mouse4D => thr = s.aux
      BY <1>2, <1>3, SampleFacts DEF thr, Abs
    <2>3. t = Mouse2D => rel = Sign(s.aux)
      BY <1>3, <1>13 DEF rel, Mouse2D, Mouse4D, Lens
    <2> QED
      BY <2>1, <2>2, <2>3
  <1>14. MouseRead(t, s, v)
    BY <1>8, <1>9, <1>10, <1>11, <1>12, <1>13 DEF MouseRead
  <1> QED
    BY <1>6, <1>14 DEF d, v

LEMMA ReadRotationV ==
    ASSUME NEW t, NEW s \in Sample
    PROVE  SerialParseWacomV(Encode("V", "rot", t, s))
             = Result([state EXCEPT !.x = s.x, !.y = s.y, !.rot = s.aux], nToolID)
  <1> DEFINE d == Encode("V", "rot", t, s)
             n == IF s.aux < 0 THEN -s.aux ELSE 1799 - s.aux
             rot == Field(d[6], 1, 16) * 128 + Field(d[7], 1, 128)
             r == IF rot < 900 THEN -rot ELSE 1799 - rot
  <1>1. d = Packet(<<\hEA, s.x \div 512, (s.x \div 4) % 128, (s.x % 4) * 32 + (s.y \div 2048),
                     (s.y \div 16) % 128, (s.y % 16) * 8 + 0, n \div 128, n % 128, 0>>, 9)
    BY DEF Encode, EncodeV
  <1>2. n \in Int /\ 0 <= n /\ n < 1800 /\ (IF n < 900 THEN -n ELSE 1799 - n) = s.aux
    BY SampleFacts
  <1> HIDE DEF d, n
  <1>3. /\ d[0] = \hEA /\ DOMAIN d = 0..8 /\ PlacedV(d, s, 0)
        /\ d[6] = n \div 128 /\ d[7] = n % 128
    BY <1>1, Octets DEF PlacedV
  <1>4. XOf(d) = s.x /\ YOf(d) = s.y
    BY <1>3, PlaceReadV
  <1>5. rot = n
    <2>1. Field(n \div 128, 1, 16) = n \div 128 /\ Field(n % 128, 1, 128) = n % 128
          /\ (n \div 128) * 128 + (n % 128) = n
      BY <1>2, SMT DEF Field
    <2> QED
      BY <1>3, <2>1
  <1>6. RotationPacket(d) = [state EXCEPT !.x = XOf(d), !.y = YOf(d), !.rot = r]
    BY DEF RotationPacket
  <1> HIDE DEF rot
  <1>7. RotationPacket(d) = [state EXCEPT !.x = s.x, !.y = s.y, !.rot = s.aux]
    <2>1. r = s.aux
      BY <1>2, <1>5
    <2> HIDE DEF r
    <2> QED
      BY <1>4, <1>6, <2>1
  <1>8. FirstIs(d[0], "rot")
    BY <1>3, FirstOctet
  <1>9. SerialParseWacomV(d) = Result(RotationPacket(d), nToolID)
    BY <1>3, <1>8, DispatchV
  <1> QED
    BY <1>7, <1>9 DEF d

-----------------------------------------------------------------------------
(* Protocol 4                                                               *)

IVs == {"IV_1_4", "IV_1_3", "IV_1_2", "IV_1_1"}

LEMMA PlaceIV ==
    ASSUME NEW x \in Int, 0 <= x, x <= 65535
    PROVE  /\ x \div 16384 \in Int /\ 0 <= x \div 16384 /\ x \div 16384 < 4
           /\ (x % 128) + ((x \div 128) % 128) * 128 + (x \div 16384) * 16384 = x
  BY SMT

\* The first octet: a stylus or a mouse, and the top of the place.
LEMMA FirstIV ==
    ASSUME NEW f \in {0, 32}, NEW q \in Int, 0 <= q, q < 4, NEW b, b = \hC0 + f + q
    PROVE  Set(b, 64) /\ (Set(b, 32) <=> f = 32) /\ Field(b, 1, 4) = q
  BY SMT DEF Set, Field

\* The keys of a pen, and those of a mouse, each with the top of the place.
LEMMA PenKeysIV ==
    ASSUME NEW e \in {0, 32}, NEW b \in {0, 1}, NEW l \in {0, 1}, NEW q \in Int, 0 <= q, q < 4,
           NEW k, k = e + 16 * b + 4 * l + q
    PROVE  /\ (Set(k, 32) <=> e = 32) /\ (Set(k, 16) <=> b = 1) /\ Field(k, 4, 2) = l
           /\ Field(k, 1, 4) = q
  BY SMT DEF Set, Field

LEMMA MouseKeysIV ==
    ASSUME NEW b0 \in {0, 1}, NEW b1 \in {0, 1}, NEW b2 \in {0, 1}, NEW b3 \in {0, 1},
           NEW q \in Int, 0 <= q, q < 4, NEW k, k = 64 * b3 + 32 * b2 + 16 * b1 + 8 * b0 + q
    PROVE  /\ Field(k, 8, 16) = 8 * b3 + 4 * b2 + 2 * b1 + b0 /\ Field(k, 4, 2) = 0
           /\ Field(k, 1, 4) = q
  BY SMT DEF Set, Field

\* What a packet is read as.
IsPressed2(t, s) == t = Eraser \/ STYLUS2 \in s.buttons
TypeRead(p, t, s) ==
    IF t \in Mice THEN "MOUSE"
    ELSE IF p \in {"IV_1_3", "IV_1_4"} THEN ToolIV(IsPressed2(t, s)) ELSE "PEN"
KeysReadIV(p, t, s) ==
    IF t \in Mice THEN s.buttons
    ELSE When(s.press > 10, TOUCH)
         \cup When(TypeRead(p, t, s) = "PEN" /\ STYLUS \in s.buttons, STYLUS)
         \cup When(TypeRead(p, t, s) = "PEN" /\ p \in {"IV_1_3", "IV_1_4"} /\ IsPressed2(t, s), STYLUS2)
PenReadIV(p, t, s) ==
    [state EXCEPT !.prox = 1, !.tool = TypeRead(p, t, s), !.press = s.press, !.x = s.x, !.y = s.y,
                  !.buttons = KeysReadIV(p, t, s)]

\* What is measured of a tool in these protocols.
MeasuredIV(p, t, s) ==
    /\ p \in IVs /\ t \in Tools(p) /\ s \in Sample
    /\ s.buttons \subseteq Has(p, t) /\ s.press <= MaxPress(p) /\ (t \in Mice => s.press = 0)

LEMMA ReadIV ==
    ASSUME NEW p, NEW t, NEW s, MeasuredIV(p, t, s), NEW d, d = Encode(p, "pen", t, s)
    PROVE  SerialParseWacomIV(p, d, 7) = Result(PenReadIV(p, t, s), nToolID)
  <1> DEFINE x == s.x
             y == s.y
             h == IF p = "IV_1_1" THEN s.press ELSE s.press \div 2
             l == IF p = "IV_1_1" THEN 0 ELSE s.press % 2
             f == Flag(t \notin Mice, \h20)
             e == Flag(IsPressed2(t, s), 32)
             Key(b) == Bit(s.buttons, b)
             key == IF t \in Mice THEN 64 * Key(3) + 32 * Key(2) + 16 * Key(1) + 8 * Key(0)
                    ELSE e + 16 * Key(STYLUS) + 4 * l
             c == (h % 64) + IF h < 64 THEN 64 ELSE 0
  <1>1. s \in Sample /\ p \in IVs /\ p # "V" /\ p # "TabletPC" /\ t \in Tools(p)
    BY DEF MeasuredIV, IVs
  <1>2. d = Packet(<<\hC0 + f + (x \div 16384), (x \div 128) % 128, x % 128, key + (y \div 16384),
                     (y \div 128) % 128, y % 128, c, Seven(s.tiltx), Seven(s.tilty)>>,
                   IF p = "IV_1_4" THEN 9 ELSE 7)
    BY <1>1 DEF Encode, EncodeIV, Bit, IsPressed2
  <1>3. /\ d[0] = \hC0 + f + (x \div 16384) /\ d[1] = (x \div 128) % 128 /\ d[2] = x % 128
        /\ d[3] = key + (y \div 16384) /\ d[4] = (y \div 128) % 128 /\ d[5] = y % 128
        /\ d[6] = c
    <2> HIDE DEF f, key, c, x, y
    <2> QED
      BY <1>2, Octets
  <1>4. x \in Int /\ 0 <= x /\ x <= 65535 /\ y \in Int /\ 0 <= y /\ y <= 65535
    BY <1>1, SampleFacts
  <1>5. /\ f \in {0, 32} /\ (f = 32 <=> t \notin Mice) /\ e \in {0, 32} /\ (e = 32 <=> IsPressed2(t, s))
        /\ \A b : Key(b) \in {0, 1} /\ (Key(b) = 1 <=> b \in s.buttons)
    BY DEF Flag, Bit
  <1>6. l \in {0, 1} /\ h \in Int /\ 0 <= h /\ h < 128
        /\ (IF p = "IV_1_1" THEN h ELSE 2 * h + l) = s.press
    <2>1. s.press \in Int /\ 0 <= s.press /\ s.press <= (IF p = "IV_1_1" THEN 120 ELSE 255)
      BY <1>1, SampleFacts DEF MeasuredIV, MaxPress
    <2> QED
      BY <2>1, SMT
  <1>7. Set(d[0], 64) /\ (Set(d[0], 32) <=> t \notin Mice)
        /\ d[2] + d[1] * 128 + Field(d[0], 1, 4) * 16384 = x
    <2> DEFINE q == x \div 16384
    <2>1. q \in Int /\ 0 <= q /\ q < 4 /\ (x % 128) + ((x \div 128) % 128) * 128 + q * 16384 = x
      <3> HIDE DEF x
      <3> QED
        BY <1>4, PlaceIV
    <2> HIDE DEF q, f, x
    <2>2. d[0] = \hC0 + f + q
      BY <1>3 DEF q
    <2>3. Set(d[0], 64) /\ (Set(d[0], 32) <=> t \notin Mice) /\ Field(d[0], 1, 4) = q
      BY <1>5, <2>1, <2>2, FirstIV
    <2> QED
      BY <1>3, <2>1, <2>3
  <1> DEFINE q == y \div 16384
  <1>8. q \in Int /\ 0 <= q /\ q < 4 /\ (y % 128) + ((y \div 128) % 128) * 128 + q * 16384 = y
    <2> HIDE DEF y
    <2> QED
      BY <1>4, PlaceIV
  <1>9. d[3] = key + q
    BY <1>3
  <1> HIDE DEF x, y, f, e, Key, q, c
  <1>10. /\ Field(d[3], 1, 4) = q /\ Field(d[3], 4, 2) = l
         /\ t \notin Mice => /\ Set(d[3], 32) <=> IsPressed2(t, s)
                             /\ Set(d[3], 16) <=> STYLUS \in s.buttons
         /\ t \in Mice => ButtonsIn(Field(d[3], 8, 16)) = s.buttons
    <2>1. CASE t \notin Mice
      <3> HIDE DEF l
      <3>1. d[3] = e + 16 * Key(STYLUS) + 4 * l + q
        BY <1>9, <2>1
      <3> QED
        BY <1>5, <1>6, <1>8, <2>1, <3>1, PenKeysIV
    <2>2. CASE t \in Mice
      <3>1. d[3] = 64 * Key(3) + 32 * Key(2) + 16 * Key(1) + 8 * Key(0) + q
        BY <1>9, <2>2
      <3>2. l = 0
        BY <2>2 DEF MeasuredIV
      <3>3. /\ Field(d[3], 8, 16) = 8 * Key(3) + 4 * Key(2) + 2 * Key(1) + Key(0)
            /\ Field(d[3], 4, 2) = 0 /\ Field(d[3], 1, 4) = q
        BY <1>5, <1>8, <3>1, MouseKeysIV
      <3>4. s.buttons \subseteq 0..3
        <4>1. t = Mouse2D
          BY <1>1, <2>2 DEF IVs, Tools, Mice, Pen, Eraser, Mouse2D, Mouse4D, Lens
        <4> QED
          BY <1>1, <4>1 DEF MeasuredIV, IVs, Has, Mouse2D, Pen, Eraser, Airbrush, Mouse4D, Lens
      <3>5. 4 \notin s.buttons /\ s.buttons \subseteq 0..4
        BY <3>4
      <3>6. Key(4) = 0
        BY <1>5, <3>5
      <3>7. Field(d[3], 8, 16) = 16 * Key(4) + 8 * Key(3) + 4 * Key(2) + 2 * Key(1) + Key(0)
        BY <1>5, <3>3, <3>6
      <3>8. ButtonsIn(Field(d[3], 8, 16)) = s.buttons \cap (0..4)
        BY <3>7, ButtonsRead DEF Key
      <3> QED
        BY <2>2, <3>2, <3>3, <3>5, <3>8
    <2> QED
      BY <2>1, <2>2
  <1> HIDE DEF h, l, key
  <1>11. d[5] + d[4] * 128 + Field(d[3], 1, 4) * 16384 = y
    BY <1>3, <1>8, <1>10
  <1>12. Pressure(p, d) = s.press
    <2>1. /\ Field(c, 1, 64) + (IF Set(c, 64) THEN 0 ELSE 64) = h
          /\ Field(c, 1, 64) * 2 + l + (IF Set(c, 64) THEN 0 ELSE 128) = 2 * h + l
      <3>1. c = (h % 64) + IF h < 64 THEN 64 ELSE 0
        BY DEF c
      <3> QED
        BY <1>6, <3>1, SMT DEF Set, Field
    <2>2. CASE p = "IV_1_1"
      BY <1>3, <1>6, <2>1, <2>2 DEF Pressure
    <2>3. CASE p # "IV_1_1"
      BY <1>3, <1>6, <1>10, <2>1, <2>3 DEF Pressure
    <2> QED
      BY <2>2, <2>3
  <1>13. TypeIV(p, d) = TypeRead(p, t, s)
    <2>1. CASE t \in Mice
      BY <1>7, <2>1 DEF TypeIV, TypeRead
    <2>2. CASE t \notin Mice
      <3>1. p \in {"IV_1_3", "IV_1_4"} => ToolIV(ErasesIV(p, d)) = ToolIV(IsPressed2(t, s))
        BY <1>10, <2>2 DEF ErasesIV, ToolIV, IsPressed2
      <3> QED
        BY <1>7, <2>2, <3>1 DEF TypeIV, TypeRead
    <2> QED
      BY <2>1, <2>2
  <1>14. ButtonsIV(p, d) = KeysReadIV(p, t, s)
    <2>1. CASE t \in Mice
      BY <1>7, <1>10, <2>1 DEF ButtonsIV, KeysReadIV
    <2>2. CASE t \notin Mice
      <3>1. ErasesIV(p, d) <=> p \in {"IV_1_3", "IV_1_4"} /\ IsPressed2(t, s)
        BY <1>10, <2>2 DEF ErasesIV
      <3> QED
        BY <1>7, <1>10, <1>12, <1>13, <2>2, <3>1 DEF ButtonsIV, KeysReadIV, When
    <2> QED
      BY <2>1, <2>2
  <1>15. SerialParseWacomIV(p, d, 7)
           = Result([state EXCEPT !.prox = 1, !.tool = TypeRead(p, t, s), !.press = s.press,
                                  !.x = x, !.y = y, !.buttons = KeysReadIV(p, t, s)], nToolID)
    <2> DEFINE X == d[2] + d[1] * 128 + Field(d[0], 1, 4) * 16384
               Y == d[5] + d[4] * 128 + Field(d[3], 1, 4) * 16384
    <2>1. SerialParseWacomIV(p, d, 7)
            = Result([state EXCEPT !.prox = 1, !.tool = TypeIV(p, d), !.press = Pressure(p, d),
                                   !.x = X, !.y = Y, !.buttons = ButtonsIV(p, d)], nToolID)
      BY <1>7 DEF SerialParseWacomIV
    <2>2. X = x /\ Y = y
      BY <1>7, <1>11
    <2> HIDE DEF X, Y
    <2> QED
      BY <1>12, <1>13, <1>14, <2>1, <2>2
  <1> QED
    BY <1>15 DEF PenReadIV, x, y

LEMMA GoneIV ==
    ASSUME NEW p \in IVs, NEW t, NEW s, NEW d, d = Encode(p, "out", t, s)
    PROVE  SerialParseWacomIV(p, d, 7) = Result(Gone, nToolID)
  <1>1. d = Packet(<<\h80, 0, 0, 0, 0, 0, 0, Seven(s.tiltx), Seven(s.tilty)>>,
                   IF p = "IV_1_4" THEN 9 ELSE 7)
    BY DEF Encode, EncodeIV, IVs
  <1>2. d[0] = \h80
    BY <1>1, Octets
  <1>3. ~Set(d[0], 64)
    BY <1>2 DEF Set, Field
  <1> QED
    BY <1>3 DEF SerialParseWacomIV

\* The length of a packet, and the tilt that only ROM 1.4 sends.
LEMMA TiltIV ==
    ASSUME NEW p \in IVs, NEW k \in {"pen", "out"}, NEW t, NEW s \in Sample,
           NEW d, d = Encode(p, k, t, s)
    PROVE  /\ p = "IV_1_4" => /\ DOMAIN d = 0..8
                              /\ Signed(d[7]) = s.tiltx /\ Signed(d[8]) = s.tilty
           /\ p # "IV_1_4" => DOMAIN d = 0..6
  <1> DEFINE n == IF p = "IV_1_4" THEN 9 ELSE 7
             a == Seven(s.tiltx)
             b == Seven(s.tilty)
             w == EncodeIV(p, k, t, s)
  <1>1. d = Packet(w, n)
    BY DEF Encode, IVs
  <1>2. w[8] = a /\ w[9] = b
    BY DEF EncodeIV
  <1>3. Signed(a) = s.tiltx /\ Signed(b) = s.tilty
    BY SampleFacts, Tilts
  <1>4. n \in {7, 9} /\ (p = "IV_1_4" => n = 9) /\ (p # "IV_1_4" => n = 7)
    OBVIOUS
  <1> HIDE DEF n, a, b, w
  <1>5. DOMAIN d = 0..(n - 1) /\ (n = 9 => d[7] = a /\ d[8] = b)
    BY <1>1, <1>2, <1>4 DEF Packet
  <1> QED
    BY <1>3, <1>4, <1>5

\* What the parser of any ROM makes of a packet.
WithTilt(p, v, s) ==
    IF p = "IV_1_4" THEN [v EXCEPT !.tiltx = s.tiltx, !.tilty = s.tilty] ELSE v
ReadOfIV(p, k, t, s) == WithTilt(p, IF k = "out" THEN Gone ELSE PenReadIV(p, t, s), s)

LEMMA ParseIV ==
    ASSUME parser \in IVs, NEW k \in {"pen", "out"}, NEW t, NEW s \in Sample,
           k = "pen" => MeasuredIV(parser, t, s)
    PROVE  Parse(Encode(parser, k, t, s)) = Result(ReadOfIV(parser, k, t, s), nToolID)
  <1> DEFINE d == Encode(parser, k, t, s)
             v == IF k = "out" THEN Gone ELSE PenReadIV(parser, t, s)
  <1>1. SerialParseWacomIV(parser, d, 7) = Result(v, nToolID)
    BY GoneIV, ReadIV
  <1>2. /\ parser = "IV_1_4" => /\ DOMAIN d = 0..8
                                /\ Signed(d[7]) = s.tiltx /\ Signed(d[8]) = s.tilty
        /\ parser # "IV_1_4" => DOMAIN d = 0..6
    BY TiltIV
  <1>3. ReadOfIV(parser, k, t, s)
          = IF parser = "IV_1_4" THEN [v EXCEPT !.tiltx = s.tiltx, !.tilty = s.tilty] ELSE v
    BY DEF ReadOfIV, WithTilt
  <1> HIDE DEF d, v
  <1>4. CASE parser = "IV_1_4"
    <2>1. SerialParseWacomIV_1_4(d) = [Result(v, nToolID) EXCEPT !.values.tiltx = Signed(d[7]),
                                                                 !.values.tilty = Signed(d[8])]
      <3>1. Result(v, nToolID).ok = TRUE
        BY DEF Result
      <3>2. SerialParseWacomIV("IV_1_4", d, 7) = Result(v, nToolID)
        BY <1>1, <1>4
      <3>3. DOMAIN d \in {0..6, 0..8} /\ DOMAIN d = 0..8
        BY <1>2, <1>4
      <3> QED
        BY <3>1, <3>2, <3>3 DEF SerialParseWacomIV_1_4
    <2>2. SerialParseWacomIV_1_4(d) = Result([v EXCEPT !.tiltx = s.tiltx, !.tilty = s.tilty], nToolID)
      BY <1>2, <1>4, <2>1 DEF Result
    <2> QED
      BY <1>3, <1>4, <2>2 DEF Parse, d
  <1>5. CASE parser # "IV_1_4"
    <2>1. Parse(d) = SerialParseWacomIV(parser, d, IF DOMAIN d = 0..6 THEN 7 ELSE 9)
      BY <1>5 DEF Parse, IVs
    <2> QED
      BY <1>1, <1>2, <1>3, <1>5, <2>1 DEF d
  <1> QED
    BY <1>4, <1>5

-----------------------------------------------------------------------------
(* Tablet PCs                                                               *)

LEMMA FirstTPC ==
    ASSUME NEW i \in {0, 1}, NEW j \in {0, 2}, NEW l \in {0, 4}, NEW b, b = \hA0 + i + j + l
    PROVE  /\ Set(b, 32) /\ (Set(b, 1) <=> i = 1) /\ (Set(b, 2) <=> j = 2)
           /\ (Set(b, 4) <=> l = 4)
  BY SMT DEF Set, Field

\* The eraser's bit, and the tool that it is taken for.
ErasesTPC(t, s) == t = Eraser \/ STYLUS2 \in s.buttons
ToolTPC(t, s) == IF ErasesTPC(t, s) THEN "ERASER" ELSE "PEN"

PenReadTPC(t, s) ==
    [state EXCEPT !.prox = 1, !.tool = ToolTPC(t, s),
                  !.press = s.press, !.x = s.x, !.y = s.y,
                  !.buttons = When(s.press > 0, TOUCH)
                              \cup When(~ErasesTPC(t, s) /\ STYLUS \in s.buttons, STYLUS)]

LEMMA ReadTPC ==
    ASSUME NEW t, NEW s \in Sample, s.press <= 255
    PROVE  SerialParseTabletPC(Encode("TabletPC", "pen", t, s)) = Result(PenReadTPC(t, s), nToolID)
  <1> DEFINE d == Encode("TabletPC", "pen", t, s)
             x == s.x
             y == s.y
             i == Flag(s.press > 0, 1)
             j == Flag(STYLUS \in s.buttons, 2)
             l == Flag(ErasesTPC(t, s), 4)
             c == s.press \div 128
  <1>1. d = Packet(<<\hA0 + i + j + l, x \div 512, (x \div 4) % 128, y \div 512, (y \div 4) % 128,
                     s.press % 128, (x % 4) * 32 + (y % 4) * 8 + c, 0, 0>>, 9)
    BY DEF Encode, EncodeTPC, ErasesTPC
  <1>2. /\ i \in {0, 1} /\ (i = 1 <=> s.press > 0) /\ j \in {0, 2} /\ (j = 2 <=> STYLUS \in s.buttons)
        /\ l \in {0, 4} /\ (l = 4 <=> ErasesTPC(t, s))
    BY DEF Flag
  <1>3. c \in {0, 1} /\ Field(s.press % 128, 1, 128) = s.press % 128 /\ c * 128 + (s.press % 128) = s.press
    BY SampleFacts, SMT DEF Field
  <1>4. x \in Int /\ 0 <= x /\ x <= 65535 /\ y \in Int /\ 0 <= y /\ y <= 65535
    BY SampleFacts
  <1> HIDE DEF d, i, j, l, c, x, y
  <1>5. /\ DOMAIN d = 0..8 /\ d[0] = \hA0 + i + j + l /\ d[1] = x \div 512 /\ d[2] = (x \div 4) % 128
        /\ d[3] = y \div 512 /\ d[4] = (y \div 4) % 128 /\ d[5] = s.press % 128
        /\ d[6] = (x % 4) * 32 + (y % 4) * 8 + c
    BY <1>1, Octets
  <1>6. /\ Set(d[0], 32) /\ (Set(d[0], 1) <=> s.press > 0) /\ (Set(d[0], 2) <=> STYLUS \in s.buttons)
        /\ (Set(d[0], 4) <=> ErasesTPC(t, s))
    BY <1>2, <1>5, FirstTPC
  <1>7. Field(d[6], 32, 4) = x % 4 /\ Field(d[6], 8, 4) = y % 4 /\ Field(d[6], 1, 2) = c
    <2>1. x % 4 \in Int /\ 0 <= x % 4 /\ x % 4 < 4 /\ y % 4 \in Int /\ 0 <= y % 4 /\ y % 4 < 4
      BY <1>4, HighBits
    <2> DEFINE a == x % 4
               b == y % 4
    <2> HIDE DEF a, b
    <2>2. d[6] = a * 32 + b * 8 + c
      BY <1>5 DEF a, b
    <2>3. Field(d[6], 32, 4) = a /\ Field(d[6], 8, 4) = b /\ Field(d[6], 1, 2) = c
      <3>1. a \in Int /\ 0 <= a /\ a < 4 /\ b \in Int /\ 0 <= b /\ b < 4
        BY <2>1 DEF a, b
      <3> QED
        BY <1>3, <2>2, <3>1, SMT DEF Field
    <2> QED
      BY <2>3 DEF a, b
  <1> DEFINE X == Field(d[6], 32, 4) + d[2] * 4 + d[1] * 512
             Y == Field(d[6], 8, 4) + d[4] * 4 + d[3] * 512
             press == Field(d[6], 1, 2) * 128 + Field(d[5], 1, 128)
             keys == When(Set(d[0], 1), TOUCH) \cup When(~Set(d[0], 4) /\ Set(d[0], 2), STYLUS)
  <1>8. X = x /\ Y = y
    <2>1. (x \div 512) * 512 + ((x \div 4) % 128) * 4 + (x % 4) = x
      BY <1>4, HighBits
    <2>2. (y \div 512) * 512 + ((y \div 4) % 128) * 4 + (y % 4) = y
      BY <1>4, HighBits
    <2> QED
      BY <1>4, <1>5, <1>7, <2>1, <2>2
  <1>9. press = s.press
    BY <1>3, <1>5, <1>7
  <1>10. keys = When(s.press > 0, TOUCH) \cup When(~ErasesTPC(t, s) /\ STYLUS \in s.buttons, STYLUS)
    BY <1>6 DEF When
  <1>11. SerialParseTabletPC(d)
           = Result([state EXCEPT !.prox = 1, !.tool = IF Set(d[0], 4) THEN "ERASER" ELSE "PEN",
                                  !.press = press, !.x = X, !.y = Y, !.buttons = keys], nToolID)
    BY <1>5, <1>6 DEF SerialParseTabletPC
  <1> HIDE DEF X, Y, press, keys
  <1>12. SerialParseTabletPC(d) = Result(PenReadTPC(t, s), nToolID)
    BY <1>6, <1>8, <1>9, <1>10, <1>11 DEF PenReadTPC, ToolTPC, x, y
  <1> QED
    BY <1>12 DEF d

LEMMA GoneTPC ==
    ASSUME NEW t, NEW s
    PROVE  SerialParseTabletPC(Encode("TabletPC", "out", t, s)) = Result(Gone, nToolID)
  <1> DEFINE d == Encode("TabletPC", "out", t, s)
  <1>1. d = Packet(<<\h80, 0, 0, 0, 0, 0, 0, 0, 0>>, 9)
    BY DEF Encode, EncodeTPC
  <1> HIDE DEF d
  <1>2. DOMAIN d = 0..8 /\ d[0] = \h80
    BY <1>1, Octets
  <1>3. ~Set(d[0], 32)
    BY <1>2 DEF Set, Field
  <1>4. SerialParseTabletPC(d) = Result(Gone, nToolID)
    BY <1>2, <1>3 DEF SerialParseTabletPC
  <1> QED
    BY <1>4 DEF d

-----------------------------------------------------------------------------
(* What any packet is read as                                               *)

\* What is measured of a tool.
Measured(p, t, s) ==
    /\ t \in Tools(p) /\ s \in Sample
    /\ s.buttons \subseteq Has(p, t) /\ s.press <= MaxPress(p) /\ (t \in Mice => s.press = 0)

LEMMA SeenIsMeasured ==
    ASSUME NEW p \in Parsers, NEW t \in Tools(p), NEW s \in Samples
    PROVE  Measured(p, t, Seen(p, t, s))
  <1> DEFINE z == Seen(p, t, s)
             n == IF t \in Mice THEN 0 ELSE IF s.press > MaxPress(p) THEN MaxPress(p) ELSE s.press
             bs == s.buttons \cap Has(p, t)
  <1>1. s \in Sample
    BY PacketsAssumption
  <1>2. MaxPress(p) \in Int /\ 0 <= MaxPress(p) /\ MaxPress(p) <= Full /\ Full \in Int
    BY DEF MaxPress, Full
  <1>3. s.press \in Int /\ 0 <= s.press
    BY <1>1, SampleFacts
  <1>4. n \in 0..Full /\ n <= MaxPress(p) /\ (t \in Mice => n = 0)
    BY <1>2, <1>3
  <1>5. bs \in SUBSET (0..7) /\ bs \subseteq Has(p, t)
    BY <1>1 DEF Sample
  <1>6. z = [s EXCEPT !.buttons = bs, !.press = n]
    BY DEF Seen
  <1> HIDE DEF z, n, bs
  <1>7. z \in Sample /\ z.buttons = bs /\ z.press = n
    BY <1>1, <1>4, <1>5, <1>6 DEF Sample
  <1> QED
    BY <1>4, <1>5, <1>7 DEF Measured, z

\* The values that a packet of kind k from tool t leaves.
ReadFacts(k, t, s, v) ==
    /\ v \in StateType /\ v.press <= MaxPress(parser)
    /\ k = "out" => v.prox = 0 /\ v.press = 0
    /\ k = "in" => v.prox = 1 /\ v.press = state.press
    /\ k \in {"pen", "wheel", "mouse", "rot"} => v.x = s.x /\ v.y = s.y
    /\ k = "pen" => v.press = s.press
    /\ k = "wheel" => v.press = 0
    /\ k \in {"mouse", "rot"} => v.press = state.press
    /\ parser = "V" /\ k \in {"pen", "wheel", "mouse", "rot"} =>
          v.prox = state.prox /\ v.tool = state.tool
    /\ parser # "V" /\ k = "pen" =>
          /\ v.prox = 1
          /\ t \in Mice => v.tool = "MOUSE"
          /\ parser \in {"IV_1_2", "IV_1_1"} /\ t \notin Mice => v.tool = "PEN"
          /\ parser = "TabletPC" => v.tool = ToolTPC(t, s)
          /\ parser \in {"IV_1_4", "IV_1_3"} /\ t \notin Mice /\ state.prox = 1 =>
                v.tool = state.tool

\* And the rest of what it says.
Decoded(k, t, s, v) ==
    /\ (parser = "V" /\ k \in {"pen", "wheel"}) \/ parser = "IV_1_4" =>
          v.tiltx = s.tiltx /\ v.tilty = s.tilty
    /\ k = "wheel" => v.abswheel = Abs(s.aux)
    /\ k = "rot" => v.rot = s.aux
    /\ k = "mouse" /\ nToolID = t =>
          /\ v.buttons \cap (0..4) = s.buttons
          /\ t = Mouse4D => v.throttle = s.aux
          /\ t = Mouse2D => v.relwheel = Sign(s.aux)
    /\ k = "pen" /\ v.tool = ToolType(t) =>
          v.buttons \cap {STYLUS, STYLUS2} = s.buttons \cap {STYLUS, STYLUS2}

LEMMA ReadsPenV ==
    ASSUME parser = "V", state \in StateType, state.press <= MaxPress(parser),
           NEW t \in {Pen, Eraser, Airbrush}, NEW s, Measured("V", t, s)
    PROVE  /\ Parse(Encode("V", "pen", t, s)) = Result(PenRead(s), nToolID)
           /\ ReadFacts("pen", t, s, PenRead(s)) /\ Decoded("pen", t, s, PenRead(s))
  <1> DEFINE v == PenRead(s)
             bs == (When(s.press > 10, TOUCH) \cup When(STYLUS \in s.buttons, STYLUS))
                              \cup When(STYLUS2 \in s.buttons, STYLUS2)
  <1>1. s \in Sample /\ s.press <= MaxPress(parser)
    BY DEF Measured
  <1>2. bs \in SUBSET (0..7) /\ bs \cap {STYLUS, STYLUS2} = s.buttons \cap {STYLUS, STYLUS2}
    BY DEF When, TOUCH, STYLUS, STYLUS2
  <1>3. v = [state EXCEPT !.x = s.x, !.y = s.y, !.tiltx = s.tiltx, !.tilty = s.tilty,
                          !.press = s.press, !.buttons = bs, !.abswheel = 0]
    BY DEF PenRead
  <1>4. 0 \in 0..Full
    BY DEF Full
  <1> HIDE DEF v, bs
  <1>5. /\ v \in StateType /\ v.x = s.x /\ v.y = s.y /\ v.tiltx = s.tiltx /\ v.tilty = s.tilty
        /\ v.press = s.press /\ v.buttons = bs /\ v.prox = state.prox /\ v.tool = state.tool
    BY <1>1, <1>2, <1>3, <1>4 DEF StateType, Sample
  <1>6. ReadFacts("pen", t, s, v)
    BY <1>1, <1>5 DEF ReadFacts
  <1>7. Decoded("pen", t, s, v)
    BY <1>2, <1>5 DEF Decoded
  <1>8. Parse(Encode("V", "pen", t, s)) = Result(PenRead(s), nToolID)
    BY <1>1, ReadPenV DEF Parse
  <1> QED
    BY <1>6, <1>7, <1>8 DEF v

LEMMA ReadsWheelV ==
    ASSUME parser = "V", state \in StateType, NEW t, NEW s, Measured("V", t, s)
    PROVE  /\ Parse(Encode("V", "wheel", t, s)) = Result(WheelRead(s), nToolID)
           /\ ReadFacts("wheel", t, s, WheelRead(s)) /\ Decoded("wheel", t, s, WheelRead(s))
  <1> DEFINE v == WheelRead(s)
             n == Abs(s.aux)
  <1>1. s \in Sample
    BY DEF Measured
  <1>2. n \in 0..Full /\ 0 \in 0..Full /\ 0 <= MaxPress(parser) /\ {} \in SUBSET (0..7)
    <2>1. n \in Int /\ 0 <= n /\ n <= 899
      BY <1>1, SampleFacts DEF Abs
    <2>2. Full \in Int /\ 899 <= Full /\ 0 <= MaxPress(parser)
      BY DEF Full, MaxPress
    <2> QED
      BY <2>1, <2>2
  <1>3. v = [state EXCEPT !.x = s.x, !.y = s.y, !.tiltx = s.tiltx, !.tilty = s.tilty,
                          !.press = 0, !.buttons = {}, !.abswheel = n]
    BY DEF WheelRead
  <1> HIDE DEF v, n
  <1>4. /\ v \in StateType /\ v.x = s.x /\ v.y = s.y /\ v.tiltx = s.tiltx /\ v.tilty = s.tilty
        /\ v.press = 0 /\ v.abswheel = n /\ v.prox = state.prox /\ v.tool = state.tool
    BY <1>1, <1>2, <1>3 DEF StateType, Sample
  <1>5. ReadFacts("wheel", t, s, v)
    BY <1>2, <1>4 DEF ReadFacts
  <1>6. Decoded("wheel", t, s, v)
    BY <1>4 DEF Decoded, n
  <1>7. Parse(Encode("V", "wheel", t, s)) = Result(WheelRead(s), nToolID)
    BY <1>1, ReadWheelV DEF Parse
  <1> QED
    BY <1>5, <1>6, <1>7 DEF v

LEMMA ReadsMouseV ==
    ASSUME parser = "V", state \in StateType, state.press <= MaxPress(parser),
           NEW t \in Mice, NEW s, Measured("V", t, s)
    PROVE  \E v : /\ Parse(Encode("V", "mouse", t, s)) = Result(v, nToolID)
                  /\ ReadFacts("mouse", t, s, v) /\ Decoded("mouse", t, s, v)
  <1> DEFINE v == MousePacket(Encode("V", "mouse", t, s))
  <1>1. s \in Sample /\ s.buttons \subseteq Has("V", t)
    BY DEF Measured
  <1>2. Parse(Encode("V", "mouse", t, s)) = Result(v, nToolID) /\ MouseRead(t, s, v)
    BY <1>1, ReadMouseV DEF Parse
  <1> HIDE DEF v
  <1>3. v = [state EXCEPT !.x = s.x, !.y = s.y, !.relwheel = v.relwheel,
                          !.throttle = v.throttle, !.buttons = v.buttons]
    BY <1>2 DEF MouseRead
  <1>4. v.relwheel \in -1..1 /\ v.throttle \in -Full..Full /\ v.buttons \in SUBSET (0..7)
    BY <1>2 DEF MouseRead, StateType
  <1>5. /\ v \in StateType /\ v.x = s.x /\ v.y = s.y /\ v.press = state.press
        /\ v.prox = state.prox /\ v.tool = state.tool
    BY <1>1, <1>3, <1>4, ZenonT(60) DEF StateType, Sample
  <1>6. ReadFacts("mouse", t, s, v)
    BY <1>5 DEF ReadFacts
  <1>7. Decoded("mouse", t, s, v)
    BY <1>2 DEF Decoded, MouseRead
  <1> QED
    BY <1>2, <1>6, <1>7

LEMMA ReadsRotationV ==
    ASSUME parser = "V", state \in StateType, state.press <= MaxPress(parser),
           NEW t, NEW s, Measured("V", t, s)
    PROVE  \E v : /\ Parse(Encode("V", "rot", t, s)) = Result(v, nToolID)
                  /\ ReadFacts("rot", t, s, v) /\ Decoded("rot", t, s, v)
  <1> DEFINE v == [state EXCEPT !.x = s.x, !.y = s.y, !.rot = s.aux]
  <1>1. s \in Sample
    BY DEF Measured
  <1>2. /\ v \in StateType /\ v.x = s.x /\ v.y = s.y /\ v.press = state.press /\ v.rot = s.aux
        /\ v.prox = state.prox /\ v.tool = state.tool
    BY <1>1 DEF StateType, Sample
  <1>3. Parse(Encode("V", "rot", t, s)) = Result(v, nToolID)
    BY <1>1, ReadRotationV DEF Parse
  <1> HIDE DEF v
  <1>4. ReadFacts("rot", t, s, v)
    BY <1>2 DEF ReadFacts
  <1>5. Decoded("rot", t, s, v)
    BY <1>2 DEF Decoded
  <1> QED
    BY <1>3, <1>4, <1>5

\* A tool comes: its number is kept, and nothing else of the values changes.
LEMMA ReadsInV ==
    ASSUME parser = "V", state \in StateType, state.press <= MaxPress(parser),
           NEW t \in Tools("V"), NEW s
    PROVE  \E v : /\ Parse(Encode("V", "in", t, s)) = Result(v, t)
                  /\ ReadFacts("in", t, s, v) /\ Decoded("in", t, s, v)
  <1> DEFINE tt == ToolType(t)
             v == [state EXCEPT !.prox = 1, !.tool = tt]
  <1>1. t \in {Pen, Eraser, Airbrush, Mouse2D, Mouse4D, Lens}
    BY DEF Tools, Mice
  <1>2. Parse(Encode("V", "in", t, s)) = Result(v, t)
    BY <1>1, ReadInV DEF Parse
  <1>3. tt \in {"NONE", "PEN", "ERASER", "AIRBRUSH", "MOUSE", "LENS"}
    BY <1>1 DEF ToolType, Pen, Eraser, Airbrush, Mouse2D, Mouse4D, Lens
  <1> HIDE DEF tt
  <1>4. v \in StateType /\ v.prox = 1 /\ v.press = state.press
    <2>1. 1 \in 0..1
      OBVIOUS
    <2>2. v \in StateType
      BY <1>3, <2>1 DEF StateType
    <2>3. v.prox = 1 /\ v.press = state.press
      BY DEF StateType
    <2> QED
      BY <2>2, <2>3
  <1> HIDE DEF v
  <1>5. ReadFacts("in", t, s, v)
    BY <1>4 DEF ReadFacts
  <1>6. Decoded("in", t, s, v)
    BY DEF Decoded
  <1> QED
    BY <1>2, <1>5, <1>6

LEMMA ZeroFacts == Zero \in StateType /\ Zero.prox = 0 /\ Zero.press = 0
  <1>1. 0 \in 0..Far /\ 0 \in 0..Full /\ 0 \in -Full..Full /\ 0 \in -Turn..Turn
        /\ {} \in SUBSET (0..7)
    BY DEF Far, Full, Turn
  <1> QED
    BY <1>1 DEF Zero, StateType

LEMMA ReadsOutV ==
    ASSUME parser = "V", NEW t, NEW s
    PROVE  /\ Parse(Encode("V", "out", t, s)) = Result(Zero, NoTool)
           /\ ReadFacts("out", t, s, Zero)
  <1>1. Parse(Encode("V", "out", t, s)) = Result(Zero, NoTool)
    BY ReadOutV DEF Parse
  <1>2. 0 <= MaxPress(parser)
    BY DEF MaxPress, Full
  <1>3. ReadFacts("out", t, s, Zero)
    BY <1>2, ZeroFacts DEF ReadFacts
  <1> QED
    BY <1>1, <1>3

\* The values with the tilt, where the ROM sends it.
LEMMA TiltKept ==
    ASSUME NEW p, NEW v \in StateType, NEW s \in Sample, NEW w, w = WithTilt(p, v, s)
    PROVE  /\ w \in StateType /\ w.prox = v.prox /\ w.tool = v.tool /\ w.x = v.x /\ w.y = v.y
           /\ w.press = v.press /\ w.buttons = v.buttons
           /\ p = "IV_1_4" => w.tiltx = s.tiltx /\ w.tilty = s.tilty
  <1>1. CASE p = "IV_1_4"
    BY <1>1, ZenonT(60) DEF StateType, Sample, WithTilt
  <1>2. CASE p # "IV_1_4"
    BY <1>2 DEF WithTilt
  <1> QED
    BY <1>1, <1>2

LEMMA GoneFacts ==
    ASSUME state \in StateType
    PROVE  Gone \in StateType /\ Gone.prox = 0 /\ Gone.press = 0
  <1>1. 0 \in 0..Far /\ 0 \in 0..Full /\ 0 \in 0..1 /\ {} \in SUBSET (0..7)
    BY DEF Far, Full
  <1>2. Gone \in StateType
    BY <1>1 DEF Gone, StateType
  <1>3. Gone.prox = 0 /\ Gone.press = 0
    BY DEF Gone, StateType
  <1> QED
    BY <1>2, <1>3

LEMMA ReadsOutIV ==
    ASSUME parser \in IVs, state \in StateType, NEW t, NEW s \in Sample
    PROVE  \E v : /\ Parse(Encode(parser, "out", t, s)) = Result(v, nToolID)
                  /\ ReadFacts("out", t, s, v)
  <1> DEFINE v == ReadOfIV(parser, "out", t, s)
  <1>1. Parse(Encode(parser, "out", t, s)) = Result(v, nToolID)
    BY ParseIV
  <1>2. v = WithTilt(parser, Gone, s)
    BY DEF ReadOfIV
  <1> HIDE DEF v
  <1>3. v \in StateType /\ v.prox = 0 /\ v.press = 0
    BY <1>2, GoneFacts, TiltKept
  <1>4. 0 <= MaxPress(parser)
    BY DEF MaxPress, Full
  <1>5. ReadFacts("out", t, s, v)
    BY <1>3, <1>4 DEF ReadFacts
  <1> QED
    BY <1>1, <1>5

LEMMA ReadsPenIV ==
    ASSUME parser \in IVs, state \in StateType, NEW t, NEW s, Measured(parser, t, s)
    PROVE  \E v : /\ Parse(Encode(parser, "pen", t, s)) = Result(v, nToolID)
                  /\ ReadFacts("pen", t, s, v) /\ Decoded("pen", t, s, v)
  <1> DEFINE v == ReadOfIV(parser, "pen", t, s)
             u == PenReadIV(parser, t, s)
             bs == KeysReadIV(parser, t, s)
             tt == TypeRead(parser, t, s)
  <1>1. s \in Sample /\ MeasuredIV(parser, t, s) /\ s.press <= MaxPress(parser) /\ parser # "V"
    BY DEF Measured, MeasuredIV, IVs
  <1>2. Parse(Encode(parser, "pen", t, s)) = Result(v, nToolID)
    BY <1>1, ParseIV
  <1>3. v = WithTilt(parser, u, s)
    BY DEF ReadOfIV
  <1>4. u = [state EXCEPT !.prox = 1, !.tool = tt, !.press = s.press, !.x = s.x, !.y = s.y,
                          !.buttons = bs]
    BY DEF PenReadIV
  <1>5. bs \in SUBSET (0..7)
    BY <1>1, SampleFacts DEF KeysReadIV, When, TOUCH, STYLUS, STYLUS2
  <1>6. /\ tt \in {"NONE", "PEN", "ERASER", "AIRBRUSH", "MOUSE", "LENS"}
        /\ t \in Mice => tt = "MOUSE"
        /\ parser \in {"IV_1_2", "IV_1_1"} /\ t \notin Mice => tt = "PEN"
        /\ parser \in {"IV_1_4", "IV_1_3"} /\ t \notin Mice /\ state.prox = 1 => tt = state.tool
    BY DEF TypeRead, ToolIV, StateType
  <1>7. tt = ToolType(t) =>
           bs \cap {STYLUS, STYLUS2} = s.buttons \cap {STYLUS, STYLUS2}
    <2>1. CASE t \in Mice
      BY <2>1 DEF KeysReadIV
    <2>2. CASE t = Pen
      <3>1. t \notin Mice /\ t # Eraser /\ ToolType(t) = "PEN"
        BY <2>2 DEF Mice, Pen, Eraser, Airbrush, Mouse2D, Mouse4D, Lens, ToolType
      <3>2. parser \in {"IV_1_2", "IV_1_1"} => STYLUS2 \notin s.buttons
        BY <1>1, <2>2 DEF MeasuredIV, Has, STYLUS, STYLUS2, Pen, Airbrush, Mouse4D, Lens, Mouse2D
      <3>3. IsPressed2(t, s) <=> STYLUS2 \in s.buttons
        BY <3>1 DEF IsPressed2
      <3>4. parser \in {"IV_1_3", "IV_1_4"} \/ parser \in {"IV_1_2", "IV_1_1"}
        BY DEF IVs
      <3>5. tt = "PEN" =>
              bs = When(s.press > 10, TOUCH) \cup When(STYLUS \in s.buttons, STYLUS)
                   \cup When(STYLUS2 \in s.buttons, STYLUS2)
        BY <3>1, <3>2, <3>3, <3>4 DEF KeysReadIV, When
      <3> QED
        BY <3>1, <3>5 DEF When, TOUCH, STYLUS, STYLUS2
    <2>3. CASE t = Eraser
      <3>1. t \notin Mice /\ ToolType(t) = "ERASER"
        BY <2>3 DEF Mice, Pen, Eraser, Airbrush, Mouse2D, Mouse4D, Lens, ToolType
      <3>2. s.buttons = {}
        BY <1>1, <2>3 DEF MeasuredIV, Has, Pen, Eraser, Airbrush, Mouse4D, Lens, Mouse2D
      <3> QED
        BY <3>1, <3>2 DEF KeysReadIV, When, TOUCH, STYLUS, STYLUS2
    <2>4. t \in Mice \/ t = Pen \/ t = Eraser
      BY DEF Measured, Tools, IVs, Mice
    <2> QED
      BY <2>1, <2>2, <2>3, <2>4
  <1> HIDE DEF v, u, bs, tt
  <1>8. /\ u \in StateType
        /\ u.prox = 1 /\ u.tool = tt /\ u.press = s.press /\ u.x = s.x /\ u.y = s.y /\ u.buttons = bs
    <2>1. 1 \in 0..1
      OBVIOUS
    <2>2. u \in StateType
      BY <1>1, <1>4, <1>5, <1>6, <2>1, ZenonT(60) DEF StateType, Sample
    <2> QED
      BY <1>4, <2>2 DEF StateType
  <1>9. /\ v \in StateType /\ v.prox = 1 /\ v.tool = tt /\ v.press = s.press /\ v.x = s.x
        /\ v.y = s.y /\ v.buttons = bs
        /\ parser = "IV_1_4" => v.tiltx = s.tiltx /\ v.tilty = s.tilty
    BY <1>1, <1>3, <1>8, TiltKept
  <1>10. ReadFacts("pen", t, s, v)
    <2>1. parser # "TabletPC"
      BY DEF IVs
    <2> QED
      BY <1>1, <1>6, <1>9, <2>1 DEF ReadFacts
  <1>11. Decoded("pen", t, s, v)
    BY <1>1, <1>7, <1>9 DEF Decoded
  <1> QED
    BY <1>2, <1>10, <1>11

LEMMA ReadsOutTPC ==
    ASSUME parser = "TabletPC", state \in StateType, NEW t, NEW s
    PROVE  /\ Parse(Encode("TabletPC", "out", t, s)) = Result(Gone, nToolID)
           /\ ReadFacts("out", t, s, Gone)
  <1>1. Parse(Encode("TabletPC", "out", t, s)) = Result(Gone, nToolID)
    BY GoneTPC DEF Parse
  <1>2. 0 <= MaxPress(parser)
    BY DEF MaxPress, Full
  <1>3. ReadFacts("out", t, s, Gone)
    BY <1>2, GoneFacts DEF ReadFacts
  <1> QED
    BY <1>1, <1>3

LEMMA ReadsPenTPC ==
    ASSUME parser = "TabletPC", state \in StateType, NEW t, NEW s, Measured("TabletPC", t, s)
    PROVE  /\ Parse(Encode("TabletPC", "pen", t, s)) = Result(PenReadTPC(t, s), nToolID)
           /\ ReadFacts("pen", t, s, PenReadTPC(t, s)) /\ Decoded("pen", t, s, PenReadTPC(t, s))
  <1> DEFINE v == PenReadTPC(t, s)
             bs == When(s.press > 0, TOUCH) \cup When(~ErasesTPC(t, s) /\ STYLUS \in s.buttons, STYLUS)
             tt == ToolTPC(t, s)
  <1>1. s \in Sample /\ t \in {Pen, Eraser} /\ s.press <= MaxPress(parser)
        /\ s.buttons \subseteq Has("TabletPC", t)
    BY DEF Measured, Tools
  <1>2. MaxPress(parser) = 255
    BY DEF MaxPress
  <1>3. Parse(Encode("TabletPC", "pen", t, s)) = Result(PenReadTPC(t, s), nToolID)
    BY <1>1, <1>2, ReadTPC DEF Parse
  <1>4. t \notin Mice /\ tt \in {"PEN", "ERASER"}
    BY <1>1 DEF ToolTPC, Mice, Pen, Eraser, Airbrush, Mouse2D, Mouse4D, Lens
  <1>5. bs \in SUBSET (0..7)
    BY DEF When, TOUCH, STYLUS
  <1>6. tt = ToolType(t) => bs \cap {STYLUS, STYLUS2} = s.buttons \cap {STYLUS, STYLUS2}
    <2>1. CASE t = Pen
      <3>1. ToolType(t) = "PEN" /\ t # Eraser
        BY <2>1 DEF ToolType, Pen, Eraser, Airbrush, Lens, Mouse2D, Mouse4D
      <3>2. tt = "PEN" => ~ErasesTPC(t, s) /\ STYLUS2 \notin s.buttons
        BY DEF ToolTPC, ErasesTPC
      <3> QED
        BY <3>1, <3>2 DEF When, TOUCH, STYLUS, STYLUS2
    <2>2. CASE t = Eraser
      <3>1. s.buttons = {}
        BY <1>1, <2>2 DEF Has, Pen, Eraser, Airbrush, Mouse4D, Lens, Mouse2D
      <3> QED
        BY <2>2, <3>1 DEF ErasesTPC, When, TOUCH, STYLUS, STYLUS2
    <2> QED
      BY <1>1, <2>1, <2>2
  <1>7. v = [state EXCEPT !.prox = 1, !.tool = tt, !.press = s.press, !.x = s.x, !.y = s.y,
                          !.buttons = bs]
    BY DEF PenReadTPC
  <1> HIDE DEF v, bs, tt
  <1>8. /\ v \in StateType
        /\ v.prox = 1 /\ v.tool = tt /\ v.press = s.press /\ v.x = s.x /\ v.y = s.y /\ v.buttons = bs
    <2>1. 1 \in 0..1
      OBVIOUS
    <2>2. v \in StateType
      BY <1>1, <1>4, <1>5, <1>7, <2>1, ZenonT(60) DEF StateType, Sample
    <2> QED
      BY <1>7, <2>2 DEF StateType
  <1>9. ReadFacts("pen", t, s, v)
    BY <1>1, <1>4, <1>8 DEF ReadFacts, tt
  <1>10. Decoded("pen", t, s, v)
    BY <1>6, <1>8 DEF Decoded
  <1> QED
    BY <1>3, <1>9, <1>10 DEF v

\* A packet that tool t sends is read as what was meant, whatever was lost before.
Sent(k, t, s) ==
    \/ k = "out" /\ s \in Sample
    \/ k = "in" /\ parser = "V" /\ Measured(parser, t, s)
    \/ k \in Kinds(parser, t) /\ Measured(parser, t, s)

LEMMA PacketIsRead ==
    ASSUME parser \in Parsers, state \in StateType, state.press <= MaxPress(parser),
           NEW k, NEW t, NEW s, Sent(k, t, s)
    PROVE  \E v, id : /\ Parse(Encode(parser, k, t, s)) = Result(v, id)
                      /\ ReadFacts(k, t, s, v) /\ (k # "out" => Decoded(k, t, s, v))
                      /\ k = "mouse" => id = nToolID
  <1>1. CASE k = "out"
    <2>1. parser = "V" \/ parser = "TabletPC" \/ parser \in IVs
      BY PacketsAssumption DEF IVs
    <2>2. s \in Sample
      BY DEF Sent, Measured
    <2> QED
      BY <1>1, <2>1, <2>2, ReadsOutV, ReadsOutTPC, ReadsOutIV
  <1>2. CASE k # "out" /\ parser = "V"
    <2>1. Measured("V", t, s) /\ t \in Tools("V") /\ (k = "in" \/ k \in Kinds("V", t))
      BY <1>2 DEF Sent, Measured
    <2>2. CASE k = "in"
      BY <1>2, <2>1, <2>2, ReadsInV
    <2>3. CASE k # "in"
      <3>1. \/ k = "pen" /\ t \in {Pen, Eraser, Airbrush}
            \/ k = "wheel"
            \/ k = "mouse" /\ t \in Mice
            \/ k = "rot"
        BY <2>1, <2>3 DEF Kinds, Tools, Mice, Pen, Eraser, Airbrush, Mouse2D, Mouse4D, Lens
      <3>2. CASE k = "pen" /\ t \in {Pen, Eraser, Airbrush}
        BY <1>2, <2>1, <3>2, ReadsPenV
      <3>3. CASE k = "wheel"
        BY <1>2, <2>1, <3>3, ReadsWheelV
      <3>4. CASE k = "mouse" /\ t \in Mice
        BY <1>2, <2>1, <3>4, ReadsMouseV
      <3>5. CASE k = "rot"
        BY <1>2, <2>1, <3>5, ReadsRotationV
      <3> QED
        BY <3>1, <3>2, <3>3, <3>4, <3>5
    <2> QED
      BY <2>2, <2>3
  <1>3. CASE k # "out" /\ parser # "V"
    <2>1. k = "pen" /\ Measured(parser, t, s)
      BY <1>3 DEF Sent, Kinds
    <2>2. parser = "TabletPC" \/ parser \in IVs
      BY <1>3, PacketsAssumption DEF IVs
    <2> QED
      BY <1>3, <2>1, <2>2, ReadsPenTPC, ReadsPenIV
  <1> QED
    BY <1>1, <1>2, <1>3

-----------------------------------------------------------------------------
(* The steps                                                                *)

\* A parser takes no packet for one that is harder than its scale; with no packet
\* about coming and leaving lost, the values say whether a tool is near, and a mouse
\* of protocol 5, whose packets leave the pressure alone, finds none; and the tool of
\* which a packet has arrived is the one in the values.
PressInv == state.press <= MaxPress(parser)
NearInv == ~edgeLost => state.prox = IF tool = NoTool THEN 0 ELSE 1
LiftInv == ~edgeLost /\ parser = "V" /\ tool \in Mice \cup {NoTool} => state.press = 0
HeardInv ==
    heard /\ parser # "V" =>
        /\ tool # NoTool /\ state.prox = 1
        /\ tool \in Mice => state.tool = "MOUSE"
        /\ parser \in {"IV_1_2", "IV_1_1"} /\ tool \notin Mice => state.tool = "PEN"
        /\ parser = "TabletPC" /\ tool = Eraser => state.tool = "ERASER"
FlagsOK == lastLost \in BOOLEAN /\ edgeLost \in BOOLEAN /\ heard \in BOOLEAN

Inv == TypeOK /\ FlagsOK /\ PressInv /\ NearInv /\ LiftInv /\ HeardInv

\* A tool comes, moves or leaves, and its packet arrives or does not.
Did(k, t, s, edge) ==
    /\ Sent(k, t, s) /\ s \in Sample /\ sample' = s /\ parser' = parser /\ kind' = k
    /\ t \in Tools(parser)
    /\ \/ /\ tool = NoTool /\ tool' = t /\ edge = TRUE
          /\ k = IF parser = "V" THEN "in" ELSE "pen"
       \/ tool = t /\ tool' = t /\ edge = FALSE /\ k \in Kinds(parser, t)
       \/ tool = t /\ tool' = NoTool /\ edge = TRUE /\ k = "out"
Arrived(k, t, s) ==
    /\ ReadFacts(k, t, s, state') /\ (k # "out" => Decoded(k, t, s, state'))
    /\ k = "mouse" => nToolID' = nToolID
    /\ shown' = Report(state')
    /\ lastLost' = FALSE /\ edgeLost' = (edgeLost /\ k # "out") /\ heard' = (k # "out")
Missed(edge) ==
    /\ lastLost' = TRUE /\ edgeLost' = (edgeLost \/ edge) /\ heard' = (heard /\ ~edge)
    /\ UNCHANGED <<state, nToolID, shown>>

LEMMA ToolsAreTools ==
    ASSUME NEW p \in Parsers
    PROVE  NoTool \notin Tools(p) /\ NoTool \notin Mice
  BY PacketsAssumption DEF Tools, NoTool, Mice, Pen, Eraser, Airbrush, Mouse2D, Mouse4D, Lens

LEMMA KindFacts ==
    ASSUME NEW p \in Parsers, NEW t \in Tools(p), NEW k \in Kinds(p, t)
    PROVE  /\ k \in {"pen", "wheel", "mouse", "rot"}
           /\ p # "V" => k = "pen"
           /\ p = "V" /\ t \in Mice => k \in {"mouse", "rot"}
           /\ t \notin Mice => k \in {"pen", "wheel"}
  BY PacketsAssumption DEF Kinds, Tools, Mice, Pen, Eraser, Airbrush, Mouse2D, Mouse4D, Lens

LEMMA ArrivesIsRead ==
    ASSUME parser \in Parsers, state \in StateType, PressInv, NEW k, NEW t, NEW s, Sent(k, t, s),
           Arrives(Encode(parser, k, t, s))
    PROVE  /\ ReadFacts(k, t, s, state') /\ (k # "out" => Decoded(k, t, s, state'))
           /\ k = "mouse" => nToolID' = nToolID
           /\ shown' = Report(state')
  <1>1. PICK v, id : /\ Parse(Encode(parser, k, t, s)) = Result(v, id)
                     /\ ReadFacts(k, t, s, v) /\ (k # "out" => Decoded(k, t, s, v))
                     /\ k = "mouse" => id = nToolID
    BY PacketIsRead DEF PressInv
  <1>2. Result(v, id).ok = TRUE /\ Result(v, id).values = v /\ Result(v, id).id = id
    BY DEF Result
  <1>3. /\ state' = Result(v, id).values /\ nToolID' = Result(v, id).id
        /\ shown' = IF Result(v, id).ok THEN Report(Result(v, id).values) ELSE shown
    BY <1>1 DEF Arrives
  <1>4. state' = v /\ nToolID' = id /\ shown' = Report(v)
    BY <1>2, <1>3
  <1> QED
    BY <1>1, <1>4

LEMMA SendsCases ==
    ASSUME Inv, NEW k, NEW t, NEW s, NEW edge \in BOOLEAN, Sent(k, t, s), Sends(k, t, s, edge)
    PROVE  kind' = k /\ parser' = parser /\ (Arrived(k, t, s) \/ Missed(edge))
  <1>1. CASE /\ Arrives(Encode(parser, k, t, s))
             /\ lastLost' = FALSE
             /\ edgeLost' = (edgeLost /\ k # "out")
             /\ heard' = (k # "out")
    <2>1. parser \in Parsers /\ state \in StateType /\ PressInv
      BY DEF Inv, TypeOK
    <2> QED
      BY <1>1, <2>1, ArrivesIsRead DEF Sends, Arrived
  <1>2. CASE Missed(edge)
    BY <1>2 DEF Sends
  <1> QED
    BY <1>1, <1>2 DEF Sends, Missed

LEMMA StepCases ==
    ASSUME Inv, Next
    PROVE  \E k, t, s : \E edge \in BOOLEAN :
              Did(k, t, s, edge) /\ (Arrived(k, t, s) \/ Missed(edge))
  <1>1. /\ parser \in Parsers /\ tool \in Tools(parser) \cup {NoTool} /\ sample \in Sample
        /\ NoTool \notin Tools(parser)
    BY ToolsAreTools DEF Inv, TypeOK
  <1>2. CASE \E t \in Tools(parser), s \in Samples : Comes(t, s)
    <2>1. PICK t \in Tools(parser), s \in Samples : Comes(t, s)
      BY <1>2
    <2> DEFINE z == Seen(parser, t, s)
               k == IF parser = "V" THEN "in" ELSE "pen"
    <2>2. Measured(parser, t, z) /\ z \in Sample
      BY <1>1, SeenIsMeasured DEF Measured
    <2> HIDE DEF z
    <2>3. tool = NoTool /\ tool' = t /\ sample' = z /\ Sends(k, t, z, TRUE)
      BY <2>1 DEF Comes, z
    <2>4. Sent(k, t, z)
      BY <2>2 DEF Sent, Kinds
    <2>5. kind' = k /\ parser' = parser /\ (Arrived(k, t, z) \/ Missed(TRUE))
      BY <2>3, <2>4, SendsCases
    <2>6. Did(k, t, z, TRUE)
      BY <2>2, <2>3, <2>4, <2>5 DEF Did
    <2> QED
      BY <2>5, <2>6
  <1>3. CASE \E k \in Kinds(parser, tool), s \in Samples : Moves(k, s)
    <2>1. PICK k \in Kinds(parser, tool), s \in Samples : Moves(k, s)
      BY <1>3
    <2> DEFINE z == Seen(parser, tool, s)
    <2>2. tool \in Tools(parser)
      BY <1>1, <2>1 DEF Moves
    <2>3. Measured(parser, tool, z) /\ z \in Sample
      BY <1>1, <2>2, SeenIsMeasured DEF Measured
    <2> HIDE DEF z
    <2>4. tool' = tool /\ sample' = z /\ Sends(k, tool, z, FALSE)
      BY <2>1 DEF Moves, z
    <2>5. Sent(k, tool, z)
      BY <2>1, <2>3 DEF Sent
    <2>6. kind' = k /\ parser' = parser /\ (Arrived(k, tool, z) \/ Missed(FALSE))
      BY <2>4, <2>5, SendsCases
    <2>7. Did(k, tool, z, FALSE)
      BY <2>1, <2>2, <2>3, <2>4, <2>5, <2>6 DEF Did
    <2> QED
      BY <2>6, <2>7
  <1>4. CASE Leaves
    <2>1. tool \in Tools(parser) /\ tool' = NoTool /\ sample' = sample
          /\ Sends("out", tool, sample, TRUE)
      BY <1>1, <1>4 DEF Leaves
    <2>2. Sent("out", tool, sample)
      BY <1>1 DEF Sent
    <2>3. kind' = "out" /\ parser' = parser /\ (Arrived("out", tool, sample) \/ Missed(TRUE))
      BY <2>1, <2>2, SendsCases
    <2>4. Did("out", tool, sample, TRUE)
      BY <1>1, <2>1, <2>2, <2>3 DEF Did
    <2> QED
      BY <2>3, <2>4
  <1> QED
    BY <1>2, <1>3, <1>4 DEF Next

ShownType(p) == [x: 0..Far, y: 0..Far, press: 0..MaxPress(p), touch: BOOLEAN]

\* What is reported of values that are within their ranges.
LEMMA Reported ==
    ASSUME NEW p, NEW v \in StateType, v.press <= MaxPress(p), shown \in ShownType(p)
    PROVE  /\ Report(v) \in ShownType(p)
           /\ v.prox = 0 => Report(v).touch = FALSE
           /\ v.prox = 1 => /\ Report(v).x = v.x /\ Report(v).y = v.y
                            /\ Report(v).press = v.press /\ Report(v).touch = (v.press > minPress)
  <1>1. Far \in Int /\ Full \in Int /\ MaxPress(p) \in Int /\ 0 <= MaxPress(p)
    BY DEF Far, Full, MaxPress
  <1>2. v.x \in 0..Far /\ v.y \in 0..Far /\ v.press \in 0..Full /\ v.prox \in 0..1
    BY DEF StateType
  <1>3. v.x # -1 /\ v.y # -1 /\ v.press # -1 /\ v.press \in 0..MaxPress(p) /\ 0 \in 0..MaxPress(p)
    BY <1>1, <1>2
  <1>4. CASE v.prox = 0
    <2>1. Report(v) = [shown EXCEPT !.press = 0, !.touch = FALSE]
      BY <1>4 DEF Report
    <2>2. Report(v) \in ShownType(p)
      BY <1>3, <2>1 DEF ShownType
    <2>3. Report(v).touch = FALSE
      BY <2>1 DEF ShownType
    <2> QED
      BY <1>4, <2>2, <2>3
  <1>5. CASE v.prox = 1
    <2>1. Report(v) = [x |-> v.x, y |-> v.y, press |-> v.press, touch |-> v.press > minPress]
      BY <1>3, <1>5 DEF Report, Event
    <2>2. (v.press > minPress) \in BOOLEAN
      BY <1>2, PacketsAssumption
    <2> QED
      BY <1>2, <1>3, <1>5, <2>1, <2>2 DEF ShownType
  <1>6. v.prox = 0 \/ v.prox = 1
    BY <1>2
  <1> QED
    BY <1>4, <1>5, <1>6

LEMMA InitInv ==
    Init => Inv
  <1> SUFFICES ASSUME Init PROVE Inv
    OBVIOUS
  <1>1. sample \in Sample
    BY PacketsAssumption DEF Init
  <1>2. state = Zero /\ state \in StateType /\ state.prox = 0 /\ state.press = 0
    BY ZeroFacts DEF Init
  <1>3. 0 \in 0..Far /\ 0 <= MaxPress(parser) /\ 0 \in 0..MaxPress(parser)
    BY DEF Far, Full, MaxPress
  <1>4. shown \in [x: 0..Far, y: 0..Far, press: 0..MaxPress(parser), touch: BOOLEAN]
    BY <1>3 DEF Init
  <1>5. TypeOK
    BY <1>1, <1>2, <1>4 DEF Init, TypeOK
  <1> QED
    BY <1>2, <1>3, <1>5 DEF Init, Inv, FlagsOK, PressInv, NearInv, LiftInv, HeardInv

LEMMA StepInv ==
    ASSUME Inv, [Next]_vars
    PROVE  Inv'
  <1>1. CASE UNCHANGED vars
    BY <1>1 DEF vars, Inv, TypeOK, FlagsOK, PressInv, NearInv, LiftInv, HeardInv
  <1>2. CASE Next
    <2>1. PICK k, t, s : \E edge \in BOOLEAN :
              Did(k, t, s, edge) /\ (Arrived(k, t, s) \/ Missed(edge))
      BY <1>2, StepCases
    <2>2. PICK edge \in BOOLEAN : Did(k, t, s, edge) /\ (Arrived(k, t, s) \/ Missed(edge))
      BY <2>1
    <2>3. /\ parser \in Parsers /\ state \in StateType /\ shown \in ShownType(parser) /\ FlagsOK
          /\ PressInv /\ NearInv /\ LiftInv /\ HeardInv
      BY DEF Inv, TypeOK, ShownType
    <2>4. NoTool \notin Tools(parser) /\ NoTool \notin Mice
      BY <2>3, ToolsAreTools
    <2>5. parser' = parser /\ sample' \in Sample /\ tool' \in Tools(parser) \cup {NoTool}
      BY <2>2 DEF Did
    <2>6. CASE Arrived(k, t, s)
      <3>1. state' \in StateType /\ state'.press <= MaxPress(parser)
        BY <2>6 DEF Arrived, ReadFacts
      <3>2. shown' \in ShownType(parser)
        BY <2>3, <2>6, <3>1, Reported DEF Arrived
      <3>3. TypeOK'
        BY <2>3, <2>5, <3>1, <3>2 DEF TypeOK, ShownType
      <3>4. FlagsOK'
        BY <2>3, <2>6 DEF Arrived, FlagsOK
      <3>5. PressInv'
        BY <2>5, <3>1 DEF PressInv
      <3>a. k \in Kinds(parser, t) => /\ k \in {"pen", "wheel", "mouse", "rot"}
                                      /\ parser # "V" => k = "pen"
                                      /\ parser = "V" /\ t \in Mice => k \in {"mouse", "rot"}
        BY <2>2, <2>3, KindFacts DEF Did
      <3>b. k = "out" => tool' = NoTool
        BY <2>2, <3>a DEF Did
      <3>c. k # "out" => t \in Tools(parser) /\ tool' = t /\ (tool = NoTool \/ tool = t)
        BY <2>2 DEF Did
      <3>d. k # "out" /\ tool = NoTool => k = IF parser = "V" THEN "in" ELSE "pen"
        BY <2>2, <2>4 DEF Did
      <3>e. k # "out" /\ tool # NoTool => k \in Kinds(parser, t)
        BY <2>2 DEF Did
      <3>f. ReadFacts(k, t, s, state')
        BY <2>6 DEF Arrived
      <3>g. (~edgeLost' => ~edgeLost \/ k = "out") /\ (heard' => k # "out")
        BY <2>3, <2>6 DEF Arrived, FlagsOK
      <3>6. NearInv'
        <4> SUFFICES ASSUME ~edgeLost' PROVE state'.prox = IF tool' = NoTool THEN 0 ELSE 1
          BY DEF NearInv
        <4>1. CASE k = "out"
          BY <3>b, <3>f, <4>1 DEF ReadFacts
        <4>2. CASE k # "out" /\ tool = NoTool
          BY <2>4, <3>c, <3>d, <3>f, <4>2 DEF ReadFacts
        <4>3. CASE k # "out" /\ tool # NoTool
          BY <2>3, <2>4, <3>a, <3>c, <3>e, <3>f, <3>g, <4>3 DEF ReadFacts, NearInv
        <4> QED
          BY <4>1, <4>2, <4>3
      <3>7. LiftInv'
        <4> SUFFICES ASSUME ~edgeLost', parser = "V", tool' \in Mice \cup {NoTool}
                     PROVE  state'.press = 0
          BY <2>5 DEF LiftInv
        <4>1. CASE k = "out"
          BY <3>f, <4>1 DEF ReadFacts
        <4>2. CASE k # "out" /\ tool = NoTool
          BY <2>3, <3>d, <3>f, <3>g, <4>2 DEF ReadFacts, LiftInv
        <4>3. CASE k # "out" /\ tool # NoTool
          BY <2>3, <3>a, <3>c, <3>e, <3>f, <3>g, <4>3 DEF ReadFacts, LiftInv
        <4> QED
          BY <4>1, <4>2, <4>3
      <3>8. HeardInv'
        <4> SUFFICES ASSUME heard', parser # "V"
                     PROVE  /\ tool' # NoTool /\ state'.prox = 1
                            /\ tool' \in Mice => state'.tool = "MOUSE"
                            /\ parser \in {"IV_1_2", "IV_1_1"} /\ tool' \notin Mice =>
                                  state'.tool = "PEN"
                            /\ parser = "TabletPC" /\ tool' = Eraser =>
                                  state'.tool = "ERASER"
          BY <2>5 DEF HeardInv
        <4>1. k = "pen" /\ tool' = t /\ t \in Tools(parser)
          BY <3>a, <3>c, <3>d, <3>e, <3>g
        <4> QED
          BY <2>4, <3>f, <4>1 DEF ReadFacts, ToolTPC, ErasesTPC
      <3> QED
        BY <3>3, <3>4, <3>5, <3>6, <3>7, <3>8 DEF Inv
    <2>7. CASE Missed(edge)
      <3>1. state' = state /\ shown' = shown
        BY <2>7 DEF Missed
      <3>2. TypeOK'
        BY <2>3, <2>5, <3>1 DEF TypeOK, ShownType
      <3>3. FlagsOK' /\ (~edgeLost' => ~edgeLost /\ ~edge) /\ (heard' => heard /\ ~edge)
        BY <2>3, <2>7 DEF FlagsOK, Missed
      <3>4. ~edge => tool' = tool
        BY <2>2 DEF Did
      <3>5. PressInv' /\ NearInv' /\ LiftInv' /\ HeardInv'
        BY <2>3, <2>5, <3>1, <3>3, <3>4 DEF PressInv, NearInv, LiftInv, HeardInv
      <3> QED
        BY <3>2, <3>3, <3>5 DEF Inv
    <2> QED
      BY <2>2, <2>6, <2>7
  <1> QED
    BY <1>1, <1>2

-----------------------------------------------------------------------------
(* Theorems                                                                 *)

LEMMA InvAlways == Spec => []Inv
  BY InitInv, StepInv, PTL DEF Spec

\* Whatever the tools do and the line loses, the parsers leave numbers of the width of
\* their fields, and the pressure that applications are shown is within the scale that
\* was announced.  Places are not compared with the tablet's dimensions, here or there.
THEOREM TypeCorrect == Spec => []TypeOK
  <1>1. Inv => TypeOK
    BY DEF Inv
  <1> QED
    BY InvAlways, <1>1, PTL

\* A packet that arrives with no packet about coming and leaving lost before it is
\* shown as it was meant.
LEMMA StepShown ==
    ASSUME Inv, Inv', ShownIsTool, [Next]_vars
    PROVE  ShownIsTool'
  <1>1. CASE UNCHANGED vars
    BY <1>1 DEF vars, ShownIsTool
  <1>2. CASE Next
    <2> SUFFICES ASSUME ~lastLost', ~edgeLost'
                 PROVE  /\ shown'.touch <=> tool' # NoTool /\ kind' = "pen" /\ sample'.press > minPress
                        /\ kind' \in {"pen", "wheel", "mouse", "rot"} =>
                              /\ <<shown'.x, shown'.y>> = <<sample'.x, sample'.y>>
                              /\ shown'.press = IF kind' = "pen" THEN sample'.press ELSE 0
      BY DEF ShownIsTool
    <2>1. PICK k, t, s : \E edge \in BOOLEAN :
              Did(k, t, s, edge) /\ (Arrived(k, t, s) \/ Missed(edge))
      BY <1>2, StepCases
    <2>2. PICK edge \in BOOLEAN : Did(k, t, s, edge) /\ (Arrived(k, t, s) \/ Missed(edge))
      BY <2>1
    <2>3. Arrived(k, t, s)
      BY <2>2 DEF Missed
    <2>4. /\ parser \in Parsers /\ shown \in ShownType(parser) /\ FlagsOK /\ LiftInv /\ NearInv'
          /\ parser' = parser /\ sample' = s /\ kind' = k
      BY <2>2 DEF Inv, TypeOK, ShownType, Did
    <2>5. NoTool \notin Tools(parser) /\ NoTool \notin Mice
      BY <2>4, ToolsAreTools
    <2>6. /\ ReadFacts(k, t, s, state') /\ shown' = Report(state')
          /\ state' \in StateType /\ state'.press <= MaxPress(parser)
      BY <2>3 DEF Arrived, ReadFacts
    <2>7. /\ state'.prox = 0 => shown'.touch = FALSE
          /\ state'.prox = 1 => /\ shown'.x = state'.x /\ shown'.y = state'.y
                                /\ shown'.press = state'.press
                                /\ shown'.touch = (state'.press > minPress)
      BY <2>4, <2>6, Reported
    <2>8. ~edgeLost \/ k = "out"
      BY <2>3, <2>4 DEF Arrived, FlagsOK
    <2>9. CASE k = "out"
      <3>1. state'.prox = 0
        BY <2>6, <2>9 DEF ReadFacts
      <3> QED
        BY <2>4, <2>7, <2>9, <3>1
    <2>10. CASE k # "out"
      <3>1. tool' = t /\ t \in Tools(parser) /\ state'.prox = 1
        BY <2>2, <2>4, <2>5, <2>10 DEF Did, NearInv
      <3>2. minPress \in Nat
        BY PacketsAssumption
      <3>3. CASE k = "in"
        <4>1. parser = "V" /\ tool = NoTool
          <5>1. k \notin Kinds(parser, t)
            BY <2>4, <3>1, <3>3, KindFacts
          <5> QED
            BY <2>2, <3>3, <5>1 DEF Did
        <4>2. state'.press = 0
          BY <2>4, <2>6, <2>8, <3>3, <4>1 DEF ReadFacts, LiftInv
        <4>3. ~(state'.press > minPress)
          BY <3>2, <4>2
        <4>4. ~shown'.touch
          BY <2>7, <3>1, <4>3
        <4> QED
          BY <2>4, <3>3, <4>4
      <3>4. CASE k # "in"
        <4>1. k \in Kinds(parser, t) \/ k = "pen"
          BY <2>2, <2>10, <3>4 DEF Did
        <4>2. k \in {"pen", "wheel", "mouse", "rot"} /\ (k \in {"mouse", "rot"} => t \in Mice /\ parser = "V")
          BY <2>4, <3>1, <4>1, KindFacts
        <4>3. state'.x = s.x /\ state'.y = s.y
          BY <2>6, <4>2 DEF ReadFacts
        <4>4. state'.press = IF k = "pen" THEN s.press ELSE 0
          <5>1. LiftInv'
            BY DEF Inv
          <5> QED
            BY <2>4, <2>6, <3>1, <4>2, <5>1 DEF ReadFacts, LiftInv
        <4>5. shown'.x = s.x /\ shown'.y = s.y /\ shown'.press = IF k = "pen" THEN s.press ELSE 0
          BY <2>7, <3>1, <4>3, <4>4
        <4>6. shown'.touch <=> state'.press > minPress
          BY <2>7, <3>1
        <4>7. state'.press > minPress <=> k = "pen" /\ s.press > minPress
          BY <3>2, <4>4
        <4>8. tool' # NoTool
          BY <2>5, <3>1
        <4> QED
          BY <2>4, <4>5, <4>6, <4>7, <4>8
      <3> QED
        BY <3>3, <3>4
    <2> QED
      BY <2>9, <2>10
  <1> QED
    BY <1>1, <1>2

\* Applications are shown the tool where it is, pressing as hard as it does, and no
\* touch of a tool that has gone or has no pressure.
THEOREM ToolIsShown == Spec => []ShownIsTool
  <1>1. Init => ShownIsTool
    BY DEF Init, ShownIsTool
  <1> QED
    BY <1>1, InvAlways, StepShown, PTL DEF Spec

LEMMA StepDecoded ==
    ASSUME Inv, DecodedIsSent, [Next]_vars
    PROVE  DecodedIsSent'
  <1>1. CASE UNCHANGED vars
    BY <1>1 DEF vars, DecodedIsSent
  <1>2. CASE Next
    <2>1. PICK k, t, s : \E edge \in BOOLEAN :
              Did(k, t, s, edge) /\ (Arrived(k, t, s) \/ Missed(edge))
      BY <1>2, StepCases
    <2>2. PICK edge \in BOOLEAN : Did(k, t, s, edge) /\ (Arrived(k, t, s) \/ Missed(edge))
      BY <2>1
    <2>3. CASE lastLost' \/ tool' = NoTool
      BY <2>3 DEF DecodedIsSent
    <2>4. CASE ~lastLost' /\ tool' # NoTool
      <3>1. Arrived(k, t, s)
        BY <2>2, <2>4 DEF Missed
      <3>2. parser' = parser /\ sample' = s /\ kind' = k /\ tool' = t /\ k # "out"
        <4>1. parser \in Parsers
          BY DEF Inv, TypeOK
        <4> QED
          BY <2>2, <2>4, <4>1, KindFacts DEF Did
      <3>3. Decoded(k, t, s, state') /\ (k = "mouse" => nToolID' = nToolID)
        BY <3>1, <3>2 DEF Arrived
      <3> QED
        BY <3>2, <3>3 DEF Decoded, DecodedIsSent
    <2> QED
      BY <2>3, <2>4
  <1> QED
    BY <1>1, <1>2

\* Tilt, wheels, throttle, rotation and buttons are read as they were sent, whatever
\* was lost before, as far as the tool is known for what it is.
THEOREM SentIsDecoded == Spec => []DecodedIsSent
  <1>1. Init => DecodedIsSent
    BY DEF Init, DecodedIsSent
  <1> QED
    BY <1>1, InvAlways, StepDecoded, PTL DEF Spec

\* The type of a tool of which a packet has arrived does not change while it is near, but
\* for a tablet PC's pen: there it is what the second switch says.
THEOREM TypeOfToolIsKept == Spec => ToolIsKept
  <1> DEFINE Turns == /\ parser = "TabletPC" /\ tool = Pen
                      /\ state'.tool = IF STYLUS2 \in sample'.buttons THEN "ERASER" ELSE "PEN"
  <1>1. ASSUME Inv, [Next]_vars
        PROVE  [tool' = tool /\ tool # NoTool /\ heard /\ state'.tool # state.tool => Turns]_vars
    <2> SUFFICES ASSUME Next, tool' = tool, tool # NoTool, heard
                 PROVE  state'.tool = state.tool \/ Turns
      BY <1>1 DEF vars
    <2>1. PICK k, t, s : \E edge \in BOOLEAN :
              Did(k, t, s, edge) /\ (Arrived(k, t, s) \/ Missed(edge))
      BY <1>1, StepCases
    <2>2. PICK edge \in BOOLEAN : Did(k, t, s, edge) /\ (Arrived(k, t, s) \/ Missed(edge))
      BY <2>1
    <2>3. parser \in Parsers /\ HeardInv
      BY <1>1 DEF Inv, TypeOK
    <2>4. k \in Kinds(parser, t) /\ tool = t /\ t \in Tools(parser)
      BY <2>2 DEF Did
    <2>5. CASE Missed(edge)
      BY <2>5 DEF Missed
    <2>6. CASE Arrived(k, t, s)
      <3>1. ReadFacts(k, t, s, state')
        BY <2>6 DEF Arrived
      <3>2. CASE parser = "V"
        BY <2>3, <2>4, <3>1, <3>2, KindFacts DEF ReadFacts
      <3>3. CASE parser # "V"
        <4>1. k = "pen"
          BY <2>3, <2>4, <3>3, KindFacts
        <4>2. parser \in {"IV_1_4", "IV_1_3", "IV_1_2", "IV_1_1", "TabletPC"}
          BY <2>3, <3>3, PacketsAssumption
        <4>3. CASE parser = "TabletPC"
          <5>1. t \in {Pen, Eraser} /\ sample' = s
            BY <2>2, <2>4, <4>3 DEF Tools, Did
          <5>2. state'.tool = ToolTPC(t, s)
            BY <3>1, <4>1, <4>3 DEF ReadFacts
          <5>3. CASE t = Eraser
            BY <2>3, <2>4, <4>3, <5>2, <5>3 DEF HeardInv, ToolTPC, ErasesTPC
          <5>4. CASE t = Pen
            BY <2>4, <4>3, <5>1, <5>2, <5>4 DEF ToolTPC, ErasesTPC, Pen, Eraser
          <5> QED
            BY <5>1, <5>3, <5>4
        <4>4. CASE parser # "TabletPC"
          BY <2>3, <2>4, <3>1, <3>3, <4>1, <4>2, <4>4 DEF ReadFacts, HeardInv
        <4> QED
          BY <4>3, <4>4
      <3> QED
        BY <3>2, <3>3
    <2> QED
      BY <2>2, <2>5, <2>6
  <1> QED
    BY <1>1, InvAlways, PTL DEF Spec, ToolIsKept
=============================================================================
