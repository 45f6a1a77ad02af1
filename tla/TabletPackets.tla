---------------------------- MODULE TabletPackets ----------------------------
(***************************************************************************)
(* What the packets of a serial tablet say and what wacom-input makes of   *)
(* them: the parsers of src/wacom/wacserial.c, octet by octet, and the     *)
(* events that main reports.  A tool comes near, moves, and leaves; every  *)
(* packet that tells so arrives whole or not at all (SerialTablet shows    *)
(* that the reader sees to it).                                            *)
(***************************************************************************)
EXTENDS Integers, Sequences

CONSTANTS
    Parsers,       \* parsers to look at: the tablets there may be
    Samples,       \* what a tool may do: a set of Sample
    minPress,      \* option -p: more pressure than this is a touch
    MaxLost        \* bound: packets that are lost

\* The largest numbers in the fields for places, in those of ten bits, and that a
\* mouse is turned by; a tilt has seven bits.
Far == 65535
Full == 1023
Turn == 899

Sample == [x: 0..Far, y: 0..Far, press: 0..Full, buttons: SUBSET (0..7),
           tiltx: -64..63, tilty: -64..63, aux: -Turn..Turn]

ASSUME PacketsAssumption ==
    /\ Parsers \subseteq {"V", "IV_1_4", "IV_1_3", "IV_1_2", "IV_1_1", "TabletPC"}
    /\ Samples \subseteq Sample /\ Samples # {}
    /\ minPress \in Nat /\ MaxLost \in Nat

\* WACOMBUTTON_x; LEFT, MIDDLE, RIGHT, EXTRA and SIDE are 0..4.
TOUCH == 5
STYLUS == 6
STYLUS2 == 7

\* Tools by the number they have in protocol 5.
Pen == 2082
Eraser == 2090
Airbrush == 274
Mouse2D == 7
Mouse4D == 148
Lens == 150
NoTool == 0

Mice == {Mouse2D, Mouse4D, Lens}

\* The tools that a tablet knows.
Tools(p) ==
    CASE p = "V" -> Mice \cup {Pen, Eraser, Airbrush}
      [] p \in {"IV_1_4", "IV_1_3"} -> {Pen, Eraser, Mouse2D}
      [] p \in {"IV_1_2", "IV_1_1"} -> {Pen, Mouse2D}
      [] p = "TabletPC" -> {Pen, Eraser}

VARIABLES
    parser,        \* pfnParse; IV_1_1 is SerialParseWacomIV_1_2 with nVerMinor < 2
    tool, sample,  \* the tool that is near, and what it does
    kind,          \* what the last packet was about
    state,         \* state.values
    nToolID,
    shown,         \* what uinput has been told
    lastLost,      \* history: the last packet was lost
    edgeLost,      \* history: so was one about coming or leaving, since one about
                   \* leaving arrived
    heard,         \* history: a packet of the tool that is near has arrived
    lost           \* counter of the bound

vars == <<parser, tool, sample, kind, state, nToolID, shown, lastLost, edgeLost, heard, lost>>

-----------------------------------------------------------------------------
(* The tablet                                                               *)

Flag(b, v) == IF b THEN v ELSE 0
Sign(i) == IF i < 0 THEN -1 ELSE IF i > 0 THEN 1 ELSE 0
Abs(i) == IF i < 0 THEN -i ELSE i

\* The first n octets; puchData counts from 0.
Packet(octets, n) == [i \in 0..(n - 1) |-> octets[i + 1]]

\* The switches and buttons that a tool has, and the scale of its pressure.
Has(p, t) ==
    CASE p = "V" /\ t \in {Pen, Airbrush} -> {STYLUS, STYLUS2}
      [] p \in {"IV_1_4", "IV_1_3", "TabletPC"} /\ t = Pen -> {STYLUS, STYLUS2}
      [] p \in {"IV_1_2", "IV_1_1"} /\ t = Pen -> {STYLUS}
      [] p = "V" /\ t \in {Mouse4D, Lens} -> 0..4
      [] p = "V" /\ t = Mouse2D -> 0..2
      [] p # "V" /\ t = Mouse2D -> 0..3
      [] OTHER -> {}

MaxPress(p) == CASE p = "V" -> Full [] p = "IV_1_1" -> 120 [] OTHER -> 255

Seen(p, t, s) ==
    [s EXCEPT !.buttons = @ \cap Has(p, t),
              !.press = IF t \in Mice THEN 0 ELSE IF @ > MaxPress(p) THEN MaxPress(p) ELSE @]

\* Protocol 5: which packets a tool sends, and how.
Kinds(p, t) ==
    IF p # "V" THEN {"pen"}
    ELSE CASE t = Airbrush -> {"pen", "wheel"}
           [] t = Mouse4D -> {"mouse", "rot"}
           [] t \in {Mouse2D, Lens} -> {"mouse"}
           [] OTHER -> {"pen"}

\* A number from -64 to 63 in seven bits.
Seven(i) == (i + 128) % 128

EncodeV(k, t, s) ==
    LET Placed(first, hi, lo, a, b) ==
            <<first, s.x \div 512, (s.x \div 4) % 128, (s.x % 4) * 32 + (s.y \div 2048),
              (s.y \div 16) % 128, (s.y % 16) * 8 + hi, lo, a, b>>
        WithTen(first, n, a, b) == Placed(first, n \div 128, n % 128, a, b)
        Bit(b) == Flag(b \in s.buttons, 1)
        MouseKeys ==
            CASE t = Mouse4D -> 32 * Bit(4) + 16 * Bit(3) + 8 * Flag(s.aux < 0, 1)
                                + 4 * Bit(2) + 2 * Bit(1) + Bit(0)
              [] t = Lens -> 16 * Bit(4) + 8 * Bit(3) + 4 * Bit(2) + 2 * Bit(1) + Bit(0)
              [] OTHER -> 16 * Bit(2) + 8 * Bit(1) + 4 * Bit(0)
                          + 2 * Flag(s.aux > 0, 1) + Flag(s.aux < 0, 1)
        Angle == IF s.aux < 0 THEN -s.aux ELSE 1799 - s.aux
    IN CASE k = "in"    -> <<\hC0, t \div 32, (t % 32) * 4, 0, 0, 0, 0, 0, 0>>
         [] k = "out"   -> <<\h80, 0, 0, 0, 0, 0, 0, 0, 0>>
         [] k = "pen"   -> WithTen(\hE0 + 2 * Bit(STYLUS) + 4 * Bit(STYLUS2), s.press,
                                   Seven(s.tiltx), Seven(s.tilty))
         [] k = "wheel" -> WithTen(\hF4, Abs(s.aux), Seven(s.tiltx), Seven(s.tilty))
         [] k = "mouse" -> WithTen(\hE8, IF t = Mouse4D THEN Abs(s.aux) ELSE 0, 0, MouseKeys)
         [] k = "rot"   -> Placed(\hEA, 0, Angle \div 128, Angle % 128, 0)

\* Protocol 4: the top bit of the pressure is inverted, the lowest of eight is among
\* the keys, and an eraser and the second switch are one bit.  Only ROM 1.4 sends the
\* tilt.
EncodeIV(p, k, t, s) ==
    LET Bit(b) == Flag(b \in s.buttons, 1)
        low == IF p = "IV_1_1" THEN 0 ELSE s.press % 2
        high == IF p = "IV_1_1" THEN s.press ELSE s.press \div 2
        Keys == IF t \in Mice THEN 64 * Bit(3) + 32 * Bit(2) + 16 * Bit(1) + 8 * Bit(0)
                ELSE Flag(t = Eraser \/ STYLUS2 \in s.buttons, 32) + 16 * Bit(STYLUS) + 4 * low
        First == \hC0 + Flag(t \notin Mice, \h20) + (s.x \div 16384)
    IN IF k = "out" THEN <<\h80, 0, 0, 0, 0, 0, 0, Seven(s.tiltx), Seven(s.tilty)>>
       ELSE <<First, (s.x \div 128) % 128, s.x % 128, Keys + (s.y \div 16384),
              (s.y \div 128) % 128, s.y % 128, (high % 64) + IF high < 64 THEN 64 ELSE 0,
              Seven(s.tiltx), Seven(s.tilty)>>

\* A tablet PC: an eraser and the second switch are one bit here too.
EncodeTPC(k, t, s) ==
    IF k = "out" THEN <<\h80, 0, 0, 0, 0, 0, 0, 0, 0>>
    ELSE <<\hA0 + Flag(s.press > 0, 1) + Flag(STYLUS \in s.buttons, 2)
             + Flag(t = Eraser \/ STYLUS2 \in s.buttons, 4),
           s.x \div 512, (s.x \div 4) % 128, s.y \div 512, (s.y \div 4) % 128,
           s.press % 128, (s.x % 4) * 32 + (s.y % 4) * 8 + (s.press \div 128), 0, 0>>

Encode(p, k, t, s) ==
    CASE p = "V" -> Packet(EncodeV(k, t, s), 9)
      [] p = "TabletPC" -> Packet(EncodeTPC(k, t, s), 9)
      [] OTHER -> Packet(EncodeIV(p, k, t, s), IF p = "IV_1_4" THEN 9 ELSE 7)

-----------------------------------------------------------------------------
(* The parsers                                                              *)

\* state.values with every nValue 0.
Zero == [prox |-> 0, tool |-> "NONE", x |-> 0, y |-> 0, press |-> 0, buttons |-> {},
         tiltx |-> 0, tilty |-> 0, abswheel |-> 0, relwheel |-> 0, throttle |-> 0, rot |-> 0]

\* A mask is a run of bits: the lowest has the value unit, and size values fit.  A
\* field is what the mask leaves of a byte, moved down.
Field(b, unit, size) == (b \div unit) % size
Set(b, unit) == Field(b, unit, 2) = 1
When(cond, button) == IF cond THEN {button} ELSE {}
ButtonsIn(n) ==
    When(Set(n, 1), 0) \cup When(Set(n, 2), 1) \cup When(Set(n, 4), 2) \cup When(Set(n, 8), 3)
    \cup When(Set(n, 16), 4)

\* Mutant of Signed: the sign bit is left out.
SignedNot(b) == Field(b, 1, 64)

\* Mask 3F, and the sign is bit 40.
Signed(b) == Field(b, 1, 64) - IF Set(b, 64) THEN 64 ELSE 0

\* The tool that a number stands for, of those in the model.
ToolType(id) ==
    CASE id = Eraser -> "ERASER" [] id = Airbrush -> "AIRBRUSH" [] id = Lens -> "LENS"
      [] id \in {Mouse2D, Mouse4D} -> "MOUSE" [] OTHER -> "PEN"

\* The buttons of a mouse, which are elsewhere in each.
MouseButtons(id, b) ==
    CASE id = Mouse4D -> ButtonsIn(Field(b, 16, 8) * 8 + Field(b, 1, 8))
      [] id = Lens    -> ButtonsIn(b)
      [] OTHER        -> ButtonsIn(Field(b, 4, 8))

\* A parser's result: accepted or not, the values and nToolID.
Result(values, id) == [ok |-> TRUE, values |-> values, id |-> id]
Refused == [ok |-> FALSE, values |-> state, id |-> nToolID]

\* Protocol 5: the place, ten bits behind it, and the number of a tool.
XOf(d) == Field(d[1], 1, 128) * 512 + Field(d[2], 1, 128) * 4 + Field(d[3], 32, 4)
YOf(d) == Field(d[3], 1, 32) * 2048 + Field(d[4], 1, 128) * 16 + Field(d[5], 8, 16)
TenOf(d) == Field(d[5], 1, 8) * 128 + Field(d[6], 1, 128)
ToolOf(d) == Field(d[1], 1, 128) * 32 + Field(d[2], 4, 32)

PenPacket(d) ==
    [state EXCEPT !.x = XOf(d), !.y = YOf(d), !.tiltx = Signed(d[7]), !.tilty = Signed(d[8]),
                  !.press = TenOf(d), !.abswheel = 0,
                  !.buttons = When(TenOf(d) > 10, TOUCH) \cup When(Set(d[0], 2), STYLUS)
                              \cup When(Set(d[0], 4), STYLUS2)]

\* The second packet of an airbrush.
WheelPacket(d) ==
    [state EXCEPT !.x = XOf(d), !.y = YOf(d), !.tiltx = Signed(d[7]), !.tilty = Signed(d[8]),
                  !.press = 0, !.abswheel = TenOf(d), !.buttons = {}]

MousePacket(d) ==
    [state EXCEPT !.x = XOf(d), !.y = YOf(d),
                  !.relwheel = IF nToolID \in {Mouse4D, Lens} THEN 0
                               ELSE Field(d[8], 2, 2) - Field(d[8], 1, 2),
                  !.throttle = IF Set(d[8], 8) THEN -TenOf(d) ELSE TenOf(d),
                  !.buttons = (@ \ (0..4)) \cup MouseButtons(nToolID, d[8])]

\* The second packet of a 4D mouse.
RotationPacket(d) ==
    LET rot == Field(d[6], 1, 16) * 128 + Field(d[7], 1, 128) IN
    [state EXCEPT !.x = XOf(d), !.y = YOf(d), !.rot = IF rot < 900 THEN -rot ELSE 1799 - rot]

SerialParseWacomV(d) ==
    LET Is(first) == Set(d[0], 128) /\ Field(d[0], 2, 32) = Field(first, 2, 32) IN
    CASE DOMAIN d # 0..8 -> Refused
      [] Field(d[0], 4, 64) = Field(\hC0, 4, 64) ->
           Result([state EXCEPT !.prox = 1, !.tool = ToolType(ToolOf(d))], ToolOf(d))
      [] Field(d[0], 2, 128) = Field(\h80, 2, 128) -> Result(Zero, NoTool)
      [] Set(d[0], 128) /\ Field(d[0], 8, 8) = Field(\hA0, 8, 8) ->
           Result(PenPacket(d), nToolID)
      [] Is(\hB4) -> Result(WheelPacket(d), nToolID)
      [] Is(\hA8) \/ Is(\hB0) -> Result(MousePacket(d), nToolID)
      [] Is(\hAA) -> Result(RotationPacket(d), nToolID)
      [] OTHER -> Refused

\* Mutant of Pressure: the minor version is not looked at.
PressureWide(p, d) ==
    Field(d[6], 1, 64) * 2 + Field(d[3], 4, 2) + IF Set(d[6], 64) THEN 0 ELSE 128

\* Eight bits, or before ROM 1.2 seven; the top one is inverted.
Pressure(p, d) ==
    IF p = "IV_1_1" THEN Field(d[6], 1, 64) + IF Set(d[6], 64) THEN 0 ELSE 64
    ELSE Field(d[6], 1, 64) * 2 + Field(d[3], 4, 2) + IF Set(d[6], 64) THEN 0 ELSE 128

\* Mutant of ToolIV: every packet says what the tool is.
ToolIVAnew(erases) == IF erases THEN "ERASER" ELSE "PEN"

\* A tool that is near stays what it was: the bit may be its second switch.
ToolIV(erases) ==
    IF state.prox = 1 THEN state.tool ELSE IF erases THEN "ERASER" ELSE "PEN"

\* The tool is out of reach: in protocol 4 and for a tablet PC the rest stays.
Gone == [state EXCEPT !.prox = 0, !.tool = "NONE", !.x = 0, !.y = 0, !.press = 0, !.buttons = {}]

\* SerialParseWacomIV_1_3 and _1_2, which differ in eraser and second switch.
ErasesIV(p, d) == p \in {"IV_1_3", "IV_1_4"} /\ Set(d[3], 32)

TypeIV(p, d) ==
    CASE ~Set(d[0], 32) -> "MOUSE"
      [] Set(d[0], 32) /\ p \in {"IV_1_3", "IV_1_4"} -> ToolIV(ErasesIV(p, d))
      [] OTHER -> "PEN"

ButtonsIV(p, d) ==
    LET isPen == TypeIV(p, d) = "PEN" IN
    IF Set(d[0], 32)
    THEN When(Pressure(p, d) > 10, TOUCH) \cup When(isPen /\ Set(d[3], 16), STYLUS)
         \cup When(isPen /\ ErasesIV(p, d), STYLUS2)
    ELSE ButtonsIn(Field(d[3], 8, 16))

\* n is uLength.
SerialParseWacomIV(p, d, n) ==
    IF n # 7 THEN Refused
    ELSE IF ~Set(d[0], 64) THEN Result(Gone, nToolID)
    ELSE Result([state EXCEPT !.prox = 1, !.tool = TypeIV(p, d), !.press = Pressure(p, d),
                              !.x = d[2] + d[1] * 128 + Field(d[0], 1, 4) * 16384,
                              !.y = d[5] + d[4] * 128 + Field(d[3], 1, 4) * 16384,
                              !.buttons = ButtonsIV(p, d)], nToolID)

\* What ROM 1.4 adds.
SerialParseWacomIV_1_4(d) ==
    LET r == SerialParseWacomIV("IV_1_4", d, 7) IN
    CASE DOMAIN d \notin {0..6, 0..8} -> Refused
      [] r.ok /\ DOMAIN d = 0..8 ->
           [r EXCEPT !.values.tiltx = Signed(d[7]), !.values.tilty = Signed(d[8])]
      [] OTHER -> r

\* Every packet says anew what the tool is.  STYLUS2 is never among the buttons: a pen
\* is only taken for one when the bit that both are read from is not set.
SerialParseTabletPC(d) ==
    LET eraser == Set(d[0], 4) IN
    IF DOMAIN d # 0..8 THEN Refused
    ELSE IF ~Set(d[0], 32)
    THEN Result(Gone, nToolID)
    ELSE Result([state EXCEPT
                   !.prox = 1, !.tool = IF eraser THEN "ERASER" ELSE "PEN",
                   !.press = Field(d[6], 1, 2) * 128 + Field(d[5], 1, 128),
                   !.x = Field(d[6], 32, 4) + d[2] * 4 + d[1] * 512,
                   !.y = Field(d[6], 8, 4) + d[4] * 4 + d[3] * 512,
                   !.buttons = When(Set(d[0], 1), TOUCH)
                               \cup When(~eraser /\ Set(d[0], 2), STYLUS)], nToolID)

Parse(d) ==
    CASE parser = "V" -> SerialParseWacomV(d)
      [] parser = "IV_1_4" -> SerialParseWacomIV_1_4(d)
      [] parser = "TabletPC" -> SerialParseTabletPC(d)
      [] OTHER -> SerialParseWacomIV(parser, d, IF DOMAIN d = 0..6 THEN 7 ELSE 9)

-----------------------------------------------------------------------------
(* main                                                                     *)

\* wacom_report_event does not pass -1 on.
Event(value, old) == IF value = -1 THEN old ELSE value

\* Mutant of Report: without a tool only the pressure is reported.
ReportStaysDown(v) ==
    IF v.prox = 0 THEN [shown EXCEPT !.press = 0]
    ELSE [x |-> Event(v.x, shown.x), y |-> Event(v.y, shown.y),
          press |-> Event(v.press, shown.press), touch |-> v.press > minPress]

Report(v) ==
    IF v.prox = 0 THEN [shown EXCEPT !.press = 0, !.touch = FALSE]
    ELSE [x |-> Event(v.x, shown.x), y |-> Event(v.y, shown.y),
          press |-> Event(v.press, shown.press), touch |-> v.press > minPress]

\* WacomParseData for a packet, and the report; a packet that is refused has none.
Arrives(packet) ==
    \E d \in {packet} : \E r \in {Parse(d)} :
        /\ state' = r.values /\ nToolID' = r.id
        /\ shown' = IF r.ok THEN Report(r.values) ELSE shown

\* A packet of kind k from tool t is sent, and arrives or is lost.
Sends(k, t, s, edge) ==
    /\ kind' = k
    /\ \/ /\ Arrives(Encode(parser, k, t, s))
          /\ lastLost' = FALSE
          /\ edgeLost' = (edgeLost /\ k # "out")
          /\ heard' = (k # "out")
          /\ UNCHANGED lost
       \/ /\ lost < MaxLost /\ lost' = lost + 1
          /\ lastLost' = TRUE
          /\ edgeLost' = (edgeLost \/ edge)
          /\ heard' = (heard /\ ~edge)
          /\ UNCHANGED <<state, nToolID, shown>>
    /\ UNCHANGED parser

\* A tool comes near: protocol 5 says so in a packet of its own.
Comes(t, s) ==
    /\ tool = NoTool
    /\ tool' = t /\ sample' = Seen(parser, t, s)
    /\ \/ parser = "V" /\ Sends("in", t, sample', TRUE)
       \/ parser # "V" /\ Sends("pen", t, sample', TRUE)

Moves(k, s) ==
    /\ tool # NoTool /\ k \in Kinds(parser, tool)
    /\ sample' = Seen(parser, tool, s)
    /\ Sends(k, tool, sample', FALSE)
    /\ UNCHANGED tool

Leaves ==
    /\ tool # NoTool
    /\ tool' = NoTool
    /\ Sends("out", tool, sample, TRUE)
    /\ UNCHANGED sample

Init ==
    /\ parser \in Parsers
    /\ tool = NoTool /\ sample = CHOOSE s \in Samples : TRUE
    /\ kind = "out"
    /\ state = Zero /\ nToolID = NoTool
    /\ shown = [x |-> 0, y |-> 0, press |-> 0, touch |-> FALSE]
    /\ lastLost = FALSE /\ edgeLost = FALSE /\ heard = FALSE /\ lost = 0

Next ==
    \/ \E t \in Tools(parser), s \in Samples : Comes(t, s)
    \/ \E k \in Kinds(parser, tool), s \in Samples : Moves(k, s)
    \/ Leaves

Spec == Init /\ [][Next]_vars

-----------------------------------------------------------------------------
(* Properties                                                               *)

StateType ==
    [prox: 0..1, tool: {"NONE", "PEN", "ERASER", "AIRBRUSH", "MOUSE", "LENS"},
     x: 0..Far, y: 0..Far, press: 0..Full, buttons: SUBSET (0..7),
     tiltx: -64..63, tilty: -64..63, abswheel: 0..Full, relwheel: -1..1,
     throttle: -Full..Full, rot: -Turn..Turn]

\* Every variable holds a value of its type: places fit the parsers' fields (whether
\* they are within the tablet's dimensions is up to the tablet; the code does not look),
\* and the pressure that uinput is told is within the scale that main announced.
TypeOK ==
    /\ parser \in Parsers /\ tool \in Tools(parser) \cup {NoTool} /\ sample \in Sample
    /\ state \in StateType
    /\ shown \in [x: 0..Far, y: 0..Far, press: 0..MaxPress(parser), touch: BOOLEAN]

\* With no packet about coming and leaving lost since the last one that arrived, and
\* none at all just now, applications are shown the tool where it is, as hard as it
\* presses, and touching when it presses harder than the threshold.  The second
\* packet of an airbrush has no pressure, and lifts it.  The packet by which protocol 5
\* says that a tool comes near has no place either: it shows the tool at (0, 0).
ShownIsTool ==
    ~lastLost /\ ~edgeLost =>
        /\ shown.touch <=> tool # NoTool /\ kind = "pen" /\ sample.press > minPress
        /\ kind \in {"pen", "wheel", "mouse", "rot"} =>
              /\ <<shown.x, shown.y>> = <<sample.x, sample.y>>
              /\ shown.press = IF kind = "pen" THEN sample.press ELSE 0

\* The rest of what a packet says is read as it was meant, whatever was lost before:
\* tilt, wheels, throttle and rotation, and the buttons if the tool is known for what
\* it is (a pen that comes with its second switch pressed is taken for an eraser).
DecodedIsSent ==
    ~lastLost /\ tool # NoTool =>
        /\ (parser = "V" /\ kind \in {"pen", "wheel"}) \/ parser = "IV_1_4" =>
              <<state.tiltx, state.tilty>> = <<sample.tiltx, sample.tilty>>
        /\ kind = "wheel" => state.abswheel = Abs(sample.aux)
        /\ kind = "rot" => state.rot = sample.aux
        /\ kind = "mouse" /\ nToolID = tool =>
              /\ state.buttons \cap (0..4) = sample.buttons
              /\ tool = Mouse4D => state.throttle = sample.aux
              /\ tool = Mouse2D => state.relwheel = Sign(sample.aux)
        /\ kind = "pen" /\ state.tool = ToolType(tool) =>
              state.buttons \cap {STYLUS, STYLUS2} = sample.buttons \cap {STYLUS, STYLUS2}

\* A tool of which a packet has arrived does not turn into another while it is near,
\* whichever buttons are pressed and packets are lost, but for the pen of a tablet PC:
\* its second switch turns it into an eraser and back.
ToolIsKept ==
    [][tool' = tool /\ tool # NoTool /\ heard /\ state'.tool # state.tool =>
          /\ parser = "TabletPC" /\ tool = Pen
          /\ state'.tool = IF STYLUS2 \in sample'.buttons THEN "ERASER" ELSE "PEN"]_vars
=============================================================================
