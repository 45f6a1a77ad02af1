----------------------------- MODULE SerialIdent -----------------------------
(***************************************************************************)
(* How wacom-input opens a serial tablet and resets it again later         *)
(* (SerialReset in src/wacom/wacserial.c): the port is taken through the   *)
(* baud rates, the tablet is stopped, asked who it is and how large, given *)
(* its parser and packet length, and started.                              *)
(*                                                                         *)
(* A character of an answer is "~", the letter of the request, "CR", or a  *)
(* token that stands for several: a part of the name, the version, or the  *)
(* dimensions.  The line loses or damages characters, answers come late,   *)
(* writes fail, and the tablet may be switched off and on.  What it sends  *)
(* while it runs is the subject of SerialTablet.                           *)
(***************************************************************************)
EXTENDS Integers, Sequences, SequencesExt, FiniteSetsExt

CONSTANTS
    Tablets,       \* tablets that may be connected: [device, ident, version]
    Requested,     \* what -t may name for them
    ResponseSize,  \* how much of an answer the buffer takes
    MaxFaults,     \* bound: what goes wrong with the line, writes and the power
    MaxLate        \* bound: answers that come after select has given up

NoDevice == "none" \* no device, and no subtype
Off == 0           \* the speed of a tablet that hears nothing
Rates == {9600, 19200, 38400}

\* xWacomDevices and xtpcDevices: protocol, packet length and lowest baud rate.
P4 == [protocol |-> 4, length |-> 7, minBaud |-> 9600]
P5 == [protocol |-> 5, length |-> 9, minBaud |-> 9600]
TPC == [protocol |-> 0, length |-> 9, minBaud |-> 19200]

Device ==
    [d \in {"art", "art2", "dig", "dig2", "pp", "gr", "pl", "int", "int2", "tpc"} |->
        IF d = "tpc" THEN TPC ELSE IF d \in {"int", "int2"} THEN P5 ELSE P4]

\* The tables of subtypes in the order of the search: some of their names, which
\* are sequences because one may begin with another.  art and dig have none.
SubTypes ==
    << [device |-> "art2", ident |-> <<"KT-0405">>],
       [device |-> "dig2", ident |-> <<"UD-1212">>],
       [device |-> "pp",   ident |-> <<"CT-0405">>],
       [device |-> "gr",   ident |-> <<"ET-0405">>],
       [device |-> "pl",   ident |-> <<"PL-600">>],
       [device |-> "pl",   ident |-> <<"PL-600", "SX">>],
       [device |-> "int",  ident |-> <<"GD-0608">>],
       [device |-> "int2", ident |-> <<"XD-0608">>] >>

\* What sscanf makes of the text after the last V.
Version ==
    [v \in {"V1.1", "V1.2", "V1.3", "V1.4", "V2.0"} |->
        CASE v = "V1.1" -> <<1, 1>> [] v = "V1.2" -> <<1, 2>> [] v = "V1.3" -> <<1, 3>>
          [] v = "V1.4" -> <<1, 4>> [] v = "V2.0" -> <<2, 0>>]

\* A tablet that is asked has a name of the tables.  A tablet PC is not asked, and
\* nothing else is named one.
ASSUME IdentAssumption ==
    /\ Tablets \subseteq [device: DOMAIN Device, ident: Seq(STRING), version: DOMAIN Version]
    /\ \A t \in Tablets :
          \/ t.device = "tpc"
          \/ \E k \in DOMAIN SubTypes : SubTypes[k] = [device |-> t.device, ident |-> t.ident]
    /\ Requested \subseteq (DOMAIN Device \cup {NoDevice}) \ {"tpc"}
    /\ ResponseSize \in Nat \ {0} /\ MaxFaults \in Nat /\ MaxLate \in Nat

VARIABLES
    model,         \* the tablet that is connected
    requested,     \* modelRequested
    tablet,        \* its speed; is it sending, with tilt; answers not sent yet
    tty,           \* characters that have arrived
    baud,          \* the port's speed
    pc,            \* where SerialReset is, "running" or "exited"
    bauds,         \* the rates SerialConfigTTY still has to try
    cmd, got,      \* SerialSendRequest: the letter asked, the answer so far
    again,         \* SerialIdentWacom asks for the second time
    errno,         \* "ETIMEDOUT" or "other"
    pDevice, uPacketLength, nVer, pfnParse,
    opened,        \* WacomOpenTablet has returned: a failing reset ends nothing
    ok,            \* history: the last SerialReset came to its end
    disturbed,     \* history: power or version damaged since the reset began
    faults, late   \* counters of the bounds

external == <<model, requested>>
request  == <<cmd, got, again, errno>>
device   == <<pDevice, uPacketLength, nVer, pfnParse>>
bounds   == <<faults, late>>
vars == <<external, tablet, tty, baud, pc, bauds, request, device, opened, ok,
          disturbed, bounds>>

\* A write, or a call that sets the port up, fails.
FaultHappens == faults < MaxFaults /\ faults' = faults + 1

-----------------------------------------------------------------------------
(* The tablet                                                               *)

\* Factory defaults.
Factory == [speed |-> Device[model.device].minBaud, on |-> TRUE, tilt |-> FALSE,
            answers |-> << >>]

\* A command reaches the tablet when the port has its speed.
Hears == tablet.speed = baud

TabletLength == IF tablet.tilt THEN 9 ELSE Device[model.device].length

Answer(letter) ==
    <<"~", letter>>
    \o (IF letter = "#" THEN Append(model.ident, model.version) ELSE <<"dims">>)
    \o <<"CR">>

\* An answer is sent, and the line may lose one of its characters or damage it.
TabletAnswers ==
    /\ tablet.answers # << >>
    /\ tablet' = [tablet EXCEPT !.answers = Tail(@)]
    /\ LET answer == Head(tablet.answers) IN
       \/ tty' = tty \o answer /\ UNCHANGED <<faults, disturbed>>
       \/ /\ FaultHappens
          /\ \E k \in DOMAIN answer :
                \/ tty' = tty \o RemoveAt(answer, k) /\ UNCHANGED disturbed
                \/ tty' = tty \o [answer EXCEPT ![k] = "?"] /\ UNCHANGED disturbed
                \/ /\ answer[k] \in DOMAIN Version
                   /\ \E v \in {"V1.1", "V1.4"} : tty' = tty \o [answer EXCEPT ![k] = v]
                   /\ disturbed' = TRUE
    /\ UNCHANGED <<external, baud, pc, bauds, request, device, opened, ok, late>>

\* The tablet is switched off and on again, while the program reads its packets.  A
\* power cycle during a reset, whose packets would come between the answers, is not
\* in the model.
PowerCycle ==
    /\ pc = "running" /\ FaultHappens
    /\ tablet' = Factory
    /\ disturbed' = TRUE
    /\ UNCHANGED <<external, tty, baud, pc, bauds, request, device, opened, ok, late>>

-----------------------------------------------------------------------------
(* SerialReset up to the questions                                          *)

\* SerialReset returns 1: main exits, but SerialReadRaw does not look.
Returns1 == pc' = IF opened THEN "running" ELSE "exited"

\* SerialFindModel and SerialSetDevice, and the rates SerialConfigTTY is to try.
BaudsFrom(lowest) ==
    IF lowest <= 9600 THEN <<38400, 19200, 9600>>
    ELSE IF lowest <= 19200 THEN <<38400, 19200>> ELSE <<38400>>

MinBaud(d) == IF d = NoDevice THEN 9600 ELSE Device[d].minBaud

SerialFindModel ==
    /\ pc = "find"
    /\ pDevice' = requested
    /\ bauds' = BaudsFrom(MinBaud(requested))
    /\ again' = FALSE
    /\ ok' = FALSE /\ disturbed' = FALSE
    /\ pc' = "tty"
    /\ UNCHANGED <<external, tablet, tty, baud, cmd, got, errno, uPacketLength, nVer,
                   pfnParse, opened, bounds>>

\* The port takes the next rate, and the tablet, if this is its own, is reset.
SerialResetAtBaud ==
    /\ pc = "tty" /\ bauds # << >>
    /\ baud' = Head(bauds)
    /\ bauds' = Tail(bauds)
    /\ \/ /\ tablet' = IF tablet.speed = Head(bauds) THEN Factory ELSE tablet
          /\ UNCHANGED <<pc, errno, faults>>
       \/ /\ FaultHappens
          /\ tablet' \in {tablet, IF tablet.speed = Head(bauds) THEN Factory ELSE tablet}
          /\ errno' = "other"
          /\ Returns1
    /\ UNCHANGED <<external, tty, cmd, got, again, device, opened, ok, disturbed, late>>

\* SerialSendStop and WacomFlush.
SerialSendStop ==
    /\ pc = "tty" /\ bauds = << >>
    /\ \/ /\ tablet' = IF Hears THEN [tablet EXCEPT !.on = FALSE] ELSE tablet
          /\ tty' = << >>
          /\ pc' = "ident"
          /\ UNCHANGED <<errno, faults>>
       \/ /\ FaultHappens /\ errno' = "other"
          /\ Returns1
          /\ UNCHANGED <<tablet, tty>>
    /\ UNCHANGED <<external, baud, bauds, cmd, got, again, device, opened, ok, disturbed, late>>

\* SerialIdentTabletPC asks nothing, and SerialInitTabletPC has its values.
SerialIdentTabletPC ==
    /\ pc = "ident" /\ pDevice = "tpc"
    /\ uPacketLength' = TPC.length
    /\ nVer' = <<0, 0>>
    /\ pfnParse' = "TabletPC"
    /\ pc' = "start"
    /\ UNCHANGED <<external, tablet, tty, baud, bauds, request, pDevice, opened, ok,
                   disturbed, bounds>>

-----------------------------------------------------------------------------
(* SerialSendRequest                                                        *)

\* The request for letter is written; the tablet will answer if it hears it.
SerialSendRequest(letter) ==
    /\ \/ pc = "ident" /\ pDevice # "tpc" /\ letter = "#"
       \/ pc = "init" /\ letter = "C"
    /\ cmd' = letter
    /\ got' = << >>
    /\ \/ /\ tablet' = IF Hears THEN [tablet EXCEPT !.answers = Append(@, Answer(letter))]
                       ELSE tablet
          /\ pc' = "header"
          /\ UNCHANGED <<errno, faults>>
       \/ /\ FaultHappens /\ errno' = "other"
          /\ Returns1
          /\ UNCHANGED tablet
    /\ UNCHANGED <<external, tty, baud, bauds, again, device, opened, ok, disturbed, late>>

\* Mutant of RequestFails: SerialIdentWacom asks until something comes.
RequestFailsForever(e) ==
    /\ errno' = e
    /\ IF cmd = "#" /\ e = "ETIMEDOUT"
       THEN again' = TRUE /\ pc' = "ident"
       ELSE Returns1 /\ UNCHANGED again

\* SerialSendRequest returns 1 with errno e: SerialIdentWacom asks again if this
\* was the first time and errno says that nothing came.
RequestFails(e) ==
    /\ errno' = e
    /\ IF cmd = "#" /\ ~again /\ e = "ETIMEDOUT"
       THEN again' = TRUE /\ pc' = "ident"
       ELSE Returns1 /\ UNCHANGED again

\* Half a second passes without a character.
RequestTimeout ==
    /\ pc = "header" /\ tty = << >>
    /\ \/ tablet.answers = << >> /\ UNCHANGED late
       \/ late < MaxLate /\ late' = late + 1
    /\ RequestFails("ETIMEDOUT")
    /\ UNCHANGED <<external, tablet, tty, baud, bauds, cmd, got, device, opened, ok,
                   disturbed, faults>>

\* Characters before the first of the header are discarded.
ReadHeader ==
    /\ pc = "header" /\ tty # << >>
    /\ tty' = Tail(tty)
    /\ pc' = IF Head(tty) = "~" THEN "header2" ELSE "header"
    /\ UNCHANGED <<external, tablet, baud, bauds, request, device, opened, ok, disturbed, bounds>>

\* The second character: there is no select before this read and the next ones.
\* Another character than the one asked for leaves errno as it was.
ReadHeader2 ==
    /\ pc = "header2" /\ tty # << >>
    /\ tty' = Tail(tty)
    /\ IF Head(tty) = cmd
       THEN pc' = "body" /\ UNCHANGED <<again, errno>>
       ELSE RequestFails(errno)
    /\ UNCHANGED <<external, tablet, baud, bauds, cmd, got, device, opened, ok,
                   disturbed, bounds>>

\* Mutant of BufferFull: one character more is taken.
BufferFullLate(uCnt) == uCnt > ResponseSize

BufferFull(uCnt) == uCnt = ResponseSize

\* The answer is read up to its CR, and is too long when the buffer is full.
ReadBody ==
    /\ pc = "body" /\ tty # << >>
    /\ tty' = Tail(tty)
    /\ IF Head(tty) = "CR"
       THEN /\ pc' = IF cmd = "#" THEN "identify" ELSE "initialize"
            /\ UNCHANGED <<got, again, errno>>
       ELSE /\ got' = Append(got, Head(tty))
            /\ IF BufferFull(Len(got) + 1)
               THEN RequestFails("other")
               ELSE UNCHANGED <<pc, again, errno>>
    /\ UNCHANGED <<external, tablet, baud, bauds, cmd, device, opened, ok, disturbed, bounds>>

-----------------------------------------------------------------------------
(* What the answers lead to                                                 *)

\* The entries whose name the answer begins with, and the versions in it.
Matches == {k \in DOMAIN SubTypes : IsPrefix(SubTypes[k].ident, got)}
VersionsIn == {k \in DOMAIN got : got[k] \in DOMAIN Version}

\* SerialIdentWacom looks the answer up and reads the version after the last V;
\* the device is set even when there is none.
SerialIdentWacom ==
    /\ pc = "identify"
    /\ IF Matches = {}
       THEN Returns1 /\ UNCHANGED device
       ELSE /\ pDevice' = SubTypes[Min(Matches)].device
            /\ uPacketLength' = Device[pDevice'].length
            /\ IF VersionsIn = {}
               THEN Returns1 /\ UNCHANGED nVer
               ELSE nVer' = Version[got[Max(VersionsIn)]] /\ pc' = "init"
            /\ UNCHANGED pfnParse
    /\ UNCHANGED <<external, tablet, tty, baud, bauds, request, opened, ok, disturbed, bounds>>

\* The parser of a protocol 4 tablet; other versions keep the parser they have.
ParserIV(v) ==
    IF v[1] # 1 THEN pfnParse
    ELSE IF v[2] >= 4 THEN "IV_1_4"
    ELSE IF v[2] = 3 THEN "IV_1_3"
    ELSE "IV_1_2"

WithTilt(d, v) == Device[d].protocol = 4 /\ v[1] = 1 /\ v[2] >= 4

\* Mutant of InitLength: the packet length stays that of the device.
InitLengthShort == uPacketLength

InitLength == IF WithTilt(pDevice, nVer) THEN 9 ELSE uPacketLength

\* SerialInitWacom once the dimensions are there.  What it sends for single devices
\* is not looked at; the command for tilt must be sent, and a tablet that knows it
\* sends longer packets from then on.
SerialInitWacom ==
    /\ pc = "initialize"
    /\ \/ /\ ~(got # << >> /\ got[1] = "dims")
          /\ Returns1
          /\ UNCHANGED <<tablet, pfnParse, uPacketLength, errno, faults>>
       \/ /\ got # << >> /\ got[1] = "dims"
          /\ pfnParse' = IF Device[pDevice].protocol = 5 THEN "V" ELSE ParserIV(nVer)
          /\ uPacketLength' = InitLength
          /\ tablet' = IF WithTilt(pDevice, nVer) /\ Hears
                          /\ WithTilt(model.device, Version[model.version])
                       THEN [tablet EXCEPT !.tilt = TRUE] ELSE tablet
          /\ pc' = "start"
          /\ UNCHANGED <<errno, faults>>
       \/ /\ got # << >> /\ got[1] = "dims" /\ WithTilt(pDevice, nVer)
          /\ FaultHappens /\ errno' = "other"
          /\ Returns1
          /\ UNCHANGED <<tablet, pfnParse, uPacketLength>>
    /\ UNCHANGED <<external, tty, baud, bauds, cmd, got, again, pDevice, nVer, opened,
                   ok, disturbed, late>>

\* Whether the start could be sent is not looked at.
SerialSendStart ==
    /\ pc = "start"
    /\ \/ /\ tablet' = IF Hears THEN [tablet EXCEPT !.on = TRUE] ELSE tablet
          /\ UNCHANGED faults
       \/ FaultHappens /\ UNCHANGED tablet
    /\ pc' = "running"
    /\ opened' = TRUE /\ ok' = TRUE
    /\ UNCHANGED <<external, tty, baud, bauds, request, device, disturbed, late>>

-----------------------------------------------------------------------------
(* The main loop                                                            *)

\* The packets that arrive are as long as those that are read.
Fits == Hears /\ uPacketLength = TabletLength

\* Mutant of BitErrors: bytes at the wrong place are dropped and not counted.
BitErrorsIgnored ==
    /\ pc = "running" /\ tablet.on /\ ~Fits /\ FaultHappens
    /\ errno' \in {"ETIMEDOUT", "other"}
    /\ pc' = "find"
    /\ UNCHANGED <<external, tablet, tty, baud, bauds, cmd, got, again, device, opened,
                   ok, disturbed, late>>

\* Too many bit errors, because packets do not fit or the line damages them, lead to
\* a reset.  errno is what the reads before left there.  Of packets that do not fit, the
\* code would not notice those of nine bytes read as seven: what is cut off them is
\* counted as one error and the next packet, once accepted, clears the count.  No
\* behaviour of the model reads such a stream.
BitErrors ==
    /\ pc = "running" /\ tablet.on
    /\ \/ ~Fits /\ UNCHANGED faults
       \/ FaultHappens
    /\ errno' \in {"ETIMEDOUT", "other"}
    /\ pc' = "find"
    /\ UNCHANGED <<external, tablet, tty, baud, bauds, cmd, got, again, device, opened,
                   ok, disturbed, late>>

Reset ==
    \/ SerialFindModel \/ SerialResetAtBaud \/ SerialSendStop \/ SerialIdentTabletPC
    \/ \E letter \in {"#", "C"} : SerialSendRequest(letter)
    \/ RequestTimeout \/ ReadHeader \/ ReadHeader2 \/ ReadBody
    \/ SerialIdentWacom \/ SerialInitWacom \/ SerialSendStart

\* The speeds at which a tablet may have been left.
LeftAt(d) == {b \in Rates : b >= Device[d].minBaud} \cup {Off}

Init ==
    /\ model \in Tablets
    /\ requested \in IF model.device = "tpc" THEN {"tpc"} ELSE Requested
    /\ tablet \in [speed: LeftAt(model.device), on: BOOLEAN, tilt: {FALSE}, answers: {<< >>}]
    /\ tty = << >>
    /\ baud = 9600 /\ bauds = << >>
    /\ pc = "find"
    /\ cmd = "#" /\ got = << >> /\ again = FALSE /\ errno = "other"
    /\ pDevice = NoDevice /\ uPacketLength = 0 /\ nVer = <<0, 0>>
    /\ pfnParse = "none"
    /\ opened = FALSE /\ ok = FALSE /\ disturbed = FALSE
    /\ faults = 0 /\ late = 0

Next == Reset \/ BitErrors \/ TabletAnswers \/ PowerCycle

Spec == Init /\ [][Next]_vars

\* The program runs, what arrives is read and told apart, and the tablet answers.
FairSpec == Spec /\ WF_vars(Reset) /\ WF_vars(BitErrors) /\ WF_vars(TabletAnswers)

-----------------------------------------------------------------------------
(* Properties                                                               *)

\* What the line may carry of the tablet's answers, and what it carries of them when
\* no version is damaged.
Said == {"~", "#", "C", "CR", "dims", "?"} \cup Range(model.ident)
TrueWords == Said \cup {model.version}
Words == Said \cup DOMAIN Version

\* Every variable holds a value of its type; nothing is on the line but what the
\* tablet said and the line made of it, and an answer stays in its buffer.
TypeOK ==
    /\ model \in Tablets /\ requested \in DOMAIN Device \cup {NoDevice}
    /\ tablet \in [speed: Rates \cup {Off}, on: BOOLEAN, tilt: BOOLEAN,
                   answers: Seq({Answer("#"), Answer("C")})]
    /\ tty \in Seq(Words) /\ got \in Seq(Words) /\ Len(got) <= ResponseSize
    /\ baud \in Rates /\ bauds \in Seq(Rates)
    /\ pc \in {"find", "tty", "ident", "header", "header2", "body", "identify", "init",
               "initialize", "start", "running", "exited"}
    /\ cmd \in {"#", "C"} /\ errno \in {"ETIMEDOUT", "other"}
    /\ pDevice \in DOMAIN Device \cup {NoDevice}
    /\ uPacketLength \in {0, 7, 9}
    /\ pfnParse \in {"none", "TabletPC", "V", "IV_1_4", "IV_1_3", "IV_1_2"}
    /\ {again, opened, ok, disturbed} \subseteq BOOLEAN

\* The parser that a tablet ought to have; for a protocol 4 tablet with another
\* major version than 1 the code chooses none, and the one of an earlier reset is kept.
RightParser ==
    IF model.device = "tpc" THEN {"TabletPC"}
    ELSE IF Device[model.device].protocol = 5 THEN {"V"}
    ELSE CASE model.version = "V1.4" -> {"IV_1_4"}
           [] model.version = "V1.3" -> {"IV_1_3"}
           [] model.version \in {"V1.1", "V1.2"} -> {"IV_1_2"}
           [] OTHER -> {"none", "IV_1_4", "IV_1_3", "IV_1_2"}

\* A tablet that SerialReset calls set up is the one that is connected, listens at
\* the port's speed, has the parser of its version and sends packets of the length
\* that is read, whatever speed it was left at and whichever answers were late,
\* lost or read for another; unless its version arrived damaged or it was switched
\* off since.  A tablet PC's is not asked anything, so it may be missing.
SetUpFits ==
    pc = "running" /\ ok /\ ~disturbed /\ ~(requested = "tpc" /\ tablet.speed = Off) =>
        Fits /\ pDevice = model.device /\ pfnParse \in RightParser

\* A tablet that does not send what is read, for it has been switched off and on or
\* a reset got stuck half way, does not stay like that: the bit errors lead to a
\* reset after which it fits, is silent, or the program has ended or is stuck in a
\* read (Blocked).
Blocked == pc \in {"header2", "body"} /\ tty = << >> /\ tablet.answers = << >>

StreamFits == []<>(pc = "exited" \/ ~tablet.on \/ tablet.speed = Off \/ Fits \/ Blocked)

\* Opening and resetting come to an end, unless a character of an answer was lost: the
\* reads after an answer's first character have no timeout.
ResetEnds == pc = "find" ~> (pc \in {"running", "exited"} \/ (Blocked /\ faults > 0))
==============================================================================
