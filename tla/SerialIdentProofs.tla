------------------------- MODULE SerialIdentProofs -------------------------
(***************************************************************************)
(* Proofs about SerialIdent: types, with the bound on the answer buffer,   *)
(* and that a tablet which SerialReset calls set up is read as it sends.   *)
(* For any tablets of the tables, any size of the buffer, and any number   *)
(* of faults and late answers.                                             *)
(***************************************************************************)
EXTENDS SerialIdent, NaturalsInduction, WellFoundedInduction, TLAPS

-----------------------------------------------------------------------------
(* The tables                                                               *)

\* What the tables hold: the devices, their numbers, and what a version's text is read as.
LEMMA DeviceFacts ==
    /\ DOMAIN Device =
         {"art", "art2", "dig", "dig2", "pp", "gr", "pl", "int", "int2", "tpc"}
    /\ \A d \in DOMAIN Device \ {"int", "int2", "tpc"} : Device[d] = P4
    /\ Device["int"] = P5 /\ Device["int2"] = P5 /\ Device["tpc"] = TPC
  BY DEF Device

LEMMA VersionFacts ==
    /\ DOMAIN Version = {"V1.1", "V1.2", "V1.3", "V1.4", "V2.0"}
    /\ Version["V1.1"] = <<1, 1>> /\ Version["V1.2"] = <<1, 2>> /\ Version["V1.3"] = <<1, 3>>
    /\ Version["V1.4"] = <<1, 4>> /\ Version["V2.0"] = <<2, 0>>
  BY DEF Version

LEMMA DeviceNumbers ==
    ASSUME NEW d \in DOMAIN Device
    PROVE  /\ Device[d].length \in {7, 9} /\ Device[d].minBaud \in {9600, 19200}
           /\ Device[d].minBaud = IF d = "tpc" THEN 19200 ELSE 9600
           /\ Device[d].length = IF Device[d].protocol = 4 THEN 7 ELSE 9
           /\ Device[d].protocol \in {0, 4, 5} /\ (Device[d].protocol = 0 <=> d = "tpc")
  BY DeviceFacts DEF P4, P5, TPC

\* The names in the tables and the tablets they stand for.
Names == {"KT-0405", "UD-1212", "CT-0405", "ET-0405", "PL-600", "SX", "GD-0608", "XD-0608"}
Named(d) ==
    CASE d = "art2" -> "KT-0405" [] d = "dig2" -> "UD-1212" [] d = "pp" -> "CT-0405"
      [] d = "gr" -> "ET-0405" [] d = "pl" -> "PL-600" [] d = "int" -> "GD-0608"
      [] d = "int2" -> "XD-0608"

\* Each entry of the tables is of a device that is asked, and its name begins as that
\* of no other device.
LEMMA SubTypeFacts ==
    /\ DOMAIN SubTypes = 1..8
    /\ \A k \in 1..8 :
          /\ SubTypes[k].device \in {"art2", "dig2", "pp", "gr", "pl", "int", "int2"}
          /\ SubTypes[k].ident \in Seq(Names) /\ Len(SubTypes[k].ident) > 0
          /\ SubTypes[k].ident[1] = Named(SubTypes[k].device)
          /\ \A j \in DOMAIN SubTypes[k].ident :
                SubTypes[k].ident[j] \in {Named(SubTypes[k].device), "SX"}
  <1>1. DOMAIN SubTypes = 1..8
    BY DEF SubTypes
  <1> DEFINE Good(t) ==
               /\ t.device \in {"art2", "dig2", "pp", "gr", "pl", "int", "int2"}
               /\ t.ident \in Seq(Names) /\ Len(t.ident) > 0
               /\ t.ident[1] = Named(t.device)
               /\ \A j \in DOMAIN t.ident : t.ident[j] \in {Named(t.device), "SX"}
  <1>2. \A d, n : d \in {"art2", "dig2", "pp", "gr", "pl", "int", "int2"} /\ n \in Names
                  /\ Named(d) = n => Good([device |-> d, ident |-> <<n>>])
    BY DEF Names
  <1>3. Good([device |-> "pl", ident |-> <<"PL-600", "SX">>])
    BY DEF Names, Named
  <1>4. /\ Named("art2") = "KT-0405" /\ Named("dig2") = "UD-1212" /\ Named("pp") = "CT-0405"
        /\ Named("gr") = "ET-0405" /\ Named("pl") = "PL-600" /\ Named("int") = "GD-0608"
        /\ Named("int2") = "XD-0608"
    BY DEF Named
  <1> HIDE DEF Good
  <1>5. /\ Good([device |-> "art2", ident |-> <<"KT-0405">>])
        /\ Good([device |-> "dig2", ident |-> <<"UD-1212">>])
        /\ Good([device |-> "pp", ident |-> <<"CT-0405">>])
        /\ Good([device |-> "gr", ident |-> <<"ET-0405">>])
        /\ Good([device |-> "pl", ident |-> <<"PL-600">>])
        /\ Good([device |-> "int", ident |-> <<"GD-0608">>])
        /\ Good([device |-> "int2", ident |-> <<"XD-0608">>])
    BY <1>2, <1>4 DEF Names
  <1>6. ASSUME NEW k \in 1..8 PROVE Good(SubTypes[k])
    <2>1. k = 1 \/ k = 2 \/ k = 3 \/ k = 4 \/ k = 5 \/ k = 6 \/ k = 7 \/ k = 8
      OBVIOUS
    <2> QED
      BY <1>3, <1>5, <2>1 DEF SubTypes
  <1> QED
    BY <1>1, <1>6 DEF Good

-----------------------------------------------------------------------------
(* Sets of positions and what a line does to a sequence                     *)

\* A set of natural numbers has a least element.
LEMMA LeastNumber ==
    ASSUME NEW T, T \subseteq Nat, T # {}
    PROVE  \E x \in T : \A y \in T : x <= y
  <1> DEFINE R == OpToRel(<, Nat)
  <1>1. IsWellFoundedOn(R, Nat)
    BY NatLessThanWellFounded
  <1>2. \A x, y \in Nat : x < y => <<x, y>> \in R
    BY DEF OpToRel
  <1> HIDE DEF R
  <1>3. PICK x \in T : \A y \in T : ~(<<y, x>> \in R)
    BY <1>1, WFMin, Zenon
  <1>4. ASSUME NEW y \in T PROVE x <= y
    <2>1. x \in Nat /\ y \in Nat /\ ~(y < x)
      BY <1>2, <1>3, Zenon
    <2> QED
      BY <2>1
  <1> QED
    BY <1>4

\* Min and Max of positions are positions of the set.
LEMMA FirstAndLast ==
    ASSUME NEW n \in Nat, NEW T, T \subseteq 1..n, T # {}
    PROVE  Min(T) \in T /\ Max(T) \in T
  <1>0. T \subseteq Nat
    OBVIOUS
  <1>1. \E x \in T : \A y \in T : x =< y
    BY <1>0, LeastNumber
  <1>2. \E x \in T : \A y \in T : x >= y
    <2> DEFINE U == {n - x : x \in T}
    <2>1. U \subseteq Nat /\ U # {}
      <3>1. \A x \in T : x \in Nat /\ n - x \in Nat
        OBVIOUS
      <3> QED
        BY <3>1
    <2>2. PICK u \in U : \A v \in U : u <= v
      <3> HIDE DEF U
      <3> QED
        BY <2>1, LeastNumber
    <2>3. PICK x \in T : u = n - x
      OBVIOUS
    <2>4. \A y \in T : n - y \in U /\ n - x <= n - y
      BY <2>2, <2>3
    <2>5. \A y \in T : x >= y
      BY <2>4
    <2> QED
      BY <2>5
  <1>3. Min(T) \in T
    BY <1>1 DEF Min
  <1>4. Max(T) \in T
    BY <1>2 DEF Max
  <1> QED
    BY <1>3, <1>4

\* A sequence that lost an element, or had one replaced, has no others than before.
LEMMA DamagedSeq ==
    ASSUME NEW S, NEW a \in Seq(S), NEW k \in DOMAIN a, NEW w \in S
    PROVE  RemoveAt(a, k) \in Seq(S) /\ [a EXCEPT ![k] = w] \in Seq(S)
  <1>1. k \in 1..Len(a) /\ Len(a) \in Nat
    OBVIOUS
  <1>2. SubSeq(a, 1, k - 1) \in Seq(S) /\ SubSeq(a, k + 1, Len(a)) \in Seq(S)
    BY <1>1
  <1>3. RemoveAt(a, k) \in Seq(S)
    BY <1>2 DEF RemoveAt
  <1>4. [a EXCEPT ![k] = w] \in Seq(S)
    OBVIOUS
  <1> QED
    BY <1>3, <1>4

-----------------------------------------------------------------------------
(* What is on the line                                                      *)

LEMMA ModelType ==
    ASSUME model \in Tablets
    PROVE  /\ model.device \in DOMAIN Device /\ model.version \in DOMAIN Version
           /\ model.ident \in Seq(Range(model.ident))
           /\ TrueWords \subseteq Words
  <1>1. model.device \in DOMAIN Device /\ model.version \in DOMAIN Version
        /\ model.ident \in Seq(STRING)
    BY IdentAssumption
  <1>2. model.ident \in Seq(Range(model.ident))
    <2> DEFINE s == model.ident
    <2>1. s \in Seq(STRING)
      BY <1>1
    <2> HIDE DEF s
    <2>2. Len(s) \in Nat /\ s = [i \in 1..Len(s) |-> s[i]] /\ DOMAIN s = 1..Len(s)
      BY <2>1
    <2>3. \A i \in 1..Len(s) : s[i] \in Range(s)
      BY <2>2 DEF Range
    <2>4. s \in Seq(Range(s))
      BY <2>2, <2>3
    <2> QED
      BY <2>4 DEF s
  <1>3. TrueWords \subseteq Words
    BY <1>1 DEF TrueWords, Words
  <1> QED
    BY <1>1, <1>2, <1>3

\* A sequence over a set is one over a larger set.
LEMMA SeqMono ==
    ASSUME NEW S, NEW T, S \subseteq T, NEW s \in Seq(S)
    PROVE  s \in Seq(T)
  OBVIOUS

\* Only the empty sequence has no element.
LEMMA EmptyIsShort ==
    ASSUME NEW S, NEW s \in Seq(S)
    PROVE  s = << >> <=> Len(s) = 0
  OBVIOUS

LEMMA AnswerWords ==
    ASSUME model \in Tablets, NEW letter \in {"#", "C"}
    PROVE  Answer(letter) \in Seq(TrueWords)
  <1>1. model.ident \in Seq(TrueWords)
    BY ModelType, SeqMono DEF TrueWords, Said
  <1>2. <<"~", letter>> \in Seq(TrueWords) /\ <<"CR">> \in Seq(TrueWords)
        /\ <<"dims">> \in Seq(TrueWords)
    BY DEF TrueWords, Said
  <1>3. Append(model.ident, model.version) \in Seq(TrueWords)
    <2>1. model.version \in TrueWords
      BY DEF TrueWords
    <2> HIDE DEF TrueWords
    <2> QED
      BY <1>1, <2>1
  <1>4. \A s, t, u \in Seq(TrueWords) : s \o t \o u \in Seq(TrueWords)
    OBVIOUS
  <1> QED
    BY <1>2, <1>3, <1>4 DEF Answer

\* What TabletAnswers puts on the line: nothing but words, and true ones unless the
\* version was damaged.
LEMMA AnswersEffect ==
    ASSUME TypeOK, TabletAnswers
    PROVE  /\ tablet.answers # << >> /\ tablet' = [tablet EXCEPT !.answers = Tail(@)]
           /\ \E a \in Seq(Words) : tty' = tty \o a /\ (disturbed' = TRUE \/ a \in Seq(TrueWords))
           /\ disturbed' = disturbed \/ disturbed' = TRUE
  <1>1. /\ tablet.answers # << >> /\ tablet' = [tablet EXCEPT !.answers = Tail(@)]
        /\ disturbed' = disturbed \/ disturbed' = TRUE
    BY DEF TabletAnswers
  <1> DEFINE a == Head(tablet.answers)
  <1>2. a \in Seq(TrueWords)
    <2>1. tablet.answers \in Seq({Answer("#"), Answer("C")})
      BY DEF TypeOK
    <2>2. a \in {Answer("#"), Answer("C")}
      BY <1>1, <2>1
    <2> HIDE DEF a
    <2> QED
      BY <2>2, AnswerWords DEF TypeOK
  <1>3. /\ TrueWords \subseteq Words /\ "?" \in TrueWords
        /\ "V1.1" \in Words /\ "V1.4" \in Words
    BY ModelType, VersionFacts DEF TypeOK, TrueWords, Words, Said
  <1>4. a \in Seq(Words)
    BY <1>2, <1>3, SeqMono
  <1>5. \/ tty' = tty \o a
        \/ \E k \in DOMAIN a :
              \/ tty' = tty \o RemoveAt(a, k)
              \/ tty' = tty \o [a EXCEPT ![k] = "?"]
              \/ /\ \E v \in {"V1.1", "V1.4"} : tty' = tty \o [a EXCEPT ![k] = v]
                 /\ disturbed' = TRUE
    BY DEF TabletAnswers
  <1> HIDE DEF a
  <1>6. \E b \in Seq(Words) : tty' = tty \o b /\ (disturbed' = TRUE \/ b \in Seq(TrueWords))
    <2>1. CASE tty' = tty \o a
      BY <2>1, <1>2, <1>4
    <2>2. ASSUME NEW k \in DOMAIN a, tty' = tty \o RemoveAt(a, k)
          PROVE  \E b \in Seq(Words) : tty' = tty \o b /\ b \in Seq(TrueWords)
      BY <2>2, <1>2, <1>3, <1>4, DamagedSeq
    <2>3. ASSUME NEW k \in DOMAIN a, tty' = tty \o [a EXCEPT ![k] = "?"]
          PROVE  \E b \in Seq(Words) : tty' = tty \o b /\ b \in Seq(TrueWords)
      <3>1. [a EXCEPT ![k] = "?"] \in Seq(TrueWords)
        BY <1>2, <1>3, DamagedSeq
      <3>2. [a EXCEPT ![k] = "?"] \in Seq(Words)
        BY <1>3, <3>1, SeqMono
      <3> QED
        BY <2>3, <3>1, <3>2
    <2>4. ASSUME NEW k \in DOMAIN a, NEW v \in {"V1.1", "V1.4"},
                 tty' = tty \o [a EXCEPT ![k] = v]
          PROVE  \E b \in Seq(Words) : tty' = tty \o b
      <3>1. v \in Words
        BY <1>3
      <3>2. [a EXCEPT ![k] = v] \in Seq(Words)
        BY <1>4, <3>1, DamagedSeq
      <3> QED
        BY <2>4, <3>2
    <2> QED
      BY <1>5, <2>1, <2>2, <2>3, <2>4
  <1> QED
    BY <1>1, <1>6

-----------------------------------------------------------------------------
(* Types                                                                    *)

\* TypeOK is not inductive: that the answer fits the buffer needs that there is room
\* for one more character while it is read.
RoomInv ==
    /\ pc \in {"header", "header2"} => got = << >>
    /\ pc = "body" => Len(got) < ResponseSize

Speeds == Rates \cup {Off}
TabletType == [speed: Speeds, on: BOOLEAN, tilt: BOOLEAN,
               answers: Seq({Answer("#"), Answer("C")})]

LEMMA FactoryType ==
    ASSUME model \in Tablets
    PROVE  /\ Factory \in TabletType
           /\ Factory.speed = Device[model.device].minBaud /\ Factory.tilt = FALSE
           /\ Factory.answers = << >>
  <1>1. Device[model.device].minBaud \in {9600, 19200}
    BY ModelType, DeviceNumbers
  <1>3. Device[model.device].minBaud \in Speeds
    BY <1>1 DEF Speeds, Rates
  <1>2. << >> \in Seq({Answer("#"), Answer("C")})
    OBVIOUS
  <1> QED
    BY <1>2, <1>3 DEF Factory, TabletType

\* What the tablet becomes when one of its parts changes.
LEMMA TabletUpdates ==
    ASSUME tablet \in TabletType
    PROVE  /\ [tablet EXCEPT !.on = FALSE] \in TabletType
           /\ [tablet EXCEPT !.on = TRUE] \in TabletType
           /\ [tablet EXCEPT !.tilt = TRUE] \in TabletType
           /\ \A q \in Seq({Answer("#"), Answer("C")}) :
                 [tablet EXCEPT !.answers = q] \in TabletType
  <1> DEFINE Queues == Seq({Answer("#"), Answer("C")})
  <1>1. TabletType = [speed: Speeds, on: BOOLEAN, tilt: BOOLEAN, answers: Queues]
    BY DEF TabletType
  <1> HIDE DEF Queues
  <1>2. [tablet EXCEPT !.on = FALSE] \in TabletType /\ [tablet EXCEPT !.on = TRUE] \in TabletType
    BY <1>1
  <1>3. [tablet EXCEPT !.tilt = TRUE] \in TabletType
    BY <1>1
  <1>4. \A q \in Queues : [tablet EXCEPT !.answers = q] \in TabletType
    BY <1>1
  <1> QED
    BY <1>2, <1>3, <1>4 DEF Queues

\* What the device search finds is of a type that is asked.
LEMMA IdentEffect ==
    ASSUME Matches # {}
    PROVE  /\ Min(Matches) \in 1..8 /\ Min(Matches) \in Matches
           /\ SubTypes[Min(Matches)].device \in DOMAIN Device \ {"tpc"}
  <1>1. Matches \subseteq 1..8
    BY SubTypeFacts DEF Matches
  <1>2. Min(Matches) \in Matches
    BY <1>1, FirstAndLast
  <1> QED
    BY <1>1, <1>2, SubTypeFacts, DeviceFacts

\* The words that a version is read from.
LEMMA VersionEffect ==
    ASSUME TypeOK, VersionsIn # {}
    PROVE  /\ Max(VersionsIn) \in DOMAIN got
           /\ got[Max(VersionsIn)] \in DOMAIN Version
  <1>1. VersionsIn \subseteq 1..Len(got) /\ Len(got) \in Nat /\ DOMAIN got = 1..Len(got)
    BY DEF VersionsIn, TypeOK
  <1>2. Max(VersionsIn) \in VersionsIn
    BY <1>1, FirstAndLast
  <1> QED
    BY <1>2 DEF VersionsIn

Pcs == {"find", "tty", "ident", "header", "header2", "body", "identify", "init",
        "initialize", "start", "running", "exited"}
Parsers == {"none", "TabletPC", "V", "IV_1_4", "IV_1_3", "IV_1_2"}

\* TypeOK in parts: the tablet and the line, the port, the program's variables.
LineType == tablet \in TabletType /\ tty \in Seq(Words)
PortType == baud \in Rates /\ bauds \in Seq(Rates)
PcType == pc \in Pcs /\ errno \in {"ETIMEDOUT", "other"}
GotType == cmd \in {"#", "C"} /\ got \in Seq(Words) /\ Len(got) <= ResponseSize
DeviceType ==
    /\ pDevice \in DOMAIN Device \cup {NoDevice} /\ uPacketLength \in {0, 7, 9}
    /\ pfnParse \in Parsers
FlagType == again \in BOOLEAN /\ opened \in BOOLEAN /\ ok \in BOOLEAN /\ disturbed \in BOOLEAN
ExternalType == model \in Tablets /\ requested \in DOMAIN Device \cup {NoDevice}

LEMMA TypeParts ==
    TypeOK <=> /\ ExternalType /\ LineType /\ PortType /\ PcType /\ GotType /\ DeviceType
               /\ FlagType
  BY DEF TypeOK, ExternalType, LineType, PortType, PcType, GotType, DeviceType, FlagType,
         TabletType, Speeds, Pcs, Parsers

\* The tablet stays the one it is, and so does what it can say.
LEMMA SameTablet ==
    ASSUME UNCHANGED external
    PROVE  /\ model' = model /\ requested' = requested /\ Words' = Words /\ TrueWords' = TrueWords
           /\ Said' = Said /\ TabletType' = TabletType /\ (ExternalType => ExternalType')
  BY DEF external, Words, TrueWords, Said, TabletType, Answer, ExternalType

LEMMA NextExternal == [Next]_vars => UNCHANGED external
  BY DEF Next, vars, external, Reset, SerialFindModel, SerialResetAtBaud, SerialSendStop,
         SerialIdentTabletPC, SerialSendRequest, RequestTimeout, ReadHeader, ReadHeader2,
         ReadBody, SerialIdentWacom, SerialInitWacom, SerialSendStart, BitErrors,
         TabletAnswers, PowerCycle

\* The rates that are tried, in the code's order.
LEMMA BaudsType ==
    ASSUME NEW lowest
    PROVE  BaudsFrom(lowest) \in Seq(Rates)
  <1> DEFINE x == <<38400, 19200, 9600>>
             y == <<38400, 19200>>
             z == <<38400>>
  <1>1. x \in Seq(Rates) /\ y \in Seq(Rates) /\ z \in Seq(Rates)
    BY DEF Rates
  <1>2. BaudsFrom(lowest) = x \/ BaudsFrom(lowest) = y \/ BaudsFrom(lowest) = z
    BY DEF BaudsFrom
  <1> HIDE DEF x, y, z
  <1> QED
    BY <1>1, <1>2

LEMMA TypeInit == Init => TypeOK /\ RoomInv
  <1> SUFFICES ASSUME Init PROVE TypeOK /\ RoomInv
    OBVIOUS
  <1>1. ExternalType
    BY IdentAssumption, DeviceFacts DEF Init, ExternalType
  <1>2. LineType
    <2>1. << >> \in Seq({Answer("#"), Answer("C")}) /\ << >> \in Seq(Words)
      OBVIOUS
    <2> DEFINE Queues == Seq({Answer("#"), Answer("C")})
    <2>2. /\ tablet.speed \in Speeds /\ tablet.on \in BOOLEAN /\ tablet.tilt \in BOOLEAN
          /\ tablet.answers = << >>
          /\ tablet = [speed |-> tablet.speed, on |-> tablet.on, tilt |-> tablet.tilt,
                       answers |-> tablet.answers]
      <3>1. LeftAt(model.device) \subseteq Speeds
        BY DEF Speeds, LeftAt
      <3>2. tablet \in [speed: LeftAt(model.device), on: BOOLEAN, tilt: {FALSE}, answers: {<< >>}]
        BY PTL DEF Init
      <3> QED
        BY <3>1, <3>2
    <2>3. tablet.answers \in Queues
      BY <2>1, <2>2
    <2> HIDE DEF Queues
    <2>4. tablet \in [speed: Speeds, on: BOOLEAN, tilt: BOOLEAN, answers: Queues]
      BY <2>2, <2>3
    <2> QED
      BY <2>1, <2>4 DEF Queues, Init, LineType, TabletType
  <1>3. PortType /\ PcType /\ RoomInv
    <2>1. 9600 \in Rates /\ << >> \in Seq(Rates)
      BY DEF Rates
    <2> QED
      BY <2>1 DEF Init, PortType, PcType, RoomInv, Pcs
  <1>6. FlagType
    <2>1. again = FALSE /\ opened = FALSE /\ ok = FALSE /\ disturbed = FALSE
      BY DEF Init
    <2> QED
      BY <2>1, Zenon DEF FlagType
  <1>5. GotType
    <2>1. << >> \in Seq(Words) /\ Len(<< >>) = 0
      OBVIOUS
    <2> QED
      BY <2>1, IdentAssumption DEF Init, GotType
  <1>4. DeviceType
    BY DEF Init, DeviceType, Parsers
  <1> QED
    BY <1>1, <1>2, <1>3, <1>4, <1>5, <1>6, TypeParts

LEMMA TypeNext == TypeOK /\ RoomInv /\ [Next]_vars => TypeOK' /\ RoomInv'
  <1> SUFFICES ASSUME TypeOK, RoomInv, [Next]_vars PROVE TypeOK' /\ RoomInv'
    OBVIOUS
  <1>1. UNCHANGED external
    BY NextExternal
  <1>2. /\ model' = model /\ requested' = requested /\ Words' = Words
        /\ TabletType' = TabletType
    BY <1>1, SameTablet
  <1>3. /\ ExternalType /\ LineType /\ PortType /\ PcType /\ GotType /\ DeviceType
        /\ FlagType
    BY TypeParts
  <1>4. ExternalType'
    BY <1>1, <1>3, SameTablet
  <1>5. ResponseSize \in Nat \ {0}
    BY IdentAssumption
  <1>6. Factory \in TabletType
    BY FactoryType DEF TypeOK
  <1>7. FlagType'
    <2>1. CASE disturbed' = disturbed \/ disturbed' = TRUE \/ disturbed' = FALSE
      BY <1>3, <2>1, Zenon DEF FlagType, Next, Reset, vars, request, SerialFindModel,
         SerialResetAtBaud, SerialSendStop, SerialIdentTabletPC, SerialSendRequest,
         RequestTimeout, RequestFails, ReadHeader, ReadHeader2, ReadBody, SerialIdentWacom,
         SerialInitWacom, SerialSendStart, BitErrors, TabletAnswers, PowerCycle
    <2>2. disturbed' = disturbed \/ disturbed' = TRUE \/ disturbed' = FALSE
      BY DEF Next, Reset, vars, SerialFindModel,
         SerialResetAtBaud, SerialSendStop, SerialIdentTabletPC, SerialSendRequest,
         RequestTimeout, ReadHeader, ReadHeader2, ReadBody, SerialIdentWacom,
         SerialInitWacom, SerialSendStart, BitErrors, TabletAnswers, PowerCycle
    <2> QED
      BY <2>1, <2>2
  <1>8. PortType'
    <2>1. CASE SerialFindModel
      <3>1. BaudsFrom(MinBaud(requested)) \in Seq(Rates)
        BY BaudsType
      <3> QED
        BY <1>3, <2>1, <3>1 DEF SerialFindModel, PortType
    <2>2. CASE SerialResetAtBaud
      BY <1>3, <2>2 DEF SerialResetAtBaud, PortType
    <2>3. CASE UNCHANGED <<baud, bauds>>
      BY <1>3, <2>3 DEF PortType
    <2>4. SerialFindModel \/ SerialResetAtBaud \/ UNCHANGED <<baud, bauds>>
      BY DEF Next, Reset, vars, SerialSendStop, SerialIdentTabletPC, SerialSendRequest,
         RequestTimeout, ReadHeader, ReadHeader2, ReadBody, SerialIdentWacom,
         SerialInitWacom, SerialSendStart, BitErrors, TabletAnswers, PowerCycle
    <2> QED
      BY <2>1, <2>2, <2>3, <2>4
  <1> SUFFICES LineType' /\ PcType' /\ GotType' /\ DeviceType' /\ RoomInv'
    BY <1>4, <1>7, <1>8, TypeParts, PTL
  <1> USE DEF LineType, PcType, GotType, DeviceType, RoomInv, Pcs,
              external, request, device, bounds, FaultHappens, Returns1
  <1>a. CASE UNCHANGED vars
    BY <1>a, <1>2, <1>3 DEF vars
  <1>b. CASE SerialFindModel
    <2>1. requested \in DOMAIN Device \cup {NoDevice}
      BY DEF TypeOK
    <2> QED
      BY <1>b, <1>2, <1>3, <2>1 DEF SerialFindModel
  <1>c. CASE SerialResetAtBaud
    <2>1. tablet' \in TabletType
      BY <1>c, <1>3, <1>6 DEF SerialResetAtBaud
    <2> QED
      BY <1>c, <1>2, <1>3, <2>1 DEF SerialResetAtBaud
  <1>d. CASE SerialSendStop
    <2>1. tablet' \in TabletType
      <3>1. tablet' = tablet \/ tablet' = [tablet EXCEPT !.on = FALSE]
        BY <1>d DEF SerialSendStop
      <3> QED
        BY <1>3, <3>1, TabletUpdates, Zenon
    <2>2. << >> \in Seq(Words)
      OBVIOUS
    <2> QED
      BY <1>d, <1>2, <1>3, <2>1, <2>2 DEF SerialSendStop
  <1>e. CASE SerialIdentTabletPC
    BY <1>e, <1>2, <1>3 DEF SerialIdentTabletPC, TPC, Parsers
  <1>f. ASSUME NEW letter \in {"#", "C"}, SerialSendRequest(letter)
        PROVE  LineType' /\ PcType' /\ GotType' /\ DeviceType' /\ RoomInv'
    <2>1. tablet' \in TabletType
      <3>1. tablet' = tablet \/ tablet' = [tablet EXCEPT !.answers = Append(@, Answer(letter))]
        BY <1>f DEF SerialSendRequest
      <3>2. Answer(letter) \in {Answer("#"), Answer("C")}
        OBVIOUS
      <3>3. Append(tablet.answers, Answer(letter)) \in Seq({Answer("#"), Answer("C")})
        BY <1>3, <3>2 DEF TabletType
      <3> QED
        BY <1>3, <3>1, <3>3, TabletUpdates, Zenon
    <2>2. << >> \in Seq(Words) /\ Len(<< >>) = 0
      OBVIOUS
    <2> QED
      BY <1>f, <1>2, <1>3, <1>5, <2>1, <2>2 DEF SerialSendRequest
  <1>g. CASE RequestTimeout
    BY <1>g, <1>2, <1>3 DEF RequestTimeout, RequestFails
  <1>h. CASE ReadHeader
    BY <1>h, <1>2, <1>3 DEF ReadHeader
  <1>i. CASE ReadHeader2
    BY <1>i, <1>2, <1>3, <1>5 DEF ReadHeader2, RequestFails
  <1>j. CASE ReadBody
    <2>1. Head(tty) \in Words /\ Tail(tty) \in Seq(Words)
      BY <1>j, <1>3 DEF ReadBody
    <2>2. Append(got, Head(tty)) \in Seq(Words) /\ Len(Append(got, Head(tty))) = Len(got) + 1
      BY <2>1, <1>3
    <2>3. LineType' /\ DeviceType'
      BY <1>j, <1>2, <1>3, <2>1 DEF ReadBody
    <2>4. PcType'
      BY <1>j, <1>3 DEF ReadBody, RequestFails
    <2>5. GotType' /\ RoomInv'
      <3>1. CASE Head(tty) = "CR"
        BY <1>j, <1>2, <1>3, <3>1 DEF ReadBody
      <3>2. CASE Head(tty) # "CR"
        <4>1. got' = Append(got, Head(tty)) /\ cmd' = cmd /\ pc = "body"
          BY <1>j, <3>2 DEF ReadBody
        <4>2. GotType'
          BY <1>2, <1>3, <1>5, <2>2, <4>1
        <4>3. RoomInv'
          <5>1. CASE Len(got) + 1 = ResponseSize
            BY <1>j, <3>2, <5>1 DEF ReadBody, RequestFails, BufferFull
          <5>2. CASE Len(got) + 1 # ResponseSize
            BY <1>j, <1>3, <1>5, <2>2, <3>2, <4>1, <5>2 DEF ReadBody, BufferFull
          <5> QED
            BY <5>1, <5>2
        <4> QED
          BY <4>2, <4>3
      <3> QED
        BY <3>1, <3>2
    <2> QED
      BY <2>3, <2>4, <2>5
  <1>k. CASE SerialIdentWacom
    <2>1. Matches # {} => SubTypes[Min(Matches)].device \in DOMAIN Device
      BY IdentEffect
    <2>2. \A d \in DOMAIN Device : Device[d].length \in {0, 7, 9}
      BY DeviceNumbers
    <2>3. DeviceType'
      BY <1>k, <1>3, <2>1, <2>2 DEF SerialIdentWacom
    <2> QED
      BY <1>k, <1>2, <1>3, <2>3 DEF SerialIdentWacom
  <1>l. CASE SerialInitWacom
    <2>1. tablet' \in TabletType
      <3>1. tablet' = tablet \/ tablet' = [tablet EXCEPT !.tilt = TRUE]
        BY <1>l DEF SerialInitWacom
      <3> QED
        BY <1>3, <3>1, TabletUpdates, Zenon
    <2>2. pfnParse' \in Parsers /\ uPacketLength' \in {0, 7, 9}
      BY <1>l, <1>3 DEF SerialInitWacom, ParserIV, InitLength, Parsers
    <2> QED
      BY <1>l, <1>2, <1>3, <2>1, <2>2 DEF SerialInitWacom
  <1>m. CASE SerialSendStart
    <2>1. tablet' \in TabletType
      <3>1. tablet' = tablet \/ tablet' = [tablet EXCEPT !.on = TRUE]
        BY <1>m DEF SerialSendStart
      <3> QED
        BY <1>3, <3>1, TabletUpdates, Zenon
    <2> QED
      BY <1>m, <1>2, <1>3, <2>1 DEF SerialSendStart
  <1>n. CASE BitErrors
    BY <1>n, <1>2, <1>3 DEF BitErrors
  <1>o. CASE TabletAnswers
    <2>1. tablet' \in TabletType
      <3>1. /\ tablet.answers # << >> /\ tablet' = [tablet EXCEPT !.answers = Tail(@)]
            /\ tablet.answers \in Seq({Answer("#"), Answer("C")})
        BY <1>o, <1>3, AnswersEffect DEF TabletType
      <3>2. Tail(tablet.answers) \in Seq({Answer("#"), Answer("C")})
        BY <3>1
      <3> QED
        BY <1>3, <3>1, <3>2, TabletUpdates, Zenon
    <2>2. tty' \in Seq(Words)
      <3>1. PICK a \in Seq(Words) : tty' = tty \o a
        BY <1>o, AnswersEffect
      <3>2. tty \o a \in Seq(Words)
        BY <1>3
      <3> QED
        BY <3>1, <3>2
    <2> QED
      BY <1>o, <1>2, <1>3, <2>1, <2>2 DEF TabletAnswers
  <1>p. CASE PowerCycle
    BY <1>p, <1>2, <1>3, <1>6 DEF PowerCycle
  <1> QED
    BY <1>a, <1>b, <1>c, <1>d, <1>e, <1>f, <1>g, <1>h, <1>i, <1>j, <1>k, <1>l, <1>m, <1>n,
       <1>o, <1>p DEF Next, Reset

\* Every value keeps its type, and whatever the line makes of answers, none is read
\* past the end of the buffer that SerialSendRequest was given.
THEOREM TypeCorrect == Spec => []TypeOK
  <1>1. Spec => [](TypeOK /\ RoomInv)
    BY TypeInit, TypeNext, PTL DEF Spec
  <1> QED
    BY <1>1, PTL

-----------------------------------------------------------------------------
(* The speed                                                                *)

Slowest == Device[model.device].minBaud
Fresh == Hears /\ tablet.tilt = FALSE

Asking == pc \in {"ident", "header", "header2", "body", "identify", "init", "initialize"}

\* The user names a tablet PC for what it is; a tablet that hears nothing says nothing,
\* and one that hears does so at a rate that its device has.
SpeedInv ==
    /\ requested = "tpc" <=> model.device = "tpc"
    /\ tablet.speed = Off => tablet.answers = << >>
    /\ tablet.speed # Off => tablet.speed >= Slowest

\* While the rates are tried the tablet's is still to come, and the last one is that
\* of a tablet that was reset; whoever listened has been reset in the end.
TryInv ==
    pc = "tty" =>
        /\ bauds # << >> => bauds[Len(bauds)] = Slowest
        /\ bauds = << >> => baud = Slowest
        /\ \/ tablet.speed = Off
           \/ \E j \in 1..Len(bauds) : bauds[j] = tablet.speed
           \/ bauds = << >> /\ Fresh

\* From then on it has the port's speed and its packets no tilt, until it is told to
\* send it; without a tablet nothing is read.
HearInv ==
    /\ Asking => tablet.speed = Off \/ Fresh
    /\ pc = "start" => tablet.speed = Off \/ Hears
    /\ pc \in {"ident", "header"} /\ tablet.speed = Off => tty = << >>
    /\ pc \in {"header2", "body", "identify", "init", "initialize"} => tablet.speed # Off
    /\ pc = "header" /\ cmd = "C" => tablet.speed # Off

\* Every rate that a device may have is tried, and its lowest last.
LEMMA BaudsFacts ==
    ASSUME NEW n \in {9600, 19200}
    PROVE  /\ BaudsFrom(n) # << >> /\ Len(BaudsFrom(n)) \in Nat
           /\ BaudsFrom(n)[Len(BaudsFrom(n))] = n
           /\ \A b \in Rates : b >= n => \E j \in 1..Len(BaudsFrom(n)) : BaudsFrom(n)[j] = b
  <1>1. CASE n = 9600
    <2>1. BaudsFrom(n) = <<38400, 19200, 9600>>
      BY <1>1 DEF BaudsFrom
    <2>2. /\ Len(BaudsFrom(n)) = 3 /\ BaudsFrom(n)[1] = 38400 /\ BaudsFrom(n)[2] = 19200
          /\ BaudsFrom(n)[3] = 9600 /\ BaudsFrom(n) # << >>
      BY <2>1
    <2> QED
      BY <1>1, <2>2 DEF Rates
  <1>2. CASE n = 19200
    <2>1. BaudsFrom(n) = <<38400, 19200>>
      BY <1>2 DEF BaudsFrom
    <2>2. /\ Len(BaudsFrom(n)) = 2 /\ BaudsFrom(n)[1] = 38400 /\ BaudsFrom(n)[2] = 19200
          /\ BaudsFrom(n) # << >>
      BY <2>1
    <2> QED
      BY <1>2, <2>2 DEF Rates
  <1> QED
    BY <1>1, <1>2

LEMMA SlowestFacts ==
    ASSUME TypeOK, SpeedInv
    PROVE  /\ Slowest \in {9600, 19200} /\ Slowest \in Rates /\ MinBaud(requested) = Slowest
           /\ \A b \in Rates : b # Off
  <1>1. Slowest = IF model.device = "tpc" THEN 19200 ELSE 9600
    BY ModelType, DeviceNumbers DEF TypeOK, Slowest
  <1>2. requested \in DOMAIN Device \cup {NoDevice}
    BY DEF TypeOK
  <1>3. MinBaud(requested) = IF requested = "tpc" THEN 19200 ELSE 9600
    BY <1>2, DeviceNumbers DEF MinBaud, NoDevice
  <1> QED
    BY <1>1, <1>3 DEF SpeedInv, Rates, Off

\* The parts of the tablet after one of them changed.
LEMMA TabletParts ==
    ASSUME TypeOK
    PROVE  /\ tablet.speed \in Speeds /\ tablet \in TabletType
           /\ tablet.answers \in Seq({Answer("#"), Answer("C")})
           /\ [tablet EXCEPT !.on = TRUE].speed = tablet.speed
           /\ [tablet EXCEPT !.on = TRUE].tilt = tablet.tilt
           /\ [tablet EXCEPT !.on = TRUE].answers = tablet.answers
           /\ [tablet EXCEPT !.on = FALSE].speed = tablet.speed
           /\ [tablet EXCEPT !.on = FALSE].tilt = tablet.tilt
           /\ [tablet EXCEPT !.on = FALSE].answers = tablet.answers
           /\ [tablet EXCEPT !.tilt = TRUE].speed = tablet.speed
           /\ [tablet EXCEPT !.tilt = TRUE].tilt = TRUE
           /\ [tablet EXCEPT !.tilt = TRUE].answers = tablet.answers
           /\ \A q : /\ [tablet EXCEPT !.answers = q].speed = tablet.speed
                     /\ [tablet EXCEPT !.answers = q].tilt = tablet.tilt
                     /\ [tablet EXCEPT !.answers = q].answers = q
  <1>1. tablet \in TabletType
    BY TypeParts DEF LineType
  <1> DEFINE Queues == Seq({Answer("#"), Answer("C")})
  <1>2. tablet \in [speed: Speeds, on: BOOLEAN, tilt: BOOLEAN, answers: Queues]
    BY <1>1 DEF TabletType
  <1> HIDE DEF Queues
  <1>3. tablet.speed \in Speeds /\ tablet.answers \in Queues
    BY <1>2
  <1>4. /\ [tablet EXCEPT !.on = TRUE].speed = tablet.speed
        /\ [tablet EXCEPT !.on = TRUE].tilt = tablet.tilt
        /\ [tablet EXCEPT !.on = TRUE].answers = tablet.answers
        /\ [tablet EXCEPT !.on = FALSE].speed = tablet.speed
        /\ [tablet EXCEPT !.on = FALSE].tilt = tablet.tilt
        /\ [tablet EXCEPT !.on = FALSE].answers = tablet.answers
    BY <1>2
  <1>5. /\ [tablet EXCEPT !.tilt = TRUE].speed = tablet.speed
        /\ [tablet EXCEPT !.tilt = TRUE].tilt = TRUE
        /\ [tablet EXCEPT !.tilt = TRUE].answers = tablet.answers
    BY <1>2
  <1>6. \A q : /\ [tablet EXCEPT !.answers = q].speed = tablet.speed
               /\ [tablet EXCEPT !.answers = q].tilt = tablet.tilt
               /\ [tablet EXCEPT !.answers = q].answers = q
    BY <1>2
  <1> QED
    BY <1>1, <1>3, <1>4, <1>5, <1>6 DEF Queues

LEMMA SpeedInit == Init => SpeedInv /\ TryInv /\ HearInv
  <1> SUFFICES ASSUME Init PROVE SpeedInv /\ TryInv /\ HearInv
    OBVIOUS
  <1>1. TryInv /\ HearInv
    BY DEF Init, TryInv, HearInv, Asking
  <1>2. requested = "tpc" <=> model.device = "tpc"
    BY IdentAssumption DEF Init
  <1>3. tablet.answers = << >> /\ (tablet.speed # Off => tablet.speed >= Slowest)
    BY DEF Init, LeftAt, Slowest
  <1> QED
    BY <1>1, <1>2, <1>3 DEF SpeedInv

\* The rates are tried one by one.
LEMMA TryStep ==
    ASSUME TypeOK, SpeedInv, TryInv, SerialResetAtBaud, UNCHANGED external
    PROVE  SpeedInv' /\ TryInv' /\ HearInv'
  <1> DEFINE h == Head(bauds)
             t == Tail(bauds)
             n == Len(bauds)
  <1>1. /\ pc = "tty" /\ bauds # << >> /\ baud' = h /\ bauds' = t
        /\ tablet' = tablet \/ tablet' = Factory
    BY DEF SerialResetAtBaud
  <1>2. bauds \in Seq(Rates)
    BY DEF TypeOK
  <1>3. /\ n \in Nat \ {0} /\ h = bauds[1] /\ h \in Rates /\ t \in Seq(Rates) /\ Len(t) = n - 1
        /\ (\A j \in 1..(n - 1) : t[j] = bauds[j + 1]) /\ (t = << >> <=> n = 1)
    <2>1. n \in Nat /\ n # 0
      BY <1>1, <1>2
    <2>2. h = bauds[1] /\ h \in Rates
      BY <1>1, <1>2
    <2>3. t \in Seq(Rates) /\ Len(t) = n - 1
      BY <1>1, <1>2
    <2>4. \A j \in 1..(n - 1) : t[j] = bauds[j + 1]
      BY <1>1, <1>2, <2>1
    <2>5. t = << >> <=> Len(t) = 0
      BY <2>3, EmptyIsShort, Zenon
    <2> QED
      BY <2>1, <2>2, <2>3, <2>4, <2>5
  <1>4. /\ Slowest' = Slowest /\ model' = model /\ requested' = requested
        /\ Slowest \in Rates /\ h # Off /\ Slowest # Off
    BY <1>3, SlowestFacts DEF external, Slowest
  <1>5. Factory.speed = Slowest /\ Factory.tilt = FALSE /\ Factory.answers = << >>
    BY FactoryType DEF TypeOK, Slowest
  <1>6. tablet.speed \in Speeds
    BY TabletParts
  <1>a. SpeedInv'
    <2>1. CASE tablet' = tablet
      BY <1>4, <2>1 DEF SpeedInv
    <2>2. CASE tablet' = Factory
      BY <1>4, <1>5, <2>2 DEF SpeedInv, Rates
    <2> QED
      BY <1>1, <2>1, <2>2
  <1>b. CASE pc' # "tty"
    <2>1. pc' \in {"running", "exited"}
      BY <1>b, <1>1 DEF SerialResetAtBaud, Returns1
    <2> QED
      BY <1>a, <1>b, <2>1 DEF TryInv, HearInv, Asking
  <1>c. CASE pc' = "tty"
    <2>1. tablet' = IF tablet.speed = h THEN Factory ELSE tablet
      BY <1>c, <1>1 DEF SerialResetAtBaud, Returns1
    <2>2. bauds[n] = Slowest
      BY <1>1 DEF TryInv
    <2>3. CASE n = 1
      <3>1. t = << >> /\ h = Slowest
        BY <1>3, <2>2, <2>3
      <3>2. tablet.speed = Off \/ tablet.speed = h
        <4>1. tablet.speed = Off \/ \E j \in 1..n : bauds[j] = tablet.speed
          BY <1>1 DEF TryInv
        <4> QED
          BY <1>3, <2>3, <4>1
      <3>3. CASE tablet.speed = Off
        <4>1. tablet' = tablet
          BY <1>4, <2>1, <3>3
        <4> QED
          BY <1>1, <1>4, <1>a, <1>c, <3>1, <3>3, <4>1 DEF TryInv, HearInv, Asking
      <3>4. CASE tablet.speed = h
        <4>1. Fresh'
          BY <1>1, <1>5, <2>1, <3>1, <3>4 DEF Fresh, Hears
        <4> QED
          BY <1>1, <1>4, <1>a, <1>c, <3>1, <4>1 DEF TryInv, HearInv, Asking
      <3> QED
        BY <3>2, <3>3, <3>4
    <2>4. CASE n # 1
      <3>1. t # << >> /\ t[Len(t)] = Slowest /\ Len(t) \in 1..Len(t)
        BY <1>3, <2>2, <2>4
      <3>2. tablet'.speed = Off \/ \E j \in 1..Len(t) : t[j] = tablet'.speed
        <4>1. CASE tablet.speed = Off
          BY <1>4, <2>1, <4>1
        <4>2. CASE tablet.speed = h
          BY <1>5, <2>1, <3>1, <4>2
        <4>3. ASSUME tablet.speed # h, NEW j \in 1..n, bauds[j] = tablet.speed
              PROVE  \E i \in 1..Len(t) : t[i] = tablet'.speed
          <5>1. j # 1 /\ tablet' = tablet
            BY <1>3, <2>1, <4>3
          <5>2. j - 1 \in 1..Len(t) /\ t[j - 1] = bauds[j]
            BY <1>3, <5>1
          <5> QED
            BY <4>3, <5>1, <5>2
        <4> QED
          BY <1>1, <4>1, <4>2, <4>3 DEF TryInv
      <3> QED
        BY <1>1, <1>4, <1>a, <1>c, <3>1, <3>2 DEF TryInv, HearInv, Asking
    <2> QED
      BY <2>3, <2>4
  <1> QED
    BY <1>a, <1>b, <1>c

LEMMA SpeedNext ==
    TypeOK /\ SpeedInv /\ TryInv /\ HearInv /\ [Next]_vars => (SpeedInv /\ TryInv /\ HearInv)'
  <1> SUFFICES ASSUME TypeOK, SpeedInv, TryInv, HearInv, [Next]_vars
               PROVE  SpeedInv' /\ TryInv' /\ HearInv'
    OBVIOUS
  <1>1. UNCHANGED external /\ model' = model /\ requested' = requested /\ Slowest' = Slowest
    BY NextExternal, SameTablet DEF Slowest
  <1>2. /\ baud \in Rates /\ bauds \in Seq(Rates) /\ tablet.speed \in Speeds
        /\ Slowest \in Rates /\ \A b \in Rates : b # Off
    BY SlowestFacts, TabletParts DEF TypeOK
  <1>3. ASSUME tablet'.speed = tablet.speed, tablet'.speed = Off => tablet'.answers = << >>
        PROVE  SpeedInv'
    BY <1>1, <1>3 DEF SpeedInv
  <1>4. ASSUME tablet'.speed = tablet.speed, tablet'.answers = tablet.answers
        PROVE  SpeedInv'
    BY <1>1, <1>4 DEF SpeedInv
  <1> USE DEF Asking, request, Returns1
  <1>a. CASE UNCHANGED vars
    BY <1>1, <1>4, <1>a DEF vars, TryInv, HearInv, Fresh, Hears
  <1>b. CASE SerialFindModel
    <2>1. /\ pc' = "tty" /\ tablet' = tablet /\ bauds' = BaudsFrom(Slowest)
      BY <1>b, SlowestFacts DEF SerialFindModel
    <2>2. /\ bauds' # << >> /\ bauds'[Len(bauds')] = Slowest
          /\ \A b \in Rates : b >= Slowest => \E j \in 1..Len(bauds') : bauds'[j] = b
      BY <2>1, SlowestFacts, BaudsFacts
    <2>3. tablet.speed = Off \/ (tablet.speed \in Rates /\ tablet.speed >= Slowest)
      BY <1>2 DEF SpeedInv, Speeds
    <2>4. tablet'.speed = Off \/ \E j \in 1..Len(bauds') : bauds'[j] = tablet'.speed
      BY <2>1, <2>2, <2>3
    <2> QED
      BY <1>1, <1>4, <2>1, <2>2, <2>4 DEF TryInv, HearInv
  <1>c. CASE SerialResetAtBaud
    BY <1>1, <1>c, TryStep
  <1>d. CASE SerialSendStop
    <2>1. tablet' = tablet \/ tablet' = [tablet EXCEPT !.on = FALSE]
      BY <1>d DEF SerialSendStop
    <2>2. /\ tablet'.speed = tablet.speed /\ tablet'.tilt = tablet.tilt
          /\ tablet'.answers = tablet.answers
      BY <2>1, TabletParts, Zenon
    <2>3. /\ pc = "tty" /\ bauds = << >> /\ baud' = baud
          /\ (pc' = "ident" /\ tty' = << >>) \/ pc' \in {"running", "exited"}
      BY <1>d DEF SerialSendStop
    <2>4. tablet.speed = Off \/ Fresh
      BY <2>3 DEF TryInv
    <2> QED
      BY <1>4, <2>2, <2>3, <2>4 DEF TryInv, HearInv, Fresh, Hears
  <1>e. CASE SerialIdentTabletPC
    BY <1>4, <1>e DEF SerialIdentTabletPC, TryInv, HearInv, Fresh, Hears
  <1>f. ASSUME NEW letter \in {"#", "C"}, SerialSendRequest(letter)
        PROVE  SpeedInv' /\ TryInv' /\ HearInv'
    <2>1. \/ tablet' = tablet
          \/ Hears /\ tablet' = [tablet EXCEPT !.answers = Append(@, Answer(letter))]
      BY <1>f DEF SerialSendRequest
    <2>2. /\ tablet'.speed = tablet.speed /\ tablet'.tilt = tablet.tilt
          /\ tablet'.answers = tablet.answers \/ Hears
      <3>1. CASE tablet' = tablet
        BY <3>1
      <3>2. CASE Hears /\ tablet' = [tablet EXCEPT !.answers = Append(@, Answer(letter))]
        BY <3>2, TabletParts, Zenon
      <3> QED
        BY <2>1, <3>1, <3>2
    <2>3. tablet'.speed = Off => tablet'.answers = << >>
      BY <1>2, <2>2 DEF Hears, SpeedInv
    <2>4. /\ (pc = "ident" /\ letter = "#") \/ (pc = "init" /\ letter = "C")
          /\ cmd' = letter /\ baud' = baud /\ tty' = tty
          /\ pc' = "header" \/ pc' \in {"running", "exited"}
      BY <1>f DEF SerialSendRequest
    <2> QED
      BY <1>3, <2>2, <2>3, <2>4 DEF TryInv, HearInv, Fresh, Hears
  <1>g. CASE RequestTimeout
    BY <1>4, <1>g DEF RequestTimeout, RequestFails, TryInv, HearInv, Fresh, Hears
  <1>h. CASE ReadHeader
    BY <1>4, <1>h DEF ReadHeader, TryInv, HearInv, Fresh, Hears
  <1>i. CASE ReadHeader2
    BY <1>4, <1>i DEF ReadHeader2, RequestFails, TryInv, HearInv, Fresh, Hears
  <1>j. CASE ReadBody
    BY <1>4, <1>j DEF ReadBody, RequestFails, TryInv, HearInv, Fresh, Hears
  <1>k. CASE SerialIdentWacom
    BY <1>4, <1>k DEF SerialIdentWacom, TryInv, HearInv, Fresh, Hears
  <1>l. CASE SerialInitWacom
    <2>1. tablet' = tablet \/ tablet' = [tablet EXCEPT !.tilt = TRUE]
      BY <1>l DEF SerialInitWacom
    <2>2. tablet'.speed = tablet.speed /\ tablet'.answers = tablet.answers
      BY <2>1, TabletParts, Zenon
    <2>3. pc = "initialize" /\ pc' \in {"start", "running", "exited"} /\ baud' = baud
      BY <1>l DEF SerialInitWacom
    <2> QED
      BY <1>4, <2>2, <2>3 DEF TryInv, HearInv, Fresh, Hears
  <1>m. CASE SerialSendStart
    <2>1. tablet' = tablet \/ tablet' = [tablet EXCEPT !.on = TRUE]
      BY <1>m DEF SerialSendStart
    <2>2. tablet'.speed = tablet.speed /\ tablet'.answers = tablet.answers
      BY <2>1, TabletParts, Zenon
    <2> QED
      BY <1>4, <1>m, <2>2 DEF SerialSendStart, TryInv, HearInv
  <1>n. CASE BitErrors
    BY <1>4, <1>n DEF BitErrors, TryInv, HearInv
  <1>o. CASE TabletAnswers
    <2>1. tablet.answers # << >> /\ tablet' = [tablet EXCEPT !.answers = Tail(@)]
      BY <1>o, AnswersEffect
    <2>2. tablet'.speed = tablet.speed /\ tablet'.tilt = tablet.tilt
      BY <2>1, TabletParts, Zenon
    <2>3. tablet.speed # Off
      BY <2>1 DEF SpeedInv
    <2>4. pc' = pc /\ bauds' = bauds /\ baud' = baud /\ cmd' = cmd
      BY <1>o DEF TabletAnswers
    <2> QED
      BY <1>1, <1>3, <2>2, <2>3, <2>4 DEF TryInv, HearInv, Fresh, Hears
  <1>p. CASE PowerCycle
    <2>1. pc = "running" /\ pc' = pc /\ tablet' = Factory
      BY <1>p DEF PowerCycle
    <2>2. Factory.speed = Slowest
      BY FactoryType DEF TypeOK, Slowest
    <2>3. SpeedInv'
      BY <1>1, <1>2, <2>1, <2>2 DEF SpeedInv, Rates
    <2> QED
      BY <2>1, <2>3 DEF TryInv, HearInv
  <1> QED
    BY <1>a, <1>b, <1>c, <1>d, <1>e, <1>f, <1>g, <1>h, <1>i, <1>j, <1>k, <1>l, <1>m, <1>n,
       <1>o, <1>p DEF Next, Reset

-----------------------------------------------------------------------------
(* The answers                                                              *)

Asked == pc \in {"header", "header2", "body"}
Identifying == pc = "identify" \/ (Asked /\ cmd = "#")
Identified == pc \in {"init", "initialize"} \/ (Asked /\ cmd = "C")

\* What is read is true as long as no version was damaged: whatever was on the line
\* before is flushed, and what an earlier question left is of the same tablet.
WordInv ==
    /\ Asking /\ ~disturbed => tty \in Seq(TrueWords)
    /\ Identifying /\ ~disturbed => got \in Seq(TrueWords)

LEMMA WordInit == Init => WordInv
  BY DEF Init, WordInv, Asking, Identifying, Asked

LEMMA WordNext == TypeOK /\ WordInv /\ [Next]_vars => WordInv'
  <1> SUFFICES ASSUME TypeOK, WordInv, [Next]_vars PROVE WordInv'
    OBVIOUS
  <1>1. TrueWords' = TrueWords
    BY NextExternal, SameTablet
  <1>2. << >> \in Seq(TrueWords)
    OBVIOUS
  <1>3. disturbed \in BOOLEAN /\ cmd \in {"#", "C"}
    BY DEF TypeOK
  <1>4. ASSUME tty # << >>, tty \in Seq(TrueWords)
        PROVE  Head(tty) \in TrueWords /\ Tail(tty) \in Seq(TrueWords)
    <2> HIDE DEF TrueWords
    <2> QED
      BY <1>4
  <1> USE DEF WordInv, Asking, Identifying, Asked, request, Returns1
  <1>a. CASE UNCHANGED vars
    BY <1>1, <1>a DEF vars
  <1>b. CASE SerialFindModel
    BY <1>b DEF SerialFindModel
  <1>c. CASE SerialResetAtBaud
    BY <1>1, <1>c DEF SerialResetAtBaud
  <1>d. CASE SerialSendStop
    BY <1>1, <1>2, <1>d DEF SerialSendStop
  <1>e. CASE SerialIdentTabletPC
    BY <1>e DEF SerialIdentTabletPC
  <1>f. ASSUME NEW letter \in {"#", "C"}, SerialSendRequest(letter)
        PROVE  WordInv'
    BY <1>1, <1>2, <1>f DEF SerialSendRequest
  <1>g. CASE RequestTimeout
    BY <1>1, <1>g DEF RequestTimeout, RequestFails
  <1>h. CASE ReadHeader
    BY <1>1, <1>4, <1>h DEF ReadHeader
  <1>i. CASE ReadHeader2
    BY <1>1, <1>4, <1>i DEF ReadHeader2, RequestFails
  <1>j. CASE ReadBody
    <2>1. pc = "body" /\ tty # << >> /\ tty' = Tail(tty) /\ disturbed' = disturbed /\ cmd' = cmd
      BY <1>j DEF ReadBody
    <2>2. pc' = "identify" => cmd = "#"
      BY <1>j DEF ReadBody, RequestFails
    <2>3. got' = got \/ got' = Append(got, Head(tty))
      BY <1>j DEF ReadBody
    <2>4. ASSUME got \in Seq(TrueWords), Head(tty) \in TrueWords
          PROVE  got' \in Seq(TrueWords)
      <3> HIDE DEF TrueWords
      <3> QED
        BY <2>3, <2>4
    <2>5. CASE disturbed
      BY <2>1, <2>5
    <2>6. CASE ~disturbed
      <3>1. tty \in Seq(TrueWords) /\ (cmd = "#" => got \in Seq(TrueWords))
        BY <2>1, <2>6
      <3> QED
        BY <1>1, <1>4, <2>1, <2>2, <2>4, <2>6, <3>1
    <2> QED
      BY <2>5, <2>6
  <1>k. CASE SerialIdentWacom
    BY <1>1, <1>k DEF SerialIdentWacom
  <1>l. CASE SerialInitWacom
    BY <1>l DEF SerialInitWacom
  <1>m. CASE SerialSendStart
    BY <1>m DEF SerialSendStart
  <1>n. CASE BitErrors
    BY <1>n DEF BitErrors
  <1>o. CASE TabletAnswers
    <2>1. PICK a \in Seq(Words) : tty' = tty \o a /\ (disturbed' = TRUE \/ a \in Seq(TrueWords))
      BY <1>o, AnswersEffect
    <2>2. pc' = pc /\ cmd' = cmd /\ got' = got /\ (disturbed' = disturbed \/ disturbed' = TRUE)
      BY <1>o, AnswersEffect DEF TabletAnswers
    <2>3. CASE disturbed' = TRUE
      BY <2>3
    <2>4. CASE disturbed' # TRUE
      <3>1. disturbed' = disturbed /\ a \in Seq(TrueWords)
        BY <2>1, <2>2, <2>4
      <3>2. ASSUME tty \in Seq(TrueWords) PROVE tty' \in Seq(TrueWords)
        <4> HIDE DEF TrueWords
        <4> QED
          BY <2>1, <3>1, <3>2
      <3> QED
        BY <1>1, <2>2, <3>1, <3>2
    <2> QED
      BY <2>3, <2>4
  <1>p. CASE PowerCycle
    BY <1>p DEF PowerCycle
  <1> QED
    BY <1>a, <1>b, <1>c, <1>d, <1>e, <1>f, <1>g, <1>h, <1>i, <1>j, <1>k, <1>l, <1>m, <1>n,
       <1>o, <1>p DEF Next, Reset

\* A tablet that is asked has a name of the tables, and no part of that is a version.
LEMMA ModelNamed ==
    ASSUME model \in Tablets, model.device # "tpc"
    PROVE  /\ model.device \in {"art2", "dig2", "pp", "gr", "pl", "int", "int2"}
           /\ Range(model.ident) \subseteq {Named(model.device), "SX"}
           /\ Range(model.ident) \subseteq Names
  <1>1. PICK k \in 1..8 : SubTypes[k] = [device |-> model.device, ident |-> model.ident]
    BY IdentAssumption, SubTypeFacts
  <1>2. SubTypes[k].device = model.device /\ SubTypes[k].ident = model.ident
    BY <1>1
  <1>3. /\ model.device \in {"art2", "dig2", "pp", "gr", "pl", "int", "int2"}
        /\ \A j \in DOMAIN model.ident : model.ident[j] \in {Named(model.device), "SX"}
    BY <1>2, SubTypeFacts, Zenon
  <1>4. Named(model.device) \in Names /\ "SX" \in Names
    BY <1>3 DEF Named, Names
  <1> QED
    BY <1>3, <1>4 DEF Range

\* The table entry that is found for whatever was read is one of the tablet's device.
LEMMA FoundIsModel ==
    ASSUME TypeOK, model.device # "tpc", Matches # {}
    PROVE  SubTypes[Min(Matches)].device = model.device
  <1> DEFINE k == Min(Matches)
             s == SubTypes[k].ident
             d == SubTypes[k].device
  <1>1. k \in 1..8 /\ IsPrefix(s, got)
    BY IdentEffect DEF Matches
  <1>2. /\ s \in Seq(Names) /\ Len(s) > 0 /\ s[1] = Named(d)
        /\ d \in {"art2", "dig2", "pp", "gr", "pl", "int", "int2"}
    BY <1>1, SubTypeFacts
  <1>3. got[1] = s[1] /\ got[1] \in Words
    <2> HIDE DEF s, d, k, Words
    <2>1. got \in Seq(Words)
      BY DEF TypeOK
    <2>2. Len(s) <= Len(got) /\ SubSeq(s, 1, Len(s)) = SubSeq(got, 1, Len(s))
      BY <1>1 DEF IsPrefix
    <2>3. SubSeq(s, 1, Len(s))[1] = s[1]
      BY <1>2
    <2>4. SubSeq(got, 1, Len(s))[1] = got[1] /\ got[1] \in Words
      BY <1>2, <2>1, <2>2
    <2> QED
      BY <2>2, <2>3, <2>4
  <1>4. /\ model.device \in {"art2", "dig2", "pp", "gr", "pl", "int", "int2"}
        /\ Range(model.ident) \subseteq {Named(model.device), "SX"}
    BY ModelNamed DEF TypeOK
  <1> HIDE DEF s, d, k
  <1>5. Named(d) \in {"~", "#", "C", "CR", "dims", "?", Named(model.device), "SX",
                      "V1.1", "V1.2", "V1.3", "V1.4", "V2.0"}
    BY <1>2, <1>3, <1>4, VersionFacts DEF Words, Said
  <1>6. Named(d) = Named(model.device)
    BY <1>2, <1>5 DEF Named
  <1>7. d = model.device
    BY <1>2, <1>4, <1>6 DEF Named
  <1> QED
    BY <1>7 DEF d, k

\* The last version in an answer of true words is the tablet's.
LEMMA ReadVersion ==
    ASSUME TypeOK, model.device # "tpc", got \in Seq(TrueWords), VersionsIn # {}
    PROVE  got[Max(VersionsIn)] = model.version
  <1> DEFINE w == got[Max(VersionsIn)]
  <1>1. Max(VersionsIn) \in DOMAIN got /\ w \in DOMAIN Version
    BY VersionEffect
  <1>2. w \in TrueWords
    <2> HIDE DEF TrueWords
    <2> QED
      BY <1>1
  <1>3. Range(model.ident) \subseteq Names
    BY ModelNamed DEF TypeOK
  <1> HIDE DEF w
  <1>4. w = model.version
    BY <1>1, <1>2, <1>3, VersionFacts DEF TrueWords, Said, Names
  <1> QED
    BY <1>4 DEF w

-----------------------------------------------------------------------------
(* The device                                                               *)

Family ==
    IF model.device = "tpc" THEN {"TabletPC"}
    ELSE IF Device[model.device].protocol = 5 THEN {"V"}
    ELSE {"IV_1_2", "IV_1_3", "IV_1_4"}

\* The device is the one named until an answer tells, and that can only be the true one.
AskedInv ==
    /\ pc \in {"tty", "ident"} \/ Identifying => pDevice = requested
    /\ Identifying \/ Identified => requested # "tpc"
    /\ Identified => pDevice = model.device /\ uPacketLength = Device[model.device].length
    /\ Identified /\ ~disturbed => nVer = Version[model.version]

\* A parser of an earlier reset is one of the tablet's protocol.
ParserInv == pfnParse \in {"none"} \cup Family

\* What SetUpFits says holds before the start is sent; a reset that fails is not called
\* set up.
StartInv ==
    /\ pc \notin {"find", "running"} => ~ok
    /\ pc = "start" /\ ~disturbed =>
          /\ pDevice = model.device /\ pfnParse \in RightParser /\ uPacketLength = TabletLength
          /\ requested = "tpc" \/ Hears

\* The parser that SerialInitWacom chooses for a tablet whose version was read.
LEMMA ParserIsRight ==
    ASSUME TypeOK, ParserInv, model.device # "tpc"
    PROVE  /\ Device[model.device].protocol = 5 => "V" \in RightParser /\ "V" \in Family
           /\ Device[model.device].protocol # 5 =>
                 /\ ParserIV(Version[model.version]) \in RightParser
                 /\ \A v : ParserIV(v) \in {"none"} \cup Family
  <1> DEFINE p == Device[model.device].protocol
  <1>1. model.version \in {"V1.1", "V1.2", "V1.3", "V1.4", "V2.0"}
    BY ModelType, VersionFacts DEF TypeOK
  <1>2. CASE p = 5
    BY <1>2 DEF RightParser, Family
  <1>3. CASE p # 5
    <2>1. Family = {"IV_1_2", "IV_1_3", "IV_1_4"}
      BY <1>3 DEF Family
    <2>2. pfnParse \in {"none", "IV_1_4", "IV_1_3", "IV_1_2"}
      BY <2>1 DEF ParserInv
    <2>3. \A v : ParserIV(v) \in {"none"} \cup Family
      BY <2>1, <2>2 DEF ParserIV
    <2>4. ParserIV(Version[model.version]) \in RightParser
      <3>1. CASE model.version = "V1.1"
        BY <1>3, <3>1, VersionFacts DEF RightParser, ParserIV
      <3>2. CASE model.version = "V1.2"
        BY <1>3, <3>2, VersionFacts DEF RightParser, ParserIV
      <3>3. CASE model.version = "V1.3"
        BY <1>3, <3>3, VersionFacts DEF RightParser, ParserIV
      <3>4. CASE model.version = "V1.4"
        BY <1>3, <3>4, VersionFacts DEF RightParser, ParserIV
      <3>5. CASE model.version = "V2.0"
        BY <1>3, <2>2, <3>5, VersionFacts DEF RightParser, ParserIV
      <3> QED
        BY <1>1, <3>1, <3>2, <3>3, <3>4, <3>5
    <2> QED
      BY <1>3, <2>3, <2>4
  <1> QED
    BY <1>2, <1>3

\* The state that SetUpFits and the invariants above look at.
DeviceInv == AskedInv /\ ParserInv /\ StartInv /\ SetUpFits

LEMMA DeviceInit == Init => DeviceInv
  BY DEF Init, DeviceInv, AskedInv, ParserInv, StartInv, SetUpFits, Identifying, Identified,
         Asked

\* What does not change: the tablet, and what is right for it.
LEMMA SameModel ==
    ASSUME [Next]_vars
    PROVE  /\ model' = model /\ requested' = requested /\ Family' = Family
           /\ RightParser' = RightParser
           /\ tablet'.tilt = tablet.tilt => TabletLength' = TabletLength
  BY NextExternal, SameTablet DEF Family, RightParser, TabletLength

LEMMA DeviceNext ==
    TypeOK /\ SpeedInv /\ HearInv /\ WordInv /\ DeviceInv /\ [Next]_vars => DeviceInv'
  <1> SUFFICES ASSUME TypeOK, SpeedInv, HearInv, WordInv, DeviceInv, [Next]_vars
               PROVE  DeviceInv'
    OBVIOUS
  <1>1. /\ model' = model /\ requested' = requested /\ Family' = Family
        /\ RightParser' = RightParser
        /\ tablet'.tilt = tablet.tilt => TabletLength' = TabletLength
    BY SameModel
  <1>2. AskedInv /\ ParserInv /\ StartInv /\ SetUpFits /\ (requested = "tpc" <=> model.device = "tpc")
    BY DEF DeviceInv, SpeedInv
  <1>3. disturbed \in BOOLEAN /\ cmd \in {"#", "C"} /\ ok \in BOOLEAN /\ opened \in BOOLEAN
    BY DEF TypeOK
  <1> SUFFICES AskedInv' /\ ParserInv' /\ StartInv' /\ SetUpFits'
    BY DEF DeviceInv
  <1> USE DEF Identifying, Identified, Asked, request, device, Returns1
  <1>4. ASSUME UNCHANGED device PROVE ParserInv'
    BY <1>1, <1>2, <1>4 DEF ParserInv
  <1>5. ASSUME pc' \in {"running", "exited"}, pc \notin {"find", "running"}, ok' = ok
        PROVE  AskedInv' /\ StartInv' /\ SetUpFits'
    BY <1>2, <1>5 DEF AskedInv, StartInv, SetUpFits
  <1>a. CASE UNCHANGED vars
    BY <1>1, <1>2, <1>4, <1>a DEF vars, AskedInv, StartInv, SetUpFits, Fits, Hears
  <1>b. CASE SerialFindModel
    BY <1>1, <1>2, <1>b DEF SerialFindModel, AskedInv, ParserInv, StartInv, SetUpFits
  <1>c. CASE SerialResetAtBaud
    <2>1. pc = "tty" /\ UNCHANGED device /\ ok' = ok /\ (pc' = pc \/ pc' \in {"running", "exited"})
      BY <1>c DEF SerialResetAtBaud
    <2> QED
      BY <1>1, <1>2, <1>4, <1>5, <2>1 DEF AskedInv, StartInv, SetUpFits
  <1>d. CASE SerialSendStop
    <2>1. /\ pc = "tty" /\ UNCHANGED device /\ ok' = ok
          /\ pc' = "ident" \/ pc' \in {"running", "exited"}
      BY <1>d DEF SerialSendStop
    <2> QED
      BY <1>1, <1>2, <1>4, <1>5, <2>1 DEF AskedInv, StartInv, SetUpFits
  <1>e. CASE SerialIdentTabletPC
    <2>1. /\ pc = "ident" /\ pDevice = "tpc" /\ pDevice' = pDevice /\ uPacketLength' = 9
          /\ pfnParse' = "TabletPC" /\ pc' = "start" /\ ok' = ok /\ tablet' = tablet
      BY <1>e DEF SerialIdentTabletPC, TPC
    <2>2. requested = "tpc" /\ model.device = "tpc"
      BY <1>2, <2>1 DEF AskedInv
    <2>3. TabletLength = 9
      BY <2>2, DeviceFacts DEF TabletLength, TPC
    <2> QED
      BY <1>1, <1>2, <2>1, <2>2, <2>3
         DEF AskedInv, ParserInv, StartInv, SetUpFits, Family, RightParser
  <1>f. ASSUME NEW letter \in {"#", "C"}, SerialSendRequest(letter)
        PROVE  AskedInv' /\ ParserInv' /\ StartInv' /\ SetUpFits'
    <2>1. /\ (pc = "ident" /\ pDevice # "tpc" /\ letter = "#") \/ (pc = "init" /\ letter = "C")
          /\ cmd' = letter /\ UNCHANGED device /\ ok' = ok /\ disturbed' = disturbed
          /\ pc' = "header" \/ pc' \in {"running", "exited"}
      BY <1>f DEF SerialSendRequest
    <2> QED
      BY <1>1, <1>2, <1>4, <1>5, <2>1 DEF AskedInv, StartInv, SetUpFits
  <1>g. CASE RequestTimeout
    <2>1. /\ pc = "header" /\ UNCHANGED device /\ ok' = ok /\ cmd' = cmd /\ disturbed' = disturbed
          /\ (cmd = "#" /\ pc' = "ident") \/ pc' \in {"running", "exited"}
      BY <1>g DEF RequestTimeout, RequestFails
    <2> QED
      BY <1>1, <1>2, <1>4, <1>5, <2>1 DEF AskedInv, StartInv, SetUpFits
  <1>h. CASE ReadHeader
    <2>1. /\ pc = "header" /\ UNCHANGED device /\ ok' = ok /\ cmd' = cmd /\ disturbed' = disturbed
          /\ pc' \in {"header", "header2"}
      BY <1>h DEF ReadHeader
    <2> QED
      BY <1>1, <1>2, <1>4, <2>1 DEF AskedInv, StartInv, SetUpFits
  <1>i. CASE ReadHeader2
    <2>1. /\ pc = "header2" /\ UNCHANGED device /\ ok' = ok /\ cmd' = cmd /\ disturbed' = disturbed
          /\ pc' = "body" \/ (cmd = "#" /\ pc' = "ident") \/ pc' \in {"running", "exited"}
      BY <1>i DEF ReadHeader2, RequestFails
    <2> QED
      BY <1>1, <1>2, <1>4, <1>5, <2>1 DEF AskedInv, StartInv, SetUpFits
  <1>j. CASE ReadBody
    <2>1. /\ pc = "body" /\ UNCHANGED device /\ ok' = ok /\ cmd' = cmd /\ disturbed' = disturbed
          /\ \/ pc' = "body" \/ (cmd = "#" /\ pc' = "identify")
             \/ (cmd # "#" /\ pc' = "initialize") \/ pc' \in {"running", "exited"}
      BY <1>j DEF ReadBody, RequestFails
    <2> QED
      BY <1>1, <1>2, <1>3, <1>4, <1>5, <2>1 DEF AskedInv, StartInv, SetUpFits
  <1>k. CASE SerialIdentWacom
    <2>1. pc = "identify" /\ pfnParse' = pfnParse /\ ok' = ok /\ disturbed' = disturbed
      BY <1>k DEF SerialIdentWacom
    <2>2. ParserInv'
      BY <1>1, <1>2, <2>1 DEF ParserInv
    <2>3. CASE pc' \in {"running", "exited"}
      BY <1>5, <2>1, <2>2, <2>3
    <2>4. CASE pc' \notin {"running", "exited"}
      <3>1. /\ Matches # {} /\ VersionsIn # {} /\ pc' = "init"
            /\ pDevice' = SubTypes[Min(Matches)].device
            /\ uPacketLength' = Device[pDevice'].length
            /\ nVer' = Version[got[Max(VersionsIn)]]
        BY <1>k, <2>4 DEF SerialIdentWacom
      <3>2. requested # "tpc" /\ model.device # "tpc"
        BY <1>2, <2>1 DEF AskedInv
      <3>3. pDevice' = model.device
        BY <3>1, <3>2, FoundIsModel
      <3>4. ~disturbed => nVer' = Version[model.version]
        BY <2>1, <3>1, <3>2, ReadVersion DEF WordInv
      <3> QED
        BY <1>1, <1>2, <2>1, <2>2, <3>1, <3>2, <3>3, <3>4 DEF AskedInv, StartInv, SetUpFits
    <2> QED
      BY <2>3, <2>4
  <1>m. CASE SerialSendStart
    <2>1. /\ pc = "start" /\ pc' = "running" /\ UNCHANGED device /\ baud' = baud
          /\ disturbed' = disturbed /\ (tablet' = tablet \/ tablet' = [tablet EXCEPT !.on = TRUE])
      BY <1>m DEF SerialSendStart
    <2>2. tablet'.speed = tablet.speed /\ tablet'.tilt = tablet.tilt
      BY <2>1, TabletParts, Zenon
    <2>3. tablet.speed = Off \/ Hears
      BY <2>1 DEF HearInv
    <2>4. SetUpFits'
      BY <1>1, <1>2, <2>1, <2>2, <2>3 DEF StartInv, SetUpFits, Fits, Hears
    <2> QED
      BY <1>4, <2>1, <2>4 DEF AskedInv, StartInv
  <1>n. CASE BitErrors
    BY <1>1, <1>2, <1>4, <1>n DEF BitErrors, AskedInv, StartInv, SetUpFits
  <1>o. CASE TabletAnswers
    <2>1. /\ tablet' = [tablet EXCEPT !.answers = Tail(@)]
          /\ disturbed' = disturbed \/ disturbed' = TRUE
      BY <1>o, AnswersEffect
    <2>2. tablet'.speed = tablet.speed /\ tablet'.tilt = tablet.tilt
      BY <2>1, TabletParts, Zenon
    <2>3. UNCHANGED device /\ pc' = pc /\ ok' = ok /\ baud' = baud /\ cmd' = cmd
      BY <1>o DEF TabletAnswers
    <2> QED
      BY <1>1, <1>2, <1>3, <1>4, <2>1, <2>2, <2>3 DEF AskedInv, StartInv, SetUpFits, Fits, Hears
  <1>p. CASE PowerCycle
    BY <1>4, <1>p DEF PowerCycle, AskedInv, StartInv, SetUpFits
  <1>l. CASE SerialInitWacom
    <2>1. /\ pc = "initialize" /\ pDevice' = pDevice /\ nVer' = nVer /\ ok' = ok
          /\ disturbed' = disturbed /\ baud' = baud
      BY <1>l DEF SerialInitWacom
    <2>2. /\ requested # "tpc" /\ model.device # "tpc" /\ pDevice = model.device
          /\ uPacketLength = Device[model.device].length
          /\ ~disturbed => nVer = Version[model.version]
      BY <1>2, <2>1 DEF AskedInv
    <2>3. CASE pc' \in {"running", "exited"}
      <3>1. pfnParse' = pfnParse
        BY <1>l, <2>3 DEF SerialInitWacom
      <3> QED
        BY <1>1, <1>2, <1>5, <2>1, <2>3, <3>1 DEF ParserInv
    <2>4. CASE pc' \notin {"running", "exited"}
      <3>1. /\ pc' = "start" /\ uPacketLength' = InitLength
            /\ pfnParse' = IF Device[pDevice].protocol = 5 THEN "V" ELSE ParserIV(nVer)
            /\ tablet' = IF WithTilt(pDevice, nVer) /\ Hears
                            /\ WithTilt(model.device, Version[model.version])
                         THEN [tablet EXCEPT !.tilt = TRUE] ELSE tablet
        BY <1>l, <2>4 DEF SerialInitWacom
      <3>2. Hears /\ tablet.tilt = FALSE
        BY <2>1 DEF HearInv, Asking, Fresh
      <3>3. ParserInv'
        BY <1>1, <1>2, <2>2, <3>1, ParserIsRight DEF ParserInv
      <3>4. tablet'.speed = tablet.speed
        BY <3>1, TabletParts, Zenon
      <3>5. ASSUME ~disturbed
            PROVE  pfnParse' \in RightParser /\ uPacketLength' = TabletLength'
        <4>1. pfnParse' \in RightParser
          BY <2>2, <3>1, <3>5, <1>2, ParserIsRight
        <4>2. CASE WithTilt(model.device, Version[model.version])
          <5>1. uPacketLength' = 9 /\ tablet' = [tablet EXCEPT !.tilt = TRUE]
            BY <2>2, <3>1, <3>2, <3>5, <4>2 DEF InitLength
          <5>2. tablet'.tilt = TRUE
            BY <5>1, TabletParts, Zenon
          <5> QED
            BY <4>1, <5>1, <5>2 DEF TabletLength
        <4>3. CASE ~WithTilt(model.device, Version[model.version])
          <5>1. uPacketLength' = Device[model.device].length /\ tablet' = tablet
            BY <2>2, <3>1, <3>5, <4>3 DEF InitLength
          <5> QED
            BY <1>1, <3>2, <4>1, <5>1 DEF TabletLength
        <4> QED
          BY <4>2, <4>3
      <3>6. Hears'
        BY <2>1, <3>2, <3>4 DEF Hears
      <3>7. StartInv'
        BY <1>1, <1>2, <2>1, <2>2, <3>1, <3>5, <3>6 DEF StartInv
      <3> QED
        BY <3>1, <3>3, <3>7 DEF AskedInv, SetUpFits
    <2> QED
      BY <2>3, <2>4
  <1> QED
    BY <1>a, <1>b, <1>c, <1>d, <1>e, <1>f, <1>g, <1>h, <1>i, <1>j, <1>k, <1>l, <1>m, <1>n,
       <1>o, <1>p DEF Next, Reset

\* A tablet that SerialReset calls set up is read as it sends: it is the one connected,
\* it hears, and its parser and its packet length are those of its version.
THEOREM SetUpIsRead == Spec => []SetUpFits
  <1> DEFINE IInv == /\ TypeOK /\ RoomInv /\ SpeedInv /\ TryInv /\ HearInv /\ WordInv
                     /\ DeviceInv
  <1>1. Init => IInv
    BY TypeInit, SpeedInit, WordInit, DeviceInit
  <1>2. IInv /\ [Next]_vars => IInv'
    BY TypeNext, SpeedNext, WordNext, DeviceNext
  <1>3. IInv => SetUpFits
    BY DEF DeviceInv
  <1> QED
    BY <1>1, <1>2, <1>3, PTL DEF Spec
=============================================================================
