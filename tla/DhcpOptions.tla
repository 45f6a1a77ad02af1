----------------------------- MODULE DhcpOptions -----------------------------
(***************************************************************************)
(* A DHCP message on its way: written option by option (Message::addOption *)
(* and endOptions), framed by sendRawUdp, carried by a wire that pads, cuts*)
(* and damages frames, taken by receiveRawUdp and isValidDhcpMessage, and  *)
(* read by Message::getOption and the loop of DhcpClient::configureDhcp,   *)
(* one step for each option.                                               *)
(*                                                                         *)
(* A message is op, htype, hlen and hops, the transaction ID, the cookie   *)
(* and the options, as a sequence of bytes: its other fields are left out. *)
(* The server writes as the client does, and may put padding in between.   *)
(***************************************************************************)
EXTENDS UdpFrame

CONSTANTS
    Options,       \* the options a message is made of: <<code, value>>
    Xids,          \* transaction IDs of requests: four bytes each
    MaxOptions,    \* bound: how many options there are
    MaxDamaged,    \* bound: how many there are in a message that is damaged
    MaxCut         \* bound: how many bytes are lost, or added, at the end

OPT_PAD == 0
OPT_MESSAGE_TYPE == 53
OPT_LEASE_TIME == 51
OPT_T1 == 58
OPT_END == 255
PORT_BOOTP_SERVER == 67
PORT_BOOTP_CLIENT == 68
OP_BOOTREPLY == 2
Cookie == <<99, 130, 83, 99>>

ASSUME OptionsAssumption ==
    /\ \A o \in Options : o[1] \in 0..254 /\ Len(o[2]) \in 0..255
    /\ \A x \in Xids : Len(x) = 4
    /\ MaxOptions \in Nat /\ MaxDamaged \in Nat /\ MaxCut \in Nat

VARIABLES
    list,          \* what the sender put into the message
    xid,           \* the transaction ID of mLastMsg
    frame,         \* the frame as it was sent
    whole,         \* history: it arrived as it was, or padded
    buffer, size,  \* what was received of the options, and how much
    i,             \* configureDhcp's index; 0 is the byte after the cookie
    mDhcpInfo,     \* lease time and T1, each the bytes it was read from
    pc             \* "sent", "ignored", "parse", "parsed" or "dropped"

message == <<list, xid, frame, whole, buffer, size>>
vars == <<message, i, mDhcpInfo, pc>>

NoValue == << >>   \* a field that memset cleared

-----------------------------------------------------------------------------
(* Writing                                                                  *)

\* Mutant of AddOption: the length covers code and length too.
AddOptionLongLength(opts, o) == opts \o <<o[1], Len(o[2]) + 2>> \o o[2]

AddOption(opts, o) == opts \o <<o[1], Len(o[2])>> \o o[2]

EndOptions(opts) == Append(opts, OPT_END)

\* Padding is a single byte, which addOption never writes.
Written(opts, o) == IF o[1] = OPT_PAD THEN Append(opts, OPT_PAD) ELSE AddOption(opts, o)

\* The options of the sequence os, one after the other.
Encode(os) == EndOptions(FoldLeft(Written, << >>, os))

\* A reply to the request with transaction ID x, and its frame.
ReplyTo(x, os) == <<OP_BOOTREPLY, 1, 6, 0>> \o x \o Cookie \o Encode(os)

FrameOf(x, os) ==
    SendRawUdp(<<10, 0, 2, 2>>, PORT_BOOTP_SERVER, <<255, 255, 255, 255>>,
               PORT_BOOTP_CLIENT, ReplyTo(x, os))

-----------------------------------------------------------------------------
(* The wire, and what receiveDhcpMessage accepts                            *)

OptionsAt == 8     \* offsetof(Dhcp, options) in a message of the model

\* What may become of frame f of a message with the options os.
Wire(f, os) ==
    {f \o Zeros(n) : n \in 0..MaxCut}
    \cup {SubSeq(f, 1, Len(f) - n) : n \in 1..MaxCut}
    \cup (IF Len(os) > MaxDamaged THEN {}
          ELSE {[f EXCEPT ![k] = v] : k \in DOMAIN f, v \in {0, 4, 255}})

IsValidDhcpMessage(msg) ==
    /\ Len(msg) >= OptionsAt + 4
    /\ SubSeq(msg, 1, 3) = <<OP_BOOTREPLY, 1, 6>>
    /\ SubSeq(msg, OptionsAt + 1, OptionsAt + 4) = Cookie
    /\ SubSeq(msg, 5, 8) = xid

\* receiveDhcpMessage.  Message() has cleared what is after the end of the message.
ReceiveDhcpMessage ==
    /\ pc = "sent"
    /\ \E f \in Wire(frame, list) :
         LET msg == Payload(f) IN
         /\ whole' = IsPrefix(frame, f)
         /\ IF IsValidFrame(f, PORT_BOOTP_CLIENT) /\ IsValidDhcpMessage(msg)
            THEN /\ pc' = "parse"
                 /\ size' = Len(msg) - OptionsAt - 4
                 /\ buffer' = SubSeq(msg, OptionsAt + 5, Len(msg)) \o Zeros(4)
            ELSE pc' = "ignored" /\ UNCHANGED <<buffer, size>>
    /\ UNCHANGED <<list, xid, frame, i, mDhcpInfo>>

-----------------------------------------------------------------------------
(* Reading                                                                  *)

Byte(k) == buffer[k + 1]

\* The bytes of an option's value.  A read past the message yields what the
\* buffer holds there.
Value(k, length) == SubSeq(buffer, k + 3, k + 2 + length)

\* Message::getOption: the value of the first option with this code.  Its length is not
\* looked at: a value may reach into the zeros after the message.
GetOption(opts, code) ==
    LET from[k \in 0..(Len(opts) + 256)] ==
            IF k + 2 >= Len(opts) \/ opts[k + 1] = OPT_END THEN NoValue
            ELSE IF opts[k + 1] = code
                 THEN SubSeq(opts \o Zeros(256), k + 3, k + 2 + opts[k + 2])
            ELSE from[k + 2 + opts[k + 2]]
    IN  from[0]

\* Mutant of TooLong: the value may reach one byte further.
TooLongByTwo(k, length) == k + length > size

\* The check on an option's length.
TooLong(k, length) == k + length >= size

\* configureDhcp takes a value only if it has the length of its field.
Take(info, code, value) ==
    CASE code = OPT_LEASE_TIME /\ Len(value) = 4 -> [info EXCEPT !.leaseTime = value]
      [] code = OPT_T1 /\ Len(value) = 4 -> [info EXCEPT !.t1 = value]
      [] OTHER -> info

\* Mutant of ParseOption: an empty option is not stepped over.
ParseOptionStuck ==
    /\ pc = "parse" /\ i + 1 < size /\ Byte(i) # OPT_END
    /\ IF TooLong(i, Byte(i + 1))
       THEN pc' = "dropped" /\ UNCHANGED <<i, mDhcpInfo>>
       ELSE /\ mDhcpInfo' = Take(mDhcpInfo, Byte(i), Value(i, Byte(i + 1)))
            /\ i' = IF Byte(i + 1) = 0 THEN i ELSE i + 2 + Byte(i + 1)
            /\ UNCHANGED pc
    /\ UNCHANGED message

ParseOption ==
    /\ pc = "parse" /\ i + 1 < size /\ Byte(i) # OPT_END
    /\ IF TooLong(i, Byte(i + 1))
       THEN pc' = "dropped" /\ UNCHANGED <<i, mDhcpInfo>>
       ELSE /\ mDhcpInfo' = Take(mDhcpInfo, Byte(i), Value(i, Byte(i + 1)))
            /\ i' = i + 2 + Byte(i + 1)
            /\ UNCHANGED pc
    /\ UNCHANGED message

\* What memset leaves and a server may send.
ZeroTime == <<0, 0, 0, 0>>

\* The loop ends; without a lease time, or with one of zero, the message is ignored.
EndOfOptions ==
    /\ pc = "parse" /\ (i + 1 >= size \/ Byte(i) = OPT_END)
    /\ pc' = IF mDhcpInfo.leaseTime \in {NoValue, ZeroTime} THEN "dropped" ELSE "parsed"
    /\ UNCHANGED <<message, i, mDhcpInfo>>

Init ==
    /\ list \in SeqOf(Options, MaxOptions)
    /\ xid \in Xids
    /\ frame = FrameOf(xid, list)
    /\ whole = TRUE
    /\ buffer = << >> /\ size = 0
    /\ i = 0
    /\ mDhcpInfo = [leaseTime |-> NoValue, t1 |-> NoValue]
    /\ pc = "sent"

Next == ReceiveDhcpMessage \/ ParseOption \/ EndOfOptions

Spec == Init /\ [][Next]_vars /\ WF_vars(Next)

-----------------------------------------------------------------------------
(* Properties                                                               *)

\* The last value of four bytes with this code, or NoValue.
LastValue(code) ==
    LET has == {k \in DOMAIN list : list[k][1] = code /\ Len(list[k][2]) = 4}
    IN  IF has = {} THEN NoValue
        ELSE list[CHOOSE k \in has : \A l \in has : l <= k][2]

\* Every variable holds a value of its type; whatever lengths a message claims,
\* the loop reads at most one byte past its end.
TypeOK ==
    /\ \A k \in DOMAIN frame : frame[k] \in 0..255
    /\ size \in 0..Len(buffer) /\ i \in 0..(size + 1)
    /\ mDhcpInfo \in [leaseTime: Seq(0..255), t1: Seq(0..255)]
    /\ pc \in {"sent", "ignored", "parse", "parsed", "dropped"}

Padded == \E k \in DOMAIN list : list[k][1] = OPT_PAD

\* The value of the first option with this code, or NoValue.
FirstValue(code) ==
    LET has == {k \in DOMAIN list : list[k][1] = code}
    IN  IF has = {} THEN NoValue
        ELSE list[CHOOSE k \in has : \A l \in has : k <= l][2]

\* A frame that arrives whole is taken, and what is read of its message is what its
\* sender put in: getOption, which type() and serverId() rest on, finds of every code
\* the first option, and configureDhcp of every field the last one that has the
\* field's length; a lease time of zero is none.  Padding between options is read as
\* an option, so a message with it is left out.
ReadsWhatWasWritten ==
    whole /\ ~Padded /\ pc \notin {"sent", "parse"} =>
        /\ \A code \in {o[1] : o \in Options} \ {OPT_PAD} :
              GetOption(SubSeq(buffer, 1, size), code) = FirstValue(code)
        /\ mDhcpInfo.leaseTime = LastValue(OPT_LEASE_TIME)
        /\ mDhcpInfo.t1 = LastValue(OPT_T1)
        /\ pc = "parsed" <=> LastValue(OPT_LEASE_TIME) \notin {NoValue, ZeroTime}

\* The frames that are sent hold true lengths and checksums, although they are summed
\* in the machine's byte order and in parts, and whether or not the length is odd.
\* Where the sum for UDP comes out as 0 it is sent like that, and says that there is
\* none.
SentVerifies == Verifies(frame)

\* The loop comes to an end on every message, padded, cut short or damaged.
ParsingEnds == pc = "parse" ~> pc # "parse"
==============================================================================
