------------------------------ MODULE UdpFrame ------------------------------
(***************************************************************************)
(* The frames of src/dhcp_recovery/common/socket.cpp: sendRawUdp builds IP *)
(* and UDP headers around a message, receiveRawUdp takes them off again.   *)
(* A frame is a sequence of bytes.  The machine is little-endian, as every *)
(* x86 is: the checksums are sums of words as they lie in its memory.      *)
(***************************************************************************)
EXTENDS Integers, Sequences, SequencesExt

IPPROTO_UDP == 17
IPVERSION == 4
IPDEFTTL == 64
IpSize == 20       \* sizeof(struct iphdr)
UdpSize == 8       \* sizeof(struct udphdr)

Zeros(n) == [k \in 1..n |-> 0]

\* A number as two bytes, in the order of the network and of the machine.
Htons(n) == <<n \div 256, n % 256>>
Native(n) == <<n % 256, n \div 256>>

\* The upper half is added until there is none.
Fold[sum \in Nat] == IF sum < 65536 THEN sum ELSE Fold[(sum % 65536) + (sum \div 65536)]

\* Mutant of LastByte: the last byte of an odd number is the upper half of a word.
LastByteHigh(b) == 256 * b

LastByte(b) == b

AddChecksum(bytes, checksum) ==
    LET n == Len(bytes)
        Word(k) == bytes[2 * k - 1] + 256 * bytes[2 * k]
        words == [k \in 1..(n \div 2) |-> Word(k)]
    IN  Fold[FoldLeft(+, checksum, words) + IF n % 2 = 1 THEN LastByte(bytes[n]) ELSE 0]

FinishChecksum(checksum) == 65535 - (checksum % 65536)

IpHeader(size, check, source, destination) ==
    <<(16 * IPVERSION) + (IpSize \div 4), 0>> \o Htons(size) \o Zeros(4)
    \o <<IPDEFTTL, IPPROTO_UDP>> \o Native(check) \o source \o destination

UdpHeader(sourcePort, destinationPort, size, check) ==
    Htons(sourcePort) \o Htons(destinationPort) \o Htons(size) \o Native(check)

SendRawUdp(source, sourcePort, destination, destinationPort, message) ==
    LET size == UdpSize + Len(message)
        Ip(check) == IpHeader(IpSize + size, check, source, destination)
        Udp(check) == UdpHeader(sourcePort, destinationPort, size, check)
        ipChecksum == AddChecksum(Ip(0), 0)
        udpChecksum ==
            AddChecksum(message,
              AddChecksum(Udp(0),
                AddChecksum(Htons(size),
                  AddChecksum(Htons(IPPROTO_UDP),
                    AddChecksum(destination, AddChecksum(source, 0))))))
    IN  Ip(FinishChecksum(ipChecksum)) \o Udp(FinishChecksum(udpChecksum)) \o message

\* receiveRawUdp: is the frame one for this port?  Lengths, fragments and checksums
\* are not looked at.
IsValidFrame(frame, expectedPort) ==
    /\ Len(frame) >= IpSize + UdpSize
    /\ frame[1] = (16 * IPVERSION) + (IpSize \div 4)
    /\ frame[10] = IPPROTO_UDP
    /\ SubSeq(frame, 23, 24) = Htons(expectedPort)

\* receiveRawUdp: the message, to the end of what was read.
Payload(frame) == SubSeq(frame, IpSize + UdpSize + 1, Len(frame))

-----------------------------------------------------------------------------
(* What a receiver checks (RFC 768 and 1071), on words in network order     *)

OnesSum(bytes) ==
    LET even == IF Len(bytes) % 2 = 1 THEN Append(bytes, 0) ELSE bytes
        words == [k \in 1..(Len(even) \div 2) |-> 256 * even[2 * k - 1] + even[2 * k]]
    IN  FoldLeft(LAMBDA s, w : ((s + w) % 65536) + ((s + w) \div 65536), 0, words)

\* Both checksums are right, or there is none for UDP, and the lengths are.
Verifies(frame) ==
    LET udp == SubSeq(frame, IpSize + 1, Len(frame)) IN
    /\ SubSeq(frame, 3, 4) = Htons(Len(frame))
    /\ SubSeq(udp, 5, 6) = Htons(Len(udp))
    /\ OnesSum(SubSeq(frame, 1, IpSize)) = 65535
    /\ \/ SubSeq(udp, 7, 8) = <<0, 0>>
       \/ OnesSum(SubSeq(frame, 13, 20) \o <<0, IPPROTO_UDP>> \o SubSeq(udp, 5, 6) \o udp)
            = 65535
=============================================================================
