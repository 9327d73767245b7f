------------------------------- MODULE Trace -------------------------------
(***************************************************************************)
(* trace-program1: prints the headers of the packets of a capture file,    *)
(* and whether the IP and TCP checksums are right.  Frames are sequences   *)
(* of real bytes, at the offsets trace.c uses.  Fields that are only       *)
(* copied to the output (MAC addresses, TTL, sequence numbers, TCP flags,  *)
(* ARP addresses) are left out.                                            *)
(*                                                                         *)
(* A capture file holds what was sent, and what was captured of it: the    *)
(* same, but for a byte that was damaged on the way.                       *)
(***************************************************************************)
EXTENDS Integers, Checksum

CONSTANT Files          \* sequences of [sent, captured]

VARIABLES file,         \* the capture file
          packetNo,     \* packets printed
          shown         \* what has been printed, a record for each packet

traceVars == <<file, packetNo, shown>>

ETHER_HDR_LEN == 14
PSEUDO_HDR_LEN == 12
ETHER_TYPE_IP == 2048
ETHER_TYPE_ARP == 2054
PROTOCOL_ICMP == 1
PROTOCOL_TCP == 6
PROTOCOL_UDP == 17

\* packet + offset, ntohs of the two bytes there, and memcpy from there.
At(packet, offset) == packet[offset + 1]
Ntohs(packet, offset) == 256 * At(packet, offset) + At(packet, offset + 1)
Slice(packet, offset, len) == SubSeq(packet, offset + 1, offset + len)

Verdict(bytes) == IF Accepted(bytes) THEN "Correct" ELSE "Incorrect"

-----------------------------------------------------------------------------

Named(name) == [name |-> name, number |-> 0]

PortName(port) ==
  CASE port = 80  -> Named("HTTP")
    [] port = 21  -> Named("FTP")
    [] port = 23  -> Named("Telnet")
    [] port = 25  -> Named("SMTP")
    [] port = 53  -> Named("DNS")
    [] port = 110 -> Named("POP3")
    [] OTHER      -> [name |-> "", number |-> port]

Ports(packet, offset) ==
  <<PortName(Ntohs(packet, offset)), PortName(Ntohs(packet, offset + 2))>>

Ethernet(packet) ==
  LET type == Ntohs(packet, 12)
  IN  CASE type = ETHER_TYPE_IP  -> "IP"
        [] type = ETHER_TYPE_ARP -> "ARP"
        [] OTHER                 -> "Unknown"

Arp(packet) ==
  [opcode |-> CASE Ntohs(packet, 20) = 1 -> "Request"
                [] Ntohs(packet, 20) = 2 -> "Reply"
                [] OTHER                 -> "Unknown"]

\* Faulty variant: no options.
MutIpHdrLen(packet) == 20

IpHdrLen(packet) == 4 * (At(packet, 14) % 16)

Ip(packet) ==
  [pduLen |-> Ntohs(packet, 16), hdrLen |-> IpHdrLen(packet),
   verdict |-> Verdict(Slice(packet, ETHER_HDR_LEN, IpHdrLen(packet)))]

Icmp(packet, offset) ==
  [type |-> CASE At(packet, offset) = 0 -> "Reply"
              [] At(packet, offset) = 8 -> "Request"
              [] OTHER                  -> At(packet, offset)]

\* Faulty variant: the padding of a short frame counts as TCP.
MutTcpSegLen(packet) == Len(packet) - ETHER_HDR_LEN - IpHdrLen(packet)

\* The difference is kept in 16 bits.
TcpSegLen(packet) == (Ntohs(packet, 16) - IpHdrLen(packet)) % 65536

\* The addresses, zero, the protocol and the length, in front of the segment.
PseudoHdr(packet) ==
  Slice(packet, 26, 8) \o
  <<0, At(packet, 23), TcpSegLen(packet) \div 256, TcpSegLen(packet) % 256>>

Tcp(packet) ==
  LET start == ETHER_HDR_LEN + IpHdrLen(packet)
  IN  [segLen  |-> TcpSegLen(packet),
       ports   |-> Ports(packet, start),
       verdict |-> Verdict(PseudoHdr(packet) \o
                           Slice(packet, start, TcpSegLen(packet)))]

Udp(packet, offset) == [ports |-> Ports(packet, offset)]

\* The switch of main on the protocol.  header_len is kept in 8 bits.
Transport(packet) ==
  LET headerLen == (ETHER_HDR_LEN + IpHdrLen(packet)) % 256
  IN  CASE At(packet, 23) = PROTOCOL_ICMP -> Icmp(packet, headerLen)
        [] At(packet, 23) = PROTOCOL_TCP  -> Tcp(packet)
        [] At(packet, 23) = PROTOCOL_UDP  -> Udp(packet, headerLen)
        [] OTHER                          -> << >>

\* One turn of main's loop.
Printed(packet) ==
  CASE Ethernet(packet) = "IP"  -> [ip |-> Ip(packet), transport |-> Transport(packet)]
    [] Ethernet(packet) = "ARP" -> [arp |-> Arp(packet)]
    [] OTHER                    -> << >>

-----------------------------------------------------------------------------
(***************************************************************************)
(* What a capture file holds.                                              *)
(***************************************************************************)

\* Where the IP header ends, and where the packet does; the rest is padding.
HeaderEnd(frame) == 14 + 4 * (At(frame, 14) % 16)
PacketEnd(frame) == 14 + Ntohs(frame, 16)

\* RFC 791: the header is sealed and says how long it is and all of the packet.
IpFramed(frame) ==
  /\ 34 <= Len(frame) /\ 34 <= HeaderEnd(frame)
  /\ HeaderEnd(frame) <= PacketEnd(frame) /\ PacketEnd(frame) <= Len(frame)
  /\ Accepted(SubSeq(frame, 15, HeaderEnd(frame)))

\* RFC 793: a segment is sealed together with addresses, protocol and length.  Every
\* TCP packet holds a whole one: trace.c does not look at the fragment fields of RFC
\* 791, takes a fragment for a segment and calls it incorrect.
TcpFramed(frame) ==
  LET len == PacketEnd(frame) - HeaderEnd(frame)
  IN  /\ 20 <= len
      /\ Accepted(SubSeq(frame, 27, 34) \o
                  <<0, PROTOCOL_TCP, len \div 256, len % 256>> \o
                  SubSeq(frame, HeaderEnd(frame) + 1, PacketEnd(frame)))

\* A frame as it was sent.
Framed(frame) ==
  /\ 14 <= Len(frame)
  /\ Ethernet(frame) = "ARP" => 42 <= Len(frame)
  /\ Ethernet(frame) = "IP" =>
       /\ IpFramed(frame)
       /\ At(frame, 23) = PROTOCOL_ICMP => HeaderEnd(frame) + 4 <= PacketEnd(frame)
       /\ At(frame, 23) = PROTOCOL_UDP  => HeaderEnd(frame) + 8 <= PacketEnd(frame)
       /\ At(frame, 23) = PROTOCOL_TCP  => TcpFramed(frame)

\* What tells headers apart, and their lengths: if it is damaged, trace may read
\* past the packet.
Readable == {12, 13, 14, 16, 17, 23}

\* One byte at most was damaged on the way.
DamagedOnce(sent, captured) ==
  /\ Len(captured) = Len(sent)
  /\ \A i, j \in DOMAIN sent :
       captured[i] # sent[i] /\ captured[j] # sent[j] => i = j /\ i - 1 \notin Readable

Capture == [sent : Seq(ByteValue), captured : Seq(ByteValue)]

\* The bytes of a file are octets.
ASSUME FilesAssumption ==
  /\ Files \subseteq Seq(Capture) /\ (Files # {} => Byte = 256)
  /\ \A f \in Files : \A k \in DOMAIN f :
       Framed(f[k].sent) /\ DamagedOnce(f[k].sent, f[k].captured)

-----------------------------------------------------------------------------

TraceInit ==
  /\ file \in Files
  /\ packetNo = 0
  /\ shown = << >>

NextPacket ==
  /\ packetNo < Len(file)
  /\ packetNo' = packetNo + 1
  /\ shown' = Append(shown, Printed(file[packetNo + 1].captured))
  /\ UNCHANGED file

TraceNext == NextPacket

TraceSpec == TraceInit /\ [][TraceNext]_traceVars

-----------------------------------------------------------------------------

\* Whether packet k, as it was sent, has transport protocol p, and whether it
\* was damaged at some of the given offsets.
Carries(k, p) == "ip" \in DOMAIN shown[k] /\ At(file[k].sent, 23) = p
Damaged(k, offsets) ==
  \E i \in offsets : At(file[k].captured, i) # At(file[k].sent, i)

IpHeader(k) == 14 .. HeaderEnd(file[k].sent) - 1
Addresses == 26 .. 33
Segment(k) == HeaderEnd(file[k].sent) .. PacketEnd(file[k].sent) - 1

\* "Checksum: Correct" is printed exactly when nothing the checksum protects was
\* damaged: with and without IP options, for segments of odd length, and
\* whatever pads a short frame.
VerdictsRight ==
  \A k \in DOMAIN shown :
    /\ "ip" \in DOMAIN shown[k] =>
         (shown[k].ip.verdict = "Incorrect") = Damaged(k, IpHeader(k))
    /\ Carries(k, PROTOCOL_TCP) =>
         (shown[k].transport.verdict = "Incorrect") =
           Damaged(k, Addresses \cup Segment(k))

\* The ports are those of the segment, which starts after the IP options.
PortsRight ==
  \A k \in DOMAIN shown :
    Carries(k, PROTOCOL_TCP) \/ Carries(k, PROTOCOL_UDP) =>
      Damaged(k, Segment(k)) \/
      shown[k].transport.ports = Ports(file[k].sent, HeaderEnd(file[k].sent))
=============================================================================
