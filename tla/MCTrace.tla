------------------------------ MODULE MCTrace -------------------------------
EXTENDS Trace

Half(n) == <<n \div 256, n % 256>>

Mac == <<1, 2, 3, 4, 5, 6, 7, 8, 9, 10, 11, 12>>
Source == <<10, 0, 0, 1>>
Destination == <<10, 0, 255, 2>>

\* RFC 791 and RFC 793: what a sender puts on the wire.
IpHeaderOf(protocol, options, len) ==
  Sealed(<<69 + Len(options) \div 4, 0>> \o Half(20 + Len(options) + len) \o
         <<0, 1, 0, 0, 64, protocol, 0, 0>> \o Source \o Destination \o options, 11)

IpFrame(protocol, options, segment, padding) ==
  Mac \o Half(ETHER_TYPE_IP) \o IpHeaderOf(protocol, options, Len(segment)) \o
  segment \o padding

TcpSegment(data) ==
  LET segment == Half(80) \o Half(5000) \o <<0, 0, 0, 7, 0, 0, 0, 9, 80, 16, 2, 0,
                                             0, 0, 0, 0>> \o data
      pseudo  == Source \o Destination \o <<0, 6>> \o Half(Len(segment))
  IN  SubSeq(Sealed(pseudo \o segment, 29), 13, 12 + Len(segment))

UdpSegment == Half(53) \o Half(5001) \o Half(8) \o <<0, 0>>

ArpFrame == Mac \o Half(ETHER_TYPE_ARP) \o
  <<0, 1, 8, 0, 6, 4, 0, 1>> \o SubSeq(Mac, 7, 12) \o Source \o
  <<0, 0, 0, 0, 0, 0>> \o Destination

Options == <<148, 4, 0, 0>>

Frames ==
  {IpFrame(PROTOCOL_TCP, << >>, TcpSegment(<<200>>), <<0, 0, 0, 0, 9>>),
   IpFrame(PROTOCOL_TCP, Options, TcpSegment(<<1, 255>>), << >>),
   IpFrame(PROTOCOL_UDP, Options, UdpSegment, <<0, 0>>),
   IpFrame(PROTOCOL_ICMP, << >>, <<8, 0, 247, 255>>, << >>),
   ArpFrame}

Captured(frame) ==
  {frame} \cup {FlipByte(frame, i + 1) : i \in (0 .. Len(frame) - 1) \ Readable}

\* A file with one packet that may be damaged, after one that is not.
AllFiles ==
  {<<[sent |-> ArpFrame, captured |-> ArpFrame], [sent |-> f, captured |-> c]>> :
     <<f, c>> \in UNION {{f} \X Captured(f) : f \in Frames}}
=============================================================================
