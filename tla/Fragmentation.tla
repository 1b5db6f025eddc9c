---------------------------- MODULE Fragmentation ----------------------------
(***************************************************************************)
(* The packets made of one LAN frame (etherip/src/etherip.rs:73-175) and   *)
(* what the peer reads of their headers (etherip.rs:179-226), with the     *)
(* widths the headers have.  A packet is abstracted to its next header,    *)
(* the bytes that follow its IPv6 header, the payload length and the       *)
(* offset and flags it claims.  Everything here is a function of the       *)
(* frame's length and the path MTU; the state is in the modules that use   *)
(* it.                                                                     *)
(***************************************************************************)
EXTENDS Integers, Sequences

U16 == 65536           \* one more than u16::MAX
IPv6Header == 40
FragmentHeader == 8
EtherIPHeader == 2     \* ETHERIP_HEADER

\* Mutation: the least MTU leaves room for a single block of data.
MinMtuOneBlock == 56

MinMtu == 70           \* parse_mtu
MaxMtu == 65575        \* parse_mtu

Payload(frame) == frame + EtherIPHeader

\* Mutation: the EtherIP header is left out of the comparison.
FitsWholeNoHeader(frame, mtu) == IPv6Header + frame <= mtu

FitsWhole(frame, mtu) == IPv6Header + Payload(frame) <= mtu

\* Mutation: the room left for data is not rounded to blocks of 8.
ChunkUnaligned(mtu) == mtu - (IPv6Header + FragmentHeader)

Chunk(mtu) == ((mtu - (IPv6Header + FragmentHeader)) \div 8) * 8

Count(frame, mtu) == (Payload(frame) + Chunk(mtu) - 1) \div Chunk(mtu)

\* Mutation: the 13-bit offset counts bytes, in a field of any width.
OffsetFlagsWide(offset, more) == offset * 8 + (IF more THEN 1 ELSE 0)

\* ((offset / 8) as u16) << 3 | more
OffsetFlags(offset, more) ==
  ((((offset \div 8) % U16) * 8) % U16) + (IF more THEN 1 ELSE 0)

WholePacket(frame) ==
  [next |-> "etherip", bytes |-> Payload(frame),
   length |-> Payload(frame) % U16, field |-> 0]

\* The i-th of payload.chunks(chunk), behind its headers.
FragmentPacket(frame, mtu, i) ==
  LET offset == (i - 1) * Chunk(mtu)
      part == IF Payload(frame) - offset < Chunk(mtu)
              THEN Payload(frame) - offset ELSE Chunk(mtu)
  IN  [next |-> "fragment", bytes |-> FragmentHeader + part,
       length |-> (FragmentHeader + part) % U16,
       field |-> OffsetFlags(offset, offset + part < Payload(frame))]

\* fragment_packets fails on a payload no IPv6 packet can describe.
Oversize(frame) == Payload(frame) > U16 - 1

Packets(frame, mtu) ==
  IF FitsWhole(frame, mtu)
  THEN <<WholePacket(frame)>>
  ELSE [i \in 1 .. Count(frame, mtu) |-> FragmentPacket(frame, mtu, i)]

-----------------------------------------------------------------------------
(* What decapsulate_packet reads of a fragment.                            *)

Accepted(p) ==
  /\ p.next = "fragment" /\ p.length >= FragmentHeader
  /\ (p.field \div 2) % 4 = 0                 \* field & 6
ReadOffset(p) == (p.field \div 8) * 8
ReadMore(p) == p.field % 2 = 1

\* Mutation: the payload length is taken to count the IPv6 header.
ReadLengthFromHeader(p) == p.length - (IPv6Header + FragmentHeader)

ReadLength(p) == p.length - FragmentHeader
ReadEnd(p) == ReadOffset(p) + ReadLength(p)

=============================================================================
