------------------------- MODULE EncapsulationProofs -------------------------
(***************************************************************************)
(* Proofs about encapsulation, for every length of frame and every path    *)
(* MTU the command line admits.                                            *)
(***************************************************************************)
EXTENDS Encapsulation, FragmentationProofs, SequenceTheorems

-----------------------------------------------------------------------------
(* What Packets makes of a frame it accepts.                               *)

Sendable(f, m) ==
  f \in Nat /\ m \in MinMtu .. MaxMtu /\ (FitsWhole(f, m) \/ ~Oversize(f))

\* What is written into a header field of 16 bits.
LEMMA FieldRange ==
  ASSUME NEW x \in Nat, x < U16
  PROVE  x \in 0 .. U16 - 1
<1>1. U16 \in Nat /\ 0 < U16
  BY DEF U16
<1>2. QED
  BY <1>1

\* A frame sent whole fits the path and its length the header field.
LEMMA WholeFits ==
  ASSUME NEW f \in Nat, NEW m \in MinMtu .. MaxMtu, FitsWhole(f, m)
  PROVE  /\ Payload(f) \in Nat /\ Payload(f) < U16
         /\ Payload(f) % U16 = Payload(f)
         /\ IPv6Header + Payload(f) <= m
<1>1. m \in Nat /\ m <= 65575
  BY DEF MinMtu, MaxMtu
<1>2. Payload(f) \in Nat /\ IPv6Header + Payload(f) <= m
  BY DEF Payload, EtherIPHeader, FitsWhole
<1>3. Payload(f) < U16
  BY <1>1, <1>2 DEF IPv6Header, U16
<1>4. QED
  BY <1>2, <1>3 DEF U16

\* Every packet has its headers' types, its own length, and fits the path.
LEMMA PacketsFit ==
  ASSUME NEW f, NEW m, Sendable(f, m)
  PROVE  /\ Packets(f, m) \in Seq(PacketType)
         /\ \A i \in DOMAIN Packets(f, m) :
              /\ IPv6Header + Packets(f, m)[i].bytes <= m
              /\ Packets(f, m)[i].length = Packets(f, m)[i].bytes
<1>1. f \in Nat /\ m \in MinMtu .. MaxMtu
  BY DEF Sendable
<1>2. CASE FitsWhole(f, m)
  <2>1. Packets(f, m) = <<WholePacket(f)>>
    BY <1>2 DEF Packets
  <2>2. Payload(f) \in 0 .. U16 - 1 /\ 0 \in 0 .. U16 - 1
    <3>1. 0 < U16
      BY DEF U16
    <3>2. QED
      BY <1>1, <1>2, <3>1, WholeFits, FieldRange
  <2>3. WholePacket(f) \in PacketType
    BY <1>1, <1>2, <2>2, WholeFits DEF WholePacket, PacketType
  <2>4. QED
    BY <1>1, <1>2, <2>1, <2>3, WholeFits DEF WholePacket
<1>3. CASE ~FitsWhole(f, m)
  <2>1. ~Oversize(f)
    BY <1>3 DEF Sendable
  <2>2. Packets(f, m) =
          [i \in 1 .. Count(f, m) |-> FragmentPacket(f, m, i)]
    BY <1>3 DEF Packets
  <2>3. Count(f, m) \in Nat
    BY <1>1, CountBounds
  <2>4. ASSUME NEW i \in 1 .. Count(f, m)
        PROVE  /\ FragmentPacket(f, m, i) \in PacketType
               /\ IPv6Header + FragmentPacket(f, m, i).bytes <= m
               /\ FragmentPacket(f, m, i).length = FragmentPacket(f, m, i).bytes
    <3> DEFINE p == FragmentPacket(f, m, i)
    <3>1. /\ p.bytes \in Nat /\ p.length = p.bytes /\ p.length < U16
          /\ p.field \in Nat /\ p.field < U16
          /\ IPv6Header + p.bytes <= m
      BY <1>1, <2>1, FragmentRead
    <3>2. p.length \in 0 .. U16 - 1 /\ p.field \in 0 .. U16 - 1
      BY <3>1, FieldRange
    <3>3. p = [next |-> "fragment", bytes |-> p.bytes,
               length |-> p.length, field |-> p.field]
      BY DEF FragmentPacket
    <3> HIDE DEF p
    <3>4. p \in PacketType
      BY <3>1, <3>2, <3>3 DEF PacketType
    <3>5. QED
      BY <3>1, <3>4 DEF p
  <2>5. QED
    BY <2>2, <2>3, <2>4
<1>4. QED
  BY <1>2, <1>3

\* The peer reads the frame back from its packets.
LEMMA PacketsReadBack ==
  ASSUME NEW f, NEW m, Sendable(f, m), wire = Packets(f, m), frame = f
  PROVE  ReadsBack
<1>1. f \in Nat /\ m \in MinMtu .. MaxMtu
  BY DEF Sendable
<1>2. CASE FitsWhole(f, m)
  <2>1. wire = <<WholePacket(f)>>
    BY <1>2 DEF Packets
  <2>2. Len(wire) = 1 /\ wire[1] = WholePacket(f)
    BY <2>1
  <2>3. wire[1].next = "etherip" /\ wire[1].length = Payload(f)
    BY <1>1, <1>2, <2>2, WholeFits DEF WholePacket
  <2>4. QED
    BY <2>2, <2>3 DEF ReadsBack
<1>3. CASE ~FitsWhole(f, m)
  <2> DEFINE n == Count(f, m)
             c == Chunk(m)
  <2>1. ~Oversize(f)
    BY <1>3 DEF Sendable
  <2>2. n \in Nat /\ 1 <= n
    BY <1>1, CountBounds
  <2>3. wire = [i \in 1 .. n |-> FragmentPacket(f, m, i)]
    BY <1>3 DEF Packets
  <2>4. Len(wire) = n
    BY <2>2, <2>3
  <2>5. \A i \in 1 .. n : wire[i] = FragmentPacket(f, m, i)
    BY <2>3
  <2>6. c \in Nat /\ 16 <= c /\ c % 8 = 0
    BY <1>1, ChunkBounds
  <2> HIDE DEF n, c
  <2>7. \A i \in 1 .. n :
          /\ Accepted(wire[i])
          /\ ReadOffset(wire[i]) = (i - 1) * c
          /\ ReadMore(wire[i]) <=> i < n
          /\ i < n => ReadLength(wire[i]) = c
          /\ i = n => ReadEnd(wire[i]) = Payload(f)
    BY <1>1, <2>1, <2>5, FragmentRead DEF n, c
  <2>8. 1 \in 1 .. n /\ n \in 1 .. n
    BY <2>2
  <2>9. ReadOffset(wire[1]) = 0
    BY <2>6, <2>7, <2>8
  <2>10. ASSUME NEW i \in 1 .. n - 1
         PROVE  /\ ReadEnd(wire[i]) = ReadOffset(wire[i + 1])
                /\ ReadLength(wire[i]) % 8 = 0 /\ ReadLength(wire[i]) > 0
    <3>1. i \in 1 .. n /\ i + 1 \in 1 .. n /\ i < n /\ i \in Nat
      BY <2>2
    <3>2. ReadOffset(wire[i]) = (i - 1) * c /\ ReadLength(wire[i]) = c
      BY <2>7, <3>1
    <3>3. ReadOffset(wire[i + 1]) = (i + 1 - 1) * c
      BY <2>7, <3>1
    <3>4. (i + 1 - 1) * c = (i - 1) * c + c
      BY <2>6, <3>1
    <3>5. QED
      BY <2>6, <3>2, <3>3, <3>4 DEF ReadEnd
  <2>11. ReadEnd(wire[n]) = Payload(frame)
    BY <2>7, <2>8
  <2>12. QED
    BY <2>4, <2>7, <2>9, <2>10, <2>11 DEF ReadsBack
<1>4. QED
  BY <1>2, <1>3

-----------------------------------------------------------------------------
(* The output of the last call is what Packets makes of the frame in hand  *)
(* at the path MTU loaded for it: neither changes while it stands.         *)

WireOfFrame ==
  /\ pc # "receive" => wire = <<>>
  /\ wire # <<>> => Sendable(frame, mtu) /\ wire = Packets(frame, mtu)

IInv == TypeOK /\ WireOfFrame

\* No worker has a frame at the start.
LEMMA InitIInv == Init => IInv
<1> SUFFICES ASSUME Init PROVE IInv
  OBVIOUS
<1>1. mtu \in MinMtu .. MaxMtu
  BY DEF Init, MinMtu, MaxMtu
<1>2. QED
  BY <1>1, EncapsulationAssumption DEF Init, IInv, TypeOK, WireOfFrame

\* Every step keeps the invariant.
LEMMA NextKeepsIInv == IInv /\ [Next]_vars => IInv'
<1> SUFFICES ASSUME IInv, [Next]_vars PROVE IInv'
  OBVIOUS
<1>1. ASSUME NEW f \in FrameLength, Receive(f) PROVE IInv'
  BY <1>1 DEF IInv, TypeOK, WireOfFrame, Receive
<1>2. ASSUME NEW m \in Mtu, LoadMtu(m) PROVE IInv'
  BY <1>2, EncapsulationAssumption DEF IInv, TypeOK, WireOfFrame, LoadMtu
<1>3. ASSUME wire' = Packets(frame, mtu), Sendable(frame, mtu),
             pc' = "receive", fragId' \in 0 .. IdSpace - 1,
             UNCHANGED <<frame, mtu>>
      PROVE  IInv'
  <2>1. wire' \in Seq(PacketType)
    BY <1>3, PacketsFit
  <2>2. TypeOK'
    BY <1>3, <2>1 DEF IInv, TypeOK
  <2>3. WireOfFrame'
    BY <1>3 DEF WireOfFrame, Sendable
  <2>4. QED
    BY <2>2, <2>3 DEF IInv
<1>4. frame \in Nat /\ mtu \in MinMtu .. MaxMtu
  BY EncapsulationAssumption DEF IInv, TypeOK
<1>5. CASE SendWhole
  BY <1>3, <1>4, <1>5 DEF SendWhole, Sendable, IInv, TypeOK
<1>6. CASE SendFragments
  <2>1. (fragId + 1) % IdSpace \in 0 .. IdSpace - 1
    BY EncapsulationAssumption DEF IInv, TypeOK
  <2>2. QED
    BY <1>3, <1>4, <1>6, <2>1 DEF SendFragments, Sendable
<1>7. CASE FailOversize
  BY <1>7 DEF FailOversize, IInv, TypeOK, WireOfFrame
<1>8. CASE UNCHANGED vars
  BY <1>8 DEF vars, IInv, TypeOK, WireOfFrame, Sendable
<1>9. QED
  BY <1>1, <1>2, <1>5, <1>6, <1>7, <1>8 DEF Next

\* The inductive invariant holds in every behaviour of the worker.
THEOREM Invariance == Spec => []IInv
<1>1. QED
  BY InitIInv, NextKeepsIInv, PTL DEF Spec

\* Lengths, offsets and flags fit their header fields for every frame and
\* path MTU.
THEOREM TypeCorrect == Spec => []TypeOK
<1>1. IInv => TypeOK
  BY DEF IInv
<1>2. QED
  BY <1>1, Invariance, PTL

\* No packet exceeds the path MTU its frame was encapsulated for, or loses
\* part of its length in a cast (etherip.rs:85-88, 122-147, 170).
THEOREM AllFitPath == Spec => []FitsPath
<1>1. IInv => FitsPath
  <2> SUFFICES ASSUME IInv PROVE FitsPath
    OBVIOUS
  <2>1. CASE wire = <<>>
    BY <2>1 DEF FitsPath
  <2>2. CASE wire # <<>>
    BY <2>2, PacketsFit DEF IInv, WireOfFrame, FitsPath
  <2>3. QED
    BY <2>1, <2>2
<1>2. QED
  BY <1>1, Invariance, PTL

\* The peer reads back every frame that is sent, whole or in fragments.
THEOREM AllReadBack == Spec => []ReadsBack
<1>1. IInv => ReadsBack
  <2> SUFFICES ASSUME IInv PROVE ReadsBack
    OBVIOUS
  <2>1. CASE wire = <<>>
    BY <2>1 DEF ReadsBack
  <2>2. CASE wire # <<>>
    BY <2>2, PacketsReadBack DEF IInv, WireOfFrame
  <2>3. QED
    BY <2>1, <2>2
<1>2. QED
  BY <1>1, Invariance, PTL

-----------------------------------------------------------------------------
(* How many fragments a frame makes.                                       *)

\* A LAN frame of ordinary size makes at most 96 fragments on any path.
LEMMA FewPackets ==
  ASSUME NEW f, NEW m, Sendable(f, m), f <= EthernetFrame
  PROVE  Len(Packets(f, m)) \in Nat /\ Len(Packets(f, m)) <= 96
<1>1. f \in Nat /\ m \in MinMtu .. MaxMtu
  BY DEF Sendable
<1>2. CASE FitsWhole(f, m)
  BY <1>2 DEF Packets
<1>3. CASE ~FitsWhole(f, m)
  <2> DEFINE n == Count(f, m)
             c == Chunk(m)
  <2>1. c \in Nat /\ 16 <= c
    BY <1>1, ChunkBounds
  <2>2. n \in Nat \ {0} /\ (n - 1) * c < Payload(f)
    BY <1>1, CountBounds
  <2>3. Payload(f) \in Nat /\ Payload(f) <= 1524
    BY <1>1 DEF Payload, EtherIPHeader, EthernetFrame
  <2>4. Packets(f, m) = [i \in 1 .. n |-> FragmentPacket(f, m, i)]
    BY <1>3 DEF Packets
  <2>5. Len(Packets(f, m)) = n
    BY <2>2, <2>4
  <2> HIDE DEF n, c
  <2>6. 16 * (n - 1) <= c * (n - 1)
    BY <2>1, <2>2, TimesMonotone
  <2>7. c * (n - 1) = (n - 1) * c /\ (n - 1) * c \in Nat
    BY <2>1, <2>2
  <2>8. n <= 96
    BY <2>2, <2>3, <2>6, <2>7
  <2> QED
    BY <2>2, <2>5, <2>8
<1> QED
  BY <1>2, <1>3

\* A peer that keeps at least 96 fragments of one packet, as the code does
\* with its 128, can hold every Ethernet frame (reassembly.rs:46, config.rs:198).
THEOREM PeerHolds ==
  ASSUME MaxFragments >= 96
  PROVE  Spec => []PeerCanHold
<1>1. IInv => PeerCanHold
  <2> SUFFICES ASSUME IInv, frame <= EthernetFrame
               PROVE  Len(wire) <= MaxFragments
    BY DEF PeerCanHold
  <2>1. CASE wire = <<>>
    BY <2>1, EncapsulationAssumption
  <2>2. CASE wire # <<>>
    <3>1. Len(wire) \in Nat /\ Len(wire) <= 96
      BY <2>2, FewPackets DEF IInv, WireOfFrame
    <3> QED
      BY <3>1, EncapsulationAssumption
  <2> QED
    BY <2>1, <2>2
<1> QED
  BY <1>1, Invariance, PTL

=============================================================================
