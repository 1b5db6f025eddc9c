---------------------------- MODULE Encapsulation ----------------------------
(***************************************************************************)
(* encapsulate_packet and fragment_packets as a worker calls them          *)
(* (etherip/src/etherip.rs:73-149, main.rs:217-226): each call turns one   *)
(* LAN frame into packets for the path MTU it loaded.                      *)
(***************************************************************************)
EXTENDS Fragmentation

CONSTANTS
  FrameLength,   \* lengths of the frames received on the LAN
  Mtu,           \* values the path MTU of the tunnel takes
  IdSpace,       \* identifications there are: 2^32 in the code
  MaxFragments   \* fragments the peer keeps of one packet: 128

ASSUME EncapsulationAssumption ==
  /\ FrameLength \subseteq Nat
  /\ Mtu \subseteq MinMtu .. MaxMtu
  /\ IdSpace \in Nat \ {0} /\ MaxFragments \in Nat

VARIABLES
  pc,        \* where the worker is in its loop over the received frames
  fragId,    \* frag_id: the identification the next fragmented frame takes
  frame,     \* the frame in hand
  mtu,       \* the path MTU loaded for it
  wire       \* the packets its encapsulation appended to the output

vars == <<pc, fragId, frame, mtu, wire>>

Init ==
  /\ pc = "receive"
  /\ fragId = 0
  /\ frame = 0 /\ mtu = MinMtu
  /\ wire = <<>>

Receive(f) ==
  /\ pc = "receive" /\ pc' = "load"
  /\ frame' = f /\ wire' = <<>>
  /\ UNCHANGED <<fragId, mtu>>

LoadMtu(m) ==
  /\ pc = "load" /\ pc' = "encapsulate"
  /\ mtu' = m
  /\ UNCHANGED <<fragId, frame, wire>>

SendWhole ==
  /\ pc = "encapsulate" /\ pc' = "receive"
  /\ FitsWhole(frame, mtu)
  /\ wire' = Packets(frame, mtu)
  /\ UNCHANGED <<fragId, frame, mtu>>

SendFragments ==
  /\ pc = "encapsulate" /\ pc' = "receive"
  /\ ~FitsWhole(frame, mtu) /\ ~Oversize(frame)
  /\ wire' = Packets(frame, mtu)
  /\ fragId' = (fragId + 1) % IdSpace
  /\ UNCHANGED <<frame, mtu>>

\* The error leaves forward, and with it the worker's loop.
FailOversize ==
  /\ pc = "encapsulate" /\ pc' = "stopped"
  /\ ~FitsWhole(frame, mtu) /\ Oversize(frame)
  /\ UNCHANGED <<fragId, frame, mtu, wire>>

Next ==
  \/ \E f \in FrameLength : Receive(f)
  \/ \E m \in Mtu : LoadMtu(m)
  \/ SendWhole \/ SendFragments \/ FailOversize

Spec == Init /\ [][Next]_vars

-----------------------------------------------------------------------------
(* Properties.                                                             *)

PacketType == [next : {"etherip", "fragment"}, bytes : Nat,
               length : 0 .. U16 - 1, field : 0 .. U16 - 1]

\* The types of the state; lengths, offsets and flags fit their header fields.
TypeOK ==
  /\ pc \in {"receive", "load", "encapsulate", "stopped"}
  /\ fragId \in 0 .. IdSpace - 1
  /\ frame \in FrameLength \cup {0} /\ mtu \in MinMtu .. MaxMtu
  /\ wire \in Seq(PacketType)

\* No packet is longer than the path MTU, and none claims a length that is
\* not its own: the casts to u16 lose nothing.
FitsPath ==
  \A i \in DOMAIN wire : /\ IPv6Header + wire[i].bytes <= mtu
                         /\ wire[i].length = wire[i].bytes

\* The peer reads back the frame: either one packet of its length, or
\* fragments whose decoded offsets and flags lead it from byte 0 to the last
\* byte without gap, every one but the last a positive multiple of 8 long.
ReadsBack ==
  wire # <<>> =>
    LET n == Len(wire) IN
    \/ /\ n = 1 /\ wire[1].next = "etherip"
       /\ wire[1].length = Payload(frame)
    \/ /\ \A i \in 1 .. n : /\ Accepted(wire[i])
                            /\ ReadMore(wire[i]) <=> i < n
       /\ ReadOffset(wire[1]) = 0
       /\ \A i \in 1 .. n - 1 :
            /\ ReadEnd(wire[i]) = ReadOffset(wire[i + 1])
            /\ ReadLength(wire[i]) % 8 = 0 /\ ReadLength(wire[i]) > 0
       /\ ReadEnd(wire[n]) = Payload(frame)

EthernetFrame == 1522   \* the longest tagged frame of a LAN, without its FCS

\* At the smallest MTU the command line admits, an Ethernet frame makes no
\* more fragments than the peer keeps of one packet; a longer one could.
PeerCanHold == frame <= EthernetFrame => Len(wire) <= MaxFragments

=============================================================================
