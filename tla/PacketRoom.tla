----------------------------- MODULE PacketRoom -----------------------------
(***************************************************************************)
(* The room of an mbuf of one segment, as the calls of Packet change it    *)
(* (dpdk/src/lib.rs:379-466): where the data begin and how long they are.  *)
(* DPDK refuses a call there is no room for, and Packet makes an io::Error *)
(* of it.                                                                  *)
(***************************************************************************)
EXTENDS Integers, Sequences

DataRoom == 2176    \* MempoolConfig::data_room_size, the headroom included
Headroom == 128     \* RTE_PKTMBUF_HEADROOM

\* packet_length: the length is cast to the u16 DPDK takes.
IsLength(n) == n <= 65535

Fresh == [head |-> Headroom, length |-> 0]

CanPrepend(room, n) == IsLength(n) /\ n <= room.head
CanAdjust(room, n) == IsLength(n) /\ n <= room.length
CanTrim(room, n) == IsLength(n) /\ n <= room.length
CanAppend(room, n) == IsLength(n) /\ room.head + room.length + n <= DataRoom

Adjusted(room, n) == [head |-> room.head + n, length |-> room.length - n]
Trimmed(room, n) == [room EXCEPT !.length = @ - n]
Appended(room, n) == [room EXCEPT !.length = @ + n]

\* A packet received in one segment; data() is None for any other.
Received(n) == Appended(Fresh, n)
OneSegment(n) == CanAppend(Fresh, n)

=============================================================================
