------------------------- MODULE NeighbourDiscovery -------------------------
(***************************************************************************)
(* The answer to a neighbour solicitation (etherip/src/ndp.rs:8-92), a     *)
(* function of one packet.  An ICMPv6 packet is abstracted to the fields   *)
(* the code reads or writes, the bytes behind its IPv6 header and, for the *)
(* checksum, the sum of its other 16-bit words, `rest'.                    *)
(***************************************************************************)
EXTENDS Integers

CONSTANTS
  Address,         \* IPv6 addresses
  Local,           \* local_ipv6
  SolicitedNode,   \* its solicited-node multicast address
  AllNodes,        \* ff02::1
  Unspecified,     \* ::
  WordSum,         \* the sum of an address's eight 16-bit words
  MacSum,          \* the sum of the three words of local_mac
  None

\* What k words of 16 bits can add up to.
SumOf(k) == {n \in Nat : (n + k - 1) \div k <= 65535}

ASSUME NeighbourAssumption ==
  /\ {Local, SolicitedNode, AllNodes, Unspecified} \subseteq Address
  /\ WordSum \in [Address -> SumOf(8)] /\ MacSum \in SumOf(3)

SolicitationLength == 24    \* NS_LENGTH
AdvertisementLength == 32   \* NA_LENGTH
Icmpv6 == 58                \* NEXT_ICMPV6
Solicitation == 135
Advertisement == 136

Byte == 0 .. 255
Word == 0 .. 65535
Message ==
  [source : Address, destination : Address, hop : Byte, bytes : Nat,
   length : Word, type : Byte, code : Byte, target : Address,
   checksum : Word, rest : SumOf(32768)]

Sum(p) ==
  WordSum[p.source] + WordSum[p.destination] + p.type * 256 + p.code
  + p.checksum + WordSum[p.target] + p.rest + p.length + Icmpv6

\* sum & 0xffff, sum >> 16, and one round of the loop of icmpv6_checksum.
Low(sum) == sum % 65536
High(sum) == sum \div 65536
Carried(sum) == Low(sum) + High(sum)

\* Mutation: the carry of the carry is forgotten.
FoldedOnce(sum) == Low(Carried(sum))

\* Two rounds leave no carry of a u32.
Folded(sum) == Carried(Carried(sum))

Checksum(p) == 65535 - Folded(Sum(p))

ForMe(p) == p.destination \in {Local, SolicitedNode} /\ p.target = Local

WellFormed(p) ==
  /\ p.bytes >= SolicitationLength /\ p.hop = 255
  /\ p.length >= SolicitationLength /\ p.bytes >= p.length

Solicits(p) ==
  /\ WellFormed(p) /\ ForMe(p)
  /\ p.type = Solicitation /\ p.code = 0
  /\ Checksum(p) = 0

\* The flags Override and, outside duplicate address detection, Solicited,
\* then the option of type 2 and length 1 with local_mac.
ReplyRest(p) ==
  (IF p.source = Unspecified THEN 8192 ELSE 24576) + 2 * 256 + 1 + MacSum

Unsigned(p) ==
  [source |-> Local,
   destination |-> IF p.source = Unspecified THEN AllNodes ELSE p.source,
   hop |-> 255, bytes |-> AdvertisementLength, length |-> AdvertisementLength,
   type |-> Advertisement, code |-> 0, target |-> Local,
   checksum |-> 0, rest |-> ReplyRest(p)]

\* ndp_advertisement: a reply, or None.
NdpAdvertisement(p) ==
  IF Solicits(p)
  THEN [Unsigned(p) EXCEPT !.checksum = Checksum(Unsigned(p))]
  ELSE None

\* A node takes an advertisement of this address: its header and checksum
\* are right and it answers the sender, or all nodes when the sender has no
\* address yet.
Convinces(p, reply) ==
  /\ WellFormed(reply) /\ reply.type = Advertisement /\ Checksum(reply) = 0
  /\ reply.target = Local /\ reply.source = Local
  /\ reply.destination = IF p.source = Unspecified THEN AllNodes ELSE p.source

=============================================================================
