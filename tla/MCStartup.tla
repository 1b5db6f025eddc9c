------------------------------ MODULE MCStartup ------------------------------
(***************************************************************************)
(* The process for TLC: one worker with three packets, two workers with    *)
(* two, and command lines that are refused, or fail, before any packet     *)
(* comes.                                                                  *)
(***************************************************************************)
EXTENDS Startup, TLC

LeastFree == [S \in (SUBSET (1 .. 3)) \ {{}} |->
                CHOOSE m \in S : \A n \in S : m <= n]

Mbufs3 == 1 .. 3
TwoWorkers == {0, 1}

Line(workers, lcores, burst, queue) ==
  [workers |-> workers, lcores |-> lcores, mainLcore |-> 1, burst |-> burst,
   rxQueue |-> queue, txQueue |-> queue]

One == Line(1, {1}, 2, 0)
Two == Line(2, {0, 1, 2, 3}, 2, 0)

\* An odd burst, a queue at the limit, too few lcores, three workers.
Configs == {One, Two, Line(1, {1}, 3, 0), Line(1, {1}, 2, 65535),
            Line(2, {1, 2}, 2, 0), Line(3, {0, 1, 2, 3}, 2, 0)}

\* Two workers have more queues, so more mbufs idle in their descriptors.
Pools == [c \in Configs |-> IF c.workers = 1 THEN 1 .. 3 ELSE 1 .. 2]

Arrivals == [c \in Configs |-> IF c = One THEN 3
                               ELSE IF c.workers = 2 THEN 2
                               ELSE IF c.burst = 3 THEN 1 ELSE 0]

\* Sent whole; in two fragments once the tag is off; in fragments too long
\* for an mbuf.
LanFrames == {[length |-> 60, tagged |-> FALSE, mtu |-> 1500],
              [length |-> 60, tagged |-> TRUE, mtu |-> 80],
              [length |-> 2048, tagged |-> FALSE, mtu |-> 2089]}

\* The longest frame that has room for a tag when it comes whole, one that has
\* none when it is reassembled, the shortest that takes a tag, and one shorter,
\* which comes without a VLAN too.
WanFrames == {[length |-> 1988, tagged |-> TRUE],
              [length |-> 2048, tagged |-> TRUE],
              [length |-> 12, tagged |-> TRUE],
              [length |-> 11, tagged |-> TRUE],
              [length |-> 11, tagged |-> FALSE]}

\* Sums for which the checksum of an answer has a carry of a carry.
Addresses == {"local", "solicitedNode", "allNodes", "unspecified", "host"}
Sums == [a \in Addresses |->
           CASE a = "local" -> 74567 [] a = "solicitedNode" -> 142000
             [] a = "allNodes" -> 65283 [] a = "unspecified" -> 0
             [] a = "host" -> 280690]

Ask(source, destination, target, checksum) ==
  [source |-> source, destination |-> destination, hop |-> 255, bytes |-> 32,
   length |-> 32, type |-> 135, code |-> 0, target |-> target,
   checksum |-> checksum, rest |-> 4660]

Signed(m) == [m EXCEPT !.checksum = Checksum(m)]

\* A host asks; a host makes sure that the address is free; one asks for
\* another address; one has a wrong checksum.
Messages == {Signed(Ask("host", "local", "local", 0)),
             Signed(Ask("unspecified", "solicitedNode", "local", 0)),
             Signed(Ask("host", "solicitedNode", "host", 0)),
             Ask("host", "local", "local", 1)}

=============================================================================
