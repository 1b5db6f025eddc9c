------------------------- MODULE FragmentationProofs -------------------------
(***************************************************************************)
(* The arithmetic of the fragments, for every frame and every path MTU the *)
(* command line admits.                                                    *)
(***************************************************************************)
EXTENDS Fragmentation, TLAPS

\* A quotient between its multiples.
LEMMA DivBounds ==
  ASSUME NEW a \in Nat, NEW c \in Nat \ {0}
  PROVE  /\ a \div c \in Nat
         /\ (a \div c) * c <= a
         /\ a < (a \div c) * c + c
OBVIOUS

\* Products grow with their factors.
LEMMA TimesMonotone ==
  ASSUME NEW i \in Nat, NEW n \in Nat, NEW c \in Nat, i <= n
  PROVE  i * c <= n * c
OBVIOUS

\* Where the i-th of n chunks of c bytes lies in a payload that n chunks just
\* hold.
LEMMA ChunkPlace ==
  ASSUME NEW c \in Nat, NEW n \in Nat, NEW i \in Nat, NEW total \in Nat,
         c > 0, 1 <= i, i <= n,
         (n - 1) * c < total, total <= n * c
  PROVE  /\ (i - 1) * c \in Nat
         /\ (i - 1) * c < total
         /\ i < n => (i - 1) * c + c < total
         /\ i = n => total <= (i - 1) * c + c
<1>1. i - 1 \in Nat /\ n - 1 \in Nat
  OBVIOUS
<1>2. (i - 1) * c \in Nat /\ (n - 1) * c \in Nat /\ i * c \in Nat
  BY <1>1
<1>3. i * c = (i - 1) * c + c
  BY <1>1
<1>4. (i - 1) * c <= (n - 1) * c
  BY <1>1, TimesMonotone
<1>5. i < n => i * c <= (n - 1) * c
  BY <1>1, TimesMonotone
<1>6. QED
  BY <1>2, <1>3, <1>4, <1>5

\* The room for data is a positive multiple of 8 and leaves the headers theirs.
LEMMA ChunkBounds ==
  ASSUME NEW mtu \in MinMtu .. MaxMtu
  PROVE  /\ Chunk(mtu) \in Nat /\ 16 <= Chunk(mtu) /\ Chunk(mtu) <= 65520
         /\ Chunk(mtu) % 8 = 0
         /\ IPv6Header + FragmentHeader + Chunk(mtu) <= mtu
<1>1. mtu \in Nat /\ 70 <= mtu /\ mtu <= 65575
  BY DEF MinMtu, MaxMtu
<1>2. QED
  BY <1>1 DEF Chunk, IPv6Header, FragmentHeader

\* As many chunks as it takes to reach the end of the payload, and no more.
LEMMA CountBounds ==
  ASSUME NEW frame \in Nat, NEW mtu \in MinMtu .. MaxMtu
  PROVE  /\ Count(frame, mtu) \in Nat \ {0}
         /\ (Count(frame, mtu) - 1) * Chunk(mtu) < Payload(frame)
         /\ Payload(frame) <= Count(frame, mtu) * Chunk(mtu)
<1> DEFINE c == Chunk(mtu)
           a == Payload(frame) + c - 1
           n == a \div c
<1>1. c \in Nat /\ c >= 16
  BY ChunkBounds
<1>2. Payload(frame) \in Nat /\ Payload(frame) >= 2
  BY DEF Payload, EtherIPHeader
<1>3. a \in Nat /\ c \in Nat \ {0}
  BY <1>1, <1>2
<1> HIDE DEF c, a
<1>4. n \in Nat /\ n * c <= a /\ a < n * c + c
  BY <1>3, DivBounds
<1>5. a = Payload(frame) + c - 1
  BY DEF a
<1>6. n # 0
  BY <1>1, <1>2, <1>4, <1>5
<1>7. (n - 1) * c = n * c - c /\ n * c \in Int
  BY <1>1, <1>4
<1>8. (n - 1) * c < Payload(frame) /\ Payload(frame) <= n * c
  BY <1>1, <1>2, <1>4, <1>5, <1>7
<1>9. QED
  BY <1>4, <1>6, <1>8 DEF Count, c, a

\* The 13-bit offset and the flag survive the header field.
LEMMA OffsetFlagsRead ==
  ASSUME NEW off \in Nat, off < U16, off % 8 = 0, NEW more \in BOOLEAN
  PROVE  /\ OffsetFlags(off, more) \in Nat /\ OffsetFlags(off, more) < U16
         /\ (OffsetFlags(off, more) \div 8) * 8 = off
         /\ (OffsetFlags(off, more) \div 2) % 4 = 0
         /\ OffsetFlags(off, more) % 2 = 1 <=> more
<1>1. ((((off \div 8) % U16) * 8) % U16) = off
  BY DEF U16
<1>2. CASE more
  BY <1>1, <1>2 DEF OffsetFlags, U16
<1>3. CASE ~more
  BY <1>1, <1>3 DEF OffsetFlags, U16
<1>4. QED
  BY <1>2, <1>3

\* What the peer reads of the i-th fragment.
THEOREM FragmentRead ==
  ASSUME NEW frame \in Nat, ~Oversize(frame), NEW mtu \in MinMtu .. MaxMtu,
         NEW i \in 1 .. Count(frame, mtu), NEW p,
         p = FragmentPacket(frame, mtu, i)
  PROVE  /\ Accepted(p)
         /\ p.bytes \in Nat /\ p.length = p.bytes /\ p.length < U16
         /\ p.field \in Nat /\ p.field < U16
         /\ IPv6Header + p.bytes <= mtu
         /\ ReadOffset(p) = (i - 1) * Chunk(mtu)
         /\ ReadMore(p) <=> i < Count(frame, mtu)
         /\ i < Count(frame, mtu) => ReadLength(p) = Chunk(mtu)
         /\ i = Count(frame, mtu) => ReadEnd(p) = Payload(frame)
<1> DEFINE c == Chunk(mtu)
           n == Count(frame, mtu)
           total == Payload(frame)
           off == (i - 1) * c
           part == IF total - off < c THEN total - off ELSE c
<1>1. c \in Nat /\ 16 <= c /\ c <= 65520 /\ c % 8 = 0
      /\ IPv6Header + FragmentHeader + c <= mtu
  BY ChunkBounds
<1>2. n \in Nat /\ (n - 1) * c < total /\ total <= n * c
  BY CountBounds
<1>3. i \in Nat /\ 1 <= i /\ i <= n
  BY <1>2
<1>4. total \in Nat /\ total < U16
  BY DEF Oversize, Payload, EtherIPHeader, U16
<1>5. p = [next |-> "fragment", bytes |-> FragmentHeader + part,
           length |-> (FragmentHeader + part) % U16,
           field |-> OffsetFlags(off, off + part < total)]
  BY DEF FragmentPacket
<1> HIDE DEF c, n, total
<1>6. /\ off \in Nat /\ off < total
      /\ i < n => off + c < total
      /\ i = n => total <= off + c
  BY <1>1, <1>2, <1>3, <1>4, ChunkPlace
<1>7. off % 8 = 0
  <2>1. PICK e \in Nat : c = 8 * e
    <3>1. c \div 8 \in Nat /\ c = 8 * (c \div 8)
      BY <1>1
    <3>2. QED
      BY <3>1
  <2>2. (i - 1) * e \in Nat
    BY <1>3, <2>1
  <2>3. off = 8 * ((i - 1) * e)
    BY <1>3, <2>1
  <2>4. \A k \in Nat : (8 * k) % 8 = 0
    OBVIOUS
  <2>5. (8 * ((i - 1) * e)) % 8 = 0
    BY ONLY <2>2, <2>4
  <2>6. QED
    BY ONLY <2>3, <2>5
<1> HIDE DEF off
<1>8. /\ part \in Nat /\ part <= c
      /\ i < n => part = c /\ off + part < total
      /\ i = n => off + part = total
  BY <1>1, <1>3, <1>4, <1>6
<1>9. (off + part < total) <=> i < n
  <2>1. CASE i < n
    BY <1>8, <2>1
  <2>2. CASE i = n
    BY <1>4, <1>8, <2>2
  <2>3. QED
    BY <1>2, <1>3, <2>1, <2>2
<1> HIDE DEF part
<1>10. FragmentHeader + part \in Nat /\ FragmentHeader + part < U16
  BY <1>1, <1>8 DEF FragmentHeader, U16
<1>11. (FragmentHeader + part) % U16 = FragmentHeader + part
  BY <1>10 DEF U16
<1>12. /\ p.next = "fragment" /\ p.bytes = FragmentHeader + part
       /\ p.length = FragmentHeader + part
       /\ p.field = OffsetFlags(off, off + part < total)
  BY <1>5, <1>11
<1>13. /\ p.field \in Nat /\ p.field < U16
       /\ (p.field \div 8) * 8 = off
       /\ (p.field \div 2) % 4 = 0
       /\ p.field % 2 = 1 <=> off + part < total
  <2>1. off < U16
    BY <1>4, <1>6 DEF U16
  <2>2. (off + part < total) \in BOOLEAN
    OBVIOUS
  <2>3. PICK more \in BOOLEAN : more = (off + part < total)
    BY <2>2
  <2>4. p.field = OffsetFlags(off, more)
    BY <1>12, <2>3
  <2>5. off \in Nat /\ off % 8 = 0
    BY <1>6, <1>7
  <2>6. /\ OffsetFlags(off, more) \in Nat /\ OffsetFlags(off, more) < U16
        /\ (OffsetFlags(off, more) \div 8) * 8 = off
        /\ (OffsetFlags(off, more) \div 2) % 4 = 0
        /\ OffsetFlags(off, more) % 2 = 1 <=> more
    BY ONLY <2>1, <2>5, OffsetFlagsRead
  <2>7. QED
    BY ONLY <2>3, <2>4, <2>6
<1>14. mtu \in Nat
  BY DEF MinMtu, MaxMtu
<1>15. /\ IPv6Header + p.bytes <= mtu
       /\ p.length >= FragmentHeader /\ ReadLength(p) = part
  BY <1>1, <1>8, <1>12, <1>14 DEF FragmentHeader, IPv6Header, ReadLength
<1>16. Accepted(p)
  BY <1>12, <1>13, <1>15 DEF Accepted
<1>17. ReadOffset(p) = off /\ (ReadMore(p) <=> i < n)
  BY <1>9, <1>13 DEF ReadOffset, ReadMore
<1>18. /\ i < n => ReadLength(p) = c
       /\ i = n => ReadEnd(p) = total
  BY <1>8, <1>15, <1>17 DEF ReadEnd
<1>19. QED
  BY <1>10, <1>12, <1>13, <1>15, <1>16, <1>17, <1>18 DEF c, n, total, off

=============================================================================
