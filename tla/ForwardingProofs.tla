-------------------------- MODULE ForwardingProofs --------------------------
(***************************************************************************)
(* What every step of a worker and of a port keeps, whatever the command   *)
(* line, the frames and the answers of DPDK: each mbuf has one owner, each *)
(* error has its cause, each advertisement verifies.  StartupProofs puts   *)
(* the steps together.                                                     *)
(***************************************************************************)
EXTENDS Forwarding, FragmentationProofs, FiniteSetTheorems

-----------------------------------------------------------------------------
(* The checksum.                                                           *)

Base == 65536

\* A sum is its two halves.
LEMMA Halves ==
  ASSUME NEW n \in Nat
  PROVE /\ High(n) \in Nat /\ Low(n) \in Nat
        /\ n = Base * High(n) + Low(n) /\ Low(n) < Base
<1>1. High(n) \in Nat /\ Low(n) \in Nat
  BY SMT DEF High, Low
<1>2. n = 65536 * High(n) + Low(n) 
  BY SMT DEF High, Low
<1>3. Low(n) < 65536
  BY SMT DEF Low
<1> QED BY <1>1, <1>2, <1>3, SMT DEF Base

\* A halved word has 2^16 values; only that it is large matters.
LEMMA BaseBig == Base \in Nat /\ Base > 60000
  BY SMT DEF Base

\* A round of the loop takes away a multiple of 65535, and never all.
LEMMA CarryKeeps ==
  ASSUME NEW n \in Nat
  PROVE /\ Carried(n) \in Nat /\ n = Carried(n) + (Base - 1) * High(n)
        /\ n > 0 => Carried(n) > 0
        /\ High(n) < Base => Carried(n) < 2 * Base - 1
<1>1. Carried(n) = Low(n) + High(n)
  BY DEF Carried
<1>2. (Base - 1) * High(n) = Base * High(n) - High(n)
  BY SMT, BaseBig, Halves
<1>3. High(n) = 0 => Base * High(n) = 0
  BY SMT, BaseBig, Halves
<1>4. Base * High(n) \in Nat
  BY BaseBig, Halves, SMT
<1> DEFINE above == Base * High(n)
           rest == (Base - 1) * High(n)
<1>5. /\ rest = above - High(n) /\ above \in Nat /\ n = above + Low(n)
      /\ High(n) = 0 => above = 0
  BY <1>2, <1>3, <1>4, Halves
<1> HIDE DEF above, rest
<1>6. /\ Carried(n) \in Nat /\ n = Carried(n) + rest
  BY <1>1, <1>5, Halves, SMT
<1>7. n > 0 => Carried(n) > 0
  BY <1>1, <1>5, Halves, SMT
<1>8. High(n) < Base => Carried(n) < 2 * Base - 1
  BY <1>1, Halves, BaseBig, SMT
<1> QED BY <1>6, <1>7, <1>8 DEF rest

\* What the first round leaves has a carry of 1 at most.
LEMMA OneCarry ==
  ASSUME NEW n \in Nat, n < 2 * Base - 1
  PROVE Carried(n) < Base
<1>1. CASE High(n) = 0
  BY <1>1, Halves, BaseBig, SMT DEF Carried
<1>2. CASE High(n) = 1
  BY <1>2, Halves, BaseBig, SMT DEF Carried
<1>3. CASE High(n) >= 2
  <2>1. Base * High(n) >= Base * 2
    <3>1. ASSUME NEW b \in Nat, NEW h \in Nat, h >= 2
          PROVE  b * h >= b * 2
      <4>1. b * h = b * 2 + b * (h - 2) /\ b * (h - 2) >= 0
        BY <3>1, SMT
      <4> QED BY <4>1, SMT
    <3>2. Base \in Nat /\ High(n) \in Nat
      BY Halves, BaseBig
    <3> QED BY <3>1, <3>2, <1>3
  <2> QED BY <2>1, Halves, BaseBig, SMT
<1> QED BY <1>1, <1>2, <1>3, Halves, SMT

\* Two rounds make a 16-bit word of any sum of a u32, congruent to it modulo
\* 65535 and 0 only for 0.
LEMMA FoldedWord ==
  ASSUME NEW n \in Nat, n > 0, High(n) < Base
  PROVE /\ Folded(n) \in Nat /\ 0 < Folded(n) /\ Folded(n) < Base
        /\ \E k \in Nat : n = Folded(n) + (Base - 1) * k
<1>1. /\ Carried(n) \in Nat /\ Carried(n) > 0 /\ Carried(n) < 2 * Base - 1
  BY CarryKeeps
<1>2. Folded(n) \in Nat /\ Folded(n) > 0 /\ Folded(n) < Base
  BY <1>1, CarryKeeps, OneCarry DEF Folded
<1>3. n = Carried(n) + (Base - 1) * High(n)
  BY CarryKeeps
<1>4. Carried(n) = Folded(n) + (Base - 1) * High(Carried(n))
  BY <1>1, CarryKeeps DEF Folded
<1>5. High(n) \in Nat /\ High(Carried(n)) \in Nat
  BY <1>1, Halves
<1>6. (Base - 1) * High(n) + (Base - 1) * High(Carried(n))
        = (Base - 1) * (High(n) + High(Carried(n)))
  BY <1>5, BaseBig, SMT
<1>7. n = Folded(n) + (Base - 1) * (High(n) + High(Carried(n)))
  <2> DEFINE A == (Base - 1) * High(n)
             B == (Base - 1) * High(Carried(n))
  <2>1. A \in Int /\ B \in Int
    BY <1>5, BaseBig, SMT
  <2>2. n = Carried(n) + A /\ Carried(n) = Folded(n) + B
    BY <1>3, <1>4
  <2> HIDE DEF A, B
  <2>3. n = Folded(n) + (A + B)
    BY <2>1, <2>2, <1>1, <1>2, SMT
  <2> QED BY <2>3, <1>6 DEF A, B
<1>8. High(n) + High(Carried(n)) \in Nat
  BY <1>5, SMT
<1> QED BY <1>2, <1>7, <1>8

\* A message with the complement of its sum in the checksum verifies.
LEMMA ComplementVerifies ==
  ASSUME NEW n \in Nat, n > 0,
         High(n + (Base - 1 - Folded(n))) < Base, High(n) < Base
  PROVE  Folded(n + (Base - 1 - Folded(n))) = Base - 1
<1> DEFINE t == n + (Base - 1 - Folded(n))
<1>1. Folded(n) \in Nat /\ 0 < Folded(n) /\ Folded(n) < Base
  BY FoldedWord
<1>2. PICK k \in Nat : n = Folded(n) + (Base - 1) * k
  BY FoldedWord
<1>3. t \in Nat /\ t > 0 
  BY <1>1, BaseBig, SMT
<1>4. t = (Base - 1) * k + (Base - 1)
  BY <1>1, <1>2, BaseBig, SMT
<1>5. High(t) < Base
  OBVIOUS
<1> HIDE DEF t
<1>6. Folded(t) \in Nat /\ 0 < Folded(t) /\ Folded(t) < Base
  BY FoldedWord, <1>3, <1>5
<1>7. PICK j \in Nat : t = Folded(t) + (Base - 1) * j
  BY FoldedWord, <1>3, <1>5
<1>8. ASSUME NEW M \in Nat, M > 0, NEW f \in Nat, 0 < f, f <= M,
             M * k + M = f + M * j
      PROVE  f = M
  <2>1. f = M * (k + 1 - j)
    BY <1>8, SMT
  <2>2. k + 1 - j \in Int
    BY SMT
  <2>3. CASE k + 1 - j = 1
    BY <2>1, <2>3, SMT
  <2>4. CASE k + 1 - j <= 0
    <3>1. M * (k + 1 - j) <= 0
      BY <2>4, <2>2, <1>8, SMT
    <3> QED BY <3>1, <2>1, <1>8, SMT
  <2>5. CASE k + 1 - j >= 2
    <3>1. M * (k + 1 - j) >= M * 2
      BY <2>5, <2>2, <1>8, SMT
    <3> QED BY <3>1, <2>1, <1>8, SMT
  <2> QED BY <2>2, <2>3, <2>4, <2>5, SMT
<1>9. Base - 1 \in Nat /\ Base - 1 > 0
  BY BaseBig, SMT
<1>10. (Base - 1) * k + (Base - 1) = Folded(t) + (Base - 1) * j
  BY <1>4, <1>7
<1>11. Folded(t) <= Base - 1
  BY <1>6, BaseBig, SMT
<1> QED BY <1>6, <1>8, <1>9, <1>10, <1>11 DEF t

\* The words of an address, and those of a MAC, add up to few times 2^16.
LEMMA WordSums ==
  /\ \A a \in Address : WordSum[a] \in Nat /\ WordSum[a] <= 8 * Base
  /\ MacSum \in Nat /\ MacSum <= 3 * Base
<1>1. /\ \A a \in Address : WordSum[a] \in SumOf(8)
      /\ MacSum \in SumOf(3)
  BY NeighbourAssumption
<1>2. ASSUME NEW n \in SumOf(8)
      PROVE  n \in Nat /\ n <= 8 * Base
  <2>1. n \in Nat /\ (n + 8 - 1) \div 8 <= 65535
    BY <1>2, SMT DEF SumOf
  <2>2. (n + 8 - 1) \div 8 < Base
    BY <2>1, SMT DEF Base
  <2> QED
    BY <2>1, <2>2, BaseBig, SMT
<1>3. ASSUME NEW n \in SumOf(3)
      PROVE  n \in Nat /\ n <= 3 * Base
  <2>1. n \in Nat /\ (n + 3 - 1) \div 3 <= 65535
    BY <1>3, SMT DEF SumOf
  <2>2. (n + 3 - 1) \div 3 < Base
    BY <2>1, SMT DEF Base
  <2> QED
    BY <2>1, <2>2, BaseBig, SMT
<1> QED
  BY <1>1, <1>2, <1>3

\* A sum below 2^16 * 2^16 is one of a u32.
LEMMA HighBound ==
  ASSUME NEW n \in Nat, n < 60 * Base
  PROVE  High(n) < Base
<1>1. CASE High(n) >= Base
  <2>1. ASSUME NEW b \in Nat, NEW h \in Nat, h >= b, b > 60
        PROVE  b * h >= 60 * b
    <3>1. b * h = b * b + b * (h - b) /\ b * (h - b) >= 0
      BY <2>1, SMT
    <3>2. b * b = 60 * b + b * (b - 60) /\ b * (b - 60) >= 0
      BY <2>1, SMT
    <3> QED
      BY <3>1, <3>2, <2>1, SMT
  <2>2. Base * High(n) >= 60 * Base
    <3>1. Base \in Nat /\ High(n) \in Nat /\ Base > 60
      BY Halves, BaseBig, SMT
    <3> QED
      BY <3>1, <2>1, <1>1
  <2>3. Base * High(n) \in Nat
    BY Halves, BaseBig, SMT
  <2> QED
    BY <2>2, <2>3, Halves, BaseBig, SMT
<1> QED
  BY <1>1, Halves, BaseBig, SMT

\* Whoever solicits gets an advertisement that verifies and is for it.
LEMMA AdvertisementConvinces ==
  ASSUME NEW m \in Message, NdpAdvertisement(m) # None
  PROVE  /\ m.target = Local
         /\ Convinces(m, NdpAdvertisement(m))
<1> DEFINE u == Unsigned(m)
           n == Sum(u)
           reply == NdpAdvertisement(m)
<1>1. /\ m.target = Local
      /\ reply = [u EXCEPT !.checksum = Checksum(u)]
  BY DEF NdpAdvertisement, Solicits, ForMe
<1>2. m.source \in Address /\ Local \in Address /\ AllNodes \in Address
  BY NeighbourAssumption, SMT DEF Message
<1>3. /\ WordSum[u.source] \in Nat /\ WordSum[u.source] <= 8 * Base
      /\ WordSum[u.destination] \in Nat /\ WordSum[u.destination] <= 8 * Base
      /\ WordSum[u.target] \in Nat /\ WordSum[u.target] <= 8 * Base
  BY <1>2, WordSums DEF Unsigned
<1>4. /\ u.rest \in Nat /\ u.rest <= 4 * Base
      /\ u.type = 136 /\ u.code = 0 /\ u.length = 32 /\ u.checksum = 0
  BY WordSums, BaseBig, SMT
     DEF Unsigned, ReplyRest, Advertisement, AdvertisementLength
<1>5. n \in Nat /\ n > 0 /\ n < 30 * Base
  BY <1>3, <1>4, BaseBig, SMT DEF Sum, Icmpv6
<1>6. Sum(reply) = n + Checksum(u)
  <2>1. /\ reply.source = u.source /\ reply.destination = u.destination
        /\ reply.type = u.type /\ reply.code = u.code
        /\ reply.checksum = Checksum(u) /\ reply.target = u.target
        /\ reply.rest = u.rest /\ reply.length = u.length
    BY <1>1 DEF Unsigned
  <2>2. Checksum(u) \in Int
    <3>1. Folded(n) \in Nat
      BY <1>5, HighBound, FoldedWord, BaseBig, SMT
    <3> QED
      BY <3>1, SMT DEF Checksum
  <2> QED
    BY <2>1, <2>2, <1>3, <1>4, SMT DEF Sum, Icmpv6
<1>7. /\ Checksum(u) = Base - 1 - Folded(n)
      /\ Checksum(reply) = Base - 1 - Folded(Sum(reply))
  BY SMT DEF Checksum, Base
<1>8. Folded(n) \in Nat /\ 0 < Folded(n) /\ Folded(n) < Base
  BY <1>5, HighBound, FoldedWord, BaseBig, SMT
<1>9. Checksum(reply) = 0
  <2>1. n < 60 * Base /\ n + (Base - 1 - Folded(n)) < 60 * Base
        /\ n + (Base - 1 - Folded(n)) \in Nat
    BY <1>5, <1>8, BaseBig, SMT
  <2>2. Folded(n + (Base - 1 - Folded(n))) = Base - 1
    BY <2>1, <1>5, HighBound, ComplementVerifies
  <2> QED
    BY <2>2, <1>6, <1>7, BaseBig, SMT
<1>10. /\ WellFormed(reply) /\ reply.type = Advertisement
       /\ reply.target = Local /\ reply.source = Local
       /\ reply.destination =
            IF m.source = Unspecified THEN AllNodes ELSE m.source
  BY <1>1 DEF Unsigned, WellFormed, SolicitationLength, AdvertisementLength
<1> QED
  BY <1>1, <1>9, <1>10 DEF Convinces

-----------------------------------------------------------------------------
(* Lists of packets, of whatever kind.                                     *)

\* The first n packets of a list, and the list without them.
LEMMA Taken ==
  ASSUME NEW S, NEW l \in [Place -> Seq(S)], NEW a \in Place,
         NEW n \in 0 .. Len(l[a])
  PROVE  /\ Without(l, a, n) \in [Place -> Seq(S)]
         /\ First(l[a], n) \in Seq(S) /\ Len(First(l[a], n)) = n
         /\ \A i \in 1 .. n : First(l[a], n)[i] = l[a][i]
         /\ Len(Without(l, a, n)[a]) = Len(l[a]) - n
         /\ \A i \in 1 .. Len(l[a]) - n : Without(l, a, n)[a][i] = l[a][n + i]
         /\ \A b \in Place \ {a} : Without(l, a, n)[b] = l[b]
<1> DEFINE s == l[a]
<1>1. s \in Seq(S) /\ Len(s) \in Nat /\ n \in Nat /\ n <= Len(s)
  OBVIOUS
<1>2. /\ Without(l, a, n)[a] = SubSeq(s, n + 1, Len(s))
      /\ \A b \in Place \ {a} : Without(l, a, n)[b] = l[b]
      /\ Without(l, a, n) = [l EXCEPT ![a] = SubSeq(s, n + 1, Len(s))]
  BY DEF Without
<1> HIDE DEF s
<1>3. /\ SubSeq(s, n + 1, Len(s)) \in Seq(S)
      /\ Len(SubSeq(s, n + 1, Len(s))) = Len(s) - n
      /\ \A i \in 1 .. Len(s) - n : SubSeq(s, n + 1, Len(s))[i] = s[n + i]
  BY <1>1
<1>4. /\ SubSeq(s, 1, n) \in Seq(S)
      /\ Len(SubSeq(s, 1, n)) = n
      /\ \A i \in 1 .. n : SubSeq(s, 1, n)[i] = s[i]
  BY <1>1
<1> QED
  BY <1>2, <1>3, <1>4 DEF s, First

\* A list with packets added at its end.
LEMMA Put ==
  ASSUME NEW S, NEW l \in [Place -> Seq(S)], NEW a \in Place, NEW s \in Seq(S)
  PROVE  /\ With(l, a, s) \in [Place -> Seq(S)]
         /\ \A b \in Place \ {a} : With(l, a, s)[b] = l[b]
         /\ Len(With(l, a, s)[a]) = Len(l[a]) + Len(s)
         /\ \A i \in 1 .. Len(l[a]) : With(l, a, s)[a][i] = l[a][i]
         /\ \A i \in 1 .. Len(s) : With(l, a, s)[a][Len(l[a]) + i] = s[i]
<1> DEFINE t == l[a]
<1>1. t \in Seq(S)
  OBVIOUS
<1>2. /\ With(l, a, s)[a] = t \o s
      /\ \A b \in Place \ {a} : With(l, a, s)[b] = l[b]
      /\ With(l, a, s) = [l EXCEPT ![a] = t \o s]
  BY DEF With
<1> HIDE DEF t
<1>3. /\ t \o s \in Seq(S) /\ Len(t \o s) = Len(t) + Len(s)
      /\ \A i \in 1 .. Len(t) : (t \o s)[i] = t[i]
      /\ \A i \in 1 .. Len(s) : (t \o s)[Len(t) + i] = s[i]
  BY <1>1
<1> QED
  BY <1>2, <1>3 DEF t

\* Packets move without a change.
LEMMA Moved ==
  ASSUME NEW S, NEW l \in [Place -> Seq(S)], NEW a \in Place, NEW b \in Place,
         NEW n \in 0 .. Len(l[a])
  PROVE  Passed(l, a, b, n) \in [Place -> Seq(S)]
BY Taken, Put DEF Passed

\* What is freed of a place leaves nothing there.
LEMMA Freed ==
  ASSUME NEW S, NEW l \in [Place -> Seq(S)], NEW P
  PROVE  Emptied(l, P) \in [Place -> Seq(S)]
<1>1. <<>> \in Seq(S)
  OBVIOUS
<1> QED
  BY <1>1 DEF Emptied

-----------------------------------------------------------------------------
(* Ownership.                                                              *)

\* Packets taken out of a list and freed.
LEMMA TakeOwned ==
  ASSUME NEW S, NEW l \in [Place -> Seq(S)], NEW a \in Place,
         NEW n \in 0 .. Len(l[a]), NEW F, NEW M, Partitions(l, F, M)
  PROVE  Partitions(Without(l, a, n), F \cup Mbufs(First(l[a], n)), M)
<1> DEFINE k == Without(l, a, n)
           t == First(l[a], n)
           At(b, i) == IF b = a THEN n + i ELSE i
<1>1. /\ k \in [Place -> Seq(S)] /\ t \in Seq(S) /\ Len(t) = n
      /\ \A i \in 1 .. n : t[i] = l[a][i]
      /\ Len(k[a]) = Len(l[a]) - n
      /\ \A i \in 1 .. Len(l[a]) - n : k[a][i] = l[a][n + i]
      /\ \A b \in Place \ {a} : k[b] = l[b]
  BY Taken
<1> HIDE DEF k, t
<1>2. \A b \in Place : /\ DOMAIN l[b] = 1 .. Len(l[b])
                       /\ DOMAIN k[b] = 1 .. Len(k[b])
  BY <1>1
<1>3. \A b \in Place : \A i \in DOMAIN k[b] :
        /\ At(b, i) \in DOMAIN l[b] /\ k[b][i] = l[b][At(b, i)]
        /\ b = a => At(b, i) > n
  <2> TAKE b \in Place
  <2> TAKE i \in DOMAIN k[b]
  <2>0. n \in Nat /\ Len(l[a]) \in Nat
    BY <1>2
  <2>1. CASE b # a
    BY <2>1, <1>1
  <2>2. CASE b = a
    <3>1. i \in 1 .. Len(l[a]) - n
      BY <2>2, <1>1, <1>2
    <3>2. /\ k[a][i] = l[a][n + i]
          /\ i \in Nat /\ i >= 1 /\ n + i \in 1 .. Len(l[a]) /\ n + i > n
      <4>1. k[a][i] = l[a][n + i]
        BY <3>1, <1>1
      <4>2. ASSUME NEW m \in Nat, i \in 1 .. m - n
            PROVE  i \in Nat /\ i >= 1 /\ n + i \in 1 .. m /\ n + i > n
        BY <4>2, <2>0
      <4> QED
        BY <4>1, <4>2, <3>1, <2>0
    <3>3. DOMAIN l[a] = 1 .. Len(l[a]) /\ At(b, i) = n + i
      BY <2>2, <1>2
    <3> QED
      BY <3>2, <3>3, <2>2
  <2> QED
    BY <2>1, <2>2
<1>4. Apart(k)
  <2> SUFFICES ASSUME NEW b \in Place, NEW c \in Place, NEW i \in DOMAIN k[b],
                      NEW j \in DOMAIN k[c], k[b][i].mbuf = k[c][j].mbuf
               PROVE  b = c /\ i = j
    BY DEF Apart
  <2>1. b = c /\ At(b, i) = At(c, j)
    BY <1>3 DEF Partitions, Apart
  <2>2. i \in Nat /\ j \in Nat
    BY <1>2
  <2> QED
    BY <2>1, <2>2
<1>5. \A i \in DOMAIN t : i \in DOMAIN l[a] /\ t[i] = l[a][i] /\ i <= n
  BY <1>1, <1>2
<1>6. (F \cup Mbufs(t)) \cap MbufsAt(k, Place) = {}
  <2> SUFFICES ASSUME NEW b \in Place, NEW i \in DOMAIN k[b],
                      k[b][i].mbuf \in F \cup Mbufs(t)
               PROVE  FALSE
    BY DEF MbufsAt, Mbufs
  <2>1. k[b][i].mbuf = l[b][At(b, i)].mbuf /\ At(b, i) \in DOMAIN l[b]
    BY <1>3
  <2>2. k[b][i].mbuf \notin F
    BY <2>1 DEF Partitions, MbufsAt, Mbufs
  <2>3. PICK j \in DOMAIN t : t[j].mbuf = k[b][i].mbuf
    BY <2>2 DEF Mbufs
  <2>4. b = a /\ At(b, i) = j
    BY <2>1, <2>3, <1>5 DEF Partitions, Apart
  <2> QED
    BY <2>4, <1>3, <1>5, <1>1
<1>7. F \cup Mbufs(t) \cup MbufsAt(k, Place) = M
  <2>1. MbufsAt(k, Place) \subseteq MbufsAt(l, Place)
    BY <1>3 DEF MbufsAt, Mbufs
  <2>2. Mbufs(t) \subseteq MbufsAt(l, Place)
    BY <1>5 DEF MbufsAt, Mbufs
  <2>3. ASSUME NEW b \in Place, NEW i \in DOMAIN l[b]
        PROVE  l[b][i].mbuf \in Mbufs(t) \cup MbufsAt(k, Place)
    <3>1. CASE b # a
      BY <3>1, <1>1 DEF MbufsAt, Mbufs
    <3>2. CASE b = a /\ i <= n
      <4>1. i \in DOMAIN t /\ t[i] = l[b][i]
        BY <3>2, <1>1, <1>2
      <4> QED
        BY <4>1 DEF Mbufs
    <3>3. CASE b = a /\ ~(i <= n)
      <4>1. i \in n + 1 .. Len(l[a]) /\ i - n \in 1 .. Len(l[a]) - n
        BY <3>3, <1>1, <1>2
      <4>2. DOMAIN k[a] = 1 .. Len(l[a]) - n
        BY <1>1, <1>2
      <4>3. k[a][i - n] = l[a][n + (i - n)]
        BY <4>1, <1>1
      <4>4. n + (i - n) = i
        BY <4>1, <1>2
      <4> QED
        BY <4>1, <4>2, <4>3, <4>4, <3>3 DEF MbufsAt, Mbufs
    <3> QED
      BY <3>1, <3>2, <3>3
  <2>4. MbufsAt(l, Place) \subseteq Mbufs(t) \cup MbufsAt(k, Place)
    BY <2>3 DEF MbufsAt, Mbufs
  <2> QED
    BY <2>1, <2>2, <2>4 DEF Partitions
<1> QED
  BY <1>4, <1>6, <1>7 DEF Partitions, k, t

\* Packets of free mbufs, all different, put into a list.
LEMMA PutOwned ==
  ASSUME NEW S, NEW l \in [Place -> Seq(S)], NEW a \in Place, NEW s \in Seq(S),
         NEW F, NEW M, Partitions(l, F, M), Mbufs(s) \subseteq F,
         \A i, j \in DOMAIN s : s[i].mbuf = s[j].mbuf => i = j
  PROVE  Partitions(With(l, a, s), F \ Mbufs(s), M)
<1> DEFINE k == With(l, a, s)
<1>1. /\ k \in [Place -> Seq(S)]
      /\ \A b \in Place \ {a} : k[b] = l[b]
      /\ Len(k[a]) = Len(l[a]) + Len(s)
      /\ \A i \in 1 .. Len(l[a]) : k[a][i] = l[a][i]
      /\ \A i \in 1 .. Len(s) : k[a][Len(l[a]) + i] = s[i]
  BY Put, SMTT(30)
<1> HIDE DEF k
<1>2. /\ \A b \in Place : /\ Len(l[b]) \in Nat /\ DOMAIN l[b] = 1 .. Len(l[b])
                          /\ DOMAIN k[b] = 1 .. Len(k[b])
      /\ Len(s) \in Nat /\ DOMAIN s = 1 .. Len(s)
  BY <1>1
<1>3. \A b \in Place : \A i \in DOMAIN k[b] :
        \/ i \in DOMAIN l[b] /\ k[b][i] = l[b][i]
        \/ /\ b = a /\ i - Len(l[a]) \in DOMAIN s
           /\ k[b][i] = s[i - Len(l[a])]
  <2> TAKE b \in Place
  <2> TAKE i \in DOMAIN k[b]
  <2>1. CASE b # a \/ i <= Len(l[a])
    BY <2>1, <1>1, <1>2
  <2>2. CASE b = a /\ ~(i <= Len(l[a]))
    <3> DEFINE d == i - Len(l[a])
    <3>1. d \in DOMAIN s /\ i = Len(l[a]) + d
      BY <2>2, <1>1, <1>2
    <3> QED
      BY <3>1, <2>2, <1>1, <1>2
  <2> QED
    BY <2>1, <2>2
<1>4. /\ \A b \in Place : \A i \in DOMAIN l[b] : l[b][i].mbuf \notin F
      /\ \A i \in DOMAIN s : s[i].mbuf \in F
  BY DEF Partitions, MbufsAt, Mbufs
<1>5. Apart(k)
  <2> SUFFICES ASSUME NEW b \in Place, NEW c \in Place, NEW i \in DOMAIN k[b],
                      NEW j \in DOMAIN k[c], k[b][i].mbuf = k[c][j].mbuf
               PROVE  b = c /\ i = j
    BY DEF Apart
  <2>1. CASE /\ i \in DOMAIN l[b] /\ k[b][i] = l[b][i]
             /\ j \in DOMAIN l[c] /\ k[c][j] = l[c][j]
    BY <2>1 DEF Partitions, Apart
  <2>2. CASE /\ b = a /\ i - Len(l[a]) \in DOMAIN s
             /\ k[b][i] = s[i - Len(l[a])]
             /\ c = a /\ j - Len(l[a]) \in DOMAIN s
             /\ k[c][j] = s[j - Len(l[a])]
    <3>1. i - Len(l[a]) = j - Len(l[a])
      BY <2>2
    <3> QED
      BY <3>1, <2>2, <1>2
  <2> QED
    BY <2>1, <2>2, <1>3, <1>4
<1>6. (F \ Mbufs(s)) \cap MbufsAt(k, Place) = {}
  BY <1>3, <1>4 DEF MbufsAt, Mbufs
<1>7. (F \ Mbufs(s)) \cup MbufsAt(k, Place) = M
  <2>1. MbufsAt(k, Place) \subseteq MbufsAt(l, Place) \cup F
    <3>1. ASSUME NEW b \in Place, NEW i \in DOMAIN k[b], k[b][i].mbuf \notin F
          PROVE  i \in DOMAIN l[b] /\ k[b][i] = l[b][i]
      BY <3>1, <1>3, <1>4
    <3>2. ASSUME NEW b \in Place, NEW i \in DOMAIN k[b]
          PROVE  k[b][i].mbuf \in MbufsAt(l, Place) \cup F
      <4>1. CASE k[b][i].mbuf \in F
        BY <4>1
      <4>2. CASE k[b][i].mbuf \notin F
        <5>1. i \in DOMAIN l[b] /\ k[b][i] = l[b][i]
          BY <3>1, <4>2
        <5> QED
          BY <5>1 DEF MbufsAt, Mbufs
      <4> QED
        BY <4>1, <4>2
    <3> QED
      BY <3>2, SMTT(30) DEF MbufsAt, Mbufs
  <2>2. ASSUME NEW b \in Place, NEW i \in DOMAIN l[b]
        PROVE  i \in DOMAIN k[b] /\ k[b][i] = l[b][i]
    <3>1. CASE b # a
      BY <3>1, <1>1
    <3>2. CASE b = a
      <4>1. i \in 1 .. Len(l[a]) /\ DOMAIN k[a] = 1 .. Len(l[a]) + Len(s)
        BY <3>2, <1>1, <1>2
      <4>2. i \in 1 .. Len(l[a]) + Len(s)
        BY <4>1, <1>2
      <4> QED
        BY <4>1, <4>2, <3>2, <1>1
    <3> QED
      BY <3>1, <3>2
  <2>3. MbufsAt(l, Place) \subseteq MbufsAt(k, Place)
    BY <2>2 DEF MbufsAt, Mbufs
  <2>4. ASSUME NEW i \in DOMAIN s
        PROVE  /\ Len(l[a]) + i \in DOMAIN k[a]
               /\ k[a][Len(l[a]) + i] = s[i]
    BY <1>1, <1>2
  <2>5. Mbufs(s) \subseteq MbufsAt(k, Place)
    BY <2>4 DEF MbufsAt, Mbufs
  <2> QED
    BY <2>1, <2>3, <2>5 DEF Partitions
<1> QED
  BY <1>5, <1>6, <1>7 DEF Partitions, k

\* The first packets of a list passed to the end of another.
LEMMA MoveOwned ==
  ASSUME NEW S, NEW l \in [Place -> Seq(S)], NEW a \in Place, NEW b \in Place,
         NEW n \in 0 .. Len(l[a]), NEW F, NEW M, Partitions(l, F, M)
  PROVE  Partitions(Passed(l, a, b, n), F, M)
<1> DEFINE k == Without(l, a, n)
           t == First(l[a], n)
<1>1. /\ k \in [Place -> Seq(S)] /\ t \in Seq(S)
      /\ \A i \in DOMAIN t : i \in DOMAIN l[a] /\ t[i] = l[a][i]
  <2>1. /\ k \in [Place -> Seq(S)] /\ t \in Seq(S) /\ Len(t) = n
        /\ \A i \in 1 .. n : t[i] = l[a][i]
    BY Taken
  <2> HIDE DEF k, t
  <2>2. DOMAIN t = 1 .. n /\ DOMAIN l[a] = 1 .. Len(l[a])
    BY <2>1
  <2>3. \A i \in 1 .. n : i \in 1 .. Len(l[a])
    OBVIOUS
  <2> QED
    BY <2>1, <2>2, <2>3
<1>2. Partitions(k, F \cup Mbufs(t), M)
  BY TakeOwned
<1> HIDE DEF k, t
<1>3. \A i, j \in DOMAIN t : t[i].mbuf = t[j].mbuf => i = j
  BY <1>1 DEF Partitions, Apart
<1>4. Mbufs(t) \cap F = {}
  BY <1>1 DEF Partitions, MbufsAt, Mbufs
<1>5. Partitions(With(k, b, t), (F \cup Mbufs(t)) \ Mbufs(t), M)
  BY <1>1, <1>2, <1>3, PutOwned
<1>6. (F \cup Mbufs(t)) \ Mbufs(t) = F
  BY <1>4
<1> QED
  BY <1>5, <1>6 DEF Passed, k, t

\* The packets of some places freed.
LEMMA FreeOwned ==
  ASSUME NEW S, NEW l \in [Place -> Seq(S)], NEW P \in SUBSET Place,
         NEW F, NEW M, Partitions(l, F, M)
  PROVE  Partitions(Emptied(l, P), F \cup MbufsAt(l, P), M)
<1> DEFINE k == Emptied(l, P)
<1>1. \A b \in Place : \A i \in DOMAIN k[b] :
        b \notin P /\ i \in DOMAIN l[b] /\ k[b][i] = l[b][i]
  BY DEF Emptied
<1>2. \A b \in Place \ P : k[b] = l[b]
  BY DEF Emptied
<1> HIDE DEF k
<1>3. Apart(k)
  BY <1>1 DEF Partitions, Apart
<1>4. (F \cup MbufsAt(l, P)) \cap MbufsAt(k, Place) = {}
  <2> SUFFICES ASSUME NEW b \in Place, NEW i \in DOMAIN k[b],
                      k[b][i].mbuf \in F \cup MbufsAt(l, P)
               PROVE  FALSE
    BY DEF MbufsAt, Mbufs
  <2>1. k[b][i].mbuf = l[b][i].mbuf /\ i \in DOMAIN l[b] /\ b \notin P
    BY <1>1
  <2>2. k[b][i].mbuf \notin F
    BY <2>1 DEF Partitions, MbufsAt, Mbufs
  <2>3. PICK c \in P : \E j \in DOMAIN l[c] : l[c][j].mbuf = k[b][i].mbuf
    BY <2>2 DEF MbufsAt, Mbufs
  <2> QED
    BY <2>1, <2>3 DEF Partitions, Apart
<1>5. F \cup MbufsAt(l, P) \cup MbufsAt(k, Place) = M
  <2>1. MbufsAt(l, P) \cup MbufsAt(k, Place) \subseteq MbufsAt(l, Place)
    BY <1>1 DEF MbufsAt, Mbufs
  <2>2. MbufsAt(l, Place) \subseteq MbufsAt(l, P) \cup MbufsAt(k, Place)
    BY <1>2 DEF MbufsAt, Mbufs
  <2> QED
    BY <2>1, <2>2 DEF Partitions
<1> QED
  BY <1>3, <1>4, <1>5 DEF Partitions, k

\* The packet at the head of a list, by itself.
LEMMA HeadTaken ==
  ASSUME NEW S, NEW s \in Seq(S), s # <<>>
  PROVE  /\ 1 \in 0 .. Len(s) /\ Head(s) \in S
         /\ Mbufs(First(s, 1)) = {Head(s).mbuf}
<1>1. Len(s) \in Nat /\ Len(s) >= 1 /\ Head(s) = s[1] /\ s[1] \in S
  OBVIOUS
<1>2. DOMAIN SubSeq(s, 1, 1) = {1} /\ SubSeq(s, 1, 1)[1] = s[1]
  BY <1>1
<1> QED
  BY <1>1, <1>2 DEF First, Mbufs

\* One packet of a free mbuf put into a list.
LEMMA PutOneOwned ==
  ASSUME NEW S, NEW l \in [Place -> Seq(S)], NEW a \in Place, NEW x \in S,
         NEW F, NEW M, Partitions(l, F, M), x.mbuf \in F
  PROVE  /\ With(l, a, <<x>>) \in [Place -> Seq(S)]
         /\ Partitions(With(l, a, <<x>>), F \ {x.mbuf}, M)
<1>1. /\ <<x>> \in Seq(S) /\ DOMAIN <<x>> = {1} /\ <<x>>[1] = x
  OBVIOUS
<1>2. Mbufs(<<x>>) = {x.mbuf}
  BY <1>1 DEF Mbufs
<1> QED
  BY <1>1, <1>2, Put, PutOwned

-----------------------------------------------------------------------------
(* The invariant of the packets.                                           *)

\* A worker pushes fragments of the frame in its hand only.
Cutting ==
  \A w \in Worker : cut[w] # None =>
    /\ pc[w] = "lanLoop" /\ list[<<w, "received", "lan">>] # <<>>
    /\ cut[w].next > 0
    /\ ~FitsWhole(cut[w].frame, cut[w].mtu) /\ ~Oversize(cut[w].frame)

PacketsInv == PacketsTypeOK /\ OneOwner /\ Cutting

\* The places of a worker, and that those of others are different.
LEMMA Places ==
  /\ \A w \in Worker, p \in Port :
       /\ <<w, "queue", p>> \in Place /\ <<w, "received", p>> \in Place
       /\ <<w, "out", p>> \in Place /\ <<w, "ring", p>> \in Place
  /\ \A v, w : \A p, q : \A k, m :
       <<v, k, p>> = <<w, m, q>> => v = w /\ k = m /\ p = q
  /\ "lan" \in Port /\ "wan" \in Port
BY DEF Place, Port

\* The pool hands out a free mbuf, and the free ones are of the pool.
LEMMA FreeMbuf ==
  ASSUME PacketsTypeOK, free # {}
  PROVE  FirstFree[free] \in free /\ FirstFree[free] \in Mbuf
<1>1. free \in (SUBSET Mbuf) \ {{}}
  BY DEF PacketsTypeOK
<1>2. \A S \in (SUBSET Mbuf) \ {{}} : FirstFree[S] \in S
  BY ForwardingAssumption
<1> QED
  BY <1>1, <1>2

\* What the places and the pool share out is made of known mbufs.
LEMMA PoolOfMbufs ==
  ASSUME NEW l, NEW F, NEW c \in Config, Partitions(l, F, Pool[c])
  PROVE  F \subseteq Mbuf
<1>1. Pool[c] \subseteq Mbuf
  BY ForwardingAssumption
<1> QED
  BY <1>1 DEF Partitions

\* A step of one worker that leaves it with no frame to cut.
LEMMA CuttingKept ==
  ASSUME Cutting, NEW w \in Worker, cut'[w] = None,
         \A v \in Worker \ {w} :
           /\ cut'[v] = cut[v] /\ pc'[v] = pc[v]
           /\ list'[<<v, "received", "lan">>] = list[<<v, "received", "lan">>]
  PROVE  Cutting'
BY DEF Cutting

\* What moves between the places of a worker leaves the others as they are.
LEMMA OthersPassed ==
  ASSUME NEW S, NEW l \in [Place -> Seq(S)], NEW w \in Worker,
         NEW a \in Place, NEW b \in Place, a[1] = w, b[1] = w,
         NEW n \in 0 .. Len(l[a])
  PROVE  \A v \in Worker \ {w} :
           Passed(l, a, b, n)[<<v, "received", "lan">>]
             = l[<<v, "received", "lan">>]
<1>1. ASSUME NEW v \in Worker \ {w}
      PROVE  <<v, "received", "lan">> \in (Place \ {a}) \ {b}
  <2>1. <<v, "received", "lan">>[1] = v
    OBVIOUS
  <2> QED
    BY <2>1, Places
<1>2. /\ Without(l, a, n) \in [Place -> Seq(S)]
      /\ First(l[a], n) \in Seq(S)
      /\ \A c \in Place \ {a} : Without(l, a, n)[c] = l[c]
  <2>1. \A c \in Place \ {a} : Without(l, a, n)[c] = l[c]
    BY DEF Without
  <2>2. Without(l, a, n) \in [Place -> Seq(S)] /\ First(l[a], n) \in Seq(S)
    BY Taken
  <2> QED
    BY <2>1, <2>2
<1>3. \A c \in Place \ {b} : Passed(l, a, b, n)[c] = Without(l, a, n)[c]
  <2> DEFINE k == Without(l, a, n)
             t == First(l[a], n)
  <2>1. k \in [Place -> Seq(S)] /\ t \in Seq(S)
    BY <1>2
  <2> HIDE DEF k, t
  <2>2. \A c \in Place \ {b} : With(k, b, t)[c] = k[c]
    BY <2>1, Put
  <2> QED
    BY <2>2 DEF Passed, k, t
<1> QED
  BY <1>1, <1>2, <1>3

\* receive_burst_into moves packets from a queue to a worker.
LEMMA ReceiveBurstKeeps ==
  ASSUME PacketsInv, NEW w \in Worker, NEW p \in Port,
         NEW n \in 0 .. Len(list[<<w, "queue", p>>]), ReceiveBurst(w, p, n)
  PROVE  PacketsInv'
<1> DEFINE a == <<w, "queue", p>>
           b == <<w, "received", p>>
<1>1. /\ a \in Place /\ b \in Place /\ list \in [Place -> Seq(Packet)]
      /\ list' = Passed(list, a, b, n) /\ n \in 0 .. Len(list[a])
      /\ a[1] = w /\ b[1] = w
  BY Places DEF PacketsInv, PacketsTypeOK, ReceiveBurst
<1> HIDE DEF a, b
<1>2. list' \in [Place -> Seq(Packet)]
  BY <1>1, Moved
<1>3. OneOwner'
  BY <1>1, MoveOwned DEF PacketsInv, OneOwner, ReceiveBurst
<1>4. LoopAt[p] \in PcValues
  BY DEF LoopAt, PcValues, Port
<1>5. PacketsTypeOK'
  BY <1>2, <1>4 DEF PacketsInv, PacketsTypeOK, ReceiveBurst
<1>6. \A v \in Worker \ {w} :
        list'[<<v, "received", "lan">>] = list[<<v, "received", "lan">>]
  <2>1. \A v \in Worker \ {w} :
          Passed(list, a, b, n)[<<v, "received", "lan">>]
            = list[<<v, "received", "lan">>]
    BY <1>1, OthersPassed
  <2> QED
    BY <2>1, <1>1
<1>7. cut[w] = None
  <2>1. ReceiveAt[p] # "lanLoop"
    BY DEF ReceiveAt, Port
  <2> QED
    BY <2>1 DEF PacketsInv, Cutting, ReceiveBurst
<1>8. Cutting'
  BY <1>6, <1>7, CuttingKept DEF PacketsInv, PacketsTypeOK, ReceiveBurst
<1> QED
  BY <1>3, <1>5, <1>8 DEF PacketsInv

\* The packet at the head of a list freed.
LEMMA HeadFreed ==
  ASSUME PacketsTypeOK, OneOwner, NEW a \in Place, list[a] # <<>>
  PROVE  /\ Without(list, a, 1) \in [Place -> Seq(Packet)]
         /\ Partitions(Without(list, a, 1), free \cup {Head(list[a]).mbuf},
                       Pool[config])
         /\ free \cup {Head(list[a]).mbuf} \subseteq Mbuf
         /\ Head(list[a]) \in Packet
         /\ \A b \in Place \ {a} : Without(list, a, 1)[b] = list[b]
<1>1. list \in [Place -> Seq(Packet)] /\ list[a] \in Seq(Packet)
  BY DEF PacketsTypeOK
<1>2. /\ 1 \in 0 .. Len(list[a]) /\ Head(list[a]) \in Packet
      /\ Mbufs(First(list[a], 1)) = {Head(list[a]).mbuf}
  BY <1>1, HeadTaken
<1>3. Without(list, a, 1) \in [Place -> Seq(Packet)]
  BY <1>1, <1>2, Taken
<1>4. Partitions(Without(list, a, 1), free \cup {Head(list[a]).mbuf},
                 Pool[config])
  BY <1>1, <1>2, TakeOwned DEF OneOwner
<1>5. free \cup {Head(list[a]).mbuf} \subseteq Mbuf
  BY <1>4, PoolOfMbufs DEF PacketsTypeOK
<1>6. \A b \in Place \ {a} : Without(list, a, 1)[b] = list[b]
  BY DEF Without
<1> QED
  BY <1>2, <1>3, <1>4, <1>5, <1>6

\* A packet dropped by `continue' goes back to the pool.
LEMMA DiscardKeeps ==
  ASSUME PacketsInv, NEW w \in Worker, NEW p \in Port, Discard(w, p)
  PROVE  PacketsInv'
<1> DEFINE a == <<w, "received", p>>
<1>1. /\ a \in Place /\ list[a] # <<>> /\ cut[w] = None
      /\ list' = Without(list, a, 1)
      /\ free' = free \cup {Head(list[a]).mbuf}
      /\ UNCHANGED <<config, pc, cut, arrivals, cause>>
  BY Places DEF Discard, InHand, Hand
<1>2. /\ list' \in [Place -> Seq(Packet)]
      /\ Partitions(list', free', Pool[config]) /\ free' \subseteq Mbuf
      /\ \A b \in Place \ {a} : list'[b] = list[b]
  BY <1>1, HeadFreed DEF PacketsInv
<1>3. PacketsTypeOK' /\ OneOwner'
  BY <1>1, <1>2 DEF PacketsInv, PacketsTypeOK, OneOwner
<1>4. \A v \in Worker \ {w} :
        list'[<<v, "received", "lan">>] = list[<<v, "received", "lan">>]
  <2>1. \A v \in Worker \ {w} : <<v, "received", "lan">> \in Place \ {a}
    BY Places
  <2> QED
    BY <2>1, <1>2
<1>5. Cutting'
  BY <1>1, <1>4, CuttingKept DEF PacketsInv
<1> QED
  BY <1>3, <1>5 DEF PacketsInv

\* A packet in hand that is passed to a list of its worker.
LEMMA HandPassed ==
  ASSUME PacketsInv, NEW w \in Worker, NEW p \in Port, NEW q \in Port,
         InHand(w, p),
         list' = Passed(list, <<w, "received", p>>, <<w, "out", q>>, 1),
         UNCHANGED <<config, pc, cut, free, arrivals, cause>>
  PROVE  PacketsInv'
<1> DEFINE a == <<w, "received", p>>
           b == <<w, "out", q>>
<1>1. /\ a \in Place /\ b \in Place /\ list \in [Place -> Seq(Packet)]
      /\ list[a] \in Seq(Packet) /\ list[a] # <<>> /\ cut[w] = None
      /\ a[1] = w /\ b[1] = w /\ list' = Passed(list, a, b, 1)
  BY Places DEF InHand, PacketsInv, PacketsTypeOK
<1> HIDE DEF a, b
<1>2. 1 \in 0 .. Len(list[a])
  BY <1>1, HeadTaken
<1>3. list' \in [Place -> Seq(Packet)]
  <2>1. Passed(list, a, b, 1) \in [Place -> Seq(Packet)]
    BY <1>1, <1>2, Moved
  <2> QED
    BY <2>1, <1>1
<1>4. OneOwner'
  BY <1>1, <1>2, MoveOwned DEF PacketsInv, OneOwner
<1>5. PacketsTypeOK'
  BY <1>3 DEF PacketsInv, PacketsTypeOK
<1>6. \A v \in Worker \ {w} :
        list'[<<v, "received", "lan">>] = list[<<v, "received", "lan">>]
  <2>1. \A v \in Worker \ {w} :
          Passed(list, a, b, 1)[<<v, "received", "lan">>]
            = list[<<v, "received", "lan">>]
    BY <1>1, <1>2, OthersPassed
  <2> QED
    BY <2>1, <1>1
<1>7. Cutting'
  BY <1>1, <1>6, CuttingKept DEF PacketsInv
<1> QED
  BY <1>4, <1>5, <1>7 DEF PacketsInv

\* A frame sent in one packet keeps its mbuf.
LEMMA SendWholeKeeps ==
  ASSUME PacketsInv, NEW w \in Worker, NEW f \in LanFrame, SendWhole(w, f)
  PROVE  PacketsInv'
BY Places, HandPassed DEF SendWhole

\* A packet decapsulated in place keeps its mbuf.
LEMMA ForwardWholeKeeps ==
  ASSUME PacketsInv, NEW w \in Worker, NEW f \in WanFrame, ForwardWhole(w, f)
  PROVE  PacketsInv'
BY Places, HandPassed DEF ForwardWhole

\* A frame from the LAN that fits one mbuf is a natural length without its tag.
LEMMA InnerLength ==
  ASSUME NEW f \in LanFrame
  PROVE  /\ Inner(f).length \in Nat
         /\ Inner(f).length = IF f.tagged THEN f.length - 4 ELSE f.length
         /\ Inner(f).head = 128
         /\ f.length \in Nat /\ f.mtu \in MinMtu .. MaxMtu
         /\ f.tagged => f.length >= 16
<1>1. /\ f.length \in Nat /\ f.mtu \in MinMtu .. MaxMtu
      /\ f.tagged => f.length >= 16
  BY ForwardingAssumption
<1> QED
  BY <1>1, SMT DEF Inner, Trimmed, Received, Appended, Fresh, Headroom

\* A frame to be fragmented stays in the worker's hand.
LEMMA StartFragmentsKeeps ==
  ASSUME PacketsInv, NEW w \in Worker, NEW f \in LanFrame, StartFragments(w, f)
  PROVE  PacketsInv'
<1> DEFINE c == [frame |-> Inner(f).length, mtu |-> f.mtu, next |-> 1]
<1>1. /\ c.frame \in Nat /\ c.mtu \in MinMtu .. MaxMtu /\ c.next = 1
      /\ c \in Cut
  BY InnerLength DEF Cut
<1>2. /\ ~FitsWhole(c.frame, c.mtu) /\ ~Oversize(c.frame)
      /\ pc[w] = "lanLoop" /\ list[<<w, "received", "lan">>] # <<>>
      /\ cut' = [cut EXCEPT ![w] = c]
      /\ UNCHANGED <<config, pc, list, free, arrivals, cause>>
  BY DEF StartFragments, InHand, LoopAt
<1> HIDE DEF c
<1>3. PacketsTypeOK' /\ OneOwner'
  BY <1>1, <1>2 DEF PacketsInv, PacketsTypeOK, OneOwner
<1>4. Cutting'
  <2> SUFFICES ASSUME NEW v \in Worker, cut'[v] # None
               PROVE  /\ pc[v] = "lanLoop"
                      /\ list[<<v, "received", "lan">>] # <<>>
                      /\ cut'[v].next > 0
                      /\ ~FitsWhole(cut'[v].frame, cut'[v].mtu)
                      /\ ~Oversize(cut'[v].frame)
    BY <1>2 DEF Cutting
  <2>1. CASE v = w
    <3>1. cut'[v] = c
      BY <2>1, <1>2 DEF PacketsInv, PacketsTypeOK
    <3> QED
      BY <3>1, <2>1, <1>1, <1>2
  <2>2. CASE v # w
    <3>1. cut'[v] = cut[v]
      BY <2>2, <1>2 DEF PacketsInv, PacketsTypeOK
    <3> QED
      BY <3>1 DEF PacketsInv, Cutting
  <2> QED
    BY <2>1, <2>2
<1> QED
  BY <1>3, <1>4 DEF PacketsInv

\* A packet made for an mbuf of the pool.
LEMMA MadePacket ==
  ASSUME NEW x \in Packet, NEW mbuf \in Mbuf, NEW part \in Nat
  PROVE  /\ [x EXCEPT !.mbuf = mbuf, !.part = part] \in Packet
         /\ [x EXCEPT !.mbuf = mbuf, !.part = part].mbuf = mbuf
BY DEF Packet

\* A packet made from the one in hand is of the mbuf it was given.
LEMMA MadeOf ==
  ASSUME NEW w, NEW p, Hand(w, p) \in Packet, NEW mbuf \in Mbuf,
         NEW part \in Nat
  PROVE  /\ Made(w, p, mbuf, part) \in Packet
         /\ Made(w, p, mbuf, part).mbuf = mbuf
BY MadePacket DEF Made

\* Each fragment takes an mbuf of the pool, behind those before it.
LEMMA PushFragmentKeeps ==
  ASSUME PacketsInv, NEW w \in Worker, PushFragment(w)
  PROVE  PacketsInv'
<1> DEFINE a == <<w, "received", "lan">>
           b == <<w, "out", "wan">>
           x == Made(w, "lan", FirstFree[free], cut[w].next)
<1>1. /\ a \in Place /\ b \in Place /\ a # b
      /\ list \in [Place -> Seq(Packet)] /\ list[a] \in Seq(Packet)
      /\ cut[w] # None /\ list[a] # <<>>
      /\ cut[w] \in Cut
  <2>1. a \in Place /\ b \in Place
    BY Places
  <2>2. a # b
    BY Places
  <2>3. cut[w] # None /\ list[a] # <<>>
    BY DEF PushFragment, PacketsInv, Cutting
  <2> QED
    BY <2>1, <2>2, <2>3 DEF PacketsInv, PacketsTypeOK
<1>2. FirstFree[free] \in free /\ FirstFree[free] \in Mbuf
  BY FreeMbuf DEF PushFragment, PacketsInv
<1>3. x \in Packet /\ x.mbuf = FirstFree[free]
  <2>1. Hand(w, "lan") \in Packet
    BY <1>1, HeadTaken DEF Hand
  <2>2. cut[w].next \in Nat
    BY <1>1 DEF Cut
  <2> QED
    BY <2>1, <2>2, <1>2, MadeOf
<1>4. /\ list' = With(list, b, <<x>>) /\ free' = free \ {x.mbuf}
      /\ cut' = [cut EXCEPT ![w] = NextFragment(cut[w])]
      /\ UNCHANGED <<config, pc, arrivals, cause>>
  BY <1>3 DEF PushFragment
<1> HIDE DEF x
<1>5. list' \in [Place -> Seq(Packet)] /\ OneOwner'
  BY <1>1, <1>2, <1>3, <1>4, PutOneOwned DEF PacketsInv, OneOwner
<1>6. /\ cut' \in [Worker -> Cut \cup {None}]
      /\ \A v \in Worker \ {w} : cut'[v] = cut[v]
      /\ cut'[w].frame = cut[w].frame /\ cut'[w].mtu = cut[w].mtu
      /\ cut'[w].next = cut[w].next + 1
  <2> DEFINE c == NextFragment(cut[w])
  <2>1. /\ c \in Cut
        /\ c.frame = cut[w].frame /\ c.mtu = cut[w].mtu
        /\ c.next = cut[w].next + 1
    <3>1. ASSUME NEW y \in Cut
          PROVE  /\ NextFragment(y) \in Cut
                 /\ NextFragment(y).frame = y.frame
                 /\ NextFragment(y).mtu = y.mtu
                 /\ NextFragment(y).next = y.next + 1
      <4>1. y.next \in Nat /\ y.next + 1 \in Nat
        BY DEF Cut
      <4> QED
        BY <4>1, Zenon DEF Cut, NextFragment
    <3> QED
      BY <3>1, <1>1
  <2>3. cut \in [Worker -> Cut \cup {None}]
    BY DEF PacketsInv, PacketsTypeOK
  <2>2. cut' = [cut EXCEPT ![w] = c]
    BY <1>4
  <2> HIDE DEF c
  <2>4. cut'[w] = c /\ \A v \in Worker \ {w} : cut'[v] = cut[v]
    BY <2>2, <2>3
  <2>5. cut' \in [Worker -> Cut \cup {None}]
    BY <2>1, <2>2, <2>3
  <2> QED
    BY <2>1, <2>4, <2>5
<1>7. PacketsTypeOK'
  BY <1>4, <1>5, <1>6 DEF PacketsInv, PacketsTypeOK
<1>8. \A v \in Worker :
        list'[<<v, "received", "lan">>] = list[<<v, "received", "lan">>]
  <2>1. \A v \in Worker : <<v, "received", "lan">> \in Place \ {b}
    BY Places
  <2>2. \A c \in Place \ {b} : list'[c] = list[c]
    BY <1>4 DEF With
  <2> QED
    BY <2>1, <2>2
<1>9. Cutting'
  <2> SUFFICES ASSUME NEW v \in Worker, cut'[v] # None
               PROVE  /\ pc[v] = "lanLoop"
                      /\ list[<<v, "received", "lan">>] # <<>>
                      /\ cut'[v].next > 0
                      /\ ~FitsWhole(cut'[v].frame, cut'[v].mtu)
                      /\ ~Oversize(cut'[v].frame)
    BY <1>4, <1>8 DEF Cutting
  <2>1. CASE v = w
    <3>1. cut[w].next + 1 > 0
      BY <1>1 DEF Cut
    <3> QED
      BY <3>1, <2>1, <1>1, <1>6 DEF PacketsInv, Cutting
  <2>2. CASE v # w
    BY <2>2, <1>6 DEF PacketsInv, Cutting
  <2> QED
    BY <2>1, <2>2
<1> QED
  BY <1>5, <1>7, <1>9 DEF PacketsInv

\* The frame that was cut goes back to the pool after its last fragment.
LEMMA EndFragmentsKeeps ==
  ASSUME PacketsInv, NEW w \in Worker, EndFragments(w)
  PROVE  PacketsInv'
<1> DEFINE a == <<w, "received", "lan">>
<1>1. /\ a \in Place /\ list[a] # <<>>
      /\ list' = Without(list, a, 1)
      /\ free' = free \cup {Head(list[a]).mbuf}
      /\ cut' = [cut EXCEPT ![w] = None]
      /\ UNCHANGED <<config, pc, arrivals, cause>>
  BY Places DEF EndFragments, Hand, PacketsInv, Cutting
<1>2. /\ list' \in [Place -> Seq(Packet)]
      /\ Partitions(list', free', Pool[config]) /\ free' \subseteq Mbuf
      /\ \A b \in Place \ {a} : list'[b] = list[b]
  BY <1>1, HeadFreed DEF PacketsInv
<1>3. /\ cut'[w] = None /\ \A v \in Worker \ {w} : cut'[v] = cut[v]
      /\ cut' \in [Worker -> Cut \cup {None}]
  BY <1>1 DEF PacketsInv, PacketsTypeOK
<1>4. PacketsTypeOK' /\ OneOwner'
  BY <1>1, <1>2, <1>3 DEF PacketsInv, PacketsTypeOK, OneOwner
<1>5. \A v \in Worker \ {w} :
        list'[<<v, "received", "lan">>] = list[<<v, "received", "lan">>]
  <2>1. \A v \in Worker \ {w} : <<v, "received", "lan">> \in Place \ {a}
    BY Places
  <2> QED
    BY <2>1, <1>2
<1>6. Cutting'
  BY <1>1, <1>3, <1>5, CuttingKept DEF PacketsInv
<1> QED
  BY <1>4, <1>6 DEF PacketsInv

\* A packet made from another takes one mbuf and gives one back.
LEMMA ReplacesKeeps ==
  ASSUME PacketsInv, NEW w \in Worker, NEW to \in Port, NEW made \in Packet,
         InHand(w, "wan"), made.mbuf \in free, Replaces(w, made, to)
  PROVE  PacketsInv'
<1> DEFINE a == <<w, "received", "wan">>
           b == <<w, "out", to>>
           k == Without(list, a, 1)
           h == Head(list[a]).mbuf
<1>1. /\ a \in Place /\ b \in Place /\ list[a] # <<>> /\ cut[w] = None
      /\ list' = With(k, b, <<made>>)
      /\ free' = (free \ {made.mbuf}) \cup {h}
      /\ UNCHANGED <<config, pc, cut, arrivals, cause>>
  BY Places DEF Replaces, InHand, Hand
<1>2. /\ k \in [Place -> Seq(Packet)]
      /\ Partitions(k, free \cup {h}, Pool[config])
      /\ \A c \in Place \ {a} : k[c] = list[c]
  BY <1>1, HeadFreed DEF PacketsInv
<1>3. h # made.mbuf
  <2>1. 1 \in DOMAIN list[a] /\ h = list[a][1].mbuf
    BY <1>1 DEF PacketsInv, PacketsTypeOK
  <2> QED
    BY <2>1, <1>1 DEF PacketsInv, OneOwner, Partitions, MbufsAt, Mbufs
<1> HIDE DEF k, h
<1>4. /\ list' \in [Place -> Seq(Packet)]
      /\ Partitions(list', (free \cup {h}) \ {made.mbuf}, Pool[config])
  <2> DEFINE F == free \cup {h}
  <2>1. made.mbuf \in F /\ Partitions(k, F, Pool[config])
    BY <1>2
  <2> HIDE DEF F
  <2>2. /\ With(k, b, <<made>>) \in [Place -> Seq(Packet)]
        /\ Partitions(With(k, b, <<made>>), F \ {made.mbuf}, Pool[config])
    BY <2>1, <1>1, <1>2, PutOneOwned
  <2> QED
    BY <2>2, <1>1 DEF F
<1>5. free' = (free \cup {h}) \ {made.mbuf}
  BY <1>1, <1>3
<1>6. free' \subseteq Mbuf
  BY <1>4, <1>5, PoolOfMbufs DEF PacketsInv, PacketsTypeOK
<1>7. PacketsTypeOK' /\ OneOwner'
  BY <1>1, <1>4, <1>5, <1>6 DEF PacketsInv, PacketsTypeOK, OneOwner
<1>8. \A v \in Worker \ {w} :
        list'[<<v, "received", "lan">>] = list[<<v, "received", "lan">>]
  <2>1. \A v \in Worker \ {w} :
          <<v, "received", "lan">> \in (Place \ {a}) \ {b}
    BY Places
  <2>2. \A c \in Place \ {b} : list'[c] = k[c]
    BY <1>1, <1>2 DEF With
  <2> QED
    BY <2>1, <2>2, <1>2
<1>9. Cutting'
  BY <1>1, <1>8, CuttingKept DEF PacketsInv
<1> QED
  BY <1>7, <1>9 DEF PacketsInv

\* A packet made from the one in hand.
LEMMA MadeFromHand ==
  ASSUME PacketsInv, NEW w \in Worker, InHand(w, "wan"), free # {}
  PROVE  /\ Made(w, "wan", FirstFree[free], 0) \in Packet
         /\ Made(w, "wan", FirstFree[free], 0).mbuf = FirstFree[free]
         /\ FirstFree[free] \in free
<1> DEFINE a == <<w, "received", "wan">>
<1>1. list[a] \in Seq(Packet) /\ list[a] # <<>>
  BY Places DEF PacketsInv, PacketsTypeOK, InHand
<1>2. Hand(w, "wan") \in Packet
  BY <1>1, HeadTaken DEF Hand
<1>3. FirstFree[free] \in free /\ FirstFree[free] \in Mbuf
  BY FreeMbuf DEF PacketsInv
<1>4. 0 \in Nat
  OBVIOUS
<1> QED
  BY <1>2, <1>3, <1>4, MadeOf

\* A reassembled frame takes the place of its last fragment.
LEMMA ForwardReassembledKeeps ==
  ASSUME PacketsInv, NEW w \in Worker, NEW f \in WanFrame,
         ForwardReassembled(w, f)
  PROVE  PacketsInv'
<1> DEFINE x == Made(w, "wan", FirstFree[free], 0)
<1>1. InHand(w, "wan") /\ free # {} /\ Replaces(w, x, "lan")
  BY DEF ForwardReassembled
<1>2. x \in Packet /\ x.mbuf \in free
  BY <1>1, MadeFromHand
<1> HIDE DEF x
<1> QED
  BY <1>1, <1>2, Places, ReplacesKeeps

\* An advertisement takes the place of the solicitation it answers.
LEMMA AnswerKeeps ==
  ASSUME PacketsInv, NEW w \in Worker, NEW m \in Solicited, Answer(w, m)
  PROVE  PacketsInv'
<1> DEFINE x == Made(w, "wan", FirstFree[free], 0)
           r == [to |-> m, reply |-> NdpAdvertisement(m)]
<1>1. x \in Packet /\ x.mbuf \in free
  BY MadeFromHand DEF Answer
<1>2. r \in Answers
  BY DEF Answer, Answers, Answered
<1> HIDE DEF x, r
<1>3. /\ [x EXCEPT !.answer = r] \in Packet
      /\ [x EXCEPT !.answer = r].mbuf \in free
  BY <1>1, <1>2 DEF Packet
<1>4. InHand(w, "wan") /\ Replaces(w, [x EXCEPT !.answer = r], "wan")
  BY DEF Answer, x, r
<1> QED
  BY <1>3, <1>4, Places, ReplacesKeeps

\* send_burst hands a prefix to the port, and the rest is kept.
LEMMA TransmitKeeps ==
  ASSUME PacketsInv, NEW w \in Worker, NEW p \in Port,
         NEW n \in 0 .. Len(list[<<w, "out", p>>]), Transmit(w, p, n)
  PROVE  PacketsInv'
<1> DEFINE a == <<w, "out", p>>
           b == <<w, "ring", p>>
<1>1. /\ a \in Place /\ b \in Place /\ list \in [Place -> Seq(Packet)]
      /\ list' = Passed(list, a, b, n) /\ a[1] = w /\ b[1] = w
      /\ n \in 0 .. Len(list[a])
  BY Places
     DEF PacketsInv, PacketsTypeOK, Transmit, Unsent, Passed, Without, With
<1> HIDE DEF a, b
<1>2. list' \in [Place -> Seq(Packet)]
  BY <1>1, Moved
<1>3. OneOwner'
  BY <1>1, MoveOwned DEF PacketsInv, OneOwner, Transmit
<1>4. pc[w] \in {"lanLoop", "wanLoop", "lanSend"}
  BY DEF Transmit, Transmits
<1>5. /\ pc' \in [Worker -> PcValues] /\ \A v \in Worker \ {w} : pc'[v] = pc[v]
  BY <1>4 DEF PacketsInv, PacketsTypeOK, Transmit, PcValues
<1>6. PacketsTypeOK'
  BY <1>2, <1>5 DEF PacketsInv, PacketsTypeOK, Transmit
<1>7. \A v \in Worker \ {w} :
        list'[<<v, "received", "lan">>] = list[<<v, "received", "lan">>]
  <2>1. \A v \in Worker \ {w} :
          Passed(list, a, b, n)[<<v, "received", "lan">>]
            = list[<<v, "received", "lan">>]
    BY <1>1, OthersPassed
  <2> QED
    BY <2>1, <1>1
<1>8. cut[w] = None
  BY DEF PacketsInv, Cutting, Transmit, Transmits, Port
<1>9. Cutting'
  BY <1>5, <1>7, <1>8, CuttingKept DEF PacketsInv, Transmit
<1> QED
  BY <1>3, <1>6, <1>9 DEF PacketsInv

\* A packet that arrives takes an mbuf of the pool.
LEMMA ArriveKeeps ==
  ASSUME PacketsInv, NEW w \in Worker, NEW p \in Port, Arrive(w, p)
  PROVE  PacketsInv'
<1> DEFINE b == <<w, "queue", p>>
           x == [mbuf |-> FirstFree[free], from |-> p, nr |-> arrivals + 1,
                 part |-> 0, answer |-> None]
<1>1. /\ b \in Place /\ list \in [Place -> Seq(Packet)] /\ arrivals \in Nat
  BY Places DEF PacketsInv, PacketsTypeOK
<1>2. FirstFree[free] \in free /\ FirstFree[free] \in Mbuf
  BY FreeMbuf DEF Arrive, PacketsInv
<1>3. x \in Packet /\ x.mbuf = FirstFree[free] /\ arrivals + 1 \in Nat
  BY <1>1, <1>2 DEF Packet, Answers
<1>4. /\ list' = With(list, b, <<x>>) /\ free' = free \ {x.mbuf}
      /\ arrivals' = arrivals + 1
      /\ UNCHANGED <<config, pc, cut, cause>>
  BY DEF Arrive
<1> HIDE DEF x
<1>5. list' \in [Place -> Seq(Packet)] /\ OneOwner'
  BY <1>1, <1>2, <1>3, <1>4, PutOneOwned DEF PacketsInv, OneOwner
<1>6. PacketsTypeOK'
  BY <1>3, <1>4, <1>5 DEF PacketsInv, PacketsTypeOK
<1>7. \A v \in Worker :
        list'[<<v, "received", "lan">>] = list[<<v, "received", "lan">>]
  <2>1. \A v \in Worker : <<v, "received", "lan">> \in Place \ {b}
    BY Places
  <2>2. \A c \in Place \ {b} : list'[c] = list[c]
    BY <1>4 DEF With
  <2> QED
    BY <2>1, <2>2
<1>8. Cutting'
  BY <1>4, <1>7 DEF PacketsInv, Cutting
<1> QED
  BY <1>5, <1>6, <1>8 DEF PacketsInv

\* A packet that has been sent gives its mbuf back.
LEMMA TxDoneKeeps ==
  ASSUME PacketsInv, NEW w \in Worker, NEW p \in Port, TxDone(w, p)
  PROVE  PacketsInv'
<1> DEFINE a == <<w, "ring", p>>
<1>1. /\ a \in Place /\ list[a] # <<>>
      /\ list' = Without(list, a, 1)
      /\ free' = free \cup {Head(list[a]).mbuf}
      /\ UNCHANGED <<config, pc, cut, arrivals, cause>>
  BY Places DEF TxDone
<1>2. /\ list' \in [Place -> Seq(Packet)]
      /\ Partitions(list', free', Pool[config]) /\ free' \subseteq Mbuf
      /\ \A b \in Place \ {a} : list'[b] = list[b]
  BY <1>1, HeadFreed DEF PacketsInv
<1>3. PacketsTypeOK' /\ OneOwner'
  BY <1>1, <1>2 DEF PacketsInv, PacketsTypeOK, OneOwner
<1>4. \A v \in Worker :
        list'[<<v, "received", "lan">>] = list[<<v, "received", "lan">>]
  <2>1. \A v \in Worker : <<v, "received", "lan">> \in Place \ {a}
    BY Places
  <2> QED
    BY <2>1, <1>2
<1>5. Cutting'
  BY <1>1, <1>4 DEF PacketsInv, Cutting
<1> QED
  BY <1>3, <1>5 DEF PacketsInv

-----------------------------------------------------------------------------
(* Errors.                                                                 *)

\* A list has no more packets than there are mbufs.
LEMMA ListFits ==
  ASSUME PacketsTypeOK, OneOwner, NEW a \in Place
  PROVE  Len(list[a]) < U16
<1> DEFINE s == list[a]
           f == [i \in 1 .. Len(s) |-> s[i].mbuf]
<1>1. s \in Seq(Packet) /\ Len(s) \in Nat /\ DOMAIN s = 1 .. Len(s)
  BY DEF PacketsTypeOK
<1>2. \A i \in 1 .. Len(s) : s[i] \in Packet
  BY <1>1
<1>3. f \in [1 .. Len(s) -> Mbuf]
  BY <1>2 DEF Packet
<1>4. \A i, j \in 1 .. Len(s) : s[i].mbuf = s[j].mbuf => i = j
  BY <1>1 DEF OneOwner, Partitions, Apart
<1>5. f \in Injection(1 .. Len(s), Mbuf)
  BY <1>3, <1>4 DEF Injection, IsInjective
<1>6. IsFiniteSet(Mbuf) /\ Cardinality(Mbuf) < U16
  BY ForwardingAssumption
<1> HIDE DEF s, f
<1>7. Cardinality(1 .. Len(s)) <= Cardinality(Mbuf)
  BY <1>5, <1>6, FS_Injection
<1>8. Cardinality(1 .. Len(s)) = Len(s)
  BY <1>1, FS_Interval
<1>9. Cardinality(Mbuf) \in Nat
  BY <1>6, FS_CardinalityType
<1> QED
  BY <1>1, <1>6, <1>7, <1>8, <1>9 DEF s, U16

\* What there is room for in a packet that begins anywhere up to 128 bytes on.
LEMMA SmallLength ==
  ASSUME NEW n \in Nat, n <= 2176
  PROVE  IsLength(n)
<1>1. n <= 65535
  BY SMT
<1> QED
  BY <1>1, SMT DEF IsLength

\* A frame that has to be cut, and yet has a fragment for which there is no
\* room, is too long.
LEMMA FragmentTooLong ==
  ASSUME NEW c \in Cut, c.next > 0, FragmentsLeft(c),
         ~FitsWhole(c.frame, c.mtu), ~Oversize(c.frame),
         ~FromBytes(FragmentBytes(c))
  PROVE  c.frame > LongestFrame
<1> DEFINE frag == FragmentPacket(c.frame, c.mtu, c.next)
<1>1. c.frame \in Nat /\ c.mtu \in MinMtu .. MaxMtu /\ c.mtu \in Nat
  BY SMT DEF Cut, MinMtu
<1>2. Count(c.frame, c.mtu) \in Nat
  BY <1>1, CountBounds
<1>3. c.next \in 1 .. Count(c.frame, c.mtu)
  BY <1>2, SMT DEF Cut, FragmentsLeft
<1>4. frag.bytes \in Nat /\ IPv6Header + frag.bytes <= c.mtu
  BY <1>1, <1>3, FragmentRead
<1>5. c.mtu < IPv6Header + c.frame + EtherIPHeader
  BY <1>1, SMT DEF FitsWhole, Payload, IPv6Header, EtherIPHeader
<1>6. FragmentBytes(c) \in Nat /\ FragmentBytes(c) <= 56 + c.frame
  BY <1>1, <1>4, <1>5, SMT DEF FragmentBytes, IPv6Header, EtherIPHeader
<1>7. CASE FragmentBytes(c) <= 2048
  <2>1. IsLength(FragmentBytes(c))
    BY <1>6, <1>7, SmallLength
  <2> QED
    BY <2>1, <1>7, <1>6
       DEF FromBytes, CanAppend, Fresh, Headroom, DataRoom
<1>8. CASE ~(FragmentBytes(c) <= 2048)
  BY <1>8, <1>6, <1>1 DEF LongestFrame
<1> QED
  BY <1>7, <1>8

\* An error that the state, the frame or the command line accounts for.
Accounted(w, c) ==
  \/ c.why = "burst" /\ ~ValidBurst(config.burst)
  \/ /\ c.why = "queue"
     /\ ~ValidQueue(RxQueue(w), RxQueues) \/ ~ValidQueue(TxQueue(w), TxQueues)
  \/ c.why = "mbufs"
  \/ c.why = "tailroom" /\ c.bytes > LongestFrame
  \/ c.why = "short" /\ c.bytes < TagOffset

\* An error is one of a call, of the LAN side or of the WAN side.
LEMMA ErrorOrigin ==
  /\ \A why, lengths, c :
       c \in Because(why, lengths) => /\ c.why = why /\ c.bytes \in lengths
                                     /\ c = [why |-> why, bytes |-> c.bytes]
  /\ \A P \in BOOLEAN : \A E, c : c \in When(P, E) => P /\ c \in E
BY DEF Because, When

\* receive_burst_into and send_burst refuse only a queue at the limit.
LEMMA CallErrorAccounted ==
  ASSUME PacketsInv, NEW w \in Worker, NEW c \in CallErrors(w)
  PROVE  /\ c \in ErrorOf /\ Accounted(w, c)
         /\ pc[w] \notin {"absent", "failed", "stopped"}
<1>1. \A p \in Port : Len(list[<<w, "out", p>>]) < U16
  BY Places, ListFits DEF PacketsInv
<1>2. ~(\E p \in Port : Transmits(w, p) /\ Len(list[<<w, "out", p>>]) >= U16)
  <2> SUFFICES ASSUME NEW p \in Port, Len(list[<<w, "out", p>>]) >= U16
               PROVE  FALSE
    OBVIOUS
  <2> DEFINE n == Len(list[<<w, "out", p>>])
  <2>1. n \in Nat /\ n < U16 /\ n >= U16
    BY <1>1, Places DEF PacketsInv, PacketsTypeOK
  <2>2. U16 \in Nat
    BY SMT DEF U16
  <2> HIDE DEF n
  <2> QED
    BY <2>1, <2>2
<1>3. \/ /\ pc[w] \in {"lanReceive", "wanReceive"} /\ ~ValidBurst(config.burst)
         /\ c \in Because("burst", {0})
      \/ /\ pc[w] \in {"lanReceive", "wanReceive"}
         /\ ~ValidQueue(RxQueue(w), RxQueues) /\ c \in Because("queue", {0})
      \/ /\ \E p \in Port : Transmits(w, p) /\ ~ValidQueue(TxQueue(w), TxQueues)
         /\ c \in Because("queue", {0})
  BY <1>2 DEF CallErrors, When
<1>4. \A p \in Port : Transmits(w, p) =>
        pc[w] \in {"lanLoop", "wanLoop", "lanSend"}
  BY DEF Transmits
<1>5. pc[w] \notin {"absent", "failed", "stopped"}
  BY <1>3, <1>4
<1>6. c.bytes = 0 /\ c = [why |-> c.why, bytes |-> c.bytes]
      /\ c.why \in {"burst", "queue"}
  BY <1>3, ErrorOrigin
<1>7. c \in ErrorOf
  BY <1>6 DEF ErrorOf
<1>8. Accounted(w, c)
  BY <1>3, ErrorOrigin DEF Accounted
<1> QED
  BY <1>5, <1>7, <1>8

\* Encapsulation fails only without mbufs or for a frame too long.
LEMMA LanErrorAccounted ==
  ASSUME PacketsInv, NEW w \in Worker, NEW c \in LanErrors(w)
  PROVE  /\ c \in ErrorOf /\ Accounted(w, c)
         /\ pc[w] \notin {"absent", "failed", "stopped"}
<1>1. pc[w] = "lanLoop"
  <2>1. InHand(w, "lan") \/ cut[w] # None
    BY DEF LanErrors, When
  <2> QED
    BY <2>1 DEF InHand, LoopAt, PacketsInv, Cutting
<1>2. ASSUME NEW f \in LanFrame, OneSegment(f.length)
      PROVE  /\ f.tagged => CanTrim(Received(f.length), 4)
             /\ CanPrepend(Inner(f), Outer)
             /\ ~Oversize(Inner(f).length)
  <2>1. /\ f.length \in Nat /\ Inner(f).head = 128
        /\ f.tagged => f.length >= 16
        /\ Inner(f).length \in Nat /\ Inner(f).length <= f.length
    BY InnerLength
  <2>2. f.length <= 2048
    BY <1>2, <2>1 DEF OneSegment, CanAppend, Fresh, Headroom, DataRoom
  <2>3. IsLength(4) /\ IsLength(Outer)
    BY SmallLength DEF Outer
  <2>4. f.tagged => CanTrim(Received(f.length), 4)
    BY <2>1, <2>3 DEF CanTrim, Received, Appended, Fresh
  <2>5. CanPrepend(Inner(f), Outer)
    BY <2>1, <2>3 DEF CanPrepend, Outer
  <2>6. Payload(Inner(f).length) <= 2050
    BY <2>1, <2>2 DEF Payload, EtherIPHeader
  <2>7. ~Oversize(Inner(f).length)
    BY <2>1, <2>6, SMT DEF Oversize, U16, Payload, EtherIPHeader
  <2> QED
    BY <2>4, <2>5, <2>7
<1>3. /\ cut[w] # None /\ FragmentsLeft(cut[w])
      /\ \/ c \in Because("mbufs", {0})
         \/ /\ ~FromBytes(FragmentBytes(cut[w]))
            /\ c \in Because("tailroom", {cut[w].frame})
  BY <1>2 DEF LanErrors, When, Because, Lengths
<1>4. /\ cut[w] \in Cut /\ cut[w].next > 0
      /\ ~FitsWhole(cut[w].frame, cut[w].mtu) /\ ~Oversize(cut[w].frame)
  BY <1>3 DEF PacketsInv, PacketsTypeOK, Cutting
<1>5. CASE c \in Because("mbufs", {0})
  <2>1. c.why = "mbufs" /\ c = [why |-> "mbufs", bytes |-> 0]
    BY <1>5 DEF Because
  <2> QED
    BY <2>1, <1>1 DEF ErrorOf, Accounted
<1>6. CASE /\ ~FromBytes(FragmentBytes(cut[w]))
           /\ c \in Because("tailroom", {cut[w].frame})
  <2>1. c.why = "tailroom" /\ c = [why |-> "tailroom", bytes |-> cut[w].frame]
    BY <1>6 DEF Because
  <2>2. cut[w].frame > LongestFrame /\ cut[w].frame \in Nat
    BY <1>3, <1>4, <1>6, FragmentTooLong DEF Cut
  <2> QED
    BY <2>1, <2>2, <1>1 DEF ErrorOf, Accounted
<1> QED
  BY <1>3, <1>5, <1>6

\* Decapsulation and answers fail only for the same causes.
LEMMA WanErrorAccounted ==
  ASSUME PacketsInv, NEW w \in Worker, NEW c \in WanErrors(w)
  PROVE  /\ c \in ErrorOf /\ Accounted(w, c)
         /\ pc[w] \notin {"absent", "failed", "stopped"}
<1>1. pc[w] = "wanLoop"
  BY DEF WanErrors, When, InHand, LoopAt
<1>2. \A f \in WanFrame : f.length \in Nat
  BY ForwardingAssumption
<1>3. ASSUME NEW f \in WanFrame
      PROVE  /\ CanAdjust(Received(f.length + Outer), Outer)
             /\ NoRoomForTag(Decapsulated(f), f) => f.length > LongestFrame
             /\ ~FromBytes(f.length) => f.length > LongestFrame
             /\ NoRoomForTag(Received(f.length), f) => f.length > LongestFrame
  <2>1. f.length \in Nat
    BY <1>2
  <2>2. /\ IsLength(4) /\ IsLength(Outer)
        /\ f.length <= 2176 => IsLength(f.length)
    BY <2>1, SmallLength DEF Outer
  <2>3. CanAdjust(Received(f.length + Outer), Outer)
    BY <2>1, <2>2 DEF CanAdjust, Received, Appended, Fresh, Outer
  <2>4. NoRoomForTag(Decapsulated(f), f) => f.length > LongestFrame
    BY <2>1, <2>2
       DEF NoRoomForTag, Decapsulated, Adjusted, CanAppend, Received, Appended,
           Fresh, Outer, Headroom, DataRoom, LongestFrame
  <2>5. ~FromBytes(f.length) => f.length > LongestFrame
    BY <2>1, <2>2
       DEF FromBytes, CanAppend, Fresh, Headroom, DataRoom, LongestFrame
  <2>6. NoRoomForTag(Received(f.length), f) => f.length > LongestFrame
    BY <2>1, <2>2
       DEF NoRoomForTag, CanAppend, Received, Appended, Fresh, Headroom,
           DataRoom, LongestFrame
  <2> QED
    BY <2>3, <2>4, <2>5, <2>6
<1>4. \/ c \in Because("mbufs", {0})
      \/ \E f \in WanFrame : /\ f.length > LongestFrame
                            /\ c = [why |-> "tailroom", bytes |-> f.length]
  BY <1>3 DEF WanErrors, When, Because, Lengths
<1>5. CASE c \in Because("mbufs", {0})
  <2>1. c.why = "mbufs" /\ c = [why |-> "mbufs", bytes |-> 0]
    BY <1>5 DEF Because
  <2> QED
    BY <2>1, <1>1 DEF ErrorOf, Accounted
<1>6. CASE \E f \in WanFrame : /\ f.length > LongestFrame
                              /\ c = [why |-> "tailroom", bytes |-> f.length]
  BY <1>1, <1>2, <1>6 DEF ErrorOf, Accounted
<1> QED
  BY <1>4, <1>5, <1>6

\* A panic is for a frame, whole or reassembled, with less than two addresses.
LEMMA PanicAccounted ==
  ASSUME PacketsInv, NEW w \in Worker, NEW c \in Panics(w)
  PROVE  /\ c \in ErrorOf /\ Accounted(w, c)
         /\ pc[w] \notin {"absent", "failed", "stopped"}
<1>1. pc[w] = "wanLoop"
  BY DEF Panics, When, InHand, LoopAt
<1>2. ASSUME NEW f \in WanFrame
      PROVE  /\ f.length \in Nat
             /\ Decapsulated(f).length = f.length
             /\ Received(f.length).length = f.length
  <2>1. f.length \in Nat
    BY ForwardingAssumption
  <2> QED
    BY <2>1 DEF Decapsulated, Adjusted, Received, Appended, Fresh, Outer
<1>3. PICK f \in WanFrame :
        /\ TooShortForTag(Decapsulated(f), f) \/ TooShortForTag(Received(f.length), f)
        /\ c = [why |-> "short", bytes |-> f.length]
  BY DEF Panics, When, Because, Lengths
<1>4. f.length \in Nat /\ f.length < TagOffset
  BY <1>2, <1>3 DEF TooShortForTag
<1> QED
  BY <1>1, <1>3, <1>4 DEF ErrorOf, Accounted

\* A worker that fails gives back all it holds, and has a cause for it.
LEMMA FailKeeps ==
  ASSUME PacketsInv, NEW w \in Worker, Fail(w)
  PROVE  /\ PacketsInv'
         /\ Accounted(w, cause'[w])
         /\ pc[w] \notin {"absent", "failed", "stopped"}
         /\ \A v \in Worker \ {w} : cause'[v] = cause[v]
<1>1. PICK c \in CallErrors(w) \cup LanErrors(w) \cup WanErrors(w) \cup Unwinds(w) :
        cause' = [cause EXCEPT ![w] = c]
  BY DEF Fail
<1>2. /\ c \in ErrorOf /\ Accounted(w, c)
      /\ pc[w] \notin {"absent", "failed", "stopped"}
  BY CallErrorAccounted, LanErrorAccounted, WanErrorAccounted, PanicAccounted
     DEF Unwinds
<1>3. /\ cause' \in [Worker -> ErrorOf \cup {None}] /\ cause'[w] = c
      /\ \A v \in Worker \ {w} : cause'[v] = cause[v]
  BY <1>1, <1>2 DEF PacketsInv, PacketsTypeOK
<1>4. /\ list' = Emptied(list, Owned(w))
      /\ free' = free \cup MbufsAt(list, Owned(w))
      /\ pc' = [pc EXCEPT ![w] = "failed"] /\ cut' = [cut EXCEPT ![w] = None]
      /\ UNCHANGED <<config, arrivals>>
  BY DEF Fail
<1>5. Owned(w) \in SUBSET Place /\ list \in [Place -> Seq(Packet)]
  BY DEF Owned, Place, PacketsInv, PacketsTypeOK
<1>6. list' \in [Place -> Seq(Packet)]
  BY <1>4, <1>5, Freed
<1>7. Partitions(list', free', Pool[config])
  BY <1>4, <1>5, FreeOwned DEF PacketsInv, OneOwner
<1>8. free' \subseteq Mbuf
  BY <1>7, PoolOfMbufs DEF PacketsInv, PacketsTypeOK
<1>9. /\ pc' \in [Worker -> PcValues] /\ cut' \in [Worker -> Cut \cup {None}]
      /\ cut'[w] = None
      /\ \A v \in Worker \ {w} : cut'[v] = cut[v] /\ pc'[v] = pc[v]
  BY <1>4 DEF PacketsInv, PacketsTypeOK, PcValues
<1>10. PacketsTypeOK' /\ OneOwner'
  BY <1>3, <1>4, <1>6, <1>7, <1>8, <1>9
     DEF PacketsInv, PacketsTypeOK, OneOwner
<1>11. \A v \in Worker \ {w} :
         list'[<<v, "received", "lan">>] = list[<<v, "received", "lan">>]
  <2>1. \A v \in Worker \ {w} : /\ <<v, "received", "lan">> \in Place
                               /\ <<v, "received", "lan">> \notin Owned(w)
    BY Places DEF Owned
  <2> QED
    BY <2>1, <1>4 DEF Emptied
<1>12. Cutting'
  BY <1>9, <1>11, CuttingKept DEF PacketsInv
<1> QED
  BY <1>2, <1>3, <1>10, <1>12 DEF PacketsInv

-----------------------------------------------------------------------------
(* The steps together.                                                     *)

\* Every step of a worker keeps the packets' invariant.
LEMMA WorkKeeps ==
  ASSUME PacketsInv, NEW w \in Worker, Work(w)
  PROVE  /\ PacketsInv'
         /\ \/ cause' = cause
            \/ /\ Accounted(w, cause'[w])
               /\ \A v \in Worker \ {w} : cause'[v] = cause[v]
<1>1. CASE \E p \in Port : \E n \in 0 .. Len(list[<<w, "queue", p>>]) :
             ReceiveBurst(w, p, n)
  <2>1. PacketsInv'
    BY <1>1, ReceiveBurstKeeps
  <2> QED
    BY <2>1, <1>1 DEF ReceiveBurst
<1>2. CASE \E p \in Port : Discard(w, p)
  <2>1. PacketsInv'
    BY <1>2, DiscardKeeps
  <2> QED
    BY <2>1, <1>2 DEF Discard
<1>3. CASE \E p \in Port : \E n \in 0 .. Len(list[<<w, "out", p>>]) :
             Transmit(w, p, n)
  <2>1. PacketsInv'
    BY <1>3, TransmitKeeps
  <2> QED
    BY <2>1, <1>3 DEF Transmit
<1>4. CASE \E f \in LanFrame : SendWhole(w, f) \/ StartFragments(w, f)
  <2>1. PacketsInv'
    BY <1>4, SendWholeKeeps, StartFragmentsKeeps
  <2> QED
    BY <2>1, <1>4 DEF SendWhole, StartFragments
<1>5. CASE PushFragment(w) \/ EndFragments(w)
  <2>1. PacketsInv'
    BY <1>5, PushFragmentKeeps, EndFragmentsKeeps
  <2> QED
    BY <2>1, <1>5 DEF PushFragment, EndFragments
<1>6. CASE \E f \in WanFrame : ForwardWhole(w, f) \/ ForwardReassembled(w, f)
  <2>1. PacketsInv'
    BY <1>6, ForwardWholeKeeps, ForwardReassembledKeeps
  <2> QED
    BY <2>1, <1>6 DEF ForwardWhole, ForwardReassembled, Replaces
<1>7. CASE \E m \in Solicited : Answer(w, m)
  <2>1. PacketsInv'
    BY <1>7, AnswerKeeps
  <2> QED
    BY <2>1, <1>7 DEF Answer, Replaces
<1>8. CASE Fail(w)
  BY <1>8, FailKeeps
<1> QED
  BY <1>1, <1>2, <1>3, <1>4, <1>5, <1>6, <1>7, <1>8 DEF Work

\* Lists other than those a step names stay as they are.
LEMMA Elsewhere ==
  ASSUME NEW l, DOMAIN l = Place, NEW a, NEW b, NEW c \in Place, c # a, c # b,
         NEW n, NEW s
  PROVE  /\ Without(l, a, n)[c] = l[c]
         /\ With(l, b, s)[c] = l[c]
         /\ With(Without(l, a, n), b, s)[c] = l[c]
<1>1. Without(l, a, n)[c] = l[c] /\ DOMAIN Without(l, a, n) = Place
  BY DEF Without
<1>2. \A k, t : DOMAIN k = Place => With(k, b, t)[c] = k[c]
  BY DEF With
<1> QED
  BY <1>1, <1>2

\* Moving packets between two places leaves every third as it is.
LEMMA ElsewherePassed ==
  ASSUME NEW l, DOMAIN l = Place, NEW a, NEW b, NEW c \in Place, c # a, c # b,
         NEW n
  PROVE  Passed(l, a, b, n)[c] = l[c]
BY Elsewhere DEF Passed

\* What a step of a worker does not touch.
LEMMA WorkFrame ==
  ASSUME PacketsInv, NEW w \in Worker, Work(w)
  PROVE  /\ Alive(w) /\ pc'[w] \notin {"absent", "stopped"}
         /\ pc'[w] = "failed" => \A a \in Owned(w) : list'[a] = <<>>
         /\ config' = config
         /\ \A v \in Worker \ {w} : pc'[v] = pc[v]
         /\ \A c \in Place : c[1] # w => list'[c] = list[c]
<1>1. DOMAIN list = Place /\ DOMAIN pc = Worker
  BY DEF PacketsInv, PacketsTypeOK
<1>2. \A c \in Place : c[1] # w =>
        \A k, p : c # <<w, k, p>>
  OBVIOUS
<1>3. ASSUME NEW p \in Port, InHand(w, p), pc' = pc, config' = config,
             \A c \in Place : c[1] # w => list'[c] = list[c]
      PROVE  /\ Alive(w) /\ pc'[w] \notin {"absent", "stopped", "failed"}
             /\ config' = config
             /\ \A v \in Worker \ {w} : pc'[v] = pc[v]
             /\ \A c \in Place : c[1] # w => list'[c] = list[c]
  <2>1. pc[w] \in {"lanLoop", "wanLoop"}
    BY <1>3 DEF InHand, LoopAt, Port
  <2> QED
    BY <2>1, <1>3 DEF Alive
<1>4. CASE \E p \in Port : \E n \in 0 .. Len(list[<<w, "queue", p>>]) :
             ReceiveBurst(w, p, n)
  <2>1. PICK p \in Port : \E n \in 0 .. Len(list[<<w, "queue", p>>]) :
               ReceiveBurst(w, p, n)
    BY <1>4
  <2>2. /\ pc[w] \in {"lanReceive", "wanReceive"}
        /\ LoopAt[p] \in {"lanLoop", "wanLoop"}
    BY <2>1 DEF ReceiveBurst, ReceiveAt, LoopAt, Port
  <2>3. pc' = [pc EXCEPT ![w] = LoopAt[p]] /\ config' = config
    BY <2>1 DEF ReceiveBurst
  <2>4. \A c \in Place : c[1] # w => list'[c] = list[c]
    BY <2>1, <1>1, <1>2, ElsewherePassed DEF ReceiveBurst
  <2> QED
    BY <2>2, <2>3, <2>4, <1>1 DEF Alive
<1>5. CASE \E p \in Port : Discard(w, p)
  <2>1. PICK p \in Port : Discard(w, p)
    BY <1>5
  <2>2. InHand(w, p) /\ pc' = pc /\ config' = config
    BY <2>1 DEF Discard
  <2>3. \A c \in Place : c[1] # w => list'[c] = list[c]
    BY <2>1, <1>1, <1>2, Elsewhere DEF Discard
  <2> QED
    BY <2>2, <2>3, <1>3
<1>6. CASE \E p \in Port : \E n \in 0 .. Len(list[<<w, "out", p>>]) :
             Transmit(w, p, n)
  <2>0. PICK p \in Port : \E n \in 0 .. Len(list[<<w, "out", p>>]) :
               Transmit(w, p, n)
    BY <1>6
  <2>1. PICK n \in 0 .. Len(list[<<w, "out", p>>]) : Transmit(w, p, n)
    BY <2>0
  <2>2. /\ pc[w] \in {"lanLoop", "wanLoop", "lanSend"} /\ config' = config
        /\ pc'[w] \in {"wanReceive", "lanSend", "lanReceive"}
        /\ \A v \in Worker \ {w} : pc'[v] = pc[v]
    BY <2>1, <1>1 DEF Transmit, Transmits
  <2>3. list' = Passed(list, <<w, "out", p>>, <<w, "ring", p>>, n)
    BY <2>1 DEF Transmit, Unsent, Passed, Without, With
  <2>4. \A c \in Place : c[1] # w => list'[c] = list[c]
    <3> DEFINE a == <<w, "out", p>>
               b == <<w, "ring", p>>
    <3>1. \A c \in Place : c[1] # w => c # a /\ c # b
      BY <1>2
    <3>2. list' = Passed(list, a, b, n)
      BY <2>3
    <3> HIDE DEF a, b
    <3> QED
      BY <3>1, <3>2, <1>1, ElsewherePassed
  <2> QED
    BY <2>2, <2>4 DEF Alive
<1>7. CASE \E f \in LanFrame : SendWhole(w, f) \/ StartFragments(w, f)
  <2>1. InHand(w, "lan") /\ pc' = pc /\ config' = config
    BY <1>7 DEF SendWhole, StartFragments
  <2>2. \A c \in Place : c[1] # w => list'[c] = list[c]
    <3>1. \/ list' = list
          \/ list' = Passed(list, <<w, "received", "lan">>, <<w, "out", "wan">>, 1)
      BY <1>7 DEF SendWhole, StartFragments
    <3> QED
      BY <3>1, <1>1, <1>2, ElsewherePassed
  <2> QED
    BY <2>1, <2>2, <1>3, Places
<1>8. CASE PushFragment(w) \/ EndFragments(w)
  <2>1. pc[w] = "lanLoop" /\ pc' = pc /\ config' = config
    BY <1>8 DEF PushFragment, EndFragments, PacketsInv, Cutting
  <2>2. \A c \in Place : c[1] # w => list'[c] = list[c]
    BY <1>8, <1>1, <1>2, Elsewhere DEF PushFragment, EndFragments
  <2> QED
    BY <2>1, <2>2 DEF Alive
<1>9. CASE \E f \in WanFrame : ForwardWhole(w, f) \/ ForwardReassembled(w, f)
  <2>1. InHand(w, "wan") /\ pc' = pc /\ config' = config
    BY <1>9 DEF ForwardWhole, ForwardReassembled, Replaces
  <2>2. \A c \in Place : c[1] # w => list'[c] = list[c]
    BY <1>9, <1>1, <1>2, Elsewhere, ElsewherePassed
       DEF ForwardWhole, ForwardReassembled, Replaces
  <2> QED
    BY <2>1, <2>2, <1>3, Places
<1>10. CASE \E m \in Solicited : Answer(w, m)
  <2>1. InHand(w, "wan") /\ pc' = pc /\ config' = config
    BY <1>10 DEF Answer, Replaces
  <2>2. \A c \in Place : c[1] # w => list'[c] = list[c]
    BY <1>10, <1>1, <1>2, Elsewhere DEF Answer, Replaces
  <2> QED
    BY <2>1, <2>2, <1>3, Places
<1>11. CASE Fail(w)
  <2>1. Alive(w)
    BY <1>11, FailKeeps DEF Alive
  <2>2. /\ pc' = [pc EXCEPT ![w] = "failed"] /\ config' = config
        /\ list' = Emptied(list, Owned(w)) /\ Owned(w) \subseteq Place
    BY <1>11 DEF Fail, Owned, Place
  <2>3. \A a \in Owned(w) : list'[a] = <<>>
    BY <2>2 DEF Emptied
  <2>4. \A c \in Place : c[1] # w => list'[c] = list[c]
    <3>1. \A c \in Owned(w) : c[1] = w
      BY DEF Owned
    <3> QED
      BY <3>1, <2>2 DEF Emptied
  <2> QED
    BY <2>1, <2>2, <2>3, <2>4, <1>1
<1> QED
  BY <1>4, <1>5, <1>6, <1>7, <1>8, <1>9, <1>10, <1>11 DEF Work

\* An answer in a packet is one to a solicitation that asked for it.
LEMMA AnswersInPackets ==
  ASSUME PacketsTypeOK
  PROVE  AnswersConvince
<1> SUFFICES ASSUME NEW a \in Place, NEW i \in DOMAIN list[a],
                    list[a][i].answer # None
             PROVE  /\ list[a][i].answer.to.target = Local
                    /\ Convinces(list[a][i].answer.to, list[a][i].answer.reply)
  BY DEF AnswersConvince
<1>1. list[a][i] \in Packet
  BY DEF PacketsTypeOK
<1>2. list[a][i].answer \in
        {[to |-> m, reply |-> NdpAdvertisement(m)] : m \in Answered}
  BY <1>1 DEF Packet, Answers
<1>3. PICK m \in Answered :
        list[a][i].answer = [to |-> m, reply |-> NdpAdvertisement(m)]
  BY <1>2
<1>4. m \in Message /\ NdpAdvertisement(m) # None
  BY ForwardingAssumption DEF Answered
<1> QED
  BY <1>3, <1>4, AdvertisementConvinces

\* A queue is refused only where the count of queues saturates.
LEMMA QueueAtLimit ==
  ASSUME config \in Config, NEW w \in Worker, w < config.workers,
         ~ValidQueue(RxQueue(w), RxQueues) \/ ~ValidQueue(TxQueue(w), TxQueues)
  PROVE  ~Several /\ U16 - 1 \in {config.rxQueue, config.txQueue}
<1>1. config.rxQueue \in 0 .. U16 - 1 /\ config.txQueue \in 0 .. U16 - 1
  BY ForwardingAssumption
<1>2. CASE Several
  BY <1>2 DEF ValidQueue, RxQueue, RxQueues, TxQueue, TxQueues
<1>3. CASE ~Several
  <2>1. \A n \in 0 .. U16 - 1 : ~(n < SaturatingNext(n)) => n = U16 - 1
    <3>1. U16 \in Nat
      BY SMT DEF U16
    <3> QED
      BY <3>1 DEF SaturatingNext
  <2> QED
    BY <2>1, <1>1, <1>3 DEF ValidQueue, RxQueue, RxQueues, TxQueue, TxQueues
<1> QED
  BY <1>2, <1>3

\* Whatever step a worker takes, OnlyForCause survives it.
LEMMA CauseKept ==
  ASSUME PacketsInv, NEW w \in Worker, Work(w), ValidBurst(config.burst),
         w < config.workers, OnlyForCause
  PROVE  OnlyForCause'
<1>1. config' = config /\ config \in Config
  BY WorkFrame DEF PacketsInv, PacketsTypeOK
<1>2. CASE cause' = cause
  BY <1>1, <1>2 DEF OnlyForCause, Several
<1>3. CASE /\ Accounted(w, cause'[w])
           /\ \A v \in Worker \ {w} : cause'[v] = cause[v]
  <2>1. \/ cause'[w].why = "mbufs"
        \/ cause'[w].why = "tailroom" /\ cause'[w].bytes > LongestFrame
        \/ cause'[w].why = "short" /\ cause'[w].bytes < TagOffset
        \/ /\ cause'[w].why = "queue" /\ ~Several
           /\ U16 - 1 \in {config.rxQueue, config.txQueue}
    BY <1>1, <1>3, QueueAtLimit DEF Accounted
  <2> QED
    BY <2>1, <1>1, <1>3 DEF OnlyForCause, Several
<1> QED
  BY <1>2, <1>3, WorkKeeps

-----------------------------------------------------------------------------
(* The order of the packets.                                               *)

\* How far a place is from the wire.
Rank(a) ==
  IF a[2] = "ring" THEN 0
  ELSE IF a[2] = "out" THEN 1
  ELSE IF a[2] = "received" THEN 2 ELSE 3

\* Places a packet may pass on its way to one port.
SameLine(a, b) ==
  /\ a[1] = b[1]
  /\ {a[2], b[2]} \subseteq {"ring", "out"} => a[3] = b[3]

Ahead(a, i, b, j) == (a = b /\ i < j) \/ Rank(a) < Rank(b)

\* A frame being cut counts as the fragment that is next.
InCut(c, b, j) ==
  b[2] = "received" /\ b[3] = "lan" /\ j = 1 /\ c[b[1]] # None

Due(l, c, b, j) == IF InCut(c, b, j) THEN c[b[1]].next ELSE l[b][j].part

Earlier(x, nr, part) == x.nr < nr \/ (x.nr = nr /\ x.part < part)

Lined(l, c) ==
  \A a, b \in Place : SameLine(a, b) =>
    \A i \in DOMAIN l[a], j \in DOMAIN l[b] :
      Ahead(a, i, b, j) /\ l[a][i].from = l[b][j].from =>
        Earlier(l[a][i], l[b][j].nr, Due(l, c, b, j))

Unhandled(a) == a[2] \in {"queue", "received"}

\* What has not been handled is as it came to its port.
Raw(l, n) ==
  \A a \in Place : \A i \in DOMAIN l[a] :
    /\ l[a][i].nr <= n
    /\ Unhandled(a) => l[a][i].from = a[3] /\ l[a][i].part = 0

Ordered == Lined(list, cut) /\ Raw(list, arrivals)

\* The distances of the places, and what identifies them.
LEMMA Ranks ==
  /\ \A a \in Place :
       /\ a[1] \in Worker /\ a[3] \in Port
       /\ a[2] \in {"queue", "received", "out", "ring"}
       /\ Rank(a) \in 0 .. 3
       /\ Rank(a) = 0 <=> a[2] = "ring"
       /\ Rank(a) = 1 <=> a[2] = "out"
       /\ Rank(a) = 2 <=> a[2] = "received"
       /\ Rank(a) = 3 <=> a[2] = "queue"
  /\ \A a, b \in Place : a[1] = b[1] /\ a[2] = b[2] /\ a[3] = b[3] => a = b
BY DEF Place, Rank

\* Where a packet was before n moved from place b to the end of place a, that
\* had m.
Origin(a, b, m, n, u, i, u0, i0) ==
  /\ i \in Nat \ {0} /\ i0 \in Nat \ {0}
  /\ \/ u = a /\ u0 = b /\ i0 = i - m /\ i0 <= n
     \/ u = b /\ u0 = b /\ i0 = i + n
     \/ u # b /\ u0 = u /\ i0 = i /\ (u = a => i <= m)

\* Of two packets in one line, neither moved past the other.
LEMMA StillAhead ==
  ASSUME NEW a \in Place, NEW b \in Place, a[1] = b[1],
         Rank(b) = Rank(a) + 1, a[2] # "out" => a[3] = b[3],
         NEW n \in Nat, NEW m \in Nat
  PROVE  \A u, v, u0, v0 \in Place : \A i, j, i0, j0 :
           /\ Origin(a, b, m, n, u, i, u0, i0)
           /\ Origin(a, b, m, n, v, j, v0, j0)
           /\ Unhandled(u0) /\ Unhandled(v0) => u0[3] = v0[3]
           /\ SameLine(u, v) /\ Ahead(u, i, v, j)
           => SameLine(u0, v0) /\ Ahead(u0, i0, v0, j0)
<1> SUFFICES ASSUME NEW u \in Place, NEW v \in Place,
                    NEW u0 \in Place, NEW v0 \in Place,
                    NEW i, NEW j, NEW i0, NEW j0,
                    Origin(a, b, m, n, u, i, u0, i0),
                    Origin(a, b, m, n, v, j, v0, j0),
                    Unhandled(u0) /\ Unhandled(v0) => u0[3] = v0[3],
                    SameLine(u, v), Ahead(u, i, v, j)
             PROVE  SameLine(u0, v0) /\ Ahead(u0, i0, v0, j0)
  OBVIOUS
<1>1. /\ Rank(a) \in 0 .. 3 /\ Rank(b) \in 0 .. 3
      /\ Rank(u) \in 0 .. 3 /\ Rank(v) \in 0 .. 3
  BY Ranks
<1>2. /\ a # b
      /\ i \in Nat \ {0} /\ i0 \in Nat \ {0}
      /\ j \in Nat \ {0} /\ j0 \in Nat \ {0}
  BY <1>1 DEF Origin
<1>3. ASSUME v # b, v0 = v, u = a, u0 = b, Rank(b) = Rank(v)
      PROVE  FALSE
  <2>1. v[1] = b[1] /\ v[2] = b[2]
    BY <1>3, Ranks DEF SameLine, Unhandled
  <2>2. v[3] = b[3]
    BY <2>1, <1>3, Ranks DEF SameLine, Unhandled
  <2> QED
    BY <2>1, <2>2, <1>3, Ranks
<1>4. SameLine(u0, v0)
  BY Ranks DEF SameLine, Origin
<1>5. Ahead(u0, i0, v0, j0)
  <2>1. CASE u = a /\ u0 = b /\ i0 = i - m /\ i0 <= n
    <3>1. CASE v = a /\ v0 = b /\ j0 = j - m
      BY <1>1, <1>2, <2>1, <3>1 DEF Ahead
    <3>2. CASE v = b /\ v0 = b /\ j0 = j + n
      BY <1>1, <1>2, <2>1, <3>2 DEF Ahead
    <3>3. CASE v # b /\ v0 = v /\ j0 = j /\ (v = a => j <= m)
      <4>1. Rank(a) < Rank(v)
        BY <1>1, <1>2, <2>1, <3>3 DEF Ahead
      <4>2. Rank(b) # Rank(v)
        BY <1>3, <2>1, <3>3
      <4> QED
        BY <1>1, <1>2, <4>1, <4>2, <2>1, <3>3 DEF Ahead
    <3> QED
      BY <3>1, <3>2, <3>3 DEF Origin
  <2>2. CASE u = b /\ u0 = b /\ i0 = i + n
    BY <1>1, <1>2, <2>2 DEF Ahead, Origin
  <2>3. CASE u # b /\ u0 = u /\ i0 = i /\ (u = a => i <= m)
    <3>1. CASE v = a /\ v0 = b /\ j0 = j - m
      BY <1>1, <1>2, <2>3, <3>1 DEF Ahead
    <3>2. CASE v = b /\ v0 = b /\ j0 = j + n
      BY <1>1, <1>2, <2>3, <3>2 DEF Ahead
    <3>3. CASE v # b /\ v0 = v /\ j0 = j
      BY <1>1, <1>2, <2>3, <3>3 DEF Ahead
    <3> QED
      BY <3>1, <3>2, <3>3 DEF Origin
  <2> QED
    BY <2>1, <2>2, <2>3 DEF Origin
<1> QED
  BY <1>4, <1>5

Same(x, y) == x.from = y.from /\ x.nr = y.nr /\ x.part = y.part

\* The first n packets of place b are now at the end of place a.
Shifted(l, k, a, b, n) ==
  /\ Len(k[a]) = Len(l[a]) + n /\ Len(k[b]) = Len(l[b]) - n
  /\ \A i \in 1 .. Len(l[a]) : k[a][i] = l[a][i]
  /\ \A i \in 1 .. n : Same(k[a][Len(l[a]) + i], l[b][i])
  /\ \A i \in 1 .. Len(l[b]) - n : k[b][i] = l[b][n + i]
  /\ \A d \in (Place \ {a}) \ {b} : k[d] = l[d]

\* The first packets of a place moved to the end of the next, each as it was
\* or replaced by one of the same number.
LEMMA MoveOrdered ==
  ASSUME NEW l \in [Place -> Seq(Packet)], NEW k \in [Place -> Seq(Packet)],
         NEW c, NEW N \in Nat, Lined(l, c), Raw(l, N),
         NEW a \in Place, NEW b \in Place, a[1] = b[1], c[a[1]] = None,
         Rank(b) = Rank(a) + 1, a[2] # "out" => a[3] = b[3],
         NEW n \in 0 .. Len(l[b]),
         Shifted(l, k, a, b, n)
  PROVE  Lined(k, c) /\ Raw(k, N)
<1>0. /\ Len(k[a]) = Len(l[a]) + n /\ Len(k[b]) = Len(l[b]) - n
      /\ \A i \in 1 .. Len(l[a]) : k[a][i] = l[a][i]
      /\ \A i \in 1 .. n : Same(k[a][Len(l[a]) + i], l[b][i])
      /\ \A i \in 1 .. Len(l[b]) - n : k[b][i] = l[b][n + i]
      /\ \A d \in (Place \ {a}) \ {b} : k[d] = l[d]
  BY DEF Shifted
<1> DEFINE m == Len(l[a])
           From(u, i, u0, i0) == Origin(a, b, m, n, u, i, u0, i0)
<1>1. m \in Nat /\ n \in Nat /\ Len(l[b]) \in Nat /\ n <= Len(l[b])
  OBVIOUS
<1>2. a # b
  BY Ranks
<1>3. \A u \in Place : /\ DOMAIN l[u] = 1 .. Len(l[u]) /\ Len(l[u]) \in Nat
                       /\ DOMAIN k[u] = 1 .. Len(k[u]) /\ Len(k[u]) \in Nat
  OBVIOUS
<1>4. ASSUME NEW u \in Place, NEW i \in DOMAIN k[u]
      PROVE  \E u0 \in Place : \E i0 \in DOMAIN l[u0] :
               From(u, i, u0, i0) /\ Same(k[u][i], l[u0][i0])
  <2>1. i \in Nat /\ i >= 1 /\ i <= Len(k[u])
    BY <1>3
  <2>2. CASE u = a /\ i <= m
    <3>1. i \in 1 .. m /\ i \in DOMAIN l[a]
      BY <2>1, <2>2, <1>3
    <3>2. From(u, i, a, i) /\ Same(k[a][i], l[a][i])
      BY <1>0, <3>1, <2>2, <1>2 DEF Same, Origin
    <3> QED
      BY <3>1, <3>2, <2>2
  <2>3. CASE u = a /\ i > m
    <3>1. i - m \in 1 .. n /\ m + (i - m) = i
      BY <1>0, <2>1, <2>3, <1>1
    <3>2. i - m \in DOMAIN l[b]
      BY <3>1, <1>1, <1>3
    <3>3. From(u, i, b, i - m)
      BY <3>1, <2>3 DEF Origin
    <3>4. Same(k[a][i], l[b][i - m])
      BY <1>0, <3>1
    <3> QED
      BY <3>2, <3>3, <3>4, <2>3
  <2>4. CASE u = b
    <3>1. i \in 1 .. Len(l[b]) - n
      BY <1>0, <2>1, <2>4
    <3>2. i + n \in DOMAIN l[b] /\ i + n = n + i
      BY <3>1, <1>1, <1>3
    <3>3. From(u, i, b, i + n)
      BY <1>1, <3>1, <3>2, <2>4 DEF Origin
    <3>4. k[b][i] = l[b][i + n]
      BY <1>0, <3>1, <3>2
    <3> QED
      BY <3>2, <3>3, <3>4, <2>4 DEF Same
  <2>5. CASE u # a /\ u # b
    <3>1. k[u] = l[u]
      BY <1>0, <2>5
    <3>2. From(u, i, u, i) /\ Same(k[u][i], l[u][i])
      BY <3>1, <2>5 DEF Same, Origin
    <3> QED
      BY <3>1, <3>2
  <2> QED
    BY <2>2, <2>3, <2>4, <2>5, <2>1, <1>1
<1> HIDE DEF m
<1>5. ASSUME NEW u \in Place, NEW i \in DOMAIN k[u],
             NEW u0 \in Place, NEW i0 \in DOMAIN l[u0], From(u, i, u0, i0),
             Same(k[u][i], l[u0][i0])
      PROVE  Due(k, c, u, i) = Due(l, c, u0, i0)
  <2>2. u[1] = u0[1] /\ ((u = u0 /\ i = i0) \/ c[u[1]] = None)
    BY <1>5 DEF Origin
  <2>3. InCut(c, u, i) <=> InCut(c, u0, i0)
    BY <2>2 DEF InCut
  <2> QED
    BY <2>2, <2>3, <1>5 DEF Due, Same
<1>6. \A u, v, u0, v0 \in Place : \A i, j, i0, j0 :
        /\ Origin(a, b, m, n, u, i, u0, i0)
        /\ Origin(a, b, m, n, v, j, v0, j0)
        /\ Unhandled(u0) /\ Unhandled(v0) => u0[3] = v0[3]
        /\ SameLine(u, v) /\ Ahead(u, i, v, j)
        => SameLine(u0, v0) /\ Ahead(u0, i0, v0, j0)
  BY <1>1, StillAhead
<1>7. Lined(k, c)
  <2> SUFFICES ASSUME NEW u \in Place, NEW v \in Place, SameLine(u, v),
                      NEW i \in DOMAIN k[u], NEW j \in DOMAIN k[v],
                      Ahead(u, i, v, j), k[u][i].from = k[v][j].from
               PROVE  Earlier(k[u][i], k[v][j].nr, Due(k, c, v, j))
    BY DEF Lined
  <2>1. PICK u0 \in Place : \E i0 \in DOMAIN l[u0] :
               From(u, i, u0, i0) /\ Same(k[u][i], l[u0][i0])
    BY <1>4
  <2>2. PICK i0 \in DOMAIN l[u0] :
               From(u, i, u0, i0) /\ Same(k[u][i], l[u0][i0])
    BY <2>1
  <2>3. PICK v0 \in Place : \E j0 \in DOMAIN l[v0] :
               From(v, j, v0, j0) /\ Same(k[v][j], l[v0][j0])
    BY <1>4
  <2>4. PICK j0 \in DOMAIN l[v0] :
               From(v, j, v0, j0) /\ Same(k[v][j], l[v0][j0])
    BY <2>3
  <2>5. l[u0][i0].from = l[v0][j0].from
    BY <2>2, <2>4 DEF Same
  <2>6. Unhandled(u0) /\ Unhandled(v0) => u0[3] = v0[3]
    BY <2>5 DEF Raw, Unhandled
  <2>7. Due(k, c, v, j) = Due(l, c, v0, j0)
    BY <2>4, <1>5
  <2>8. SameLine(u0, v0) /\ Ahead(u0, i0, v0, j0)
    <3>1. Origin(a, b, m, n, u, i, u0, i0) /\ Origin(a, b, m, n, v, j, v0, j0)
      BY <2>2, <2>4
    <3> QED
      BY <3>1, <2>6, <1>6, SMTT(30)
  <2>9. Earlier(l[u0][i0], l[v0][j0].nr, Due(l, c, v0, j0))
    BY <2>5, <2>8 DEF Lined
  <2> QED
    BY <2>2, <2>4, <2>7, <2>9 DEF Same, Earlier
<1>8. Raw(k, N)
  <2> SUFFICES ASSUME NEW u \in Place, NEW i \in DOMAIN k[u]
               PROVE  /\ k[u][i].nr <= N
                      /\ Unhandled(u) => k[u][i].from = u[3] /\ k[u][i].part = 0
    BY DEF Raw
  <2>1. PICK u0 \in Place : \E i0 \in DOMAIN l[u0] :
               From(u, i, u0, i0) /\ Same(k[u][i], l[u0][i0])
    BY <1>4
  <2>2. PICK i0 \in DOMAIN l[u0] :
               From(u, i, u0, i0) /\ Same(k[u][i], l[u0][i0])
    BY <2>1
  <2>3. k[u][i].nr <= N
    BY <2>2 DEF Raw, Same
  <2>4. ASSUME Unhandled(u)
        PROVE  Unhandled(u0) /\ u0[3] = u[3]
    <3>1. CASE u0 = u
      BY <3>1, <2>4
    <3>2. CASE u0 # u
      <4>1. u = a /\ u0 = b
        BY <2>2, <3>2 DEF Origin
      <4>2. a[2] \in {"queue", "received"} /\ a[3] = b[3]
        BY <4>1, <2>4 DEF Unhandled
      <4>3. Rank(a) \in 2 .. 3 /\ Rank(b) \in 0 .. 3
        BY <4>2, Ranks
      <4>4. Rank(b) = 3
        BY <4>3
      <4>5. b[2] = "queue"
        BY <4>4, Ranks
      <4> QED
        BY <4>1, <4>2, <4>5 DEF Unhandled
    <3> QED
      BY <3>1, <3>2
  <2> QED
    BY <2>2, <2>3, <2>4 DEF Raw, Same
<1> QED
  BY <1>7, <1>8

\* Each packet was m[u] further back in its place, due alike.
Shrunk(l, c, k, d, m) ==
  \A u \in Place : \A i \in DOMAIN k[u] :
    /\ i + m[u] \in DOMAIN l[u] /\ k[u][i] = l[u][i + m[u]]
    /\ Due(k, d, u, i) = Due(l, c, u, i + m[u])

\* Packets taken from the heads of places, or with whole places.
LEMMA ShrinkOrdered ==
  ASSUME NEW l \in [Place -> Seq(Packet)], NEW k \in [Place -> Seq(Packet)],
         NEW c, NEW d, NEW N, Lined(l, c), Raw(l, N), NEW m \in [Place -> Nat],
         Shrunk(l, c, k, d, m)
  PROVE  Lined(k, d) /\ Raw(k, N)
<1>1. Lined(k, d)
  <2> SUFFICES ASSUME NEW u \in Place, NEW v \in Place, SameLine(u, v),
                      NEW i \in DOMAIN k[u], NEW j \in DOMAIN k[v],
                      Ahead(u, i, v, j), k[u][i].from = k[v][j].from
               PROVE  Earlier(k[u][i], k[v][j].nr, Due(k, d, v, j))
    BY DEF Lined
  <2>1. i \in Nat /\ j \in Nat /\ m[u] \in Nat /\ m[v] \in Nat
    OBVIOUS
  <2>2. Ahead(u, i + m[u], v, j + m[v])
    BY <2>1 DEF Ahead
  <2>3. /\ i + m[u] \in DOMAIN l[u] /\ k[u][i] = l[u][i + m[u]]
        /\ j + m[v] \in DOMAIN l[v] /\ k[v][j] = l[v][j + m[v]]
        /\ Due(k, d, v, j) = Due(l, c, v, j + m[v])
    BY DEF Shrunk
  <2>4. Earlier(l[u][i + m[u]], l[v][j + m[v]].nr, Due(l, c, v, j + m[v]))
    BY <2>2, <2>3 DEF Lined
  <2> QED
    BY <2>3, <2>4
<1>2. Raw(k, N)
  BY DEF Raw, Shrunk
<1> QED
  BY <1>1, <1>2

\* The packets s are new at the end of place a.
Extended(l, k, a, s) ==
  /\ \A d \in Place \ {a} : k[d] = l[d]
  /\ Len(k[a]) = Len(l[a]) + Len(s)
  /\ \A i \in 1 .. Len(l[a]) : k[a][i] = l[a][i]
  /\ \A i \in 1 .. Len(s) : k[a][Len(l[a]) + i] = s[i]

\* What With does to a list.
LEMMA Extends ==
  ASSUME NEW S, NEW l \in [Place -> Seq(S)], NEW a \in Place, NEW s \in Seq(S)
  PROVE  With(l, a, s) \in [Place -> Seq(S)] /\ Extended(l, With(l, a, s), a, s)
<1> DEFINE k == With(l, a, s)
<1>1. \A d \in Place \ {a} : k[d] = l[d]
  BY Put
<1>2. Len(k[a]) = Len(l[a]) + Len(s)
  BY Put
<1>3. \A i \in 1 .. Len(l[a]) : k[a][i] = l[a][i]
  BY Put
<1>4. \A i \in 1 .. Len(s) : k[a][Len(l[a]) + i] = s[i]
  BY Put
<1>5. k \in [Place -> Seq(S)]
  BY Put
<1> HIDE DEF k
<1>6. Extended(l, k, a, s)
  BY <1>1, <1>2, <1>3, <1>4 DEF Extended
<1> QED
  BY <1>5, <1>6 DEF k

\* Nothing but packet x at the end of place b is new.
Gains(k, l, b, x) ==
  \A u \in Place : \A i \in DOMAIN k[u] :
    \/ i \in DOMAIN l[u] /\ k[u][i] = l[u][i]
    \/ u = b /\ i = Len(l[b]) + 1 /\ k[u][i] = x

LEMMA Added ==
  ASSUME NEW S, NEW l \in [Place -> Seq(S)], NEW b \in Place, NEW x \in S
  PROVE  Gains(With(l, b, <<x>>), l, b, x)
<1> DEFINE s == <<x>>
           k == With(l, b, s)
<1>1. s \in Seq(S) /\ Len(s) = 1 /\ s[1] = x
  OBVIOUS
<1> HIDE DEF s
<1>2. k \in [Place -> Seq(S)] /\ Extended(l, k, b, s)
  BY <1>1, Extends
<1> HIDE DEF k
<1>3. /\ k \in [Place -> Seq(S)]
      /\ \A u \in Place \ {b} : k[u] = l[u]
      /\ Len(k[b]) = Len(l[b]) + Len(s)
      /\ \A i \in 1 .. Len(l[b]) : k[b][i] = l[b][i]
      /\ \A i \in 1 .. Len(s) : k[b][Len(l[b]) + i] = s[i]
  BY <1>2 DEF Extended
<1>4. ASSUME NEW i \in DOMAIN k[b]
      PROVE  \/ i \in DOMAIN l[b] /\ k[b][i] = l[b][i]
             \/ i = Len(l[b]) + 1 /\ k[b][i] = x
  <2>1. /\ DOMAIN k[b] = 1 .. Len(k[b]) /\ Len(l[b]) \in Nat
        /\ DOMAIN l[b] = 1 .. Len(l[b])
    BY <1>3
  <2>2. i \in 1 .. Len(l[b]) \/ i = Len(l[b]) + 1
    BY <2>1, <1>1, <1>3
  <2>3. k[b][Len(l[b]) + 1] = x
    BY <1>1, <1>3
  <2> QED
    BY <2>1, <2>2, <2>3, <1>3
<1> QED
  BY <1>3, <1>4 DEF k, s, Gains

\* A packet that comes to a queue.
LEMMA ArriveOrdered ==
  ASSUME NEW l \in [Place -> Seq(Packet)], NEW k \in [Place -> Seq(Packet)],
         NEW c, NEW N \in Nat, Lined(l, c), Raw(l, N),
         NEW b \in Place, b[2] = "queue", NEW x \in Packet,
         x.from = b[3], x.nr = N + 1, x.part = 0, k = With(l, b, <<x>>)
  PROVE  Lined(k, c) /\ Raw(k, N + 1)
<1>3. \A u \in Place : /\ DOMAIN l[u] = 1 .. Len(l[u]) /\ Len(l[u]) \in Nat
                       /\ DOMAIN k[u] = 1 .. Len(k[u])
                       /\ \A i \in DOMAIN l[u] : l[u][i] \in Packet
  OBVIOUS
<1>4. \A u \in Place : \A i \in DOMAIN k[u] :
        \/ i \in DOMAIN l[u] /\ k[u][i] = l[u][i]
        \/ u = b /\ i = Len(l[b]) + 1 /\ k[u][i] = x
  <2>1. Gains(With(l, b, <<x>>), l, b, x)
    BY Added
  <2> QED
    BY <2>1 DEF Gains
<1>5. Rank(b) = 3 /\ Unhandled(b)
  BY Ranks DEF Unhandled
<1>6. Lined(k, c)
  <2> SUFFICES ASSUME NEW u \in Place, NEW v \in Place, SameLine(u, v),
                      NEW i \in DOMAIN k[u], NEW j \in DOMAIN k[v],
                      Ahead(u, i, v, j), k[u][i].from = k[v][j].from
               PROVE  Earlier(k[u][i], k[v][j].nr, Due(k, c, v, j))
    BY DEF Lined
  <2>1. i \in DOMAIN l[u] /\ k[u][i] = l[u][i]
    <3> SUFFICES ASSUME u = b, i = Len(l[b]) + 1
                 PROVE  FALSE
      BY <1>4
    <3>1. Rank(v) \in 0 .. 3
      BY Ranks
    <3>2. v = b /\ i < j
      BY <3>1, <1>5 DEF Ahead
    <3>3. j \in DOMAIN l[b] \/ j = Len(l[b]) + 1
      BY <3>2, <1>4
    <3> QED
      BY <3>2, <3>3, <1>3
  <2>2. CASE j \in DOMAIN l[v] /\ k[v][j] = l[v][j]
    <3>1. Earlier(l[u][i], l[v][j].nr, Due(l, c, v, j))
      BY <2>1, <2>2 DEF Lined
    <3>2. Due(k, c, v, j) = Due(l, c, v, j)
      BY <2>2 DEF Due
    <3> QED
      BY <2>1, <2>2, <3>1, <3>2
  <2>3. CASE v = b /\ k[v][j] = x
    <3>1. l[u][i].nr <= N /\ l[u][i].nr \in Nat
      <4>1. l[u][i] \in Packet
        BY <2>1, <1>3
      <4> QED
        BY <4>1, <2>1 DEF Raw, Packet
    <3> QED
      BY <2>1, <2>3, <3>1 DEF Earlier
  <2> QED
    BY <1>4, <2>2, <2>3
<1>7. Raw(k, N + 1)
  <2> SUFFICES ASSUME NEW u \in Place, NEW i \in DOMAIN k[u]
               PROVE  /\ k[u][i].nr <= N + 1
                      /\ Unhandled(u) => k[u][i].from = u[3] /\ k[u][i].part = 0
    BY DEF Raw
  <2>1. CASE i \in DOMAIN l[u] /\ k[u][i] = l[u][i]
    <3>1. l[u][i].nr <= N /\ l[u][i].nr \in Nat
      <4>1. l[u][i] \in Packet
        BY <2>1, <1>3
      <4> QED
        BY <4>1, <2>1 DEF Raw, Packet
    <3> QED
      BY <2>1, <3>1 DEF Raw
  <2>2. CASE u = b /\ k[u][i] = x
    BY <2>2
  <2> QED
    BY <1>4, <2>1, <2>2
<1> QED
  BY <1>6, <1>7

\* What is before a fragment is before the next.
LEMMA BeforeNext ==
  \A x, nr : \A part \in Nat :
    x.part \in Nat /\ Earlier(x, nr, part) => Earlier(x, nr, part + 1)
BY DEF Earlier

\* A fragment put behind those before it.
LEMMA PushOrdered ==
  ASSUME NEW l \in [Place -> Seq(Packet)], NEW k \in [Place -> Seq(Packet)],
         NEW c, NEW d, NEW N \in Nat, Lined(l, c), Raw(l, N), None \notin Cut,
         NEW w \in Worker, NEW a \in Place, NEW b \in Place,
         a[1] = w, a[2] = "received", a[3] = "lan",
         b[1] = w, b[2] = "out", b[3] = "wan",
         l[a] # <<>>, c[w] \in Cut, d[w] \in Cut, d[w].next = c[w].next + 1,
         \A v \in Worker \ {w} : d[v] = c[v],
         NEW x \in Packet, Same(x, [Head(l[a]) EXCEPT !.part = c[w].next]),
         k = With(l, b, <<x>>)
  PROVE  Lined(k, d) /\ Raw(k, N)
<1>3. \A u \in Place : /\ DOMAIN l[u] = 1 .. Len(l[u]) /\ Len(l[u]) \in Nat
                       /\ DOMAIN k[u] = 1 .. Len(k[u])
                       /\ \A i \in DOMAIN l[u] : l[u][i] \in Packet
  OBVIOUS
<1>4. \A u \in Place : \A i \in DOMAIN k[u] :
        \/ i \in DOMAIN l[u] /\ k[u][i] = l[u][i]
        \/ u = b /\ i = Len(l[b]) + 1 /\ k[u][i] = x
  <2>1. Gains(With(l, b, <<x>>), l, b, x)
    BY Added
  <2> QED
    BY <2>1 DEF Gains
<1>5. /\ Rank(a) = 2 /\ Rank(b) = 1 /\ ~Unhandled(b) /\ Unhandled(a)
      /\ a[1] = w /\ a[2] = "received" /\ a[3] = "lan"
      /\ b[1] = w /\ b[2] = "out" /\ b[3] = "wan"
  BY DEF Unhandled, Rank
<1>6. /\ 1 \in DOMAIN l[a] /\ Head(l[a]) = l[a][1] /\ l[a][1] \in Packet
      /\ l[a][1].from = "lan" /\ l[a][1].part = 0
  BY <1>5 DEF Raw
<1>7. /\ x.from = "lan" /\ x.nr = l[a][1].nr /\ x.part = c[w].next
      /\ x.nr \in Nat /\ c[w].next \in Nat
  <2>1. \A y \in Packet, n \in Nat :
          /\ [y EXCEPT !.part = n].from = y.from
          /\ [y EXCEPT !.part = n].nr = y.nr
          /\ [y EXCEPT !.part = n].part = n
    BY DEF Packet
  <2>2. c[w].next \in Nat /\ x.nr \in Nat
    BY DEF Cut, Packet
  <2> QED
    BY <2>1, <2>2, <1>6 DEF Same
<1>8. Due(l, c, a, 1) = c[w].next
  BY <1>5 DEF Due, InCut
<1>9. \A v \in Place : \A j \in DOMAIN l[v] :
        /\ v = a /\ j = 1 => Due(k, d, v, j) = c[w].next + 1
        /\ ~(v = a /\ j = 1) /\ k[v][j] = l[v][j] =>
             Due(k, d, v, j) = Due(l, c, v, j)
  <2> SUFFICES ASSUME NEW v \in Place, NEW j \in DOMAIN l[v]
               PROVE  /\ v = a /\ j = 1 => Due(k, d, v, j) = c[w].next + 1
                      /\ ~(v = a /\ j = 1) /\ k[v][j] = l[v][j] =>
                           Due(k, d, v, j) = Due(l, c, v, j)
    OBVIOUS
  <2>1. CASE v = a /\ j = 1
    BY <2>1, <1>5 DEF Due, InCut
  <2>2. CASE ~(v = a /\ j = 1)
    <3>1. CASE InCut(d, v, j) \/ InCut(c, v, j)
      <4>1. v[1] # w
        BY <2>2, <3>1, <1>5, Ranks DEF InCut
      <4>2. d[v[1]] = c[v[1]]
        BY <4>1, Ranks
      <4> QED
        BY <2>2, <4>2 DEF Due, InCut
    <3>2. CASE ~InCut(d, v, j) /\ ~InCut(c, v, j)
      BY <2>2, <3>2 DEF Due
    <3> QED
      BY <3>1, <3>2
  <2> QED
    BY <2>1, <2>2
<1>10. Lined(k, d)
  <2> SUFFICES ASSUME NEW u \in Place, NEW v \in Place, SameLine(u, v),
                      NEW i \in DOMAIN k[u], NEW j \in DOMAIN k[v],
                      Ahead(u, i, v, j), k[u][i].from = k[v][j].from
               PROVE  Earlier(k[u][i], k[v][j].nr, Due(k, d, v, j))
    BY DEF Lined
  <2>1. CASE i \in DOMAIN l[u] /\ k[u][i] = l[u][i]
    <3>1. CASE v = b /\ k[v][j] = x
      <4>1. SameLine(u, a) /\ Ahead(u, i, a, 1)
        <5>1. Rank(u) \in 0 .. 3
          BY Ranks
        <5>2. Rank(u) < 2
          BY <5>1, <3>1, <1>5 DEF Ahead
        <5> QED
          BY <5>2, <3>1, <1>5 DEF SameLine, Ahead
      <4>2. Earlier(l[u][i], l[a][1].nr, c[w].next)
        BY <4>1, <2>1, <3>1, <1>6, <1>7, <1>8 DEF Lined
      <4>3. Due(k, d, v, j) = x.part
        BY <3>1, <1>5 DEF Due, InCut
      <4> QED
        BY <4>2, <4>3, <2>1, <3>1, <1>7
    <3>2. CASE j \in DOMAIN l[v] /\ k[v][j] = l[v][j]
      <4>1. Earlier(l[u][i], l[v][j].nr, Due(l, c, v, j))
        BY <2>1, <3>2 DEF Lined
      <4>2. CASE v = a /\ j = 1
        <5>1. l[u][i] \in Packet /\ l[u][i].part \in Nat
          <6>1. l[u][i] \in Packet
            BY <2>1, <1>3
          <6> QED
            BY <6>1 DEF Packet
        <5>2. Due(l, c, v, j) = c[w].next /\ Due(k, d, v, j) = c[w].next + 1
          BY <4>2, <3>2, <1>8, <1>9
        <5>3. Earlier(l[u][i], l[v][j].nr, c[w].next + 1)
          <6>1. Earlier(l[u][i], l[v][j].nr, c[w].next)
            BY <5>2, <4>1
          <6>2. l[u][i].part \in Nat /\ c[w].next \in Nat
            BY <5>1, <1>7
          <6> QED
            BY <6>1, <6>2, BeforeNext
        <5> QED
          BY <5>2, <5>3, <2>1, <3>2
      <4>3. CASE ~(v = a /\ j = 1)
        BY <4>1, <4>3, <2>1, <3>2, <1>9
      <4> QED
        BY <4>2, <4>3
    <3> QED
      BY <1>4, <3>1, <3>2
  <2>2. CASE u = b /\ i = Len(l[b]) + 1 /\ k[u][i] = x
    <3>1. v # b
      <4> SUFFICES ASSUME v = b PROVE FALSE
        OBVIOUS
      <4>1. j \in DOMAIN l[b] \/ j = Len(l[b]) + 1
        BY <1>4
      <4>2. i < j
        BY <2>2, <1>5 DEF Ahead
      <4> QED
        BY <4>1, <4>2, <2>2, <1>3
    <3>2. j \in DOMAIN l[v] /\ k[v][j] = l[v][j]
      BY <3>1, <1>4
    <3>3. Unhandled(v) /\ v[1] = w /\ v[3] = "lan"
      <4>0. Rank(v) \in 0 .. 3 /\ Rank(v) > 1
        BY <2>2, <3>1, <1>5, Ranks DEF Ahead
      <4>1. Rank(v) \in 2 .. 3
        BY <4>0
      <4>2. Unhandled(v)
        BY <4>1, Ranks DEF Unhandled
      <4>3. v[1] = w
        BY <2>2, <1>5 DEF SameLine
      <4>4. l[v][j].from = "lan"
        BY <2>2, <3>2, <1>7
      <4>5. l[v][j].from = v[3]
        BY <4>2, <3>2 DEF Raw
      <4> QED
        BY <4>2, <4>3, <4>4, <4>5
    <3>4. CASE v = a /\ j = 1
      <4>1. Due(k, d, v, j) = c[w].next + 1
        BY <3>4, <3>2, <1>9
      <4>2. k[v][j].nr = x.nr /\ x.part < c[w].next + 1
        BY <3>4, <3>2, <1>7
      <4> QED
        BY <4>1, <4>2, <2>2 DEF Earlier
    <3>5. CASE ~(v = a /\ j = 1)
      <4>1. SameLine(a, v) /\ Ahead(a, 1, v, j)
        <5>1. v[2] = "received" => v = a
          BY <3>3, <1>5, Ranks
        <5>2. v[2] = "queue" => Rank(v) = 3
          BY Ranks
        <5>3. j \in Nat /\ j >= 1
          BY <3>2, <1>3
        <5>4. SameLine(a, v)
          BY <5>1, <3>3, <1>5 DEF SameLine, Unhandled
        <5>5. Ahead(a, 1, v, j)
          <6>1. CASE v = a
            BY <6>1, <5>3, <3>5 DEF Ahead
          <6>2. CASE v # a
            <7>1. v[2] = "queue"
              BY <6>2, <5>1, <3>3 DEF Unhandled
            <7>2. Rank(a) < Rank(v)
              BY <7>1, <5>2, <1>5
            <7> QED
              BY <7>2 DEF Ahead
          <6> QED
            BY <6>1, <6>2
        <5> QED
          BY <5>4, <5>5
      <4>2. Earlier(l[a][1], l[v][j].nr, Due(l, c, v, j))
        <5>1. l[a][1].from = l[v][j].from
          BY <2>2, <3>2, <1>6, <1>7
        <5>2. 1 \in DOMAIN l[a] /\ j \in DOMAIN l[v] /\ a \in Place
          BY <1>6, <3>2
        <5> QED
          BY <5>1, <5>2, <4>1 DEF Lined
      <4>3. Due(l, c, v, j) = 0
        <5>1. l[v][j].part = 0
          BY <3>2, <3>3 DEF Raw
        <5>2. ~InCut(c, v, j)
          BY <3>3, <3>5, <1>5, Ranks DEF InCut
        <5> QED
          BY <5>1, <5>2 DEF Due
      <4>4. l[a][1].nr < l[v][j].nr
        BY <4>2, <4>3, <1>6 DEF Earlier
      <4> QED
        BY <4>4, <2>2, <3>2, <1>7 DEF Earlier
    <3> QED
      BY <3>4, <3>5
  <2> QED
    BY <1>4, <2>1, <2>2
<1>11. Raw(k, N)
  <2> SUFFICES ASSUME NEW u \in Place, NEW i \in DOMAIN k[u]
               PROVE  /\ k[u][i].nr <= N
                      /\ Unhandled(u) => k[u][i].from = u[3] /\ k[u][i].part = 0
    BY DEF Raw
  <2>1. CASE i \in DOMAIN l[u] /\ k[u][i] = l[u][i]
    BY <2>1 DEF Raw
  <2>2. CASE u = b /\ k[u][i] = x
    BY <2>2, <1>5, <1>6, <1>7 DEF Raw
  <2> QED
    BY <1>4, <2>1, <2>2
<1> QED
  BY <1>10, <1>11

\* What passing packets on does to the two places.
LEMMA PassShifts ==
  ASSUME NEW S, NEW l \in [Place -> Seq(S)], NEW a \in Place, NEW b \in Place,
         a # b, NEW n \in 0 .. Len(l[b]), NEW s \in Seq(S), Len(s) = n,
         \A i \in 1 .. n : Same(s[i], l[b][i])
  PROVE  /\ With(Without(l, b, n), a, s) \in [Place -> Seq(S)]
         /\ Shifted(l, With(Without(l, b, n), a, s), a, b, n)
<1> DEFINE k == Without(l, b, n)
           t == With(k, a, s)
<1>1. /\ k \in [Place -> Seq(S)]
      /\ Len(k[b]) = Len(l[b]) - n
      /\ \A i \in 1 .. Len(l[b]) - n : k[b][i] = l[b][n + i]
      /\ \A d \in Place \ {b} : k[d] = l[d]
  <2>1. k \in [Place -> Seq(S)]
    BY Taken
  <2>2. Len(k[b]) = Len(l[b]) - n
    BY Taken
  <2>3. \A i \in 1 .. Len(l[b]) - n : k[b][i] = l[b][n + i]
    BY Taken
  <2>4. \A d \in Place \ {b} : k[d] = l[d]
    BY DEF Without
  <2> QED
    BY <2>1, <2>2, <2>3, <2>4
<1> HIDE DEF k
<1>2. /\ t \in [Place -> Seq(S)]
      /\ \A d \in Place \ {a} : t[d] = k[d]
      /\ Len(t[a]) = Len(k[a]) + Len(s)
      /\ \A i \in 1 .. Len(k[a]) : t[a][i] = k[a][i]
      /\ \A i \in 1 .. Len(s) : t[a][Len(k[a]) + i] = s[i]
  <2>1. k \in [Place -> Seq(S)]
    BY <1>1
  <2>2. t \in [Place -> Seq(S)] /\ Extended(k, t, a, s)
    BY <2>1, Extends
  <2> HIDE DEF t
  <2> QED
    BY <2>2 DEF Extended
<1> HIDE DEF t
<1>3. k[a] = l[a] /\ t[b] = k[b]
  BY <1>1, <1>2
<1>4. \A d \in (Place \ {a}) \ {b} : t[d] = l[d]
  BY <1>1, <1>2
<1>5. \A i \in 1 .. n : Same(t[a][Len(l[a]) + i], l[b][i])
  BY <1>2, <1>3
<1>6. Shifted(l, t, a, b, n)
  BY <1>1, <1>2, <1>3, <1>4, <1>5 DEF Shifted
<1> QED
  BY <1>2, <1>6 DEF k, t

\* Packets passed on to the next place, as they are or replaced.
LEMMA PassOrdered ==
  ASSUME PacketsInv, Ordered, NEW a \in Place, NEW b \in Place,
         a[1] = b[1], cut[a[1]] = None,
         Rank(b) = Rank(a) + 1, a[2] # "out" => a[3] = b[3],
         NEW n \in 0 .. Len(list[b]), NEW s \in Seq(Packet), Len(s) = n,
         \A i \in 1 .. n : Same(s[i], list[b][i]),
         list' = With(Without(list, b, n), a, s), UNCHANGED <<cut, arrivals>>
  PROVE  Ordered'
<1> DEFINE t == With(Without(list, b, n), a, s)
<1>1. list \in [Place -> Seq(Packet)] /\ a # b /\ arrivals \in Nat
  BY Ranks DEF PacketsInv, PacketsTypeOK
<1>2. t \in [Place -> Seq(Packet)] /\ Shifted(list, t, a, b, n)
  BY <1>1, PassShifts
<1>3. list' = t
  OBVIOUS
<1> HIDE DEF t
<1>4. Lined(t, cut) /\ Raw(t, arrivals)
  BY <1>1, <1>2, MoveOrdered DEF Ordered
<1> QED
  BY <1>3, <1>4 DEF Ordered

\* A packet at the head of a place freed.
LEMMA HeadGoneOrdered ==
  ASSUME PacketsInv, Ordered, NEW a \in Place, list[a] # <<>>,
         list' = Without(list, a, 1), arrivals' = arrivals,
         a[2] = "received" => cut'[a[1]] = None,
         \A v \in Worker : \/ cut'[v] = cut[v]
                           \/ /\ cut'[v] = None /\ v = a[1]
                              /\ a[2] = "received" /\ a[3] = "lan"
  PROVE  Ordered'
<1> DEFINE k == Without(list, a, 1)
           m == [u \in Place |-> IF u = a THEN 1 ELSE 0]
<1>1. /\ list \in [Place -> Seq(Packet)] /\ 1 \in 0 .. Len(list[a])
      /\ Len(list[a]) \in Nat
  BY HeadTaken DEF PacketsInv, PacketsTypeOK
<1>2. /\ k \in [Place -> Seq(Packet)]
      /\ Len(k[a]) = Len(list[a]) - 1
      /\ \A i \in 1 .. Len(list[a]) - 1 : k[a][i] = list[a][1 + i]
      /\ \A d \in Place \ {a} : k[d] = list[d]
  <2>1. k \in [Place -> Seq(Packet)]
    BY <1>1, Taken
  <2>2. Len(k[a]) = Len(list[a]) - 1
    BY <1>1, Taken
  <2>3. \A i \in 1 .. Len(list[a]) - 1 : k[a][i] = list[a][1 + i]
    BY <1>1, Taken
  <2>4. \A d \in Place \ {a} : k[d] = list[d]
    BY DEF Without
  <2> QED
    BY <2>1, <2>2, <2>3, <2>4
<1>3. m \in [Place -> Nat] /\ m[a] = 1 /\ \A u \in Place \ {a} : m[u] = 0
  OBVIOUS
<1>4. list' = k
  OBVIOUS
<1> HIDE DEF k, m
<1>5. ASSUME NEW u \in Place, NEW i \in DOMAIN k[u]
      PROVE  /\ i + m[u] \in DOMAIN list[u] /\ k[u][i] = list[u][i + m[u]]
             /\ Due(k, cut', u, i) = Due(list, cut, u, i + m[u])
  <2>1. i \in Nat /\ i > 0
    BY <1>2
  <2>2. CASE u = a
    <3>1. i \in 1 .. Len(list[a]) - 1
      BY <2>2, <1>2
    <3>2. i + 1 \in DOMAIN list[a] /\ k[a][i] = list[a][i + 1]
      <4>1. i + 1 = 1 + i /\ i + 1 \in 1 .. Len(list[a])
        BY <3>1, <1>1
      <4> QED
        BY <4>1, <3>1, <1>1, <1>2
    <3>3. ~InCut(cut', a, i) /\ ~InCut(cut, a, i + 1)
      BY <2>1 DEF InCut
    <3> QED
      BY <2>2, <3>2, <3>3, <1>3 DEF Due
  <2>3. CASE u # a
    <3>1. k[u] = list[u] /\ m[u] = 0 /\ i + m[u] = i
      BY <2>1, <2>3, <1>2, <1>3
    <3>2. u[2] = "received" /\ u[3] = "lan" => cut'[u[1]] = cut[u[1]]
      BY <2>3, Ranks
    <3>3. Due(k, cut', u, i) = Due(list, cut, u, i)
      BY <3>1, <3>2 DEF Due, InCut
    <3> QED
      BY <3>1, <3>3, <1>2
  <2> QED
    BY <2>2, <2>3
<1>6. Shrunk(list, cut, k, cut', m)
  BY <1>5 DEF Shrunk
<1>7. Lined(k, cut') /\ Raw(k, arrivals)
  BY <1>1, <1>2, <1>3, <1>6, ShrinkOrdered DEF Ordered
<1> QED
  BY <1>4, <1>7 DEF Ordered

\* Whole places emptied.
LEMMA EmptiedOrdered ==
  ASSUME PacketsTypeOK, Ordered, NEW P, list' = Emptied(list, P),
         arrivals' = arrivals,
         \A u \in Place \ P :
           u[2] = "received" /\ u[3] = "lan" => cut'[u[1]] = cut[u[1]]
  PROVE  Ordered'
<1> DEFINE m == [u \in Place |-> 0]
<1>1. list \in [Place -> Seq(Packet)] /\ list' \in [Place -> Seq(Packet)]
  BY Freed DEF PacketsTypeOK
<1>2. m \in [Place -> Nat] /\ \A u \in Place : m[u] = 0
  OBVIOUS
<1> HIDE DEF m
<1>3. ASSUME NEW u \in Place, NEW i \in DOMAIN list'[u]
      PROVE  /\ i + m[u] \in DOMAIN list[u] /\ list'[u][i] = list[u][i + m[u]]
             /\ Due(list', cut', u, i) = Due(list, cut, u, i + m[u])
  <2>1. u \notin P /\ list'[u] = list[u]
    BY DEF Emptied
  <2>2. i \in Nat
    BY <1>1
  <2>3. i + m[u] = i
    BY <2>2, <1>2
  <2>4. Due(list', cut', u, i) = Due(list, cut, u, i)
    BY <2>1 DEF Due, InCut
  <2> QED
    BY <2>1, <2>3, <2>4
<1>4. Shrunk(list, cut, list', cut', m)
  BY <1>3 DEF Shrunk
<1>5. Lined(list', cut') /\ Raw(list', arrivals)
  BY <1>1, <1>2, <1>4, ShrinkOrdered DEF Ordered
<1> QED
  BY <1>5 DEF Ordered

\* Packets passed on as they are.
LEMMA PassedOrdered ==
  ASSUME PacketsInv, Ordered, NEW a \in Place, NEW b \in Place,
         a[1] = b[1], cut[a[1]] = None,
         Rank(b) = Rank(a) + 1, a[2] # "out" => a[3] = b[3],
         NEW n \in 0 .. Len(list[b]), list' = Passed(list, b, a, n),
         UNCHANGED <<cut, arrivals>>
  PROVE  Ordered'
<1> DEFINE s == First(list[b], n)
<1>1. list \in [Place -> Seq(Packet)]
  BY DEF PacketsInv, PacketsTypeOK
<1>2. s \in Seq(Packet) /\ Len(s) = n /\ \A i \in 1 .. n : s[i] = list[b][i]
  <2>1. s \in Seq(Packet)
    BY <1>1, Taken
  <2>2. Len(s) = n
    BY <1>1, Taken
  <2>3. \A i \in 1 .. n : s[i] = list[b][i]
    BY <1>1, Taken
  <2> QED
    BY <2>1, <2>2, <2>3
<1>3. list' = With(Without(list, b, n), a, s)
  BY DEF Passed
<1> HIDE DEF s
<1>4. \A i \in 1 .. n : Same(s[i], list[b][i])
  BY <1>2 DEF Same
<1> QED
  BY <1>2, <1>3, <1>4, PassOrdered

\* A burst received.
LEMMA ReceiveBurstOrdered ==
  ASSUME PacketsInv, Ordered, NEW w \in Worker, NEW p \in Port,
         NEW n \in 0 .. Len(list[<<w, "queue", p>>]), ReceiveBurst(w, p, n)
  PROVE  Ordered'
<1> DEFINE b == <<w, "queue", p>>
           a == <<w, "received", p>>
<1>1. /\ a \in Place /\ b \in Place /\ a[1] = w /\ b[1] = w
      /\ Rank(b) = Rank(a) + 1 /\ a[3] = b[3]
  BY DEF Place, Rank
<1>2. /\ list' = Passed(list, b, a, n) /\ n \in 0 .. Len(list[b])
      /\ UNCHANGED <<cut, arrivals>>
  BY DEF ReceiveBurst
<1> HIDE DEF a, b
<1>3. cut[w] = None
  <2>1. ReceiveAt[p] # "lanLoop"
    BY DEF ReceiveAt, Port
  <2> QED
    BY <2>1 DEF PacketsInv, Cutting, ReceiveBurst
<1> QED
  BY <1>1, <1>2, <1>3, PassedOrdered

\* What the port takes of the packets it is offered.
LEMMA TransmitOrdered ==
  ASSUME PacketsInv, Ordered, NEW w \in Worker, NEW p \in Port,
         NEW n \in 0 .. Len(list[<<w, "out", p>>]), Transmit(w, p, n)
  PROVE  Ordered'
<1> DEFINE b == <<w, "out", p>>
           a == <<w, "ring", p>>
<1>1. /\ a \in Place /\ b \in Place /\ a[1] = w /\ b[1] = w
      /\ Rank(b) = Rank(a) + 1 /\ a[3] = b[3]
  BY DEF Place, Rank
<1>2. /\ list' = Passed(list, b, a, n) /\ n \in 0 .. Len(list[b])
      /\ UNCHANGED <<cut, arrivals>>
  BY DEF Transmit, Unsent, Passed, Without, With
<1> HIDE DEF a, b
<1>3. cut[w] = None
  BY DEF PacketsInv, Cutting, Transmit, Transmits, Port
<1> QED
  BY <1>1, <1>2, <1>3, PassedOrdered

\* The packet in hand passed to a list.
LEMMA HandPassedOrdered ==
  ASSUME PacketsInv, Ordered, NEW w \in Worker, NEW p \in Port, NEW q \in Port,
         InHand(w, p),
         list' = Passed(list, <<w, "received", p>>, <<w, "out", q>>, 1),
         UNCHANGED <<cut, arrivals>>
  PROVE  Ordered'
<1> DEFINE b == <<w, "received", p>>
           a == <<w, "out", q>>
<1>1. /\ a \in Place /\ b \in Place /\ a[1] = w /\ b[1] = w
      /\ Rank(b) = Rank(a) + 1 /\ a[2] = "out"
  BY DEF Place, Rank
<1>2. list' = Passed(list, b, a, 1) /\ list[b] # <<>> /\ cut[w] = None
  BY DEF InHand
<1> HIDE DEF a, b
<1>3. 1 \in 0 .. Len(list[b])
  BY <1>1, <1>2, HeadTaken DEF PacketsInv, PacketsTypeOK
<1> QED
  BY <1>1, <1>2, <1>3, PassedOrdered

\* The packet in hand replaced by one of its number.
LEMMA ReplacesOrdered ==
  ASSUME PacketsInv, Ordered, NEW w \in Worker, NEW to \in Port,
         NEW made \in Packet, InHand(w, "wan"), Replaces(w, made, to),
         Same(made, [Hand(w, "wan") EXCEPT !.part = 0])
  PROVE  Ordered'
<1> DEFINE b == <<w, "received", "wan">>
           a == <<w, "out", to>>
           s == <<made>>
<1>1. /\ a \in Place /\ b \in Place /\ a[1] = w /\ b[1] = w
      /\ Rank(b) = Rank(a) + 1 /\ a[2] = "out" /\ b[2] = "received"
  BY Places DEF Place, Rank
<1>2. /\ list' = With(Without(list, b, 1), a, s)
      /\ list[b] # <<>> /\ cut[w] = None /\ UNCHANGED <<cut, arrivals>>
      /\ Hand(w, "wan") = Head(list[b])
  BY DEF InHand, Replaces, Hand
<1>3. s \in Seq(Packet) /\ Len(s) = 1 /\ s[1] = made
  OBVIOUS
<1> HIDE DEF a, b, s
<1>4. /\ 1 \in 0 .. Len(list[b]) /\ 1 \in DOMAIN list[b]
      /\ Head(list[b]) = list[b][1] /\ list[b][1] \in Packet
  <2>1. list[b] \in Seq(Packet)
    BY <1>1 DEF PacketsInv, PacketsTypeOK
  <2> QED
    BY <2>1, <1>2, HeadTaken
<1>5. list[b][1].part = 0
  BY <1>1, <1>4 DEF Ordered, Raw, Unhandled
<1>6. [list[b][1] EXCEPT !.part = 0] = list[b][1]
  BY <1>4, <1>5 DEF Packet
<1>7. \A i \in 1 .. 1 : Same(s[i], list[b][i])
  BY <1>2, <1>3, <1>4, <1>6
<1> QED
  BY <1>1, <1>2, <1>3, <1>4, <1>7, PassOrdered

\* What is made of the packet in hand has its number.
LEMMA MadeSame ==
  ASSUME NEW w, NEW p, Hand(w, p) \in Packet, NEW mbuf, NEW part
  PROVE  Same(Made(w, p, mbuf, part), [Hand(w, p) EXCEPT !.part = part])
BY DEF Made, Same, Packet

\* A frame whose first fragment is next.
LEMMA StartFragmentsOrdered ==
  ASSUME PacketsInv, Ordered, NEW w \in Worker, NEW f \in LanFrame,
         StartFragments(w, f)
  PROVE  Ordered'
<1> DEFINE c == [frame |-> Inner(f).length, mtu |-> f.mtu, next |-> 1]
<1>1. /\ cut' = [cut EXCEPT ![w] = c] /\ c.next = 1 /\ cut[w] = None
      /\ UNCHANGED <<list, arrivals>>
  BY DEF StartFragments, InHand
<1> HIDE DEF c
<1>2. cut'[w] = c /\ \A v \in Worker \ {w} : cut'[v] = cut[v]
  BY <1>1 DEF PacketsInv, PacketsTypeOK
<1>3. \A u \in Place : \A i \in DOMAIN list[u] :
        list[u][i] \in Packet /\ list[u][i].part \in Nat
  <2>1. \A u \in Place : \A i \in DOMAIN list[u] : list[u][i] \in Packet
    BY DEF PacketsInv, PacketsTypeOK
  <2> QED
    BY <2>1 DEF Packet
<1>4. ASSUME NEW v \in Place, NEW j \in DOMAIN list[v],
             NEW x \in Packet, NEW nr, Earlier(x, nr, Due(list, cut, v, j))
      PROVE  Earlier(x, nr, Due(list, cut', v, j))
  <2>1. v[1] \in Worker
    BY Ranks
  <2>2. CASE v[1] = w /\ InCut(cut', v, j)
    <3>1. Due(list, cut, v, j) = 0 /\ Due(list, cut', v, j) = 1
      <4>1. Due(list, cut', v, j) = 1
        BY <2>2, <1>1, <1>2 DEF Due
      <4>2. list[v][j].part = 0
        BY <2>2 DEF InCut, Ordered, Raw, Unhandled
      <4>3. ~InCut(cut, v, j)
        BY <2>2, <1>1 DEF InCut
      <4> QED
        BY <4>1, <4>2, <4>3 DEF Due
    <3>2. x.part \in Nat
      BY DEF Packet
    <3> QED
      BY <3>1, <3>2, <1>4 DEF Earlier
  <2>3. CASE v[1] # w
    <3>1. cut'[v[1]] = cut[v[1]]
      BY <2>1, <2>3, <1>2
    <3> QED
      BY <3>1, <1>4 DEF Due, InCut
  <2>4. CASE v[1] = w /\ ~InCut(cut', v, j)
    <3>1. ~InCut(cut, v, j)
      BY <2>4, <1>1 DEF InCut
    <3> QED
      BY <3>1, <2>4, <1>4 DEF Due
  <2> QED
    BY <2>2, <2>3, <2>4
<1>5. Lined(list, cut')
  BY <1>3, <1>4 DEF Ordered, Lined
<1> QED
  BY <1>1, <1>5 DEF Ordered

\* A fragment pushed.
LEMMA PushFragmentOrdered ==
  ASSUME PacketsInv, Ordered, NEW w \in Worker, PushFragment(w)
  PROVE  Ordered'
<1> DEFINE a == <<w, "received", "lan">>
           b == <<w, "out", "wan">>
           x == Made(w, "lan", FirstFree[free], cut[w].next)
<1>1. /\ a \in Place /\ a[1] = w /\ a[2] = "received" /\ a[3] = "lan"
      /\ b \in Place /\ b[1] = w /\ b[2] = "out" /\ b[3] = "wan"
  BY Places
<1>2. /\ cut[w] # None /\ list[a] # <<>> /\ list[a] \in Seq(Packet)
      /\ list' = With(list, b, <<x>>) /\ Hand(w, "lan") = Head(list[a])
      /\ cut' = [cut EXCEPT ![w] = NextFragment(cut[w])]
      /\ arrivals' = arrivals
  BY <1>1 DEF PushFragment, Hand, PacketsInv, PacketsTypeOK, Cutting
<1>3. x \in Packet /\ Same(x, [Head(list[a]) EXCEPT !.part = cut[w].next])
  <2>1. Hand(w, "lan") \in Packet
    BY <1>2, HeadTaken
  <2>2. FirstFree[free] \in Mbuf
    BY FreeMbuf DEF PushFragment, PacketsInv
  <2>3. cut[w].next \in Nat
    BY <1>2 DEF PacketsInv, PacketsTypeOK, Cut
  <2>4. x \in Packet
    BY <2>1, <2>2, <2>3, MadeOf
  <2>5. Same(x, [Hand(w, "lan") EXCEPT !.part = cut[w].next])
    BY <2>1, MadeSame
  <2> QED
    BY <2>4, <2>5, <1>2
<1> HIDE DEF a, b, x
<1>4. /\ list \in [Place -> Seq(Packet)] /\ list' \in [Place -> Seq(Packet)]
      /\ arrivals \in Nat /\ cut[w] \in Cut /\ cut'[w] \in Cut
      /\ \A v \in Worker \ {w} : cut'[v] = cut[v]
  <2>1. PacketsTypeOK'
    BY PushFragmentKeeps DEF PacketsInv
  <2>2. cut[w] \in Cut
    BY <1>2 DEF PacketsInv, PacketsTypeOK
  <2>3. NextFragment(cut[w]) \in Cut
    BY <2>2 DEF Cut, NextFragment
  <2>4. /\ cut'[w] = NextFragment(cut[w])
        /\ \A v \in Worker \ {w} : cut'[v] = cut[v]
    BY <1>2 DEF PacketsInv, PacketsTypeOK
  <2> QED
    BY <2>1, <2>2, <2>3, <2>4, <1>2 DEF PacketsInv, PacketsTypeOK
<1>5. cut'[w].next = cut[w].next + 1
  <2>1. cut'[w] = NextFragment(cut[w])
    BY <1>2 DEF PacketsInv, PacketsTypeOK
  <2> QED
    BY <2>1, <1>4 DEF NextFragment, Cut
<1>6. None \notin Cut
  BY ForwardingAssumption DEF Cut
<1>7. Lined(list', cut') /\ Raw(list', arrivals)
  BY <1>1, <1>2, <1>3, <1>4, <1>5, <1>6, PushOrdered DEF Ordered
<1> QED
  BY <1>2, <1>7 DEF Ordered

\* The frame that was cut freed.
LEMMA EndFragmentsOrdered ==
  ASSUME PacketsInv, Ordered, NEW w \in Worker, EndFragments(w)
  PROVE  Ordered'
<1> DEFINE a == <<w, "received", "lan">>
<1>1. a \in Place /\ a[1] = w /\ a[2] = "received" /\ a[3] = "lan"
  BY Places
<1>2. /\ list[a] # <<>> /\ list' = Without(list, a, 1)
      /\ cut' = [cut EXCEPT ![w] = None] /\ arrivals' = arrivals
  BY DEF EndFragments, PacketsInv, Cutting
<1> HIDE DEF a
<1>3. cut'[w] = None /\ \A v \in Worker \ {w} : cut'[v] = cut[v]
  BY <1>2 DEF PacketsInv, PacketsTypeOK
<1> QED
  BY <1>1, <1>2, <1>3, HeadGoneOrdered

\* A packet dropped.
LEMMA DiscardOrdered ==
  ASSUME PacketsInv, Ordered, NEW w \in Worker, NEW p \in Port, Discard(w, p)
  PROVE  Ordered'
<1> DEFINE a == <<w, "received", p>>
<1>1. a \in Place /\ a[1] = w
  BY Places
<1>2. /\ list[a] # <<>> /\ list' = Without(list, a, 1)
      /\ UNCHANGED <<cut, arrivals>> /\ cut[w] = None
  BY DEF Discard, InHand
<1> HIDE DEF a
<1> QED
  BY <1>1, <1>2, HeadGoneOrdered

\* A packet sent.
LEMMA TxDoneOrdered ==
  ASSUME PacketsInv, Ordered, NEW w \in Worker, NEW p \in Port, TxDone(w, p)
  PROVE  Ordered'
<1> DEFINE a == <<w, "ring", p>>
<1>1. a \in Place /\ a[2] = "ring"
  BY Places
<1>2. /\ list[a] # <<>> /\ list' = Without(list, a, 1)
      /\ UNCHANGED <<cut, arrivals>>
  BY DEF TxDone
<1> HIDE DEF a
<1> QED
  BY <1>1, <1>2, HeadGoneOrdered

\* A packet received by a port.
LEMMA ArrivalOrdered ==
  ASSUME PacketsInv, Ordered, NEW w \in Worker, NEW p \in Port, Arrive(w, p)
  PROVE  Ordered'
<1> DEFINE b == <<w, "queue", p>>
           x == [mbuf |-> FirstFree[free], from |-> p, nr |-> arrivals + 1,
                 part |-> 0, answer |-> None]
<1>1. b \in Place /\ b[2] = "queue" /\ b[3] = p
  BY Places
<1>2. /\ list \in [Place -> Seq(Packet)] /\ arrivals \in Nat
      /\ FirstFree[free] \in Mbuf
  BY FreeMbuf DEF Arrive, PacketsInv, PacketsTypeOK
<1>3. x \in Packet /\ x.from = p /\ x.nr = arrivals + 1 /\ x.part = 0
  BY <1>2 DEF Packet, Answers
<1>4. /\ list' = With(list, b, <<x>>) /\ arrivals' = arrivals + 1
      /\ cut' = cut
  BY DEF Arrive
<1> HIDE DEF b, x
<1>5. list' \in [Place -> Seq(Packet)]
  BY ArriveKeeps DEF PacketsInv, PacketsTypeOK
<1>6. Lined(list', cut) /\ Raw(list', arrivals + 1)
  BY <1>1, <1>2, <1>3, <1>4, <1>5, ArriveOrdered DEF Ordered
<1> QED
  BY <1>4, <1>6 DEF Ordered

\* What is made of a packet from the WAN takes its place in the order.
LEMMA MadeOrdered ==
  ASSUME PacketsInv, Ordered, NEW w \in Worker, NEW to \in Port,
         NEW made \in Packet, InHand(w, "wan"), free # {},
         Same(made, Made(w, "wan", FirstFree[free], 0)), Replaces(w, made, to)
  PROVE  Ordered'
<1>1. list[<<w, "received", "wan">>] \in Seq(Packet)
  BY Places DEF PacketsInv, PacketsTypeOK
<1>2. Hand(w, "wan") \in Packet
  BY <1>1, HeadTaken DEF Hand, InHand
<1>3. Same(Made(w, "wan", FirstFree[free], 0),
           [Hand(w, "wan") EXCEPT !.part = 0])
  BY <1>2, MadeSame
<1>4. Same(made, [Hand(w, "wan") EXCEPT !.part = 0])
  BY <1>3 DEF Same
<1> QED
  BY <1>4, ReplacesOrdered

\* A reassembled frame sent.
LEMMA ForwardReassembledOrdered ==
  ASSUME PacketsInv, Ordered, NEW w \in Worker, NEW f \in WanFrame,
         ForwardReassembled(w, f)
  PROVE  Ordered'
<1> DEFINE x == Made(w, "wan", FirstFree[free], 0)
<1>1. InHand(w, "wan") /\ free # {} /\ Replaces(w, x, "lan")
  BY DEF ForwardReassembled
<1>2. x \in Packet /\ Same(x, x)
  BY <1>1, MadeFromHand DEF Same
<1> QED
  BY <1>1, <1>2, Places, MadeOrdered

\* A solicitation answered.
LEMMA AnswerOrdered ==
  ASSUME PacketsInv, Ordered, NEW w \in Worker, NEW m \in Solicited,
         Answer(w, m)
  PROVE  Ordered'
<1> DEFINE x == Made(w, "wan", FirstFree[free], 0)
           r == [to |-> m, reply |-> NdpAdvertisement(m)]
           y == [x EXCEPT !.answer = r]
<1>1. InHand(w, "wan") /\ free # {} /\ Replaces(w, y, "wan")
  BY DEF Answer
<1>2. x \in Packet
  BY <1>1, MadeFromHand
<1>3. r \in Answers
  BY DEF Answer, Answers, Answered
<1>4. y \in Packet /\ Same(y, x)
  <2> HIDE DEF x, r
  <2> QED
    BY <1>2, <1>3 DEF Packet, Same
<1> HIDE DEF y
<1> QED
  BY <1>1, <1>4, Places, MadeOrdered

\* A worker that fails.
LEMMA FailOrdered ==
  ASSUME PacketsInv, Ordered, NEW w \in Worker, Fail(w)
  PROVE  Ordered'
<1>1. /\ list' = Emptied(list, Owned(w)) /\ cut' = [cut EXCEPT ![w] = None]
      /\ arrivals' = arrivals /\ PacketsTypeOK
  BY DEF Fail, PacketsInv
<1>2. \A v \in Worker \ {w} : cut'[v] = cut[v]
  BY <1>1 DEF PacketsTypeOK
<1>3. ASSUME NEW u \in Place \ Owned(w), u[2] = "received", u[3] = "lan"
      PROVE  cut'[u[1]] = cut[u[1]]
  <2>1. u[1] # w
    BY <1>3 DEF Owned, Place
  <2>2. u[1] \in Worker
    BY Ranks
  <2> QED
    BY <2>1, <2>2, <1>2
<1> QED
  BY <1>1, <1>3, EmptiedOrdered

\* Every step of a worker keeps the order.
LEMMA WorkOrdered ==
  ASSUME PacketsInv, Ordered, NEW w \in Worker, Work(w)
  PROVE  Ordered'
<1>1. CASE \E p \in Port : \E n \in 0 .. Len(list[<<w, "queue", p>>]) :
             ReceiveBurst(w, p, n)
  BY <1>1, ReceiveBurstOrdered
<1>2. CASE \E p \in Port : Discard(w, p)
  BY <1>2, DiscardOrdered
<1>3. CASE \E p \in Port : \E n \in 0 .. Len(list[<<w, "out", p>>]) :
             Transmit(w, p, n)
  BY <1>3, TransmitOrdered
<1>4. CASE \E f \in LanFrame : SendWhole(w, f)
  BY <1>4, Places, HandPassedOrdered DEF SendWhole
<1>5. CASE \E f \in LanFrame : StartFragments(w, f)
  BY <1>5, StartFragmentsOrdered
<1>6. CASE PushFragment(w) \/ EndFragments(w)
  BY <1>6, PushFragmentOrdered, EndFragmentsOrdered
<1>7. CASE \E f \in WanFrame : ForwardWhole(w, f)
  BY <1>7, Places, HandPassedOrdered DEF ForwardWhole
<1>8. CASE \E f \in WanFrame : ForwardReassembled(w, f)
  BY <1>8, ForwardReassembledOrdered
<1>9. CASE \E m \in Solicited : Answer(w, m)
  BY <1>9, AnswerOrdered
<1>10. CASE Fail(w)
  BY <1>10, FailOrdered
<1> QED
  BY <1>1, <1>2, <1>3, <1>4, <1>5, <1>6, <1>7, <1>8, <1>9, <1>10 DEF Work

\* Where the items of two sequences put together come from.
LEMMA Joined ==
  ASSUME NEW S, NEW x \in Seq(S), NEW y \in Seq(S), NEW i \in DOMAIN (x \o y)
  PROVE  /\ i \in Nat /\ Len(x) \in Nat
         /\ i <= Len(x) => i \in DOMAIN x /\ (x \o y)[i] = x[i]
         /\ ~(i <= Len(x)) => /\ i - Len(x) \in DOMAIN y
                             /\ (x \o y)[i] = y[i - Len(x)]
<1>1. /\ Len(x) \in Nat /\ Len(y) \in Nat /\ i \in 1 .. Len(x) + Len(y)
      /\ DOMAIN x = 1 .. Len(x) /\ DOMAIN y = 1 .. Len(y)
  OBVIOUS
<1>2. i <= Len(x) => i \in DOMAIN x /\ (x \o y)[i] = x[i]
  BY <1>1
<1>3. ~(i <= Len(x)) => /\ i - Len(x) \in DOMAIN y
                        /\ (x \o y)[i] = y[i - Len(x)]
  BY <1>1
<1> QED
  BY <1>1, <1>2, <1>3

\* What a worker has handed to a port and still holds for it is in order.
LEMMA OrderedInOrder ==
  ASSUME PacketsTypeOK, Ordered
  PROVE  InOrder
<1> SUFFICES ASSUME NEW w \in Worker, NEW p \in Port
             PROVE  LET s == list[<<w, "ring", p>>] \o list[<<w, "out", p>>]
                    IN  \A i, j \in DOMAIN s :
                          i < j /\ s[i].from = s[j].from => Before(s[i], s[j])
  BY DEF InOrder
<1> DEFINE a == <<w, "ring", p>>
           b == <<w, "out", p>>
           x == list[a]
           y == list[b]
           s == x \o y
           At(i) == IF i <= Len(x) THEN a ELSE b
           Nr(i) == IF i <= Len(x) THEN i ELSE i - Len(x)
<1>1. /\ a \in Place /\ b \in Place /\ Rank(a) = 0 /\ Rank(b) = 1 /\ a # b
      /\ SameLine(a, a) /\ SameLine(b, b) /\ SameLine(a, b)
      /\ a[2] # "received" /\ b[2] # "received"
  BY DEF Place, Rank, SameLine
<1>2. x \in Seq(Packet) /\ y \in Seq(Packet)
  BY <1>1 DEF PacketsTypeOK
<1> HIDE DEF a, b
<1>3. ASSUME NEW i \in DOMAIN s
      PROVE  /\ Nr(i) \in DOMAIN list[At(i)] /\ s[i] = list[At(i)][Nr(i)]
             /\ At(i) \in {a, b} /\ i \in Nat
  <2>1. /\ i \in Nat
        /\ i <= Len(x) => i \in DOMAIN x /\ s[i] = x[i]
        /\ ~(i <= Len(x)) => i - Len(x) \in DOMAIN y /\ s[i] = y[i - Len(x)]
    <3> HIDE DEF x, y
    <3> QED
      BY <1>2, Joined
  <2> HIDE DEF s
  <2> QED
    BY <2>1
<1>4. Len(x) \in Nat
  BY <1>2
<1>5. ASSUME NEW i \in DOMAIN s, NEW j \in DOMAIN s, i < j
      PROVE  /\ Ahead(At(i), Nr(i), At(j), Nr(j)) /\ SameLine(At(i), At(j))
             /\ At(i) \in Place /\ At(j) \in Place /\ At(j)[2] # "received"
  BY <1>1, <1>3, <1>4, <1>5 DEF Ahead
<1>6. ASSUME NEW i \in DOMAIN s, NEW j \in DOMAIN s, i < j,
             s[i].from = s[j].from
      PROVE  Before(s[i], s[j])
  <2> DEFINE u == At(i)
             v == At(j)
             n == Nr(i)
             m == Nr(j)
  <2>1. /\ u \in Place /\ v \in Place /\ SameLine(u, v) /\ Ahead(u, n, v, m)
        /\ v[2] # "received"
        /\ n \in DOMAIN list[u] /\ m \in DOMAIN list[v]
        /\ s[i] = list[u][n] /\ s[j] = list[v][m]
    BY <1>3, <1>5, <1>6
  <2> HIDE DEF u, v, n, m, s
  <2>2. Earlier(list[u][n], list[v][m].nr, Due(list, cut, v, m))
    BY <2>1, <1>6 DEF Ordered, Lined
  <2>3. Due(list, cut, v, m) = list[v][m].part
    BY <2>1 DEF Due, InCut
  <2> QED
    BY <2>1, <2>2, <2>3 DEF Earlier, Before
<1> QED
  BY <1>6 DEF a, b

=============================================================================
