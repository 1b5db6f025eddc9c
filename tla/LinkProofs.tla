----------------------------- MODULE LinkProofs -----------------------------
(***************************************************************************)
(* Proofs about one direction of a tunnel: for every set of frames, every  *)
(* path MTU and every behaviour of the network, fragments of two frames    *)
(* are merged only if the sender's identifications began again.            *)
(***************************************************************************)
EXTENDS Link, FragmentationProofs, SequenceTheorems, FiniteSetTheorems

-----------------------------------------------------------------------------
(* The far endpoint's table, as far as this argument needs its types.      *)

Entries == [idle : Nat, total : Nat \cup {None}, fragments : Seq(R!Fragment)]

\* A sorted list has the elements of the list it was made of.
LEMMA SortKeepsElements ==
  ASSUME NEW s \in Seq(R!Fragment), NEW t \in R!Sort(s)
  PROVE  /\ t \in Seq(R!Fragment) /\ Len(t) = Len(s)
         /\ \A i \in DOMAIN t : \E j \in DOMAIN s : t[i] = s[j]
         /\ \A j \in DOMAIN s : \E i \in DOMAIN t : t[i] = s[j]
<1>1. DOMAIN s = 1 .. Len(s) /\ Len(s) \in Nat
  BY LenProperties
<1>2. PICK p \in R!Bijection(1 .. Len(s), 1 .. Len(s)) :
        t = [i \in 1 .. Len(s) |-> s[p[i]]]
  BY <1>1 DEF R!Sort
<1>3. /\ p \in [1 .. Len(s) -> 1 .. Len(s)]
      /\ \A j \in 1 .. Len(s) : \E i \in 1 .. Len(s) : p[i] = j
  BY <1>2 DEF R!Bijection, R!Injection, R!Surjection
<1>4. \A i \in 1 .. Len(s) : s[p[i]] \in R!Fragment
  BY <1>3, ElementOfSeq
<1>5. t \in Seq(R!Fragment) /\ Len(t) = Len(s)
  BY <1>1, <1>2, <1>4
<1>6. DOMAIN t = 1 .. Len(s)
  BY <1>2
<1>7. QED
  BY <1>1, <1>2, <1>3, <1>5, <1>6

-----------------------------------------------------------------------------
(* The inductive invariant.  Identifications of one epoch rise, so no two  *)
(* frames of an epoch share one; every fragment in flight carries the      *)
(* identification its frame was logged with, and ends its frame if it says *)
(* it is the last; every fragment in the table lies under the              *)
(* identification of its frame, and an announced total is the length of a  *)
(* frame that has a fragment there.                                        *)

LogType ==
  /\ fragId \in Id /\ epoch \in Nat
  /\ log \in [Frame -> [epoch : Nat, id : Id \cup {None}] \cup {None}]
  /\ received \in [Frame \cup {Mangled} -> Nat]

LogPast ==
  \A f \in Sent : /\ log[f].epoch <= epoch
                  /\ (log[f].id \in Id /\ log[f].epoch = epoch)
                       => log[f].id < fragId

LogUnique ==
  \A f, g \in Sent :
    (log[f].id \in Id /\ log[f].id = log[g].id /\ log[f].epoch = log[g].epoch)
      => f = g

InFlight(p) ==
  /\ p.data \in Sent
  /\ p.packet.next = "fragment" =>
       /\ p.id \in Id /\ log[p.data].id = p.id
       /\ p.packet.length \in Nat /\ p.packet.field \in Nat
       /\ ReadMore(p.packet)
            \/ ReadEnd(p.packet) = Payload(FrameLength[p.data])

NetLogged == \A p \in net : InFlight(p)

Filed(k, s) == \A i \in DOMAIN s : s[i].data \in Sent /\ log[s[i].data].id = k

OfAFrame(s, total) ==
  total # None => \E i \in DOMAIN s : total = Payload(FrameLength[s[i].data])

TableLogged ==
  /\ packets \in [Id -> Entries \cup {None}]
  /\ \A k \in Id : packets[k] # None =>
       /\ Filed(k, packets[k].fragments)
       /\ OfAFrame(packets[k].fragments, packets[k].total)

IInv == /\ LogType /\ LogPast /\ LogUnique /\ NetLogged /\ TableLogged
        /\ OriginalWithinEpoch

\* At the start nothing is sent.
LEMMA InitIInv == Init => IInv
<1> SUFFICES ASSUME Init PROVE IInv
  OBVIOUS
<1>1. LogType
  BY LinkAssumption DEF Init, LogType, Id
<1>2. Sent = {}
  BY DEF Init, Sent
<1>3. TableLogged
  BY DEF Init, R!Init, TableLogged
<1>4. LogPast /\ LogUnique /\ NetLogged /\ OriginalWithinEpoch
  BY <1>2 DEF Init, LogPast, LogUnique, NetLogged, OriginalWithinEpoch
<1>5. QED
  BY <1>1, <1>3, <1>4 DEF IInv

\* What insert works on, and what it makes of a fragment in flight.
LEMMA EntryLogged ==
  ASSUME IInv, NEW k \in Id
  PROVE  /\ R!Entry(k) \in Entries
         /\ Filed(k, R!Entry(k).fragments)
         /\ OfAFrame(R!Entry(k).fragments, R!Entry(k).total)
<1>1. CASE packets[k] = None
  BY <1>1, EmptySeq DEF R!Entry, R!Fresh, Entries, Filed, OfAFrame
<1>2. CASE packets[k] # None
  BY <1>2 DEF R!Entry, IInv, TableLogged
<1>3. QED
  BY <1>1, <1>2

\* Sorting stored fragments leaves each of them cut from its frame.
LEMMA ArrangedLogged ==
  ASSUME IInv, NEW p \in net, p.packet.next = "fragment", Accepted(p.packet),
         NEW s \in R!Sort(Append(R!Entry(p.id).fragments, Cut(p)))
  PROVE  /\ s \in Seq(R!Fragment) /\ Len(s) \in Nat \ {0}
         /\ Filed(p.id, s)
         /\ OfAFrame(s, R!Total(p.id, Cut(p), ReadMore(p.packet)))
         /\ R!Total(p.id, Cut(p), ReadMore(p.packet)) \in Nat \cup {None}
<1> DEFINE old == R!Entry(p.id).fragments
           longer == Append(old, Cut(p))
           total == R!Total(p.id, Cut(p), ReadMore(p.packet))
<1>1. /\ p.data \in Frame /\ p.data \in Sent /\ p.id \in Id
      /\ log[p.data].id = p.id
      /\ p.packet.length \in Nat /\ p.packet.field \in Nat
      /\ ReadMore(p.packet) \/ ReadEnd(p.packet) = Payload(FrameLength[p.data])
  BY DEF IInv, NetLogged, InFlight, Sent
<1>2. ReadOffset(p.packet) \in Nat /\ ReadLength(p.packet) \in Nat
  BY <1>1 DEF Accepted, ReadOffset, ReadLength, FragmentHeader
<1>3. Cut(p) \in R!Fragment
  BY <1>1, <1>2 DEF Cut, R!Fragment
<1>4. /\ R!Entry(p.id) \in Entries /\ old \in Seq(R!Fragment)
      /\ Filed(p.id, old) /\ OfAFrame(old, R!Entry(p.id).total)
  BY <1>1, EntryLogged DEF Entries
<1>5. /\ longer \in Seq(R!Fragment) /\ Len(longer) = Len(old) + 1
      /\ \A i \in 1 .. Len(old) : longer[i] = old[i]
      /\ longer[Len(old) + 1] = Cut(p)
      /\ DOMAIN old = 1 .. Len(old) /\ Len(old) \in Nat
      /\ DOMAIN longer = 1 .. Len(longer)
  BY <1>3, <1>4, AppendProperties, LenProperties
<1>6. /\ s \in Seq(R!Fragment) /\ Len(s) = Len(longer)
      /\ \A i \in DOMAIN s : \E j \in DOMAIN longer : s[i] = longer[j]
      /\ \A j \in DOMAIN longer : \E i \in DOMAIN s : s[i] = longer[j]
  BY <1>5, SortKeepsElements
<1>7. Cut(p).data = p.data /\ R!End(Cut(p)) = ReadEnd(p.packet)
  BY DEF Cut, R!End, ReadEnd
<1>8. Filed(p.id, longer)
  <2> SUFFICES ASSUME NEW i \in 1 .. Len(old) + 1
               PROVE  /\ longer[i].data \in Sent
                      /\ log[longer[i].data].id = p.id
    BY <1>5 DEF Filed
  <2>1. CASE i \in 1 .. Len(old)
    BY <1>4, <1>5, <2>1 DEF Filed
  <2>2. CASE i = Len(old) + 1
    BY <1>1, <1>5, <1>7, <2>2
  <2>3. QED
    BY <1>5, <2>1, <2>2
<1>9. Filed(p.id, s)
  <2> SUFFICES ASSUME NEW i \in DOMAIN s
               PROVE  s[i].data \in Sent /\ log[s[i].data].id = p.id
    BY DEF Filed
  <2>1. PICK j \in DOMAIN longer : s[i] = longer[j]
    BY <1>6
  <2> QED
    BY <1>8, <2>1 DEF Filed
<1>10. OfAFrame(longer, total)
  <2>1. CASE ReadMore(p.packet)
    <3>1. total = R!Entry(p.id).total
      BY <2>1 DEF R!Total
    <3>2. QED
      BY <1>4, <1>5, <3>1 DEF OfAFrame
  <2>2. CASE ~ReadMore(p.packet)
    <3>1. total = ReadEnd(p.packet)
      BY <1>7, <2>2 DEF R!Total
    <3>2. Len(old) + 1 \in DOMAIN longer
      BY <1>5
    <3>3. QED
      BY <1>1, <1>5, <1>7, <2>2, <3>1, <3>2 DEF OfAFrame
  <2>3. QED
    BY <2>1, <2>2
<1>11. OfAFrame(s, total)
  BY <1>6, <1>10 DEF OfAFrame
<1>12. total \in Nat \cup {None}
  <2>1. R!Entry(p.id).total \in Nat \cup {None}
    BY <1>4 DEF Entries
  <2>2. R!End(Cut(p)) \in Nat
    BY <1>2, <1>7 DEF ReadEnd
  <2>3. QED
    BY <2>1, <2>2 DEF R!Total
<1>13. QED
  BY <1>5, <1>6, <1>9, <1>11, <1>12

-----------------------------------------------------------------------------
(* The near endpoint's steps.                                              *)

\* Sending a frame that was not sent leaves the log of the others alone.
LEMMA LogGrows ==
  ASSUME IInv, NEW f \in Frame, f \notin Sent,
         NEW id \in Id \cup {None},
         log' = [log EXCEPT ![f] = [epoch |-> epoch, id |-> id]]
  PROVE  /\ Sent \subseteq Sent' /\ Sent' \subseteq Sent \cup {f}
         /\ \A g \in Sent : log'[g] = log[g]
         /\ log'[f] = [epoch |-> epoch, id |-> id]
         /\ log' \in [Frame -> [epoch : Nat, id : Id \cup {None}] \cup {None}]
<1>1. log \in [Frame -> [epoch : Nat, id : Id \cup {None}] \cup {None}]
      /\ epoch \in Nat
  BY DEF IInv, LogType
<1>2. \A g \in Frame : g # f => log'[g] = log[g]
  BY <1>1
<1>3. log'[f] = [epoch |-> epoch, id |-> id]
  BY <1>1
<1>4. Sent \subseteq Sent' /\ Sent' \subseteq Sent \cup {f}
  BY <1>2 DEF Sent
<1>5. \A g \in Sent : log'[g] = log[g]
  BY <1>2 DEF Sent
<1>6. QED
  BY <1>1, <1>3, <1>4, <1>5

\* What was in flight or in the table stays logged when the log grows.
LEMMA GrowthKeepsLogged ==
  ASSUME IInv, Sent \subseteq Sent', \A g \in Sent : log'[g] = log[g],
         UNCHANGED <<packets>>
  PROVE  /\ \A p \in net : InFlight(p)'
         /\ TableLogged'
<1>1. \A p \in net : InFlight(p)'
  BY DEF IInv, NetLogged, InFlight
<1>2. TableLogged'
  <2>1. packets' \in [Id -> Entries \cup {None}]
    BY DEF IInv, TableLogged
  <2>2. ASSUME NEW k \in Id
        PROVE  (packets[k] # None =>
                  /\ Filed(k, packets[k].fragments)
                  /\ OfAFrame(packets[k].fragments, packets[k].total))'
    BY DEF IInv, TableLogged, Filed, OfAFrame
  <2>3. QED
    BY <2>1, <2>2 DEF TableLogged
<1>3. QED
  BY <1>1, <1>2

\* A frame sent whole.
LEMMA SendWholeKeepsIInv ==
  ASSUME IInv, NEW f \in Frame, NEW mtu \in Mtu, SendWhole(f, mtu)
  PROVE  IInv'
<1>1. /\ Sent \subseteq Sent' /\ Sent' \subseteq Sent \cup {f}
      /\ \A g \in Sent : log'[g] = log[g]
      /\ log'[f] = [epoch |-> epoch, id |-> None]
      /\ log' \in [Frame -> [epoch : Nat, id : Id \cup {None}] \cup {None}]
  BY LogGrows DEF SendWhole
<1>2. f \in Sent'
  <2>1. None # [epoch |-> epoch, id |-> None]
    BY LinkAssumption DEF IInv, LogType
  <2>2. QED
    BY <1>1, <2>1 DEF Sent
<1>3. None \notin Id
  BY LinkAssumption DEF Id
<1>4. LogType'
  BY <1>1 DEF IInv, LogType, SendWhole, far
<1>5. LogPast' /\ LogUnique'
  BY <1>1, <1>3, LinkAssumption DEF IInv, LogType, LogPast, LogUnique, SendWhole
<1>6. \A p \in Launch(f, mtu, None) : p.packet.next # "fragment" /\ p.data = f
  BY DEF Launch, Packets, SendWhole, WholePacket
<1>7. NetLogged'
  <2>1. \A p \in net : InFlight(p)'
    BY <1>1, GrowthKeepsLogged DEF SendWhole, far
  <2>2. \A p \in Launch(f, mtu, None) : InFlight(p)'
    BY <1>2, <1>6 DEF InFlight
  <2>3. QED
    BY <2>1, <2>2 DEF NetLogged, SendWhole
<1>8. TableLogged' /\ OriginalWithinEpoch'
  BY <1>1, GrowthKeepsLogged DEF SendWhole, far, IInv, OriginalWithinEpoch
<1>9. QED
  BY <1>4, <1>5, <1>7, <1>8 DEF IInv

\* The identification after a frame's: one more, or the first of a new epoch.
LEMMA NextIdRises ==
  ASSUME fragId \in Id, epoch \in Nat, NextId
  PROVE  /\ fragId' \in Id /\ epoch' \in Nat
         /\ \/ epoch' = epoch /\ fragId' = fragId + 1
            \/ epoch' = epoch + 1
<1>1. IdSpace \in Nat /\ IdSpace > 0
  BY LinkAssumption
<1>2. (fragId + 1) % IdSpace \in Id
  BY <1>1 DEF Id
<1>3. CASE fragId + 1 < IdSpace
  <2>1. (fragId + 1) % IdSpace = fragId + 1
    BY <1>1, <1>3 DEF Id
  <2>2. QED
    BY <1>2, <2>1 DEF NextId, Id
<1>4. CASE fragId + 1 = IdSpace
  <2>1. (fragId + 1) % IdSpace = 0
    BY <1>1, <1>4
  <2>2. QED
    BY <1>2, <2>1 DEF NextId
<1>5. QED
  BY <1>1, <1>3, <1>4 DEF Id

\* A frame cut under a new identification.
LEMMA SendFragmentsKeepsIInv ==
  ASSUME IInv, NEW f \in Frame, NEW mtu \in Mtu, SendFragments(f, mtu)
  PROVE  IInv'
<1>1. /\ fragId \in Id /\ epoch \in Nat
      /\ log \in [Frame -> [epoch : Nat, id : Id \cup {None}] \cup {None}]
  BY DEF IInv, LogType
<1>2. /\ Sent \subseteq Sent' /\ Sent' \subseteq Sent \cup {f}
      /\ \A g \in Sent : log'[g] = log[g]
      /\ log'[f] = [epoch |-> epoch, id |-> fragId]
      /\ log' \in [Frame -> [epoch : Nat, id : Id \cup {None}] \cup {None}]
  BY <1>1, LogGrows DEF SendFragments
<1>3. f \in Sent'
  <2>1. None # [epoch |-> epoch, id |-> fragId]
    BY <1>1, LinkAssumption DEF Id
  <2>2. QED
    BY <1>2, <2>1 DEF Sent
<1>4. /\ fragId' \in Id /\ epoch' \in Nat
      /\ \/ epoch' = epoch /\ fragId' = fragId + 1
         \/ epoch' = epoch + 1
  BY <1>1, NextIdRises DEF SendFragments
<1>5. LogType'
  BY <1>2, <1>4 DEF IInv, LogType, SendFragments, far
<1>6. \A g \in Sent : log[g].epoch \in Nat /\ log[g].epoch <= epoch
  BY <1>1 DEF IInv, LogPast, Sent
<1>7. LogPast'
  <2> SUFFICES ASSUME NEW g \in Sent'
               PROVE  /\ log'[g].epoch <= epoch'
                      /\ (log'[g].id \in Id /\ log'[g].epoch = epoch')
                           => log'[g].id < fragId'
    BY DEF LogPast
  <2>1. CASE g = f
    BY <1>1, <1>2, <1>4, <2>1 DEF Id
  <2>2. CASE g \in Sent
    <3>1. log'[g] = log[g] /\ log[g].epoch <= epoch /\ log[g].epoch \in Nat
      BY <1>2, <1>6, <2>2
    <3>2. (log[g].id \in Id /\ log[g].epoch = epoch) => log[g].id < fragId
      BY <2>2 DEF IInv, LogPast
    <3>3. QED
      BY <1>1, <1>4, <3>1, <3>2 DEF Id
  <2>3. QED
    BY <1>2, <2>1, <2>2
<1>8. LogUnique'
  <2>1. ASSUME NEW g \in Sent, log[g].id = fragId, log[g].epoch = epoch
        PROVE  FALSE
    BY <1>1, <2>1 DEF IInv, LogPast, Id
  <2>2. ASSUME NEW g \in Sent', NEW h \in Sent',
               log'[g].id \in Id, log'[g].id = log'[h].id,
               log'[g].epoch = log'[h].epoch
        PROVE  g = h
    <3>1. CASE g \in Sent /\ h \in Sent
      BY <1>2, <2>2, <3>1 DEF IInv, LogUnique
    <3>2. CASE g = f /\ h \in Sent
      BY <1>2, <2>1, <2>2, <3>2
    <3>3. CASE g \in Sent /\ h = f
      BY <1>2, <2>1, <2>2, <3>3
    <3>4. QED
      BY <1>2, <3>1, <3>2, <3>3
  <2>3. QED
    BY <2>2 DEF LogUnique
<1>9. ASSUME NEW p \in Launch(f, mtu, fragId) PROVE InFlight(p)'
  <2>1. /\ mtu \in MinMtu .. MaxMtu /\ FrameLength[f] \in Nat
        /\ ~Oversize(FrameLength[f])
    BY LinkAssumption
  <2>2. Packets(FrameLength[f], mtu) =
          [i \in 1 .. Count(FrameLength[f], mtu) |->
             FragmentPacket(FrameLength[f], mtu, i)]
    BY DEF SendFragments, Packets
  <2>3. PICK i \in 1 .. Count(FrameLength[f], mtu) :
          p = [packet |-> FragmentPacket(FrameLength[f], mtu, i),
               id |-> fragId, data |-> f, copy |-> 0]
    BY <2>2 DEF Launch
  <2>4. Count(FrameLength[f], mtu) \in Nat
    BY <2>1, CountBounds
  <2>5. /\ p.packet.bytes \in Nat /\ p.packet.length = p.packet.bytes
        /\ p.packet.field \in Nat
        /\ ReadMore(p.packet) <=> i < Count(FrameLength[f], mtu)
        /\ i = Count(FrameLength[f], mtu)
             => ReadEnd(p.packet) = Payload(FrameLength[f])
    BY <2>1, <2>3, FragmentRead
  <2>6. ReadMore(p.packet) \/ ReadEnd(p.packet) = Payload(FrameLength[f])
    BY <2>4, <2>5
  <2>7. p.data = f /\ p.id = fragId
    BY <2>3
  <2>8. QED
    BY <1>1, <1>2, <1>3, <2>5, <2>6, <2>7 DEF InFlight
<1>10. NetLogged'
  <2>1. \A p \in net : InFlight(p)'
    BY <1>2, GrowthKeepsLogged DEF SendFragments, far
  <2>2. QED
    BY <1>9, <2>1 DEF NetLogged, SendFragments
<1>11. TableLogged'
  BY <1>2, GrowthKeepsLogged DEF SendFragments, far
<1>12. OriginalWithinEpoch'
  BY <1>1, <1>4 DEF SendFragments, far, IInv, OriginalWithinEpoch
<1>13. QED
  BY <1>5, <1>7, <1>8, <1>10, <1>11, <1>12 DEF IInv

-----------------------------------------------------------------------------
(* The far endpoint's steps.                                               *)

\* A list that insert completes is the whole of the frame its fragments are
\* logged under, as long as there is one epoch.
LEMMA CompletedIsOriginal ==
  ASSUME IInv, epoch = 0, NEW k \in Id,
         NEW s \in Seq(R!Fragment), Len(s) \in Nat \ {0}, Filed(k, s),
         NEW total \in Nat \cup {None}, OfAFrame(s, total),
         R!Complete(s, total)
  PROVE  Original(s) /\ s[1].data \in Frame
<1>1. DOMAIN s = 1 .. Len(s) /\ 1 \in DOMAIN s /\ Len(s) \in DOMAIN s
  BY LenProperties
<1>2. \A i \in DOMAIN s : s[i].data \in Sent /\ log[s[i].data].id = k
  BY DEF Filed
<1>3. \A f \in Sent : log[f].epoch = 0
  <2>1. \A f \in Sent : log[f].epoch \in Nat /\ log[f].epoch <= 0
    BY DEF IInv, LogType, LogPast, Sent
  <2>2. QED
    BY <2>1
<1>4. \A i \in DOMAIN s : s[i].data = s[1].data
  BY <1>1, <1>2, <1>3 DEF IInv, LogUnique
<1>5. R!Contiguous(s) /\ total = R!End(s[Len(s)])
  BY DEF R!Complete
<1>6. total # None
  <2>1. s[Len(s)] \in R!Fragment
    BY <1>1, ElementOfSeq
  <2>2. R!End(s[Len(s)]) \in Nat
    BY <2>1 DEF R!End, R!Fragment
  <2>3. QED
    BY <1>5, <2>2, LinkAssumption
<1>7. R!End(s[Len(s)]) = Payload(FrameLength[s[1].data])
  BY <1>4, <1>5, <1>6 DEF OfAFrame
<1>8. QED
  BY <1>1, <1>2, <1>4, <1>5, <1>7 DEF Original, Sent

\* Steps that leave the log alone and only take packets out of flight.
LEMMA QuietKeepsIInv ==
  ASSUME IInv, UNCHANGED near, \A p \in net' : p \in net \/ InFlight(p),
         TableLogged', received' \in [Frame \cup {Mangled} -> Nat],
         epoch = 0 => received'[Mangled] = received[Mangled]
  PROVE  IInv'
<1>1. Sent' = Sent
  BY DEF near, Sent
<1>2. LogType' /\ LogPast' /\ LogUnique'
  BY <1>1 DEF IInv, LogType, LogPast, LogUnique, near
<1>3. NetLogged'
  BY <1>1 DEF IInv, NetLogged, InFlight, near
<1>4. OriginalWithinEpoch'
  BY DEF IInv, OriginalWithinEpoch, near
<1>5. QED
  BY <1>2, <1>3, <1>4 DEF IInv

\* The table after a step that files, under the keys it changes, nothing or
\* logged entries.
LEMMA TableStays ==
  ASSUME IInv, UNCHANGED near, packets' \in [Id -> Entries \cup {None}],
         \A k \in Id : packets'[k] # None =>
           \/ /\ packets[k] # None
              /\ packets'[k].fragments = packets[k].fragments
              /\ packets'[k].total = packets[k].total
           \/ /\ Filed(k, packets'[k].fragments)
              /\ OfAFrame(packets'[k].fragments, packets'[k].total)
  PROVE  TableLogged'
<1>1. Sent' = Sent /\ log' = log
  BY DEF near, Sent
<1>2. ASSUME NEW k \in Id
      PROVE  (packets[k] # None =>
                /\ Filed(k, packets[k].fragments)
                /\ OfAFrame(packets[k].fragments, packets[k].total))'
  BY <1>1 DEF IInv, TableLogged, Filed, OfAFrame
<1>3. QED
  BY <1>2 DEF TableLogged

\* A fragment given to insert.
LEMMA DeliverFragmentKeepsIInv ==
  ASSUME IInv, NEW p \in net, p.packet.next = "fragment",
         DeliverFragment(p), net' = net \ {p}, UNCHANGED near
  PROVE  IInv'
<1> DEFINE k == p.id
           frag == Cut(p)
           more == ReadMore(p.packet)
           old == R!Entry(k).fragments
<1>1. Accepted(p.packet) /\ R!Insert(k, frag, more)
  BY DEF DeliverFragment, Cut
<1>2. k \in Id
  BY DEF IInv, NetLogged, InFlight
<1>3. /\ packets \in [Id -> Entries \cup {None}]
      /\ received \in [Frame \cup {Mangled} -> Nat]
  BY DEF IInv, TableLogged, LogType
<1>4. CASE R!Remove(k) /\ UNCHANGED received
  <2>1. packets' \in [Id -> Entries \cup {None}]
        /\ \A q \in Id : packets'[q] # None => packets'[q] = packets[q]
    BY <1>3, <1>4 DEF R!Remove
  <2>2. TableLogged'
    BY <2>1, TableStays
  <2>3. QED
    BY <1>3, <1>4, <2>2, QuietKeepsIInv
<1>5. lastInsert'.out = None => UNCHANGED received
  BY DEF DeliverFragment
<1>6. \A out : R!Returns(k, frag, more, out) => lastInsert'.out = out
  BY DEF R!Returns
<1>7. CASE R!InsertMalformed(k, frag, more) \/ R!InsertDiscards(k, frag, more)
  BY <1>4, <1>5, <1>6, <1>7 DEF R!InsertMalformed, R!InsertDiscards
<1>8. CASE R!InsertRefused(k, frag, more)
  <2>1. packets' = packets /\ UNCHANGED received
    BY <1>5, <1>6, <1>8 DEF R!InsertRefused
  <2>2. TableLogged'
    BY <1>3, <2>1, TableStays
  <2>3. QED
    BY <1>3, <2>1, <2>2, QuietKeepsIInv
<1>9. CASE R!InsertStores(k, frag, more)
  <2>1. PICK s \in R!Sort(Append(old, frag)) :
          packets' = [packets EXCEPT ![k] =
            [idle |-> 0, total |-> R!Total(k, frag, more), fragments |-> s]]
    BY <1>9 DEF R!InsertStores
  <2>2. UNCHANGED received
    BY <1>5, <1>6, <1>9 DEF R!InsertStores
  <2>3. /\ s \in Seq(R!Fragment) /\ Filed(k, s)
        /\ OfAFrame(s, R!Total(k, frag, more))
        /\ R!Total(k, frag, more) \in Nat \cup {None}
    BY <1>1, <2>1, ArrangedLogged
  <2>4. [idle |-> 0, total |-> R!Total(k, frag, more), fragments |-> s]
          \in Entries
    BY <2>3 DEF Entries
  <2>5. packets' \in [Id -> Entries \cup {None}]
    BY <1>3, <2>1, <2>4
  <2>6. packets'[k].fragments = s /\ packets'[k].total = R!Total(k, frag, more)
    BY <1>2, <1>3, <2>1
  <2>7. \A q \in Id : q # k => packets'[q] = packets[q]
    BY <1>3, <2>1
  <2>8. TableLogged'
    BY <2>3, <2>5, <2>6, <2>7, TableStays
  <2>9. QED
    BY <1>3, <2>2, <2>8, QuietKeepsIInv
<1>10. CASE R!InsertCompletes(k, frag, more)
  <2>1. PICK s \in R!Sort(Append(old, frag)) :
          /\ R!Complete(s, R!Total(k, frag, more))
          /\ R!Returns(k, frag, more, s)
    BY <1>10 DEF R!InsertCompletes
  <2>2. /\ s \in Seq(R!Fragment) /\ Len(s) \in Nat \ {0} /\ Filed(k, s)
        /\ OfAFrame(s, R!Total(k, frag, more))
        /\ R!Total(k, frag, more) \in Nat \cup {None}
    BY <1>1, <2>1, ArrangedLogged
  <2>3. lastInsert'.out = s
    BY <1>6, <2>1
  <2>4. CASE s = None
    BY <1>4, <1>5, <1>10, <2>3, <2>4 DEF R!InsertCompletes
  <2>5. CASE s # None
    <3>1. Forward(IF Original(s) THEN s[1].data ELSE Mangled)
      BY <2>3, <2>5 DEF DeliverFragment
    <3>2. s[1].data \in Frame
      BY <2>2, LenProperties DEF Filed, Sent
    <3>3. received' \in [Frame \cup {Mangled} -> Nat]
      BY <1>3, <3>1, <3>2 DEF Forward
    <3>4. epoch = 0 => received'[Mangled] = received[Mangled]
      <4> SUFFICES ASSUME epoch = 0
                   PROVE  received'[Mangled] = received[Mangled]
        OBVIOUS
      <4>1. Original(s)
        BY <1>2, <2>1, <2>2, CompletedIsOriginal
      <4>2. QED
        BY <1>3, <3>1, <3>2, <4>1, LinkAssumption DEF Forward
    <3>5. packets' \in [Id -> Entries \cup {None}]
          /\ \A q \in Id : packets'[q] # None => packets'[q] = packets[q]
      BY <1>3, <1>10 DEF R!InsertCompletes, R!Remove
    <3>6. TableLogged'
      BY <3>5, TableStays
    <3>7. QED
      BY <3>3, <3>4, <3>6, QuietKeepsIInv
  <2>6. QED
    BY <2>4, <2>5
<1>11. QED
  BY <1>1, <1>7, <1>8, <1>9, <1>10 DEF R!Insert

\* Any packet that arrives.
LEMMA DeliverKeepsIInv ==
  ASSUME IInv, NEW p \in net, Deliver(p)
  PROVE  IInv'
<1>1. net' = net \ {p} /\ UNCHANGED near /\ near' = near
  BY DEF Deliver
<1>2. CASE DeliverWhole(p)
  <2>1. packets' = packets /\ Forward(p.data) /\ p.data \in Frame
    BY <1>2 DEF DeliverWhole, IInv, NetLogged, InFlight, Sent
  <2>2. packets \in [Id -> Entries \cup {None}]
        /\ received \in [Frame \cup {Mangled} -> Nat]
    BY DEF IInv, TableLogged, LogType
  <2>3. TableLogged'
    BY <1>1, <2>1, <2>2, TableStays
  <2>4. /\ received' \in [Frame \cup {Mangled} -> Nat]
        /\ received'[Mangled] = received[Mangled]
    BY <2>1, <2>2, LinkAssumption DEF Forward
  <2>5. QED
    BY <1>1, <2>3, <2>4, QuietKeepsIInv
<1>3. CASE DeliverFragment(p)
  <2>1. p.packet.next = "fragment"
    BY <1>3 DEF DeliverFragment, Accepted
  <2>2. QED
    BY <1>1, <1>3, <2>1, DeliverFragmentKeepsIInv
<1>4. QED
  BY <1>2, <1>3 DEF Deliver

\* The clock and expire.
LEMMA ClockKeepsIInv ==
  ASSUME IInv, Tick \/ Expire
  PROVE  IInv'
<1>1. UNCHANGED near /\ net' = net /\ received' = received
  BY DEF Tick, Expire, network
<1>2. packets \in [Id -> Entries \cup {None}]
      /\ received \in [Frame \cup {Mangled} -> Nat]
  BY DEF IInv, TableLogged, LogType
<1>3. CASE Tick
  <2>1. \A k \in Id : packets[k] = None => packets'[k] = None
    BY <1>3 DEF Tick, R!Tick
  <2>2. ASSUME NEW k \in Id, packets[k] # None
        PROVE  /\ packets'[k] \in Entries
               /\ packets'[k].fragments = packets[k].fragments
               /\ packets'[k].total = packets[k].total
    <3>1. packets[k] \in Entries
      BY <1>2, <2>2
    <3>2. \/ packets'[k] = packets[k]
          \/ packets'[k] = [packets[k] EXCEPT !.idle = @ + 1]
      BY <1>3 DEF Tick, R!Tick
    <3>3. QED
      BY <3>1, <3>2 DEF Entries
  <2>3. packets' \in [Id -> Entries \cup {None}]
    BY <1>3, <2>1, <2>2 DEF Tick, R!Tick
  <2>4. TableLogged'
    BY <1>1, <2>1, <2>2, <2>3, TableStays
  <2>5. QED
    BY <1>1, <1>2, <2>4, QuietKeepsIInv
<1>4. CASE Expire
  <2>1. packets' \in [Id -> Entries \cup {None}]
        /\ \A k \in Id : packets'[k] # None => packets'[k] = packets[k]
    BY <1>2, <1>4 DEF Expire, R!Expire
  <2>2. TableLogged'
    BY <1>1, <2>1, TableStays
  <2>3. QED
    BY <1>1, <1>2, <2>2, QuietKeepsIInv
<1>5. QED
  BY <1>3, <1>4

\* A restart of the sender begins an epoch.
LEMMA RestartNearKeepsIInv == IInv /\ RestartNear => IInv'
<1> SUFFICES ASSUME IInv, RestartNear PROVE IInv'
  OBVIOUS
<1>1. /\ fragId' = 0 /\ epoch' = epoch + 1 /\ log' = log /\ net' = net
      /\ packets' = packets /\ received' = received /\ epoch \in Nat
  BY DEF RestartNear, network, far, IInv, LogType
<1>2. Sent' = Sent
  BY <1>1 DEF Sent
<1>3. LogType'
  <2>1. 0 \in Id
    BY LinkAssumption DEF Id
  <2>2. QED
    BY <1>1, <2>1 DEF IInv, LogType
<1>4. \A f \in Sent : log[f].epoch \in Nat /\ log[f].epoch < epoch'
  BY <1>1 DEF IInv, LogType, LogPast, Sent
<1>5. LogPast'
  BY <1>1, <1>2, <1>4 DEF LogPast
<1>6. LogUnique' /\ NetLogged' /\ TableLogged'
  BY <1>1, <1>2 DEF IInv, LogUnique, NetLogged, InFlight, TableLogged, Filed
<1>7. OriginalWithinEpoch'
  BY <1>1 DEF OriginalWithinEpoch
<1>8. QED
  BY <1>3, <1>5, <1>6, <1>7 DEF IInv

\* The network repeats and loses packets.
LEMMA NetworkKeepsIInv ==
  ASSUME IInv, NEW p \in net, Repeat(p) \/ Lose(p)
  PROVE  IInv'
<1>1. UNCHANGED near /\ packets' = packets /\ received' = received
  BY DEF Repeat, Lose, far
<1>2. packets \in [Id -> Entries \cup {None}]
      /\ received \in [Frame \cup {Mangled} -> Nat]
  BY DEF IInv, TableLogged, LogType
<1>3. TableLogged'
  BY <1>1, <1>2, TableStays
<1>4. InFlight(p)
  BY DEF IInv, NetLogged
<1>5. \A q \in net' : q \in net \/ InFlight(q)
  <2>1. CASE Repeat(p)
    <3>1. InFlight([p EXCEPT !.copy = copies'[p.data]])
      BY <1>4 DEF InFlight
    <3>2. QED
      BY <2>1, <3>1 DEF Repeat
  <2>2. CASE Lose(p)
    BY <2>2 DEF Lose
  <2>3. QED
    BY <2>1, <2>2
<1>6. QED
  BY <1>1, <1>2, <1>3, <1>5, QuietKeepsIInv

\* A restart of the receiver forgets the fragments.
LEMMA RestartFarKeepsIInv == IInv /\ RestartFar => IInv'
<1> SUFFICES ASSUME IInv, RestartFar PROVE IInv'
  OBVIOUS
<1>1. /\ UNCHANGED near /\ net' = net /\ received' = received
      /\ packets' = [k \in Id |-> None]
      /\ received \in [Frame \cup {Mangled} -> Nat]
  BY DEF RestartFar, network, IInv, LogType
<1>2. TableLogged'
  BY <1>1, TableStays
<1>3. QED
  BY <1>1, <1>2, QuietKeepsIInv

\* Every step keeps the invariant.
LEMMA NextKeepsIInv == IInv /\ [Next]_vars => IInv'
<1> SUFFICES ASSUME IInv, [Next]_vars PROVE IInv'
  OBVIOUS
<1>1. CASE UNCHANGED vars
  <2>1. UNCHANGED near /\ net' = net /\ packets' = packets
        /\ received' = received
    BY <1>1 DEF vars, network, far
  <2>2. packets \in [Id -> Entries \cup {None}]
        /\ received \in [Frame \cup {Mangled} -> Nat]
    BY DEF IInv, TableLogged, LogType
  <2>3. TableLogged'
    BY <2>1, <2>2, TableStays
  <2>4. QED
    BY <2>1, <2>2, <2>3, QuietKeepsIInv
<1>2. ASSUME NEW p \in net, Repeat(p) \/ Lose(p) \/ Deliver(p) PROVE IInv'
  BY <1>2, NetworkKeepsIInv, DeliverKeepsIInv
<1>3. QED
  BY <1>1, <1>2, SendWholeKeepsIInv, SendFragmentsKeepsIInv,
     RestartNearKeepsIInv, ClockKeepsIInv, RestartFarKeepsIInv DEF Next

\* The inductive invariant holds in every behaviour of the direction.
THEOREM Invariance == Spec => []IInv
<1>1. QED
  BY InitIInv, NextKeepsIInv, PTL DEF Spec

\* As long as the near endpoint has neither restarted nor used up its
\* identifications, every frame put on the far LAN is one that was sent,
\* whatever the network loses, repeats or reorders and however often the far
\* endpoint restarts or expires fragments.
THEOREM OnlyOriginals == Spec => []OriginalWithinEpoch
<1>1. IInv => OriginalWithinEpoch
  BY DEF IInv
<1>2. QED
  BY <1>1, Invariance, PTL

\* Two frames sent between two restarts never meet under one key of the table.
THEOREM NeverMixed == Spec => []NeverMixedWithinEpoch
<1>1. IInv => NeverMixedWithinEpoch
  <2> SUFFICES ASSUME IInv, NEW k \in Id, packets[k] # None,
                      NEW i \in DOMAIN packets[k].fragments,
                      NEW j \in DOMAIN packets[k].fragments,
                      log[packets[k].fragments[i].data].epoch
                        = log[packets[k].fragments[j].data].epoch
               PROVE  packets[k].fragments[i].data = packets[k].fragments[j].data
    BY DEF NeverMixedWithinEpoch
  <2>1. Filed(k, packets[k].fragments)
    BY DEF IInv, TableLogged
  <2>2. QED
    BY <2>1 DEF Filed, IInv, LogUnique
<1>2. QED
  BY <1>1, Invariance, PTL

-----------------------------------------------------------------------------
(* The direction implements FrameChannel.  What a frame is put on the far  *)
(* LAN from always holds its first byte: a packet in flight or, once it is *)
(* delivered, a stored fragment.  Packets with a frame's first byte, the   *)
(* table's included, and the times it was received are never more than one *)
(* and the times the network repeated its packets.                         *)

Starts(n, f) == {p \in n : p.data = f /\ ReadOffset(p.packet) = 0}

Begun(t, f) ==
  \E k \in Id : t[k] # None /\
    \E i \in DOMAIN t[k].fragments :
      t[k].fragments[i].off = 0 /\ t[k].fragments[i].data = f

Carried(n, t, f) == Cardinality(Starts(n, f)) + (IF Begun(t, f) THEN 1 ELSE 0)

Accounted ==
  /\ copies \in [Frame -> Nat]
  /\ \A p \in net : p.packet.next # "fragment" => ReadOffset(p.packet) = 0
  /\ \A f \in Frame :
       /\ IsFiniteSet(Starts(net, f))
       /\ Carried(net, packets, f) + received[f] <= 1 + copies[f]
       /\ received[f] # 0 => f \in Sent

CInv == IInv /\ Accounted

\* Fewer packets have fewer first bytes among them.
LEMMA StartsFewer ==
  ASSUME NEW n, NEW m \in SUBSET n, NEW f, IsFiniteSet(Starts(n, f))
  PROVE  /\ IsFiniteSet(Starts(m, f))
         /\ Cardinality(Starts(m, f)) \in Nat
         /\ Cardinality(Starts(n, f)) \in Nat
         /\ Cardinality(Starts(m, f)) <= Cardinality(Starts(n, f))
<1>1. Starts(m, f) \in SUBSET Starts(n, f)
  BY DEF Starts
<1> QED
  BY <1>1, FS_Subset, FS_CardinalityType

\* One packet more has at most one more.
LEMMA StartsMore ==
  ASSUME NEW n, NEW x, NEW f, IsFiniteSet(Starts(n, f))
  PROVE  /\ IsFiniteSet(Starts(n \cup {x}, f))
         /\ Cardinality(Starts(n \cup {x}, f)) \in Nat
         /\ Cardinality(Starts(n, f)) \in Nat
         /\ Cardinality(Starts(n \cup {x}, f)) <= Cardinality(Starts(n, f)) + 1
         /\ x.data # f => Starts(n \cup {x}, f) = Starts(n, f)
<1> DEFINE S == Starts(n, f)
<1>1. /\ IsFiniteSet(S \cup {x}) /\ Cardinality(S) \in Nat
      /\ Cardinality(S \cup {x}) \in {Cardinality(S), Cardinality(S) + 1}
  BY FS_AddElement, FS_CardinalityType
<1>2. Starts(n \cup {x}, f) \in {S, S \cup {x}}
  BY DEF Starts
<1>3. x.data # f => Starts(n \cup {x}, f) = S
  BY DEF Starts
<1> HIDE DEF S
<1>4. CASE Starts(n \cup {x}, f) = S
  <2>1. IsFiniteSet(S)
    BY DEF S
  <2> QED
    BY <1>1, <1>4, <2>1 DEF S
<1>5. CASE Starts(n \cup {x}, f) = S \cup {x}
  <2>1. Cardinality(S \cup {x}) \in Nat
        /\ Cardinality(S \cup {x}) <= Cardinality(S) + 1
    BY <1>1
  <2> QED
    BY <1>1, <1>3, <1>5, <2>1 DEF S
<1> QED
  BY <1>2, <1>4, <1>5

\* Taking one with the frame's first byte leaves one less.
LEMMA StartsGone ==
  ASSUME NEW n, NEW p \in n, NEW f, IsFiniteSet(Starts(n, f)),
         p.data = f, ReadOffset(p.packet) = 0
  PROVE  /\ Cardinality(Starts(n, f)) \in Nat
         /\ Cardinality(Starts(n \ {p}, f)) \in Nat
         /\ Cardinality(Starts(n \ {p}, f)) = Cardinality(Starts(n, f)) - 1
<1>1. Starts(n \ {p}, f) = Starts(n, f) \ {p} /\ p \in Starts(n, f)
  BY DEF Starts
<1>2. /\ IsFiniteSet(Starts(n, f) \ {p})
      /\ Cardinality(Starts(n, f) \ {p}) = Cardinality(Starts(n, f)) - 1
  BY <1>1, FS_RemoveElement
<1>3. /\ Cardinality(Starts(n, f)) \in Nat
      /\ Cardinality(Starts(n, f) \ {p}) \in Nat
  BY <1>2, FS_CardinalityType
<1> QED
  BY <1>1, <1>2, <1>3

\* A frame that was not sent has left no trace.
LEMMA NoTrace ==
  ASSUME CInv, NEW f \in Frame, f \notin Sent
  PROVE  Starts(net, f) = {} /\ ~Begun(packets, f) /\ received[f] = 0
<1>1. Starts(net, f) = {}
  BY DEF CInv, IInv, NetLogged, InFlight, Starts
<1>2. ~Begun(packets, f)
  BY DEF CInv, IInv, TableLogged, Filed, Begun
<1> QED
  BY <1>1, <1>2 DEF CInv, Accounted

\* The types of the numbers of the account.
LEMMA AccountTypes ==
  ASSUME CInv, NEW f \in Frame
  PROVE  /\ IsFiniteSet(Starts(net, f)) /\ Cardinality(Starts(net, f)) \in Nat
         /\ received[f] \in Nat /\ copies[f] \in Nat
         /\ Carried(net, packets, f) + received[f] <= 1 + copies[f]
BY FS_CardinalityType DEF CInv, Accounted, IInv, LogType

\* At the start nothing is carried.
LEMMA InitCInv == Init => CInv
<1> SUFFICES ASSUME Init PROVE CInv
  OBVIOUS
<1>1. IInv
  BY InitIInv
<1>2. \A f \in Frame : /\ Starts(net, f) = {} /\ ~Begun(packets, f)
                       /\ received[f] = 0 /\ copies[f] = 0
  BY DEF Init, R!Init, Starts, Begun
<1>3. \A f \in Frame : /\ IsFiniteSet(Starts(net, f))
                       /\ Carried(net, packets, f) = 0
  BY <1>2, FS_EmptySet DEF Carried
<1>4. copies \in [Frame -> Nat] /\ net = {}
  BY DEF Init
<1> QED
  BY <1>1, <1>2, <1>3, <1>4 DEF CInv, Accounted

\* The account after a step that leaves it balanced.
LEMMA Balanced ==
  ASSUME CInv, IInv', Sent \subseteq Sent', copies' \in [Frame -> Nat],
         \A p \in net' : p \in net \/
           (p.packet.next # "fragment" => ReadOffset(p.packet) = 0),
         \A f \in Frame :
           /\ IsFiniteSet(Starts(net', f))
           /\ Carried(net', packets', f) + received'[f] <= 1 + copies'[f]
           /\ received'[f] # received[f] => f \in Sent
  PROVE  CInv'
BY DEF CInv, Accounted

\* A frame that is launched has one packet with its first byte.
LEMMA LaunchedOnce ==
  ASSUME NEW f \in Frame, NEW mtu \in Mtu, NEW id
  PROVE  /\ \A p \in Launch(f, mtu, id) :
              /\ p.data = f
              /\ p.packet.next # "fragment" => ReadOffset(p.packet) = 0
         /\ \E x : Starts(Launch(f, mtu, id), f) \subseteq {x}
<1>1. /\ mtu \in MinMtu .. MaxMtu /\ FrameLength[f] \in Nat
      /\ ~Oversize(FrameLength[f])
  BY LinkAssumption
<1> DEFINE ps == Packets(FrameLength[f], mtu)
           Shot(i) == [packet |-> ps[i], id |-> id, data |-> f, copy |-> 0]
<1>2. Launch(f, mtu, id) = {Shot(i) : i \in DOMAIN ps}
  BY DEF Launch
<1>3. \A i \in DOMAIN ps : Shot(i).packet = ps[i] /\ Shot(i).data = f
  OBVIOUS
<1>4. CASE FitsWhole(FrameLength[f], mtu)
  <2>1. ps = <<WholePacket(FrameLength[f])>>
    BY <1>4 DEF Packets
  <2>2. ReadOffset(WholePacket(FrameLength[f])) = 0
    BY DEF ReadOffset, WholePacket
  <2>3. DOMAIN ps = {1} /\ ps[1] = WholePacket(FrameLength[f])
    BY <2>1
  <2> HIDE DEF ps
  <2>4. Starts(Launch(f, mtu, id), f) \subseteq {Shot(1)}
    BY <1>2, <2>3 DEF Starts
  <2> HIDE DEF Shot
  <2> QED
    BY <1>2, <1>3, <2>2, <2>3, <2>4
<1>5. CASE ~FitsWhole(FrameLength[f], mtu)
  <2> DEFINE n == Count(FrameLength[f], mtu)
             c == Chunk(mtu)
  <2>1. ps = [i \in 1 .. n |-> FragmentPacket(FrameLength[f], mtu, i)]
    BY <1>5 DEF Packets
  <2>2. c \in Nat /\ 16 <= c /\ n \in Nat
    BY <1>1, ChunkBounds, CountBounds
  <2>3. DOMAIN ps = 1 .. n
        /\ \A i \in 1 .. n : ps[i] = FragmentPacket(FrameLength[f], mtu, i)
    BY <2>1
  <2> HIDE DEF ps
  <2>4. \A i \in 1 .. n : ps[i].next = "fragment"
    BY <2>3 DEF FragmentPacket
  <2>5. \A i \in 1 .. n : ReadOffset(ps[i]) = (i - 1) * c
    BY <1>1, <2>3, FragmentRead
  <2> HIDE DEF n, c
  <2>6. ASSUME NEW i \in 1 .. n, ReadOffset(ps[i]) = 0
        PROVE  i = 1
    <3>1. (i - 1) * c = 0 /\ i - 1 \in Nat
      BY <2>2, <2>5, <2>6
    <3>2. CASE 1 <= i - 1
      <4>1. 1 * c <= (i - 1) * c
        BY <2>2, <3>1, <3>2, TimesMonotone
      <4> QED
        BY <2>2, <3>1, <4>1
    <3> QED
      BY <2>2, <3>1, <3>2
  <2> HIDE DEF Shot
  <2>7. Starts(Launch(f, mtu, id), f) \subseteq {Shot(1)}
    BY <1>2, <1>3, <2>3, <2>6 DEF Starts
  <2>8. ASSUME NEW p \in Launch(f, mtu, id)
        PROVE  p.data = f /\ p.packet.next = "fragment"
    <3>1. PICK i \in 1 .. n : p = Shot(i)
      BY <1>2, <2>3
    <3> QED
      BY <1>3, <2>3, <2>4, <3>1
  <2>9. \E x : Starts(Launch(f, mtu, id), f) \subseteq {x}
    BY <2>7
  <2> QED
    BY <2>8, <2>9
<1> QED
  BY <1>4, <1>5

\* A frame is taken from the near LAN, whole or in fragments.
LEMMA SendsOnce ==
  ASSUME CInv, IInv', NEW f \in Frame, NEW mtu \in Mtu, NEW id, f \notin Sent,
         net' = net \cup Launch(f, mtu, id), Sent' = Sent \cup {f},
         UNCHANGED <<copies, packets, received>>
  PROVE  CInv'
<1>1. copies' \in [Frame -> Nat]
  BY DEF CInv, Accounted
<1>2. \A p \in net' : p \in net \/
         (p.packet.next # "fragment" => ReadOffset(p.packet) = 0)
  BY LaunchedOnce
<1>3. ASSUME NEW g \in Frame
      PROVE  /\ IsFiniteSet(Starts(net', g))
             /\ Carried(net', packets', g) + received'[g] <= 1 + copies'[g]
  <2>1. Starts(net', g)
          = Starts(net, g) \cup Starts(Launch(f, mtu, id), g)
    BY DEF Starts
  <2>2. CASE g # f
    <3>1. Starts(net', g) = Starts(net, g)
      BY <2>1, <2>2, LaunchedOnce DEF Starts
    <3> QED
      BY <3>1, AccountTypes DEF Carried
  <2>3. CASE g = f
    <3>1. Starts(net, g) = {} /\ ~Begun(packets, g) /\ received[g] = 0
      BY <2>3, NoTrace
    <3>2. PICK x : Starts(net', g) \subseteq {x}
      BY <2>1, <2>3, <3>1, LaunchedOnce
    <3>3. /\ IsFiniteSet(Starts(net', g)) /\ Cardinality(Starts(net', g)) \in Nat
          /\ Cardinality(Starts(net', g)) <= 1
      <4>1. IsFiniteSet({x}) /\ Cardinality({x}) = 1
        BY FS_Singleton
      <4>2. Starts(net', g) \in SUBSET {x}
        BY <3>2
      <4> QED
        BY <4>1, <4>2, FS_Subset, FS_CardinalityType
    <3>4. Carried(net', packets', g) = Cardinality(Starts(net', g))
      BY <3>1, <3>3 DEF Carried
    <3>5. copies[g] \in Nat
      BY AccountTypes
    <3> QED
      BY <3>1, <3>3, <3>4, <3>5
  <2> QED
    BY <2>2, <2>3
<1> QED
  BY <1>1, <1>2, <1>3, Balanced

\* The network repeats a packet.
LEMMA RepeatBalanced ==
  ASSUME CInv, IInv', NEW p \in net, Repeat(p)
  PROVE  CInv'
<1> DEFINE x == [p EXCEPT !.copy = copies'[p.data]]
<1>1. /\ net' = net \cup {x} /\ UNCHANGED <<packets, received>> /\ Sent' = Sent
      /\ copies' = [copies EXCEPT ![p.data] = @ + 1]
      /\ x.data = p.data /\ x.packet = p.packet
  BY DEF Repeat, near, far, Sent
<1> HIDE DEF x
<1>2. copies \in [Frame -> Nat] /\ p.data \in Frame
  BY DEF CInv, Accounted, IInv, NetLogged, InFlight, Sent
<1>3. copies' \in [Frame -> Nat]
  BY <1>1, <1>2
<1>4. \A q \in net' : q \in net \/
         (q.packet.next # "fragment" => ReadOffset(q.packet) = 0)
  BY <1>1 DEF CInv, Accounted
<1>5. ASSUME NEW g \in Frame
      PROVE  /\ IsFiniteSet(Starts(net', g))
             /\ Carried(net', packets', g) + received'[g] <= 1 + copies'[g]
  <2>1. /\ IsFiniteSet(Starts(net, g)) /\ Cardinality(Starts(net, g)) \in Nat
        /\ received[g] \in Nat /\ copies[g] \in Nat
        /\ Carried(net, packets, g) + received[g] <= 1 + copies[g]
    BY AccountTypes
  <2>2. /\ IsFiniteSet(Starts(net', g))
        /\ Cardinality(Starts(net', g)) \in Nat
        /\ Cardinality(Starts(net', g)) <= Cardinality(Starts(net, g)) + 1
        /\ p.data # g => Starts(net', g) = Starts(net, g)
    BY <1>1, <2>1, StartsMore
  <2>3. CASE g = p.data
    <3>1. copies'[g] = copies[g] + 1
      BY <1>1, <1>2, <2>3
    <3> QED
      BY <1>1, <2>1, <2>2, <3>1 DEF Carried
  <2>4. CASE g # p.data
    <3>1. copies'[g] = copies[g]
      BY <1>1, <1>2, <2>4
    <3> QED
      BY <1>1, <2>1, <2>2, <2>4, <3>1 DEF Carried
  <2> QED
    BY <2>3, <2>4
<1> QED
  BY <1>1, <1>3, <1>4, <1>5, Balanced

\* What one step puts on the far LAN: nothing, a frame that was sent and has
\* not been received more often than its packets were repeated, or, when the
\* identifications have begun again, something that is no frame.
Gives ==
  \/ UNCHANGED received
  \/ \E f \in Sent : /\ received[f] <= copies[f]
                     /\ received' = [received EXCEPT ![f] = @ + 1]
  \/ epoch > 0 /\ received' = [received EXCEPT ![Mangled] = @ + 1]

\* Steps that put nothing on the far LAN and carry no more than before.
LEMMA QuietBalanced ==
  ASSUME CInv, IInv', UNCHANGED <<copies, received>>, net' \in SUBSET net,
         Sent' = Sent,
         \A f \in Frame : Begun(packets', f) => Begun(packets, f)
  PROVE  CInv'
<1>1. ASSUME NEW g \in Frame
      PROVE  /\ IsFiniteSet(Starts(net', g))
             /\ Carried(net', packets', g) + received'[g] <= 1 + copies'[g]
  <2>1. /\ IsFiniteSet(Starts(net, g)) /\ Cardinality(Starts(net, g)) \in Nat
        /\ received[g] \in Nat /\ copies[g] \in Nat
        /\ Carried(net, packets, g) + received[g] <= 1 + copies[g]
    BY AccountTypes
  <2>2. /\ IsFiniteSet(Starts(net', g)) /\ Cardinality(Starts(net', g)) \in Nat
        /\ Cardinality(Starts(net', g)) <= Cardinality(Starts(net, g))
    BY <2>1, StartsFewer
  <2>3. Begun(packets', g) => Begun(packets, g)
    OBVIOUS
  <2> QED
    BY <2>1, <2>2, <2>3 DEF Carried
<1>2. copies' \in [Frame -> Nat]
  BY DEF CInv, Accounted
<1> QED
  BY <1>1, <1>2, Balanced

\* A frame is put on the far LAN, and carried once less for it.
LEMMA DeliveredBalanced ==
  ASSUME CInv, IInv', UNCHANGED copies, net' \in SUBSET net, Sent' = Sent,
         NEW f \in Sent, received' = [received EXCEPT ![f] = @ + 1],
         \A g \in Frame : Begun(packets', g) => Begun(packets, g),
         \/ Begun(packets, f) /\ ~Begun(packets', f)
         \/ Cardinality(Starts(net', f)) = Cardinality(Starts(net, f)) - 1
  PROVE  CInv' /\ Gives
<1>1. f \in Frame /\ received \in [Frame \cup {Mangled} -> Nat]
  BY DEF Sent, CInv, IInv, LogType
<1>2. ASSUME NEW g \in Frame
      PROVE  /\ IsFiniteSet(Starts(net', g))
             /\ Carried(net', packets', g) <= Carried(net, packets, g)
             /\ Carried(net', packets', g) \in Nat
             /\ Carried(net, packets, g) \in Nat
             /\ received[g] \in Nat /\ copies[g] \in Nat
             /\ Carried(net, packets, g) + received[g] <= 1 + copies[g]
  <2>1. /\ IsFiniteSet(Starts(net, g)) /\ Cardinality(Starts(net, g)) \in Nat
        /\ received[g] \in Nat /\ copies[g] \in Nat
        /\ Carried(net, packets, g) + received[g] <= 1 + copies[g]
    BY AccountTypes
  <2>2. /\ IsFiniteSet(Starts(net', g)) /\ Cardinality(Starts(net', g)) \in Nat
        /\ Cardinality(Starts(net', g)) <= Cardinality(Starts(net, g))
    BY <2>1, StartsFewer
  <2>3. Begun(packets', g) => Begun(packets, g)
    OBVIOUS
  <2> QED
    BY <2>1, <2>2, <2>3 DEF Carried
<1>3. Carried(net', packets', f) <= Carried(net, packets, f) - 1
  <2>1. /\ Cardinality(Starts(net, f)) \in Nat
        /\ Cardinality(Starts(net', f)) \in Nat
        /\ Cardinality(Starts(net', f)) <= Cardinality(Starts(net, f))
    BY <1>1, AccountTypes, StartsFewer
  <2>2. Begun(packets', f) => Begun(packets, f)
    BY <1>1
  <2> QED
    BY <2>1, <2>2 DEF Carried
<1>4. received[f] <= copies[f]
  BY <1>1, <1>2, <1>3
<1>5. \A g \in Frame : received'[g] = IF g = f THEN received[g] + 1 ELSE received[g]
  BY <1>1
<1>6. \A g \in Frame : Carried(net', packets', g) + received'[g] <= 1 + copies'[g]
  BY <1>1, <1>2, <1>3, <1>5
<1>7. \A g \in Frame : received'[g] # received[g] => g \in Sent
  BY <1>5
<1>8. copies' \in [Frame -> Nat]
  BY DEF CInv, Accounted
<1>9. CInv'
  BY <1>2, <1>6, <1>7, <1>8, Balanced
<1> QED
  BY <1>4, <1>9 DEF Gives

\* Something that is no frame is put on the far LAN.
LEMMA MangledBalanced ==
  ASSUME CInv, IInv', UNCHANGED copies, net' \in SUBSET net, Sent' = Sent,
         epoch > 0, received' = [received EXCEPT ![Mangled] = @ + 1],
         \A f \in Frame : Begun(packets', f) => Begun(packets, f)
  PROVE  CInv' /\ Gives
<1>1. \A g \in Frame : received'[g] = received[g]
  BY LinkAssumption DEF CInv, IInv, LogType
<1>2. ASSUME NEW g \in Frame
      PROVE  /\ IsFiniteSet(Starts(net', g))
             /\ Carried(net', packets', g) + received'[g] <= 1 + copies'[g]
  <2>1. /\ IsFiniteSet(Starts(net, g)) /\ Cardinality(Starts(net, g)) \in Nat
        /\ received[g] \in Nat /\ copies[g] \in Nat
        /\ Carried(net, packets, g) + received[g] <= 1 + copies[g]
    BY AccountTypes
  <2>2. /\ IsFiniteSet(Starts(net', g)) /\ Cardinality(Starts(net', g)) \in Nat
        /\ Cardinality(Starts(net', g)) <= Cardinality(Starts(net, g))
    BY <2>1, StartsFewer
  <2>3. Begun(packets', g) => Begun(packets, g)
    OBVIOUS
  <2> QED
    BY <1>1, <2>1, <2>2, <2>3 DEF Carried
<1>3. copies' \in [Frame -> Nat]
  BY DEF CInv, Accounted
<1>4. CInv'
  BY <1>1, <1>2, <1>3, Balanced
<1> QED
  BY <1>4 DEF Gives

\* What insert has after sorting is the fragment it was given and the ones
\* it had.
LEMMA ArrangedFrom ==
  ASSUME IInv, NEW p \in net, p.packet.next = "fragment", Accepted(p.packet),
         NEW s \in R!Sort(Append(R!Entry(p.id).fragments, Cut(p))),
         NEW i \in DOMAIN s
  PROVE  \/ s[i] = Cut(p)
         \/ /\ packets[p.id] # None
            /\ \E j \in DOMAIN packets[p.id].fragments :
                 s[i] = packets[p.id].fragments[j]
<1> DEFINE old == R!Entry(p.id).fragments
           longer == Append(old, Cut(p))
<1>1. /\ p.data \in Frame /\ p.id \in Id
      /\ p.packet.length \in Nat /\ p.packet.field \in Nat
  BY DEF IInv, NetLogged, InFlight, Sent
<1>2. ReadOffset(p.packet) \in Nat /\ ReadLength(p.packet) \in Nat
  BY <1>1 DEF Accepted, ReadOffset, ReadLength, FragmentHeader
<1>3. Cut(p) \in R!Fragment
  BY <1>1, <1>2 DEF Cut, R!Fragment
<1>4. old \in Seq(R!Fragment)
  BY <1>1, EntryLogged DEF Entries
<1>5. /\ longer \in Seq(R!Fragment) /\ Len(longer) = Len(old) + 1
      /\ \A j \in 1 .. Len(old) : longer[j] = old[j]
      /\ longer[Len(old) + 1] = Cut(p)
      /\ DOMAIN old = 1 .. Len(old) /\ Len(old) \in Nat
      /\ DOMAIN longer = 1 .. Len(longer)
  BY <1>3, <1>4, AppendProperties, LenProperties
<1>6. PICK j \in DOMAIN longer : s[i] = longer[j]
  BY <1>5, SortKeepsElements
<1> HIDE DEF longer
<1>7. CASE j = Len(old) + 1
  BY <1>5, <1>6, <1>7
<1>8. CASE j # Len(old) + 1
  <2>1. j \in DOMAIN old /\ s[i] = old[j]
    BY <1>5, <1>6, <1>8
  <2>2. packets[p.id] # None
    BY <2>1 DEF R!Entry, R!Fresh
  <2> QED
    BY <2>1, <2>2 DEF R!Entry
<1> QED
  BY <1>7, <1>8

\* A fragment moves from flight into the table.
LEMMA StoredBalanced ==
  ASSUME CInv, IInv', NEW p \in net, net' = net \ {p}, Sent' = Sent,
         UNCHANGED <<copies, received>>,
         \A f \in Frame : Begun(packets', f) =>
           Begun(packets, f) \/ (f = p.data /\ ReadOffset(p.packet) = 0)
  PROVE  CInv'
<1>1. ASSUME NEW g \in Frame
      PROVE  /\ IsFiniteSet(Starts(net', g))
             /\ Carried(net', packets', g) + received'[g] <= 1 + copies'[g]
  <2>1. /\ IsFiniteSet(Starts(net, g)) /\ Cardinality(Starts(net, g)) \in Nat
        /\ received[g] \in Nat /\ copies[g] \in Nat
        /\ Carried(net, packets, g) + received[g] <= 1 + copies[g]
    BY AccountTypes
  <2>2. /\ IsFiniteSet(Starts(net', g)) /\ Cardinality(Starts(net', g)) \in Nat
        /\ Cardinality(Starts(net', g)) <= Cardinality(Starts(net, g))
    BY <2>1, StartsFewer
  <2>3. CASE Begun(packets', g) => Begun(packets, g)
    BY <2>1, <2>2, <2>3 DEF Carried
  <2>4. CASE g = p.data /\ ReadOffset(p.packet) = 0
    <3>1. Cardinality(Starts(net', g)) = Cardinality(Starts(net, g)) - 1
      BY <2>1, <2>4, StartsGone
    <3> QED
      BY <2>1, <2>2, <3>1 DEF Carried
  <2> QED
    BY <2>3, <2>4
<1>2. copies' \in [Frame -> Nat]
  BY DEF CInv, Accounted
<1> QED
  BY <1>1, <1>2, Balanced

\* Removing a key of the table, or nothing.
LEMMA RemovalCarriesLess ==
  ASSUME IInv, NEW k \in Id, R!Remove(k) \/ packets' = packets
  PROVE  /\ \A f \in Frame : Begun(packets', f) => Begun(packets, f)
         /\ \A f \in Sent : R!Remove(k) /\ log[f].id = k => ~Begun(packets', f)
<1>1. packets \in [Id -> Entries \cup {None}]
  BY DEF IInv, TableLogged
<1>2. CASE R!Remove(k)
  <2>1. /\ packets'[k] = None
        /\ \A q \in Id \ {k} : packets'[q] = packets[q]
    BY <1>1, <1>2 DEF R!Remove
  <2>2. \A f \in Frame : Begun(packets', f) => Begun(packets, f)
    BY <2>1 DEF Begun
  <2>3. ASSUME NEW f \in Sent, log[f].id = k, Begun(packets', f)
        PROVE  FALSE
    <3>1. PICK q \in Id : /\ packets'[q] # None
                          /\ \E i \in DOMAIN packets'[q].fragments :
                               packets'[q].fragments[i].data = f
      BY <2>3 DEF Begun
    <3>2. packets[q] # None /\ packets'[q] = packets[q] /\ q # k
      BY <2>1, <3>1
    <3> QED
      BY <2>3, <3>1, <3>2 DEF IInv, TableLogged, Filed
  <2> QED
    BY <2>2, <2>3
<1>3. CASE packets' = packets /\ ~R!Remove(k)
  BY <1>3
<1> QED
  BY <1>2, <1>3

\* A fragment given to insert.
LEMMA DeliverFragmentBalanced ==
  ASSUME CInv, IInv', NEW p \in net, p.packet.next = "fragment",
         DeliverFragment(p), net' = net \ {p}, UNCHANGED <<near, copies>>
  PROVE  CInv' /\ Gives
<1> DEFINE k == p.id
           frag == Cut(p)
           more == ReadMore(p.packet)
           old == R!Entry(k).fragments
<1>1. Accepted(p.packet) /\ R!Insert(k, frag, more) /\ IInv
  BY DEF DeliverFragment, Cut, CInv
<1>2. /\ k \in Id /\ p.data \in Sent
      /\ packets \in [Id -> Entries \cup {None}]
      /\ net' \in SUBSET net /\ Sent' = Sent /\ UNCHANGED copies
  BY <1>1 DEF IInv, NetLogged, InFlight, TableLogged, near, Sent
<1>3. CASE (R!Remove(k) \/ packets' = packets) /\ UNCHANGED received
  BY <1>1, <1>2, <1>3, RemovalCarriesLess, QuietBalanced DEF Gives
<1>4. lastInsert'.out = None => UNCHANGED received
  BY DEF DeliverFragment
<1>5. \A out : R!Returns(k, frag, more, out) => lastInsert'.out = out
  BY DEF R!Returns
<1>6. CASE \/ R!InsertMalformed(k, frag, more)
           \/ R!InsertDiscards(k, frag, more)
           \/ R!InsertRefused(k, frag, more)
  BY <1>3, <1>4, <1>5, <1>6
     DEF R!InsertMalformed, R!InsertDiscards, R!InsertRefused
<1>7. frag.off = ReadOffset(p.packet) /\ frag.data = p.data
  BY DEF Cut
<1>8. CASE R!InsertStores(k, frag, more)
  <2>1. PICK s \in R!Sort(Append(old, frag)) :
          packets' = [packets EXCEPT ![k] =
            [idle |-> 0, total |-> R!Total(k, frag, more), fragments |-> s]]
    BY <1>8 DEF R!InsertStores
  <2>2. UNCHANGED received
    BY <1>4, <1>5, <1>8 DEF R!InsertStores
  <2>3. /\ packets'[k].fragments = s
        /\ \A q \in Id \ {k} : packets'[q] = packets[q]
    BY <1>2, <2>1
  <2>4. ASSUME NEW i \in DOMAIN s
        PROVE  \/ s[i] = frag
               \/ /\ packets[k] # None
                  /\ \E j \in DOMAIN packets[k].fragments :
                       s[i] = packets[k].fragments[j]
    BY <1>1, <2>1, ArrangedFrom
  <2>5. ASSUME NEW g \in Frame, Begun(packets', g)
        PROVE  Begun(packets, g) \/ (g = p.data /\ ReadOffset(p.packet) = 0)
    <3>1. PICK q \in Id : /\ packets'[q] # None
                          /\ \E i \in DOMAIN packets'[q].fragments :
                               /\ packets'[q].fragments[i].off = 0
                               /\ packets'[q].fragments[i].data = g
      BY <2>5 DEF Begun
    <3>2. CASE q # k
      BY <2>3, <3>1, <3>2 DEF Begun
    <3>3. CASE q = k
      <4>1. PICK i \in DOMAIN s : s[i].off = 0 /\ s[i].data = g
        BY <2>3, <3>1, <3>3
      <4> HIDE DEF frag, k
      <4> QED
        BY <1>2, <1>7, <2>4, <4>1 DEF Begun
    <3> QED
      BY <3>2, <3>3
  <2>6. CInv'
    BY <1>2, <2>2, <2>5, StoredBalanced
  <2> QED
    BY <2>2, <2>6 DEF Gives
<1>9. CASE R!InsertCompletes(k, frag, more)
  <2>1. PICK s \in R!Sort(Append(old, frag)) :
          /\ R!Complete(s, R!Total(k, frag, more))
          /\ R!Returns(k, frag, more, s)
    BY <1>9 DEF R!InsertCompletes
  <2>2. /\ s \in Seq(R!Fragment) /\ Len(s) \in Nat \ {0} /\ Filed(k, s)
        /\ OfAFrame(s, R!Total(k, frag, more))
        /\ R!Total(k, frag, more) \in Nat \cup {None}
    BY <1>1, <2>1, ArrangedLogged
  <2>3. lastInsert'.out = s /\ R!Remove(k)
    BY <1>5, <1>9, <2>1 DEF R!InsertCompletes
  <2>4. CASE s = None
    BY <1>3, <1>4, <2>3, <2>4
  <2>5. 1 \in DOMAIN s
    BY <2>2, LenProperties
  <2>6. s[1].data \in Sent /\ log[s[1].data].id = k /\ s[1].off = 0
    BY <2>1, <2>2, <2>5 DEF Filed, R!Complete, R!Contiguous
  <2>7. \A f \in Frame : Begun(packets', f) => Begun(packets, f)
    BY <1>1, <1>2, <2>3, RemovalCarriesLess
  <2>8. CASE s # None /\ Original(s)
    <3> DEFINE f == s[1].data
    <3>1. received' = [received EXCEPT ![f] = @ + 1]
      BY <2>3, <2>8 DEF DeliverFragment, Forward
    <3>2. f \in Sent /\ f \in Frame
      BY <2>6 DEF Sent
    <3>3. \/ s[1] = frag
          \/ /\ packets[k] # None
             /\ \E j \in DOMAIN packets[k].fragments :
                  s[1] = packets[k].fragments[j]
      BY <1>1, <2>1, <2>5, ArrangedFrom
    <3>4. CASE s[1] = frag
      <4>1. f = p.data /\ ReadOffset(p.packet) = 0
        BY <1>7, <2>6, <3>4
      <4>2. Cardinality(Starts(net', f)) = Cardinality(Starts(net, f)) - 1
        BY <3>2, <4>1, AccountTypes, StartsGone
      <4> HIDE DEF f
      <4> QED
        BY <1>2, <2>7, <3>1, <3>2, <4>2, DeliveredBalanced
    <3>5. CASE s[1] # frag
      <4>1. Begun(packets, f)
        BY <1>2, <2>6, <3>3, <3>5 DEF Begun
      <4>2. ~Begun(packets', f)
        BY <1>1, <1>2, <2>3, <2>6, RemovalCarriesLess
      <4> HIDE DEF f
      <4> QED
        BY <1>2, <2>7, <3>1, <3>2, <4>1, <4>2, DeliveredBalanced
    <3> QED
      BY <3>4, <3>5
  <2>9. CASE s # None /\ ~Original(s)
    <3>1. received' = [received EXCEPT ![Mangled] = @ + 1]
      BY <2>3, <2>9 DEF DeliverFragment, Forward
    <3>2. epoch > 0
      <4>1. epoch # 0
        BY <1>1, <1>2, <2>1, <2>2, <2>9, CompletedIsOriginal
      <4> QED
        BY <1>1, <4>1 DEF IInv, LogType
    <3> QED
      BY <1>2, <2>7, <3>1, <3>2, MangledBalanced
  <2> QED
    BY <2>4, <2>8, <2>9
<1> QED
  BY <1>1, <1>6, <1>8, <1>9 DEF R!Insert

\* Any packet that arrives.
LEMMA DeliverBalanced ==
  ASSUME CInv, NEW p \in net, Deliver(p)
  PROVE  CInv' /\ Gives
<1>1. IInv /\ IInv'
  BY DeliverKeepsIInv DEF CInv
<1>2. /\ net' = net \ {p} /\ UNCHANGED <<near, copies>> /\ near' = near
      /\ Sent' = Sent /\ net' \in SUBSET net /\ UNCHANGED copies
  BY DEF Deliver, near, Sent
<1>3. CASE DeliverWhole(p)
  <2>1. /\ packets' = packets /\ received' = [received EXCEPT ![p.data] = @ + 1]
        /\ p.packet.next # "fragment"
    BY <1>3 DEF DeliverWhole, Forward
  <2>2. p.data \in Sent /\ p.data \in Frame
    BY <1>1 DEF IInv, NetLogged, InFlight, Sent
  <2>3. ReadOffset(p.packet) = 0
    BY <2>1 DEF CInv, Accounted
  <2>4. Cardinality(Starts(net', p.data)) = Cardinality(Starts(net, p.data)) - 1
    BY <1>2, <2>2, <2>3, AccountTypes, StartsGone
  <2> QED
    BY <1>1, <1>2, <2>1, <2>2, <2>4, DeliveredBalanced
<1>4. CASE DeliverFragment(p)
  <2>1. p.packet.next = "fragment"
    BY <1>4 DEF DeliverFragment, Accepted
  <2> QED
    BY <1>1, <1>2, <1>4, <2>1, DeliverFragmentBalanced
<1> QED
  BY <1>3, <1>4 DEF Deliver

\* Steps that put nothing on the far LAN, send nothing and carry no more.
LEMMA OtherBalanced ==
  ASSUME CInv, \/ RestartNear \/ Tick \/ Expire \/ RestartFar
               \/ UNCHANGED vars \/ \E p \in net : Lose(p)
  PROVE  CInv' /\ UNCHANGED <<log, copies, received>>
<1>1. /\ UNCHANGED <<log, copies, received>> /\ net' \in SUBSET net
      /\ Sent' = Sent
  BY DEF RestartNear, Tick, Expire, RestartFar, Lose, vars, near, network, far,
         Sent
<1>2. IInv'
  BY NextKeepsIInv DEF CInv, Next
<1>3. \A k \in Id : packets'[k] # None =>
        /\ packets[k] # None
        /\ packets'[k].fragments = packets[k].fragments
  <2>1. packets \in [Id -> Entries \cup {None}]
    BY DEF CInv, IInv, TableLogged
  <2>2. CASE packets' = packets
    BY <2>2
  <2>3. CASE RestartFar
    BY <2>3 DEF RestartFar
  <2>4. CASE Expire
    BY <2>4 DEF Expire, R!Expire
  <2>5. CASE Tick
    <3> SUFFICES ASSUME NEW k \in Id, packets'[k] # None
                 PROVE  /\ packets[k] # None
                        /\ packets'[k].fragments = packets[k].fragments
      OBVIOUS
    <3>1. /\ packets[k] # None
          /\ packets'[k] \in {packets[k], [packets[k] EXCEPT !.idle = @ + 1]}
      BY <2>5 DEF Tick, R!Tick
    <3> QED
      BY <2>1, <3>1 DEF Entries
  <2> QED
    BY <2>2, <2>3, <2>4, <2>5 DEF RestartNear, Lose, vars, far
<1>4. \A f \in Frame : Begun(packets', f) => Begun(packets, f)
  BY <1>3 DEF Begun
<1> QED
  BY <1>1, <1>2, <1>4, QuietBalanced

\* A frame that is sent is logged, and nothing else happens to the far LAN.
LEMMA SendBalanced ==
  ASSUME CInv, NEW f \in Frame, NEW mtu \in Mtu,
         SendWhole(f, mtu) \/ SendFragments(f, mtu)
  PROVE  /\ CInv' /\ f \notin Sent /\ Sent' = Sent \cup {f}
         /\ UNCHANGED <<copies, received>>
         /\ epoch' = epoch \/ epoch' = epoch + 1
<1>1. /\ f \notin Sent /\ UNCHANGED <<copies, packets, received>>
      /\ epoch' = epoch \/ epoch' = epoch + 1
  BY DEF SendWhole, SendFragments, NextId, far
<1>2. IInv /\ IInv'
  BY SendWholeKeepsIInv, SendFragmentsKeepsIInv DEF CInv
<1>3. /\ fragId \in Id /\ epoch \in Nat
      /\ log \in [Frame -> [epoch : Nat, id : Id \cup {None}] \cup {None}]
  BY <1>2 DEF IInv, LogType
<1>4. PICK id \in Id \cup {None} :
        /\ net' = net \cup Launch(f, mtu, id)
        /\ log' = [log EXCEPT ![f] = [epoch |-> epoch, id |-> id]]
  BY <1>3 DEF SendWhole, SendFragments
<1>5. [epoch |-> epoch, id |-> id] # None
  BY <1>3, LinkAssumption DEF Id
<1>6. Sent' = Sent \cup {f}
  BY <1>3, <1>4, <1>5 DEF Sent
<1> QED
  BY <1>1, <1>2, <1>4, <1>6, SendsOnce

-----------------------------------------------------------------------------
(* The refinement.                                                         *)

\* The initial states are the channel's.
LEMMA InitImplements == Init => Channel!Init
BY DEF Init, Channel!Init, Sent

\* Every step is one of the channel, or none.
LEMMA NextImplements ==
  ASSUME CInv, [Next]_vars
  PROVE  CInv' /\ [Channel!Next]_(Channel!vars)
<1>1. epoch \in Nat
  BY DEF CInv, IInv, LogType
<1>2. ASSUME NEW f \in Frame, NEW mtu \in Mtu,
             SendWhole(f, mtu) \/ SendFragments(f, mtu)
      PROVE  CInv' /\ Channel!Send(f)
  <2>1. /\ CInv' /\ f \notin Sent /\ Sent' = Sent \cup {f}
        /\ UNCHANGED <<copies, received>>
        /\ epoch' = epoch \/ epoch' = epoch + 1
    BY <1>2, SendBalanced
  <2>2. (epoch' > 0) = (epoch > 0) \/ (epoch' > 0) = TRUE
    <3>1. epoch' = epoch \/ epoch' > 0
      BY <1>1, <2>1
    <3> QED
      BY <3>1
  <2> QED
    BY <2>1, <2>2 DEF Channel!Send
<1>3. ASSUME NEW p \in net, Repeat(p)
      PROVE  CInv' /\ p.data \in Frame /\ Channel!Repeat(p.data)
  <2>1. CInv'
    BY <1>3, RepeatBalanced, NetworkKeepsIInv DEF CInv
  <2>2. p.data \in Sent /\ p.data \in Frame
    BY DEF CInv, IInv, NetLogged, InFlight, Sent
  <2>3. /\ copies' = [copies EXCEPT ![p.data] = @ + 1]
        /\ Sent' = Sent /\ epoch' = epoch /\ received' = received
    BY <1>3 DEF Repeat, near, far, Sent
  <2> QED
    BY <2>1, <2>2, <2>3 DEF Channel!Repeat
<1>4. ASSUME NEW p \in net, Deliver(p)
      PROVE  CInv' /\ [Channel!Next]_(Channel!vars)
  <2>1. CInv' /\ Gives
    BY <1>4, DeliverBalanced
  <2>2. Sent' = Sent /\ epoch' = epoch /\ copies' = copies
    BY <1>4 DEF Deliver, near, Sent
  <2>3. CASE UNCHANGED received
    BY <2>1, <2>2, <2>3 DEF Channel!vars
  <2>4. ASSUME NEW f \in Sent, received[f] <= copies[f],
               received' = [received EXCEPT ![f] = @ + 1]
        PROVE  f \in Frame /\ Channel!Deliver(f)
    BY <2>2, <2>4 DEF Channel!Deliver, Sent
  <2>5. ASSUME epoch > 0, received' = [received EXCEPT ![Mangled] = @ + 1]
        PROVE  Channel!DeliverMangled
    BY <2>2, <2>5 DEF Channel!DeliverMangled
  <2> QED
    BY <2>1, <2>3, <2>4, <2>5 DEF Gives, Channel!Next
<1>5. CASE RestartNear
  <2>1. CInv' /\ UNCHANGED <<log, copies, received>> /\ epoch' = epoch + 1
    BY <1>5, OtherBalanced DEF RestartNear
  <2>2. Sent' = Sent /\ epoch' > 0
    BY <1>1, <2>1 DEF Sent
  <2>3. Channel!Renew
    BY <2>1, <2>2 DEF Channel!Renew
  <2> QED
    BY <2>1, <2>3 DEF Channel!Next
<1>6. CASE \/ Tick \/ Expire \/ RestartFar \/ UNCHANGED vars
           \/ \E p \in net : Lose(p)
  <2>1. CInv' /\ UNCHANGED <<log, copies, received>>
    BY <1>6, OtherBalanced
  <2>2. Sent' = Sent /\ epoch' = epoch
    BY <1>6, <2>1 DEF Tick, Expire, RestartFar, Lose, vars, near, Sent
  <2> QED
    BY <2>1, <2>2 DEF Channel!vars
<1>7. \/ \E f \in Frame, mtu \in Mtu : SendWhole(f, mtu) \/ SendFragments(f, mtu)
      \/ \E p \in net : Repeat(p) \/ Deliver(p)
      \/ RestartNear
      \/ Tick \/ Expire \/ RestartFar \/ UNCHANGED vars
      \/ \E p \in net : Lose(p)
  BY DEF Next
<1> QED
  BY <1>2, <1>3, <1>4, <1>5, <1>6, <1>7 DEF Channel!Next

\* A direction of a tunnel implements the channel it promises the two LANs:
\* whatever the network, the clock and the restarts do, every frame put on
\* the far LAN was sent, and no more often than its packets were repeated
\* besides once, until the identifications begin again (etherip.rs:90-149,
\* 179-226, reassembly.rs:22-101).
THEOREM Implements == Spec => ImplementsChannel
<1>1. Init => CInv
  BY InitCInv
<1>2. CInv /\ [Next]_vars => CInv' /\ [Channel!Next]_(Channel!vars)
  BY NextImplements
<1>3. Init => Channel!Init
  BY InitImplements
<1> QED
  BY <1>1, <1>2, <1>3, PTL DEF Spec, ImplementsChannel, Channel!Spec

-----------------------------------------------------------------------------
(* The types of the whole state.                                           *)

\* What insert leaves in the table and returns.
LEMMA InsertTyped ==
  ASSUME IInv, TypeOK, NEW p \in net, DeliverFragment(p)
  PROVE  R!TypeOK'
<1> DEFINE k == p.id
           frag == Cut(p)
           more == ReadMore(p.packet)
           total == R!Total(k, frag, more)
<1>1. p.packet.next = "fragment" /\ Accepted(p.packet)
  BY DEF DeliverFragment, Accepted
<1>2. k \in Id /\ p.data \in Frame
      /\ p.packet.length \in Nat /\ p.packet.field \in Nat
  BY <1>1 DEF IInv, NetLogged, InFlight, Sent
<1>3. ReadOffset(p.packet) \in Nat /\ ReadLength(p.packet) \in Nat
  BY <1>1, <1>2 DEF Accepted, ReadOffset, ReadLength, FragmentHeader
<1>4. frag \in R!Fragment /\ R!End(frag) \in Nat /\ more \in BOOLEAN
  BY <1>2, <1>3 DEF Cut, R!Fragment, R!End, ReadMore
<1>5. R!Insert(k, frag, more)
  BY DEF DeliverFragment, Cut
<1>6. packets \in [Id -> R!Partial \cup {None}]
  BY DEF TypeOK, R!TypeOK
<1>7. R!Entry(k).total \in 0 .. R!MaxPacket \cup {None}
  BY <1>2, <1>6 DEF R!Entry, R!Fresh, R!Partial
<1>8. ASSUME NEW s \in R!Sort(Append(R!Entry(k).fragments, frag))
      PROVE  s \in Seq(R!Fragment)
  BY <1>1, <1>8, ArrangedLogged
<1> HIDE DEF k, frag, more
<1>9. ASSUME NEW out \in Seq(R!Fragment) \cup {None},
             R!Returns(k, frag, more, out)
      PROVE  lastInsert' \in R!Call
  BY <1>2, <1>4, <1>9 DEF R!Returns, R!Call
<1>10. R!Remove(k) => packets' \in [Id -> R!Partial \cup {None}]
  BY <1>6 DEF R!Remove
<1>11. CASE \/ R!InsertMalformed(k, frag, more)
            \/ R!InsertDiscards(k, frag, more)
            \/ R!InsertRefused(k, frag, more)
  BY <1>6, <1>9, <1>10, <1>11
     DEF R!InsertMalformed, R!InsertDiscards, R!InsertRefused, R!TypeOK
<1>12. CASE R!InsertStores(k, frag, more)
  <2>1. PICK s \in R!Sort(Append(R!Entry(k).fragments, frag)) :
          packets' = [packets EXCEPT ![k] =
                        [idle |-> 0, total |-> total, fragments |-> s]]
    BY <1>12 DEF R!InsertStores
  <2>2. R!Returns(k, frag, more, None)
    BY <1>12 DEF R!InsertStores
  <2>3. R!End(frag) <= R!MaxPacket
    BY <1>4, <1>12 DEF R!InsertStores, R!Malformed, R!MaxPacket
  <2>4. total \in 0 .. R!MaxPacket \cup {None}
    BY <1>4, <1>7, <2>3 DEF R!Total
  <2>5. 0 \in 0 .. Timeout
    BY LinkAssumption
  <2> HIDE DEF total
  <2>6. [idle |-> 0, total |-> total, fragments |-> s] \in R!Partial
    BY <1>8, <2>4, <2>5 DEF R!Partial
  <2>7. packets' \in [Id -> R!Partial \cup {None}]
    BY <1>6, <2>1, <2>6
  <2> QED
    BY <1>9, <2>2, <2>7 DEF R!TypeOK
<1>13. CASE R!InsertCompletes(k, frag, more)
  <2>1. PICK s \in R!Sort(Append(R!Entry(k).fragments, frag)) :
          R!Returns(k, frag, more, s)
    BY <1>13 DEF R!InsertCompletes
  <2>2. R!Remove(k)
    BY <1>13 DEF R!InsertCompletes
  <2> QED
    BY <1>8, <1>9, <1>10, <2>1, <2>2 DEF R!TypeOK
<1> QED
  BY <1>5, <1>11, <1>12, <1>13 DEF R!Insert

\* The clock, expire and a restart keep the table's types.
LEMMA TableTyped ==
  ASSUME TypeOK, Tick \/ Expire \/ RestartFar
  PROVE  R!TypeOK'
<1>1. packets \in [Id -> R!Partial \cup {None}] /\ lastInsert' = None
  BY DEF TypeOK, R!TypeOK, Tick, Expire, RestartFar, R!Tick, R!Expire
<1>2. CASE Tick
  <2>1. ASSUME NEW k \in Id
        PROVE  packets'[k] \in R!Partial \cup {None}
    <3>1. CASE packets[k] = None \/ packets[k].idle = Timeout
      BY <1>1, <1>2, <3>1 DEF Tick, R!Tick
    <3>2. CASE packets[k] # None /\ packets[k].idle # Timeout
      <4>1. packets'[k] = [packets[k] EXCEPT !.idle = @ + 1]
        BY <1>2, <3>2 DEF Tick, R!Tick
      <4>2. packets[k] \in R!Partial
        BY <1>1, <3>2
      <4>3. packets[k].idle \in 0 .. Timeout /\ Timeout \in Nat
        BY <4>2, LinkAssumption DEF R!Partial
      <4>4. packets[k].idle + 1 \in 0 .. Timeout
        BY <3>2, <4>3
      <4> QED
        BY <4>1, <4>2, <4>4 DEF R!Partial
    <3> QED
      BY <3>1, <3>2
  <2>2. DOMAIN packets' = Id /\ packets' = [k \in Id |-> packets'[k]]
    BY <1>2 DEF Tick, R!Tick
  <2> QED
    BY <1>1, <2>1, <2>2 DEF R!TypeOK
<1>3. CASE Expire
  BY <1>1, <1>3 DEF Expire, R!Expire, R!TypeOK
<1>4. CASE RestartFar
  BY <1>4 DEF RestartFar, R!TypeOK
<1> QED
  BY <1>2, <1>3, <1>4

\* Every step keeps the types.
LEMMA NextTyped ==
  ASSUME IInv, TypeOK, [Next]_vars
  PROVE  TypeOK'
<1>1. IInv'
  BY NextKeepsIInv
<1>2. /\ fragId' \in Id /\ epoch' \in Nat
      /\ log' \in [Frame -> [epoch : Nat, id : Id \cup {None}] \cup {None}]
      /\ received' \in [Frame \cup {Mangled} -> Nat]
  BY <1>1 DEF IInv, LogType
<1> DEFINE NetOK == \A p \in net : p.data \in Frame /\ p.id \in Id \cup {None}
           FaultsOK == copies \in [Frame -> 0 .. MaxCopies] /\ lost \subseteq Frame
<1>3. NetOK /\ FaultsOK /\ R!TypeOK /\ fragId \in Id
  BY DEF TypeOK
<1>4. ASSUME NEW f \in Frame, NEW mtu \in Mtu,
             SendWhole(f, mtu) \/ SendFragments(f, mtu)
      PROVE  NetOK' /\ FaultsOK' /\ R!TypeOK'
  <2>1. ASSUME NEW id, NEW p \in Launch(f, mtu, id)
        PROVE  p.data = f /\ p.id = id
    BY DEF Launch
  <2>2. NetOK'
    BY <1>3, <1>4, <2>1 DEF SendWhole, SendFragments
  <2>3. UNCHANGED <<copies, lost, packets, lastInsert>>
    BY <1>4 DEF SendWhole, SendFragments, far
  <2> QED
    BY <1>3, <2>2, <2>3 DEF R!TypeOK
<1>5. ASSUME RestartNear \/ UNCHANGED vars
      PROVE  NetOK' /\ FaultsOK' /\ R!TypeOK'
  BY <1>3, <1>5 DEF RestartNear, vars, network, far, R!TypeOK
<1>6. ASSUME NEW p \in net, Repeat(p)
      PROVE  NetOK' /\ FaultsOK' /\ R!TypeOK'
  <2>1. copies[p.data] \in 0 .. MaxCopies /\ copies[p.data] < MaxCopies
        /\ p.data \in Frame
    BY <1>3, <1>6 DEF Repeat
  <2>2. copies[p.data] + 1 \in 0 .. MaxCopies
    BY <2>1, LinkAssumption
  <2>3. FaultsOK'
    BY <1>3, <1>6, <2>2 DEF Repeat
  <2>4. NetOK'
    <3> DEFINE x == [p EXCEPT !.copy = copies'[p.data]]
    <3>1. net' = net \cup {x}
      BY <1>6 DEF Repeat
    <3>2. x.data = p.data /\ x.id = p.id
      OBVIOUS
    <3> HIDE DEF x
    <3> QED
      BY <1>3, <3>1, <3>2
  <2> QED
    BY <1>3, <1>6, <2>3, <2>4 DEF Repeat, far, R!TypeOK
<1>7. ASSUME NEW p \in net, Lose(p)
      PROVE  NetOK' /\ FaultsOK' /\ R!TypeOK'
  BY <1>3, <1>7 DEF Lose, far, R!TypeOK
<1>8. ASSUME NEW p \in net, Deliver(p)
      PROVE  NetOK' /\ FaultsOK' /\ R!TypeOK'
  <2>1. R!TypeOK'
    <3>1. CASE DeliverWhole(p)
      BY <1>3, <3>1 DEF DeliverWhole, R!TypeOK
    <3>2. CASE DeliverFragment(p)
      BY <3>2, InsertTyped
    <3> QED
      BY <1>8, <3>1, <3>2 DEF Deliver
  <2> QED
    BY <1>3, <1>8, <2>1 DEF Deliver
<1>9. ASSUME Tick \/ Expire \/ RestartFar
      PROVE  NetOK' /\ FaultsOK' /\ R!TypeOK'
  <2>1. R!TypeOK'
    BY <1>9, TableTyped
  <2> QED
    BY <1>3, <1>9, <2>1 DEF Tick, Expire, RestartFar, network
<1>10. NetOK' /\ FaultsOK' /\ R!TypeOK'
  BY <1>4, <1>5, <1>6, <1>7, <1>8, <1>9 DEF Next
<1> QED
  BY <1>2, <1>10 DEF TypeOK

\* Log, table, flight and account keep their types in every behaviour; an
\* announced total fits the length field of an IPv6 packet.
THEOREM TypeCorrect == Spec => []TypeOK
<1>1. Init => IInv /\ TypeOK
  <2> SUFFICES ASSUME Init PROVE TypeOK
    BY InitIInv
  <2>1. LogType
    BY InitIInv DEF IInv
  <2>2. copies \in [Frame -> 0 .. MaxCopies]
    BY LinkAssumption DEF Init
  <2> QED
    BY <2>1, <2>2 DEF Init, TypeOK, LogType, R!Init, R!TypeOK
<1>2. IInv /\ TypeOK /\ [Next]_vars => IInv' /\ TypeOK'
  BY NextKeepsIInv, NextTyped
<1> QED
  BY <1>1, <1>2, PTL DEF Spec

-----------------------------------------------------------------------------
(* No fragment is lost at the far endpoint but for a cause.  m gives the   *)
(* path MTU each frame was cut for.  What is in flight and what is stored  *)
(* are then the pieces of frames, and as long as the network repeated no   *)
(* packet of a frame, no piece of it is in both places: so none overlaps   *)
(* another, and a frame never has more pieces than its count.              *)

Pieces(f, u) == 1 .. Count(FrameLength[f], u)

Piece(f, u, i) ==
  Cut([packet |-> FragmentPacket(FrameLength[f], u, i), data |-> f])

\* Where a piece lies, and that insert takes it.
LEMMA PieceFacts ==
  ASSUME NEW f \in Frame, NEW u \in MinMtu .. MaxMtu, NEW i \in Pieces(f, u)
  PROVE  /\ Count(FrameLength[f], u) \in Nat
         /\ i \in Nat /\ 1 <= i /\ i <= Count(FrameLength[f], u)
         /\ Piece(f, u, i) \in R!Fragment /\ Piece(f, u, i).data = f
         /\ Piece(f, u, i).off = (i - 1) * Chunk(u)
         /\ Piece(f, u, i).len > 0
         /\ R!End(Piece(f, u, i)) \in Nat
         /\ i < Count(FrameLength[f], u) =>
              /\ R!End(Piece(f, u, i)) = i * Chunk(u)
              /\ R!End(Piece(f, u, i)) < Payload(FrameLength[f])
         /\ i = Count(FrameLength[f], u) =>
              R!End(Piece(f, u, i)) = Payload(FrameLength[f])
         /\ ReadMore(FragmentPacket(FrameLength[f], u, i))
              <=> i < Count(FrameLength[f], u)
         /\ Accepted(FragmentPacket(FrameLength[f], u, i))
         /\ ~R!Malformed(Piece(f, u, i),
                         ReadMore(FragmentPacket(FrameLength[f], u, i)))
<1> DEFINE n == Count(FrameLength[f], u)
           c == Chunk(u)
           total == Payload(FrameLength[f])
           x == FragmentPacket(FrameLength[f], u, i)
           g == Piece(f, u, i)
<1>1. FrameLength[f] \in Nat /\ ~Oversize(FrameLength[f])
  BY LinkAssumption
<1>2. /\ c \in Nat /\ 16 <= c /\ c % 8 = 0
      /\ n \in Nat /\ (n - 1) * c < total /\ total <= n * c
  BY <1>1, ChunkBounds, CountBounds
<1>3. total \in Nat /\ total <= 65535
  BY <1>1 DEF Oversize, Payload, EtherIPHeader, U16
<1>4. /\ Accepted(x) /\ x.length \in Nat /\ x.field \in Nat
      /\ ReadOffset(x) = (i - 1) * c
      /\ ReadMore(x) <=> i < n
      /\ i < n => ReadLength(x) = c
      /\ i = n => ReadEnd(x) = total
  BY <1>1, FragmentRead DEF Pieces
<1>5. i \in Nat /\ 1 <= i /\ i <= n
  BY <1>2 DEF Pieces
<1>6. g = [off |-> ReadOffset(x), len |-> ReadLength(x), data |-> f]
  BY DEF Piece, Cut
<1>7. R!End(g) = ReadEnd(x)
  BY <1>6 DEF R!End, ReadEnd
<1> HIDE DEF n, c, total, x, g
<1>8. /\ (i - 1) * c \in Nat /\ (i - 1) * c < total
      /\ i < n => (i - 1) * c + c < total
  BY <1>2, <1>3, <1>5, ChunkPlace
<1>9. (i - 1) * c + c = i * c
  BY <1>2, <1>5
<1>10. /\ ReadLength(x) \in Nat /\ ReadLength(x) > 0
       /\ ReadOffset(x) \in Nat
       /\ ReadEnd(x) = ReadOffset(x) + ReadLength(x)
  <2>1. ReadLength(x) \in Nat
    BY <1>4 DEF Accepted, ReadLength, FragmentHeader
  <2>2. ReadEnd(x) = ReadOffset(x) + ReadLength(x)
    BY DEF ReadEnd
  <2>3. i < n \/ i = n
    BY <1>2, <1>5
  <2> QED
    BY <1>2, <1>3, <1>4, <1>8, <2>1, <2>2, <2>3
<1>11. g \in R!Fragment /\ g.data = f /\ g.off = (i - 1) * c /\ g.len > 0
  BY <1>4, <1>6, <1>10 DEF R!Fragment
<1>12. /\ R!End(g) \in Nat
       /\ i < n => R!End(g) = i * c /\ R!End(g) < total
       /\ i = n => R!End(g) = total
  BY <1>2, <1>4, <1>7, <1>8, <1>9, <1>10
<1>13. ~R!Malformed(g, ReadMore(x))
  <2>1. i < n => g.len % 8 = 0
    BY <1>2, <1>4, <1>6
  <2>2. R!End(g) <= 65535
    BY <1>2, <1>3, <1>5, <1>12
  <2> QED
    BY <1>4, <1>12, <2>1, <2>2 DEF R!Malformed, R!Block, R!MaxPacket
<1> QED
  BY <1>2, <1>4, <1>5, <1>11, <1>12, <1>13 DEF n, c, total, x, g

\* The pieces of a frame lie one behind the other.
LEMMA PiecesInOrder ==
  ASSUME NEW f \in Frame, NEW u \in MinMtu .. MaxMtu,
         NEW i \in Pieces(f, u), NEW j \in Pieces(f, u), i < j
  PROVE  /\ R!End(Piece(f, u, i)) <= Piece(f, u, j).off
         /\ Piece(f, u, i).off < Piece(f, u, j).off
         /\ j = i + 1 => R!End(Piece(f, u, i)) = Piece(f, u, j).off
<1> DEFINE c == Chunk(u)
           n == Count(FrameLength[f], u)
<1>1. /\ n \in Nat /\ i \in Nat /\ j \in Nat /\ 1 <= i /\ j <= n
      /\ Piece(f, u, i).off = (i - 1) * c /\ Piece(f, u, j).off = (j - 1) * c
      /\ i < n => R!End(Piece(f, u, i)) = i * c
  BY PieceFacts
<1>2. c \in Nat /\ 16 <= c
  BY ChunkBounds
<1> HIDE DEF c, n
<1>3. R!End(Piece(f, u, i)) = i * c
  BY <1>1
<1>4. i * c <= (j - 1) * c
  BY <1>1, <1>2, TimesMonotone
<1>5. (i - 1) * c + c = i * c
  BY <1>1, <1>2
<1>6. (i - 1) * c \in Nat /\ i * c \in Nat /\ (j - 1) * c \in Nat
  BY <1>1, <1>2
<1>7. j = i + 1 => (j - 1) * c = i * c
  BY <1>1
<1> QED
  BY <1>1, <1>2, <1>3, <1>4, <1>5, <1>6, <1>7

\* Two pieces that are not the same do not overlap.
LEMMA PiecesApart ==
  ASSUME NEW f \in Frame, NEW u \in MinMtu .. MaxMtu,
         NEW i \in Pieces(f, u), NEW j \in Pieces(f, u), i # j
  PROVE  /\ ~R!Overlaps(Piece(f, u, i), Piece(f, u, j))
         /\ Piece(f, u, i) # Piece(f, u, j)
<1>1. /\ i \in Nat /\ j \in Nat
      /\ Piece(f, u, i) \in R!Fragment /\ Piece(f, u, j) \in R!Fragment
      /\ R!End(Piece(f, u, i)) \in Nat /\ R!End(Piece(f, u, j)) \in Nat
  BY PieceFacts
<1>2. Piece(f, u, i).off \in Nat /\ Piece(f, u, j).off \in Nat
  BY <1>1 DEF R!Fragment
<1>3. CASE i < j
  BY <1>1, <1>2, <1>3, PiecesInOrder DEF R!Overlaps
<1>4. CASE j < i
  BY <1>1, <1>2, <1>4, PiecesInOrder DEF R!Overlaps
<1> QED
  BY <1>1, <1>3, <1>4

IsPiece(m, g) == \E i \in Pieces(g.data, m[g.data]) :
  g = Piece(g.data, m[g.data], i)

Distinct(s) == \A i, j \in DOMAIN s : i # j => s[i] # s[j]

\* The last piece has come only with the total it announces.
EndKnown(s, total) == total = None =>
  \A i \in DOMAIN s : R!End(s[i]) # Payload(FrameLength[s[i].data])

Layout(m, s, total) ==
  /\ \A i \in DOMAIN s : IsPiece(m, s[i])
  /\ Distinct(s) /\ R!SortedByOffset(s) /\ EndKnown(s, total)

TableLaid(m) == \A k \in Id : packets[k] # None =>
  /\ 1 \in DOMAIN packets[k].fragments
  /\ Layout(m, packets[k].fragments, packets[k].total)
  /\ ~R!Complete(packets[k].fragments, packets[k].total)

Airborne(m, p) ==
  /\ p = [packet |-> p.packet, id |-> p.id, data |-> p.data, copy |-> p.copy]
  /\ copies[p.data] = 0 => p.copy = 0
  /\ p.packet.next = "fragment" =>
       \E i \in Pieces(p.data, m[p.data]) :
         p.packet = FragmentPacket(FrameLength[p.data], m[p.data], i)

NetLaid(m) == \A p \in net : Airborne(m, p)

\* A piece in flight is not in the table as well.
Once == \A p \in net :
  (p.packet.next = "fragment" /\ copies[p.data] = 0) => Cut(p) \notin Stored(p.id)

CutFor(m) == \A f \in Sent :
  m[f] \in Mtu /\ (log[f].id \in Id => ~FitsWhole(FrameLength[f], m[f]))

Laid(m) == TableLaid(m) /\ NetLaid(m) /\ Once /\ CutFor(m)

MtuOf == [Frame -> MinMtu .. MaxMtu]

KInv == IInv /\ TypeOK /\ \E m \in MtuOf : Laid(m)

\* At the start there is nothing to lay out.
LEMMA InitKInv == Init => KInv
<1> SUFFICES ASSUME Init PROVE KInv
  OBVIOUS
<1>1. IInv /\ TypeOK
  <2>1. LogType
    BY InitIInv DEF IInv
  <2>2. copies \in [Frame -> 0 .. MaxCopies]
    BY LinkAssumption DEF Init
  <2> QED
    BY <2>1, <2>2, InitIInv DEF Init, TypeOK, LogType, R!Init, R!TypeOK
<1>2. Sent = {} /\ net = {} /\ \A k \in Id : packets[k] = None
  BY DEF Init, R!Init, Sent
<1> DEFINE m == [f \in Frame |-> MinMtu]
<1>3. m \in MtuOf
  BY DEF MtuOf, MinMtu, MaxMtu
<1> HIDE DEF m
<1>4. Laid(m)
  BY <1>2 DEF Laid, TableLaid, NetLaid, Once, CutFor
<1> QED
  BY <1>1, <1>3, <1>4 DEF KInv

\* What is stored under a key, with the types it has.
LEMMA StoredList ==
  ASSUME IInv, NEW m \in MtuOf, Laid(m), NEW k \in Id
  PROVE  /\ R!Entry(k).fragments \in Seq(R!Fragment)
         /\ Layout(m, R!Entry(k).fragments, R!Entry(k).total)
         /\ Filed(k, R!Entry(k).fragments)
         /\ Stored(k) = {R!Entry(k).fragments[i] :
                           i \in DOMAIN R!Entry(k).fragments}
         /\ packets[k] = None => Stored(k) = {}
         /\ packets[k] # None =>
              /\ R!Entry(k) = packets[k]
              /\ ~R!Complete(R!Entry(k).fragments, R!Entry(k).total)
<1>1. R!Entry(k).fragments \in Seq(R!Fragment) /\ Filed(k, R!Entry(k).fragments)
  BY EntryLogged DEF Entries
<1>2. Stored(k) = {R!Entry(k).fragments[i] : i \in DOMAIN R!Entry(k).fragments}
  BY DEF Stored, R!Range
<1>3. CASE packets[k] = None
  <2>1. R!Entry(k).fragments = <<>> /\ DOMAIN R!Entry(k).fragments = {}
    BY <1>3 DEF R!Entry, R!Fresh
  <2>2. Layout(m, R!Entry(k).fragments, R!Entry(k).total)
    BY <2>1 DEF Layout, Distinct, R!SortedByOffset, EndKnown
  <2> QED
    BY <1>1, <1>2, <1>3, <2>1, <2>2
<1>4. CASE packets[k] # None
  BY <1>1, <1>2, <1>4 DEF R!Entry, Laid, TableLaid
<1> QED
  BY <1>3, <1>4

\* Each stored fragment is a piece of a frame sent under its key.
LEMMA StoredPiece ==
  ASSUME IInv, NEW m \in MtuOf, Laid(m), NEW k \in Id, NEW g \in Stored(k)
  PROVE  /\ g.data \in Sent /\ g.data \in Frame /\ log[g.data].id = k
         /\ IsPiece(m, g)
<1>1. PICK i \in DOMAIN R!Entry(k).fragments : g = R!Entry(k).fragments[i]
  BY StoredList
<1> QED
  BY <1>1, StoredList DEF Layout, Filed, Sent

\* Steps that only take packets out of flight and entries out of the table.
LEMMA QuietLaid ==
  ASSUME IInv, NEW m \in MtuOf, Laid(m), UNCHANGED <<log, copies>>,
         net' \in SUBSET net,
         \A k \in Id : packets'[k] # None =>
           /\ packets[k] # None
           /\ packets'[k].fragments = packets[k].fragments
           /\ packets'[k].total = packets[k].total
  PROVE  Laid(m)'
<1>1. TableLaid(m)'
  BY DEF Laid, TableLaid
<1>2. NetLaid(m)'
  BY DEF Laid, NetLaid, Airborne
<1>3. CutFor(m)'
  BY DEF Laid, CutFor, Sent
<1>4. Once'
  <2> SUFFICES ASSUME NEW p \in net', p.packet.next = "fragment",
                      copies[p.data] = 0
               PROVE  Cut(p) \notin Stored(p.id)'
    BY DEF Once
  <2>1. Cut(p) \notin Stored(p.id)
    BY DEF Laid, Once
  <2>2. CASE packets'[p.id] = None
    BY <2>2 DEF Stored, R!Entry, R!Fresh, R!Range
  <2>3. CASE packets'[p.id] # None
    <3>1. p.id \in Id
      BY DEF IInv, NetLogged, InFlight
    <3> QED
      BY <2>1, <2>3, <3>1 DEF Stored, R!Entry, R!Range
  <2> QED
    BY <2>2, <2>3
<1> QED
  BY <1>1, <1>2, <1>3, <1>4 DEF Laid

\* A frame is sent, whole or in pieces, cut for the path MTU of its worker.
LEMMA SendLaid ==
  ASSUME IInv, NEW m \in MtuOf, Laid(m), NEW f \in Frame, NEW u \in Mtu,
         SendWhole(f, u) \/ SendFragments(f, u)
  PROVE  /\ [m EXCEPT ![f] = u] \in MtuOf
         /\ Laid([m EXCEPT ![f] = u])'
<1> DEFINE w == [m EXCEPT ![f] = u]
<1>1. u \in MinMtu .. MaxMtu
  BY LinkAssumption
<1>2. w \in MtuOf /\ w[f] = u /\ \A g \in Frame : g # f => w[g] = m[g]
  BY <1>1 DEF MtuOf
<1> HIDE DEF w
<1>3. PICK id \in Id \cup {None} :
        /\ f \notin Sent
        /\ net' = net \cup Launch(f, u, id)
        /\ log' = [log EXCEPT ![f] = [epoch |-> epoch, id |-> id]]
        /\ id \in Id <=> ~FitsWhole(FrameLength[f], u)
        /\ UNCHANGED <<copies, packets>>
  <2>1. fragId \in Id /\ None \notin Id
    BY LinkAssumption DEF IInv, LogType, Id
  <2> QED
    BY <2>1 DEF SendWhole, SendFragments, far
<1>4. /\ Sent' \subseteq Sent \cup {f} /\ \A g \in Sent : log'[g] = log[g]
      /\ log'[f] = [epoch |-> epoch, id |-> id]
  BY <1>3, LogGrows
<1>5. \A g \in Sent : g \in Frame /\ w[g] = m[g]
  BY <1>2, <1>3 DEF Sent
<1>6. ASSUME NEW k \in Id, packets[k] # None, NEW i \in DOMAIN packets[k].fragments
      PROVE  packets[k].fragments[i].data \in Sent
  BY <1>6 DEF IInv, TableLogged, Filed
<1>7. TableLaid(w)'
  <2> SUFFICES ASSUME NEW k \in Id, packets[k] # None
               PROVE  /\ 1 \in DOMAIN packets[k].fragments
                      /\ Layout(w, packets[k].fragments, packets[k].total)
                      /\ ~R!Complete(packets[k].fragments, packets[k].total)
    BY <1>3 DEF TableLaid
  <2>1. /\ 1 \in DOMAIN packets[k].fragments
        /\ Layout(m, packets[k].fragments, packets[k].total)
        /\ ~R!Complete(packets[k].fragments, packets[k].total)
    BY DEF Laid, TableLaid
  <2>2. ASSUME NEW i \in DOMAIN packets[k].fragments
        PROVE  IsPiece(w, packets[k].fragments[i])
    <3>1. w[packets[k].fragments[i].data] = m[packets[k].fragments[i].data]
      BY <1>5, <1>6
    <3> QED
      BY <2>1, <3>1 DEF Layout, IsPiece
  <2> QED
    BY <2>1, <2>2 DEF Layout
<1>8. ASSUME NEW p \in Launch(f, u, id)
      PROVE  /\ Airborne(w, p)'
             /\ p.data = f
  <2>1. PICK i \in DOMAIN Packets(FrameLength[f], u) :
          p = [packet |-> Packets(FrameLength[f], u)[i], id |-> id, data |-> f,
               copy |-> 0]
    BY DEF Launch
  <2>2. /\ p = [packet |-> p.packet, id |-> p.id, data |-> p.data, copy |-> p.copy]
        /\ p.copy = 0 /\ p.data = f /\ p.packet = Packets(FrameLength[f], u)[i]
    BY <2>1
  <2>3. p.packet.next = "fragment" =>
          \E j \in Pieces(f, w[f]) :
            p.packet = FragmentPacket(FrameLength[f], w[f], j)
    <3>1. CASE FitsWhole(FrameLength[f], u)
      <4>1. Packets(FrameLength[f], u) = <<WholePacket(FrameLength[f])>>
        BY <3>1 DEF Packets
      <4>2. i = 1
        BY <4>1
      <4> QED
        BY <2>2, <4>1, <4>2 DEF WholePacket
    <3>2. CASE ~FitsWhole(FrameLength[f], u)
      <4>1. Packets(FrameLength[f], u) =
              [j \in Pieces(f, u) |-> FragmentPacket(FrameLength[f], u, j)]
        BY <3>2 DEF Packets, Pieces
      <4>2. i \in Pieces(f, u)
            /\ p.packet = FragmentPacket(FrameLength[f], u, i)
        BY <2>2, <4>1
      <4> QED
        BY <1>2, <4>2
    <3> QED
      BY <3>1, <3>2
  <2> QED
    BY <2>2, <2>3 DEF Airborne
<1>9. NetLaid(w)'
  <2>1. ASSUME NEW p \in net PROVE Airborne(w, p)'
    <3>1. p.data \in Sent /\ Airborne(m, p)
      BY DEF IInv, NetLogged, InFlight, Laid, NetLaid
    <3>2. w[p.data] = m[p.data] /\ copies' = copies
      BY <1>3, <1>5, <3>1
    <3> QED
      BY <3>1, <3>2 DEF Airborne
  <2> QED
    BY <1>3, <1>8, <2>1 DEF NetLaid
<1>10. Once'
  <2> SUFFICES ASSUME NEW p \in net', p.packet.next = "fragment",
                      copies[p.data] = 0, Cut(p) \in Stored(p.id)
               PROVE  FALSE
    <3>1. \A k : Stored(k)' = Stored(k)
      BY <1>3 DEF Stored, R!Entry, R!Fresh, R!Range
    <3> QED
      BY <1>3, <3>1 DEF Once
  <2>1. CASE p \in net
    BY <2>1 DEF Laid, Once
  <2>2. CASE p \in Launch(f, u, id)
    <3>1. p.data = f /\ Cut(p).data = f /\ p.id = id
      BY <1>8, <2>2 DEF Cut, Launch
    <3>2. packets[p.id] # None
          /\ \E i \in DOMAIN packets[p.id].fragments :
               packets[p.id].fragments[i] = Cut(p)
      BY DEF Stored, R!Entry, R!Fresh, R!Range
    <3>3. p.id \in Id
      <4>1. CASE FitsWhole(FrameLength[f], u)
        BY <2>2, <4>1 DEF Launch, Packets, WholePacket
      <4>2. CASE ~FitsWhole(FrameLength[f], u)
        BY <1>3, <3>1, <4>2
      <4> QED
        BY <4>1, <4>2
    <3> QED
      BY <1>3, <1>6, <3>1, <3>2, <3>3
  <2> QED
    BY <1>3, <2>1, <2>2
<1>11. CutFor(w)'
  BY <1>2, <1>3, <1>4, <1>5 DEF Laid, CutFor
<1> QED
  BY <1>2, <1>7, <1>9, <1>10, <1>11 DEF Laid, w

\* The network repeats a packet: of that frame Once says no more.
LEMMA RepeatLaid ==
  ASSUME IInv, TypeOK, NEW m \in MtuOf, Laid(m), NEW p \in net, Repeat(p)
  PROVE  Laid(m)'
<1>1. PICK x : /\ x = [p EXCEPT !.copy = copies'[p.data]]
               /\ net' = net \cup {x} /\ UNCHANGED <<log, packets>>
               /\ Sent' = Sent
               /\ copies' = [copies EXCEPT ![p.data] = @ + 1]
  BY DEF Repeat, near, far, Sent
<1>2. p.data \in Frame /\ copies \in [Frame -> 0 .. MaxCopies] /\ MaxCopies \in Nat
  BY LinkAssumption DEF TypeOK
<1>3. /\ copies'[p.data] = copies[p.data] + 1 /\ copies[p.data] \in Nat
      /\ \A g \in Frame : g # p.data => copies'[g] = copies[g]
  BY <1>1, <1>2
<1>4. copies'[p.data] # 0
  BY <1>3
<1>5. /\ x = [packet |-> p.packet, id |-> p.id, data |-> p.data,
              copy |-> copies'[p.data]]
      /\ Airborne(m, p)
  <2>1. Airborne(m, p)
    BY DEF Laid, NetLaid
  <2>2. PICK a, b, d, c : p = [packet |-> a, id |-> b, data |-> d, copy |-> c]
    BY <2>1 DEF Airborne
  <2> QED
    BY <1>1, <2>1, <2>2
<1>6. Airborne(m, x)'
  <2>1. /\ x.packet = p.packet /\ x.id = p.id /\ x.data = p.data
        /\ x.copy = copies'[p.data]
    BY <1>5
  <2>2. x = [packet |-> x.packet, id |-> x.id, data |-> x.data,
             copy |-> x.copy]
    BY <1>5, <2>1
  <2> QED
    BY <1>4, <1>5, <2>1, <2>2 DEF Airborne
<1>7. ASSUME NEW q \in net PROVE Airborne(m, q)'
  <2>1. Airborne(m, q) /\ q.data \in Frame
    BY DEF Laid, NetLaid, TypeOK
  <2>2. copies'[q.data] = 0 => copies[q.data] = 0
    BY <1>3, <1>4, <2>1
  <2> QED
    BY <2>1, <2>2 DEF Airborne
<1>8. Once'
  <2> SUFFICES ASSUME NEW q \in net', q.packet.next = "fragment",
                      copies'[q.data] = 0
               PROVE  Cut(q) \notin Stored(q.id)'
    BY DEF Once
  <2>1. q # x
    BY <1>4, <1>5
  <2>2. q \in net /\ q.data \in Frame
    BY <1>1, <2>1 DEF TypeOK
  <2>3. copies[q.data] = 0
    BY <1>3, <1>4, <2>2
  <2>4. Stored(q.id)' = Stored(q.id)
    BY <1>1 DEF Stored, R!Entry, R!Fresh, R!Range
  <2> QED
    BY <2>2, <2>3, <2>4 DEF Laid, Once
<1>9. TableLaid(m)' /\ CutFor(m)'
  <2>1. packets' = packets /\ log' = log
    BY <1>1
  <2>2. TableLaid(m)'
    BY <2>1 DEF Laid, TableLaid
  <2> QED
    BY <1>1, <2>1, <2>2 DEF Laid, CutFor
<1> QED
  BY <1>1, <1>6, <1>7, <1>8, <1>9 DEF Laid, NetLaid

\* Sorting permutes: a list without repetition stays one.
LEMMA SortKeepsDistinct ==
  ASSUME NEW s \in Seq(R!Fragment), NEW t \in R!Sort(s), Distinct(s)
  PROVE  Distinct(t) /\ R!SortedByOffset(t)
<1>1. DOMAIN s = 1 .. Len(s) /\ Len(s) \in Nat
  BY LenProperties
<1>2. PICK p \in R!Bijection(1 .. Len(s), 1 .. Len(s)) :
        t = [i \in 1 .. Len(s) |-> s[p[i]]]
  BY <1>1 DEF R!Sort
<1>3. \A i, j \in 1 .. Len(s) :
        /\ p[i] \in 1 .. Len(s) /\ p[j] \in 1 .. Len(s)
        /\ i # j => p[i] # p[j]
  BY <1>2 DEF R!Bijection, R!Injection, R!IsInjective
<1>4. DOMAIN t = 1 .. Len(s)
  BY <1>2
<1>5. Distinct(t)
  BY <1>1, <1>2, <1>3, <1>4 DEF Distinct
<1>6. R!SortedByOffset(t)
  BY DEF R!Sort
<1> QED
  BY <1>5, <1>6

\* A fragment in flight is a piece of its frame, which insert takes.
LEMMA CutIsPiece ==
  ASSUME IInv, NEW m \in MtuOf, Laid(m), NEW p \in net,
         p.packet.next = "fragment"
  PROVE  /\ p.data \in Frame /\ p.data \in Sent /\ p.id \in Id
         /\ log[p.data].id = p.id /\ m[p.data] \in MinMtu .. MaxMtu
         /\ Cut(p).data = p.data /\ Cut(p) \in R!Fragment /\ Cut(p).len > 0
         /\ \E i \in Pieces(p.data, m[p.data]) :
              /\ Cut(p) = Piece(p.data, m[p.data], i)
              /\ p.packet = FragmentPacket(FrameLength[p.data], m[p.data], i)
         /\ Accepted(p.packet)
         /\ ~R!Malformed(Cut(p), ReadMore(p.packet))
         /\ ReadMore(p.packet) => R!End(Cut(p)) # Payload(FrameLength[p.data])
<1>1. /\ p.data \in Frame /\ p.data \in Sent /\ p.id \in Id
      /\ log[p.data].id = p.id
  BY DEF IInv, NetLogged, InFlight, Sent
<1>2. m[p.data] \in MinMtu .. MaxMtu
  BY <1>1 DEF MtuOf
<1>3. PICK i \in Pieces(p.data, m[p.data]) :
        p.packet = FragmentPacket(FrameLength[p.data], m[p.data], i)
  BY DEF Laid, NetLaid, Airborne
<1>4. Cut(p) = Piece(p.data, m[p.data], i) /\ Cut(p).data = p.data
  BY <1>3 DEF Piece, Cut
<1>5. /\ Piece(p.data, m[p.data], i) \in R!Fragment
      /\ Piece(p.data, m[p.data], i).len > 0
      /\ Accepted(p.packet)
      /\ ~R!Malformed(Piece(p.data, m[p.data], i), ReadMore(p.packet))
  BY <1>1, <1>2, <1>3, PieceFacts
<1>6. ReadMore(p.packet)
        => R!End(Piece(p.data, m[p.data], i)) # Payload(FrameLength[p.data])
  <2>1. /\ ReadMore(p.packet) => i < Count(FrameLength[p.data], m[p.data])
        /\ i < Count(FrameLength[p.data], m[p.data]) =>
             R!End(Piece(p.data, m[p.data], i)) < Payload(FrameLength[p.data])
        /\ R!End(Piece(p.data, m[p.data], i)) \in Nat
    BY <1>1, <1>2, <1>3, PieceFacts
  <2>2. Payload(FrameLength[p.data]) \in Nat
    BY <1>1, LinkAssumption DEF Payload, EtherIPHeader
  <2> QED
    BY <2>1, <2>2
<1> QED
  BY <1>1, <1>2, <1>3, <1>4, <1>5, <1>6

\* Without repetition, the packets of a frame are told apart by their piece.
LEMMA OneOfEachPiece ==
  ASSUME IInv, NEW m \in MtuOf, Laid(m), NEW p \in net, NEW q \in net,
         p.packet.next = "fragment", q.packet.next = "fragment",
         copies[p.data] = 0, Cut(p) = Cut(q)
  PROVE  p = q
<1>1. p.data = q.data
  BY DEF Cut
<1>2. /\ p.data \in Frame /\ m[p.data] \in MinMtu .. MaxMtu
      /\ log[p.data].id = p.id /\ log[q.data].id = q.id
  BY CutIsPiece
<1>3. PICK i \in Pieces(p.data, m[p.data]) :
        /\ Cut(p) = Piece(p.data, m[p.data], i)
        /\ p.packet = FragmentPacket(FrameLength[p.data], m[p.data], i)
  BY CutIsPiece
<1>4. PICK j \in Pieces(p.data, m[p.data]) :
        /\ Cut(q) = Piece(p.data, m[p.data], j)
        /\ q.packet = FragmentPacket(FrameLength[p.data], m[p.data], j)
  BY <1>1, CutIsPiece
<1>5. i = j
  BY <1>2, <1>3, <1>4, PiecesApart
<1>6. Airborne(m, p) /\ Airborne(m, q)
  BY DEF Laid, NetLaid
<1>7. p.copy = 0 /\ q.copy = 0 /\ p.id = q.id /\ p.packet = q.packet
  BY <1>1, <1>2, <1>3, <1>4, <1>5, <1>6 DEF Airborne
<1>8. /\ p = [packet |-> p.packet, id |-> p.id, data |-> p.data, copy |-> p.copy]
      /\ q = [packet |-> q.packet, id |-> q.id, data |-> q.data, copy |-> q.copy]
  BY <1>6 DEF Airborne
<1> QED
  BY <1>1, <1>7, <1>8

\* A list with one fragment more, sorted.
LEMMA OneMore ==
  ASSUME NEW old \in Seq(R!Fragment), NEW g \in R!Fragment,
         NEW s \in R!Sort(Append(old, g))
  PROVE  /\ s \in Seq(R!Fragment) /\ Len(s) = Len(old) + 1
         /\ \A i \in DOMAIN s : s[i] = g \/ \E j \in DOMAIN old : s[i] = old[j]
         /\ \E i \in DOMAIN s : s[i] = g
         /\ \A j \in DOMAIN old : \E i \in DOMAIN s : s[i] = old[j]
         /\ Distinct(old) /\ (\A j \in DOMAIN old : old[j] # g) => Distinct(s)
         /\ R!SortedByOffset(s)
<1> DEFINE longer == Append(old, g)
<1>1. /\ longer \in Seq(R!Fragment) /\ Len(longer) = Len(old) + 1
      /\ \A i \in 1 .. Len(old) : longer[i] = old[i]
      /\ longer[Len(old) + 1] = g
      /\ DOMAIN old = 1 .. Len(old) /\ Len(old) \in Nat
      /\ DOMAIN longer = 1 .. Len(old) + 1
  BY AppendProperties, LenProperties
<1>2. s \in R!Sort(longer)
  OBVIOUS
<1> HIDE DEF longer
<1>3. /\ s \in Seq(R!Fragment) /\ Len(s) = Len(longer)
      /\ \A i \in DOMAIN s : \E j \in DOMAIN longer : s[i] = longer[j]
      /\ \A j \in DOMAIN longer : \E i \in DOMAIN s : s[i] = longer[j]
  BY <1>1, <1>2, SortKeepsElements
<1>4. ASSUME NEW i \in DOMAIN s
      PROVE  s[i] = g \/ \E j \in DOMAIN old : s[i] = old[j]
  <2>1. PICK j \in DOMAIN longer : s[i] = longer[j]
    BY <1>3
  <2>2. j = Len(old) + 1 \/ j \in DOMAIN old
    BY <1>1
  <2> QED
    BY <1>1, <2>1, <2>2
<1>5. \E i \in DOMAIN s : s[i] = g
  <2>1. Len(old) + 1 \in DOMAIN longer
    BY <1>1
  <2> QED
    BY <1>1, <1>3, <2>1
<1>6. ASSUME NEW j \in DOMAIN old
      PROVE  \E i \in DOMAIN s : s[i] = old[j]
  <2>1. j \in DOMAIN longer /\ longer[j] = old[j]
    BY <1>1
  <2> QED
    BY <1>3, <2>1
<1>7. ASSUME Distinct(old), \A j \in DOMAIN old : old[j] # g
      PROVE  Distinct(longer)
  <2> SUFFICES ASSUME NEW i \in 1 .. Len(old) + 1, NEW j \in 1 .. Len(old) + 1,
                      i # j
               PROVE  longer[i] # longer[j]
    BY <1>1 DEF Distinct
  <2>1. CASE i = Len(old) + 1
    <3>1. j \in DOMAIN old
      BY <1>1, <2>1
    <3> QED
      BY <1>1, <1>7, <2>1, <3>1
  <2>2. CASE j = Len(old) + 1
    <3>1. i \in DOMAIN old
      BY <1>1, <2>2
    <3> QED
      BY <1>1, <1>7, <2>2, <3>1
  <2>3. CASE i \in 1 .. Len(old) /\ j \in 1 .. Len(old)
    BY <1>1, <1>7, <2>3 DEF Distinct
  <2> QED
    BY <1>1, <2>1, <2>2, <2>3
<1>8. Distinct(longer) => Distinct(s) /\ R!SortedByOffset(s)
  BY <1>1, <1>2, SortKeepsDistinct
<1>9. R!SortedByOffset(s)
  BY DEF R!Sort
<1> QED
  BY <1>1, <1>3, <1>4, <1>5, <1>6, <1>7, <1>8, <1>9

\* The list insert makes of what is stored and of a fragment it keeps.
LEMMA ArrangedLaid ==
  ASSUME IInv, NEW m \in MtuOf, Laid(m), NEW p \in net,
         p.packet.next = "fragment", ~R!Discards(p.id, Cut(p)),
         NEW s \in R!Sort(Append(R!Entry(p.id).fragments, Cut(p)))
  PROVE  /\ s \in Seq(R!Fragment) /\ Len(s) \in Nat \ {0}
         /\ Filed(p.id, s)
         /\ Layout(m, s, R!Total(p.id, Cut(p), ReadMore(p.packet)))
         /\ {s[i] : i \in DOMAIN s} = Stored(p.id) \cup {Cut(p)}
         /\ Cut(p) \notin Stored(p.id)
<1> DEFINE old == R!Entry(p.id).fragments
           g == Cut(p)
           total == R!Total(p.id, g, ReadMore(p.packet))
<1>1. /\ p.data \in Frame /\ p.data \in Sent /\ p.id \in Id
      /\ log[p.data].id = p.id /\ g.data = p.data
      /\ g \in R!Fragment /\ g.len > 0 /\ Accepted(p.packet)
      /\ ReadMore(p.packet) => R!End(g) # Payload(FrameLength[p.data])
  BY CutIsPiece
<1>2. IsPiece(m, g)
  BY <1>1, CutIsPiece DEF IsPiece
<1>3. /\ old \in Seq(R!Fragment) /\ Layout(m, old, R!Entry(p.id).total)
      /\ Filed(p.id, old)
      /\ Stored(p.id) = {old[i] : i \in DOMAIN old}
  BY <1>1, StoredList
<1>4. R!Overlaps(g, g)
  BY <1>1 DEF R!Overlaps, R!End, R!Fragment
<1>5. \A j \in DOMAIN old : old[j] # g
  BY <1>4 DEF R!Discards
<1>6. s \in R!Sort(Append(old, g))
  OBVIOUS
<1>7. total = R!Total(p.id, g, ReadMore(p.packet))
  OBVIOUS
<1> HIDE DEF old, g, total
<1>8. /\ s \in Seq(R!Fragment) /\ Len(s) = Len(old) + 1
      /\ \A i \in DOMAIN s : s[i] = g \/ \E j \in DOMAIN old : s[i] = old[j]
      /\ \E i \in DOMAIN s : s[i] = g
      /\ \A j \in DOMAIN old : \E i \in DOMAIN s : s[i] = old[j]
      /\ Distinct(s) /\ R!SortedByOffset(s)
  BY <1>1, <1>3, <1>5, <1>6, OneMore DEF Layout
<1>9. Len(s) \in Nat \ {0}
  BY <1>3, <1>8, LenProperties
<1>10. Filed(p.id, s)
  BY <1>1, <1>3, <1>8 DEF Filed
<1>11. \A i \in DOMAIN s : IsPiece(m, s[i])
  BY <1>2, <1>3, <1>8 DEF Layout
<1>12. EndKnown(s, total)
  <2>1. CASE ReadMore(p.packet)
    <3>1. total = R!Entry(p.id).total
      BY <1>7, <2>1 DEF R!Total
    <3>2. EndKnown(old, total)
      BY <1>3, <3>1 DEF Layout
    <3>3. R!End(g) # Payload(FrameLength[g.data])
      BY <1>1, <2>1
    <3> QED
      BY <1>8, <3>2, <3>3 DEF EndKnown
  <2>2. CASE ~ReadMore(p.packet)
    <3>1. total = R!End(g)
      BY <1>7, <2>2 DEF R!Total
    <3>2. total \in Nat
      BY <1>1, <3>1 DEF R!End, R!Fragment
    <3> QED
      BY <3>2, LinkAssumption DEF EndKnown
  <2> QED
    BY <2>1, <2>2
<1>13. {s[i] : i \in DOMAIN s} = Stored(p.id) \cup {g}
  BY <1>3, <1>8
<1>14. g \notin Stored(p.id)
  BY <1>3, <1>5
<1> QED
  BY <1>8, <1>9, <1>10, <1>11, <1>12, <1>13, <1>14 DEF Layout, total, g

\* A fragment that insert stores joins the others.
LEMMA StoresLaid ==
  ASSUME IInv, TypeOK, NEW m \in MtuOf, Laid(m), NEW p \in net,
         p.packet.next = "fragment", net' = net \ {p},
         UNCHANGED <<log, copies>>,
         R!InsertStores(p.id, Cut(p), ReadMore(p.packet))
  PROVE  /\ Laid(m)'
         /\ Stored(p.id)' = Stored(p.id) \cup {Cut(p)}
<1> DEFINE k == p.id
           g == Cut(p)
           total == R!Total(k, g, ReadMore(p.packet))
<1>1. ~R!Discards(k, g)
  BY DEF R!InsertStores
<1>2. PICK s \in R!Sort(Append(R!Entry(k).fragments, g)) :
        /\ ~R!Complete(s, total)
        /\ packets' = [packets EXCEPT ![k] =
             [idle |-> 0, total |-> total, fragments |-> s]]
  BY DEF R!InsertStores
<1>3. /\ s \in Seq(R!Fragment) /\ Layout(m, s, total)
      /\ {s[i] : i \in DOMAIN s} = Stored(k) \cup {g}
      /\ g \notin Stored(k)
      /\ 1 \in DOMAIN s
  <2>1. /\ s \in Seq(R!Fragment) /\ Len(s) \in Nat \ {0}
        /\ Layout(m, s, total)
        /\ {s[i] : i \in DOMAIN s} = Stored(k) \cup {g}
        /\ g \notin Stored(k)
    BY <1>1, <1>2, ArrangedLaid
  <2> QED
    BY <2>1, LenProperties
<1>4. k \in Id /\ packets \in [Id -> Entries \cup {None}]
  BY CutIsPiece DEF IInv, TableLogged
<1>5. \A e : (packets' = [packets EXCEPT ![k] = e]) =>
        /\ packets'[k] = e
        /\ \A q \in Id \ {k} : packets'[q] = packets[q]
  BY <1>4
<1>6. /\ packets'[k].fragments = s /\ packets'[k].total = total
      /\ \A q \in Id \ {k} : packets'[q] = packets[q]
  BY <1>2, <1>5
<1>7. packets'[k] # None
  <2>1. total \in 0 .. R!MaxPacket \cup {None}
    <3>1. g \in R!Fragment /\ R!End(g) \in Nat /\ R!End(g) <= R!MaxPacket
      BY CutIsPiece
         DEF R!InsertStores, R!Malformed, R!Fragment, R!End, R!MaxPacket
    <3>2. R!Entry(k).total \in 0 .. R!MaxPacket \cup {None}
      BY <1>4 DEF TypeOK, R!TypeOK, R!Entry, R!Fresh, R!Partial
    <3> QED
      BY <3>1, <3>2 DEF R!Total
  <2>2. 0 \in 0 .. Timeout
    BY LinkAssumption
  <2>3. packets'[k] = [idle |-> 0, total |-> total, fragments |-> s]
    BY <1>2, <1>5
  <2> HIDE DEF total, k
  <2>4. [idle |-> 0, total |-> total, fragments |-> s] \in R!Partial
    BY <1>3, <2>1, <2>2 DEF R!Partial
  <2> QED
    BY <2>3, <2>4, NoneAssumption
<1> HIDE DEF total
<1>8. Stored(k)' = Stored(k) \cup {g}
  <2>1. R!Entry(k)' = packets'[k]
    BY <1>7 DEF R!Entry
  <2>2. Stored(k)' = {s[i] : i \in DOMAIN s}
    BY <1>6, <2>1 DEF Stored, R!Range
  <2> QED
    BY <1>3, <2>2
<1>9. TableLaid(m)'
  <2> SUFFICES ASSUME NEW q \in Id, packets'[q] # None
               PROVE  /\ 1 \in DOMAIN packets'[q].fragments
                      /\ Layout(m, packets'[q].fragments, packets'[q].total)
                      /\ ~R!Complete(packets'[q].fragments, packets'[q].total)
    BY DEF TableLaid
  <2>1. CASE q = k
    BY <1>2, <1>3, <1>6, <2>1
  <2>2. CASE q # k
    BY <1>6, <2>2 DEF Laid, TableLaid
  <2> QED
    BY <2>1, <2>2
<1>10. Once'
  <2> SUFFICES ASSUME NEW q \in net, q # p, q.packet.next = "fragment",
                      copies[q.data] = 0
               PROVE  Cut(q) \notin Stored(q.id)'
    BY DEF Once
  <2>1. Cut(q) \notin Stored(q.id) /\ q.id \in Id
    BY CutIsPiece DEF Laid, Once
  <2>2. CASE q.id = k
    <3>1. Cut(q) # g
      BY <2>2, OneOfEachPiece
    <3> QED
      BY <1>8, <2>1, <2>2, <3>1
  <2>3. CASE q.id # k
    BY <1>6, <2>1, <2>3 DEF Stored, R!Entry, R!Range
  <2> QED
    BY <2>2, <2>3
<1>11. NetLaid(m)'
  BY DEF Laid, NetLaid, Airborne
<1>12. CutFor(m)'
  BY DEF Laid, CutFor, Sent
<1> QED
  BY <1>8, <1>9, <1>10, <1>11, <1>12 DEF Laid

\* Any packet that arrives.
LEMMA DeliverLaid ==
  ASSUME IInv, TypeOK, NEW m \in MtuOf, Laid(m), NEW p \in net, Deliver(p)
  PROVE  Laid(m)'
<1>1. net' = net \ {p} /\ net' \in SUBSET net /\ UNCHANGED <<log, copies>>
  BY DEF Deliver, near
<1>2. packets \in [Id -> Entries \cup {None}]
  BY DEF IInv, TableLogged
<1>3. CASE packets' = packets
  BY <1>1, <1>3, QuietLaid
<1>4. CASE R!Remove(p.id)
  <2>1. \A k \in Id : packets'[k] # None => packets'[k] = packets[k]
    BY <1>2, <1>4 DEF R!Remove
  <2> QED
    BY <1>1, <2>1, QuietLaid
<1>5. CASE DeliverFragment(p)
  <2>1. p.packet.next = "fragment" /\ R!Insert(p.id, Cut(p), ReadMore(p.packet))
    BY <1>5 DEF DeliverFragment, Accepted
  <2>2. CASE R!InsertStores(p.id, Cut(p), ReadMore(p.packet))
    BY <1>1, <2>1, <2>2, StoresLaid
  <2>3. R!InsertStores(p.id, Cut(p), ReadMore(p.packet))
        \/ R!Remove(p.id) \/ packets' = packets
    BY <2>1 DEF R!Insert, R!InsertMalformed, R!InsertRefused, R!InsertDiscards,
                R!InsertCompletes
  <2> QED
    BY <1>3, <1>4, <2>2, <2>3
<1>6. DeliverWhole(p) => packets' = packets
  BY DEF DeliverWhole
<1> QED
  BY <1>3, <1>5, <1>6 DEF Deliver

\* Nothing new is laid out by any other step.
LEMMA GoneLaid ==
  ASSUME IInv, NEW m \in MtuOf, Laid(m),
         \/ RestartNear \/ Tick \/ Expire \/ RestartFar
         \/ UNCHANGED vars \/ \E p \in net : Lose(p)
  PROVE  Laid(m)'
<1>1. UNCHANGED <<log, copies>> /\ net' \in SUBSET net
  BY DEF RestartNear, Tick, Expire, RestartFar, Lose, vars, near, network
<1>2. \A k \in Id : packets'[k] # None =>
        /\ packets[k] # None
        /\ packets'[k].fragments = packets[k].fragments
        /\ packets'[k].total = packets[k].total
  <2>1. packets \in [Id -> Entries \cup {None}]
    BY DEF IInv, TableLogged
  <2>2. CASE packets' = packets
    BY <2>2
  <2>3. CASE RestartFar
    BY <2>3 DEF RestartFar
  <2>4. CASE Expire
    BY <2>4 DEF Expire, R!Expire
  <2>5. CASE Tick
    <3> SUFFICES ASSUME NEW k \in Id, packets'[k] # None
                 PROVE  /\ packets[k] # None
                        /\ packets'[k].fragments = packets[k].fragments
                        /\ packets'[k].total = packets[k].total
      OBVIOUS
    <3>1. /\ packets[k] # None
          /\ packets'[k] \in {packets[k], [packets[k] EXCEPT !.idle = @ + 1]}
      BY <2>5 DEF Tick, R!Tick
    <3> QED
      BY <2>1, <3>1 DEF Entries
  <2> QED
    BY <2>2, <2>3, <2>4, <2>5 DEF RestartNear, Lose, vars, far
<1> QED
  BY <1>1, <1>2, QuietLaid

\* Every step keeps the layout.
LEMMA NextKeepsKInv == KInv /\ [Next]_vars => KInv'
<1> SUFFICES ASSUME KInv, [Next]_vars PROVE KInv'
  OBVIOUS
<1>1. IInv /\ TypeOK /\ IInv' /\ TypeOK'
  BY NextKeepsIInv, NextTyped DEF KInv
<1>2. PICK m \in MtuOf : Laid(m)
  BY DEF KInv
<1>3. ASSUME NEW f \in Frame, NEW u \in Mtu, SendWhole(f, u) \/ SendFragments(f, u)
      PROVE  \E w \in MtuOf : Laid(w)'
  <2>1. /\ [m EXCEPT ![f] = u] \in MtuOf
        /\ Laid([m EXCEPT ![f] = u])'
    BY <1>1, <1>2, <1>3, SendLaid
  <2> QED
    BY <2>1
<1>4. ASSUME NEW p \in net, Repeat(p) \/ Deliver(p)
      PROVE  Laid(m)'
  BY <1>1, <1>2, <1>4, RepeatLaid, DeliverLaid
<1>5. ASSUME \/ RestartNear \/ Tick \/ Expire \/ RestartFar
             \/ UNCHANGED vars \/ \E p \in net : Lose(p)
      PROVE  Laid(m)'
  BY <1>1, <1>2, <1>5, GoneLaid
<1>6. \E w \in MtuOf : Laid(w)'
  BY <1>3, <1>4, <1>5 DEF Next
<1> QED
  BY <1>1, <1>6 DEF KInv

\* A list of all the pieces of a frame, in order of their offsets, is
\* contiguous from the first byte to the last: between two neighbours no
\* other piece finds a place.
LEMMA AllPiecesContiguous ==
  ASSUME NEW f \in Frame, NEW u \in MinMtu .. MaxMtu, NEW s \in Seq(R!Fragment),
         Distinct(s), R!SortedByOffset(s),
         \A i \in DOMAIN s : \E a \in Pieces(f, u) : s[i] = Piece(f, u, a),
         \A a \in Pieces(f, u) : \E i \in DOMAIN s : s[i] = Piece(f, u, a)
  PROVE  /\ R!Contiguous(s)
         /\ R!End(s[Len(s)]) = Payload(FrameLength[f])
<1> DEFINE P(a) == Piece(f, u, a)
           n == Count(FrameLength[f], u)
<1>1. Pieces(f, u) = 1 .. n /\ n \in Nat \ {0}
  BY LinkAssumption, CountBounds DEF Pieces
<1>2. DOMAIN s = 1 .. Len(s) /\ Len(s) \in Nat
  BY LenProperties
<1>3. \A a \in 1 .. n : /\ P(a).off \in Nat /\ R!End(P(a)) \in Nat
                        /\ P(1).off = 0
                        /\ a = n => R!End(P(a)) = Payload(FrameLength[f])
  <2>1. Piece(f, u, 1).off = 0
    <3>1. 1 \in Pieces(f, u) /\ Chunk(u) \in Nat
      BY <1>1, ChunkBounds
    <3>2. Piece(f, u, 1).off = (1 - 1) * Chunk(u)
      BY <3>1, PieceFacts
    <3> QED
      BY <3>1, <3>2
  <2> QED
    BY <1>1, <2>1, PieceFacts DEF R!Fragment
<1>4. \A a, b \in 1 .. n : a < b =>
        /\ P(a).off < P(b).off
        /\ b = a + 1 => R!End(P(a)) = P(b).off
  <2> SUFFICES ASSUME NEW a \in Pieces(f, u), NEW b \in Pieces(f, u), a < b
               PROVE  /\ P(a).off < P(b).off
                      /\ b = a + 1 => R!End(P(a)) = P(b).off
    BY <1>1
  <2> QED
    BY PiecesInOrder
<1>5. /\ \A i \in DOMAIN s : \E a \in 1 .. n : s[i] = P(a)
      /\ \A a \in 1 .. n : \E i \in DOMAIN s : s[i] = P(a)
  <2>1. \A i \in DOMAIN s : \E a \in 1 .. n : s[i] = P(a)
    BY <1>1
  <2>2. \A a \in 1 .. n : \E i \in DOMAIN s : s[i] = P(a)
    BY <1>1
  <2> QED
    BY <2>1, <2>2
<1> HIDE DEF P, n
<1>6. Len(s) >= 1 /\ 1 \in DOMAIN s /\ Len(s) \in DOMAIN s
  BY <1>1, <1>2, <1>5
<1>7. \A i, j \in DOMAIN s : i < j => s[i].off <= s[j].off
  BY DEF R!SortedByOffset
<1>8. \A i, j \in DOMAIN s : i # j => s[i] # s[j]
  BY DEF Distinct
<1>9. ASSUME NEW i \in DOMAIN s, NEW j \in DOMAIN s, NEW a \in 1 .. n,
             NEW b \in 1 .. n, s[i] = P(a), s[j] = P(b), a < b
      PROVE  i < j
  <2>1. s[i].off < s[j].off /\ s[i].off \in Nat /\ s[j].off \in Nat
    BY <1>3, <1>4, <1>9
  <2>2. ~(j < i) /\ i # j
    BY <1>7, <2>1
  <2> QED
    BY <1>2, <2>2
<1>10. s[1].off = 0
  <2>1. PICK j \in DOMAIN s : s[j] = P(1)
    BY <1>1, <1>5
  <2>2. PICK a \in 1 .. n : s[1] = P(a)
    BY <1>5, <1>6
  <2>3. CASE a = 1
    BY <1>1, <1>3, <2>2, <2>3
  <2>4. CASE 1 < a
    <3>1. j < 1
      BY <1>1, <1>6, <1>9, <2>1, <2>2, <2>4
    <3> QED
      BY <1>2, <3>1
  <2> QED
    BY <1>1, <2>3, <2>4
<1>11. R!End(s[Len(s)]) = Payload(FrameLength[f])
  <2>1. PICK j \in DOMAIN s : s[j] = P(n)
    BY <1>1, <1>5
  <2>2. PICK a \in 1 .. n : s[Len(s)] = P(a)
    BY <1>5, <1>6
  <2>3. CASE a = n
    BY <1>1, <1>3, <2>2, <2>3
  <2>4. CASE a < n
    <3>1. Len(s) < j
      BY <1>1, <1>6, <1>9, <2>1, <2>2, <2>4
    <3> QED
      BY <1>2, <3>1
  <2> QED
    BY <1>1, <2>3, <2>4
<1>12. ASSUME NEW i \in 2 .. Len(s)
       PROVE  s[i].off = R!End(s[i - 1])
  <2>1. i \in DOMAIN s /\ i - 1 \in DOMAIN s /\ i - 1 < i
    BY <1>2
  <2>2. PICK a \in 1 .. n : s[i - 1] = P(a)
    BY <1>5, <2>1
  <2>3. PICK b \in 1 .. n : s[i] = P(b)
    BY <1>5, <2>1
  <2>4. a < b
    <3>1. CASE a = b
      BY <1>8, <2>1, <2>2, <2>3, <3>1
    <3>2. CASE b < a
      <4>1. i < i - 1
        BY <1>9, <2>1, <2>2, <2>3, <3>2
      <4> QED
        BY <2>1, <4>1
    <3> QED
      BY <1>1, <3>1, <3>2
  <2>5. CASE b = a + 1
    BY <1>4, <2>2, <2>3, <2>4, <2>5
  <2>6. CASE a + 1 < b
    <3>1. a + 1 \in 1 .. n
      BY <1>1, <2>6
    <3>2. PICK j \in DOMAIN s : s[j] = P(a + 1)
      BY <1>5, <3>1
    <3>3. i - 1 < j
      <4>1. a < a + 1
        BY <1>1
      <4> QED
        BY <1>9, <2>1, <2>2, <3>1, <3>2, <4>1
    <3>4. j < i
      BY <1>9, <2>1, <2>3, <2>6, <3>1, <3>2
    <3> QED
      BY <1>2, <2>1, <3>3, <3>4
  <2> QED
    BY <1>1, <2>4, <2>5, <2>6
<1> QED
  BY <1>10, <1>11, <1>12 DEF R!Contiguous

\* Some piece of a frame is always missing where its fragments wait.
LEMMA APieceMissing ==
  ASSUME IInv, NEW m \in MtuOf, Laid(m), NEW k \in Id, NEW f \in Frame,
         \A g \in Stored(k) : g.data = f
  PROVE  \E a \in Pieces(f, m[f]) : Piece(f, m[f], a) \notin Stored(k)
<1> SUFFICES ASSUME \A a \in Pieces(f, m[f]) : Piece(f, m[f], a) \in Stored(k)
             PROVE  FALSE
  OBVIOUS
<1> DEFINE s == R!Entry(k).fragments
           total == R!Entry(k).total
           n == Count(FrameLength[f], m[f])
<1>1. /\ s \in Seq(R!Fragment) /\ Layout(m, s, total)
      /\ Stored(k) = {s[i] : i \in DOMAIN s}
      /\ packets[k] = None => Stored(k) = {}
      /\ packets[k] # None => ~R!Complete(s, total)
  BY StoredList
<1>2. OfAFrame(s, total)
  BY EntryLogged
<1>3. m[f] \in MinMtu .. MaxMtu /\ n \in Pieces(f, m[f])
  <2>1. m[f] \in MinMtu .. MaxMtu
    BY DEF MtuOf
  <2>2. n \in Nat \ {0}
    BY <2>1, LinkAssumption, CountBounds
  <2> QED
    BY <2>1, <2>2 DEF Pieces
<1>4. packets[k] # None
  BY <1>1, <1>3
<1> HIDE DEF s, total
<1>5. /\ \A i \in DOMAIN s : s[i].data = f
      /\ \A i \in DOMAIN s : \E a \in Pieces(f, m[f]) : s[i] = Piece(f, m[f], a)
      /\ \A a \in Pieces(f, m[f]) : \E i \in DOMAIN s : s[i] = Piece(f, m[f], a)
  BY <1>1 DEF Layout, IsPiece
<1>6. R!Contiguous(s) /\ R!End(s[Len(s)]) = Payload(FrameLength[f])
  BY <1>1, <1>3, <1>5, AllPiecesContiguous DEF Layout
<1>7. total # None
  <2>1. PICK i \in DOMAIN s : s[i] = Piece(f, m[f], n)
    BY <1>3, <1>5
  <2>2. R!End(s[i]) = Payload(FrameLength[f])
    BY <1>3, <2>1, PieceFacts
  <2> QED
    BY <1>1, <1>5, <2>1, <2>2 DEF Layout, EndKnown
<1>8. total = Payload(FrameLength[f])
  BY <1>2, <1>5, <1>7 DEF OfAFrame
<1> QED
  BY <1>1, <1>4, <1>6, <1>8 DEF R!Complete

\* Fragments of one frame that hold all its bytes never wait in the table:
\* whatever was lost, repeated, expired or forgotten before, insert returns
\* the payload with the fragment that completes it (reassembly.rs:73-91).
THEOREM NoneWaitsWhole == Spec => []NoneHeldWhole
<1>1. KInv => NoneHeldWhole
  <2> SUFFICES ASSUME KInv, NEW k \in Id, NEW f \in Frame,
                      \A g \in Stored(k) : g.data = f,
                      UNION {R!Bytes(g) : g \in Stored(k)}
                        = 0 .. Payload(FrameLength[f]) - 1
               PROVE  FALSE
    BY DEF NoneHeldWhole
  <2>1. PICK m \in MtuOf : IInv /\ Laid(m)
    BY DEF KInv
  <2>2. PICK a \in Pieces(f, m[f]) : Piece(f, m[f], a) \notin Stored(k)
    BY <2>1, APieceMissing
  <2>3. m[f] \in MinMtu .. MaxMtu
    BY DEF MtuOf
  <2> DEFINE p == Piece(f, m[f], a)
  <2>4. /\ p \in R!Fragment /\ p.len > 0 /\ R!End(p) \in Nat
        /\ R!End(p) <= Payload(FrameLength[f])
        /\ Payload(FrameLength[f]) \in Nat
    <3>1. Payload(FrameLength[f]) \in Nat
      BY LinkAssumption DEF Payload, EtherIPHeader
    <3> QED
      BY <2>3, <3>1, PieceFacts
  <2>5. p.off \in 0 .. Payload(FrameLength[f]) - 1 /\ p.off \in R!Bytes(p)
    BY <2>4 DEF R!Fragment, R!End, R!Bytes
  <2>6. PICK g \in Stored(k) : p.off \in R!Bytes(g)
    BY <2>5
  <2>7. IsPiece(m, g) /\ g.data = f
    BY <2>1, StoredPiece
  <2>8. PICK b \in Pieces(f, m[f]) : g = Piece(f, m[f], b)
    BY <2>7 DEF IsPiece
  <2>9. a # b
    BY <2>2, <2>6, <2>8
  <2>10. ~R!Overlaps(p, g)
    BY <2>3, <2>8, <2>9, PiecesApart
  <2>11. g \in R!Fragment /\ R!End(g) \in Nat
    BY <2>3, <2>8, PieceFacts
  <2> QED
    BY <2>4, <2>5, <2>6, <2>10, <2>11 DEF R!Overlaps, R!Bytes, R!Fragment, R!End
<1>2. Spec => []KInv
  BY InitKInv, NextKeepsKInv, PTL DEF Spec
<1> QED
  BY <1>1, <1>2, PTL

\* Distinct pieces of a frame, one of them missing, are fewer than its count.
LEMMA FewerThanCount ==
  ASSUME NEW f \in Frame, NEW u \in MinMtu .. MaxMtu, NEW s \in Seq(R!Fragment),
         Distinct(s), NEW a \in Pieces(f, u),
         \A i \in DOMAIN s : \E b \in Pieces(f, u) \ {a} : s[i] = Piece(f, u, b)
  PROVE  Len(s) < Count(FrameLength[f], u)
<1> DEFINE n == Count(FrameLength[f], u)
           T == Pieces(f, u) \ {a}
           h == [i \in 1 .. Len(s) |-> CHOOSE b \in T : s[i] = Piece(f, u, b)]
<1>1. n \in Nat /\ Pieces(f, u) = 1 .. n
  BY LinkAssumption, CountBounds DEF Pieces
<1>2. DOMAIN s = 1 .. Len(s) /\ Len(s) \in Nat
  BY LenProperties
<1> HIDE DEF n
<1>3. /\ IsFiniteSet(Pieces(f, u)) /\ Cardinality(Pieces(f, u)) = n
  BY <1>1, FS_Interval
<1>4. IsFiniteSet(T) /\ Cardinality(T) = n - 1
  BY <1>3, FS_RemoveElement
<1>5. \A i \in 1 .. Len(s) : h[i] \in T /\ s[i] = Piece(f, u, h[i])
  BY <1>2
<1>6. h \in [1 .. Len(s) -> T]
  BY <1>5
<1>7. \A i, j \in 1 .. Len(s) : h[i] = h[j] => i = j
  BY <1>2, <1>5 DEF Distinct
<1> HIDE DEF h, T
<1>8. h \in Injection(1 .. Len(s), T)
  <2>1. IsInjective(h)
    BY <1>6, <1>7 DEF IsInjective
  <2> QED
    BY <1>6, <2>1 DEF Injection
<1>9. Cardinality(1 .. Len(s)) <= Cardinality(T)
  BY <1>4, <1>8, FS_Injection
<1>10. Cardinality(1 .. Len(s)) = Len(s)
  <2>1. \A l \in Nat : Cardinality(1 .. l) = l
    BY FS_Interval
  <2> QED
    BY <1>2, <2>1
<1> QED
  BY <1>1, <1>2, <1>4, <1>9, <1>10 DEF n

\* Unhindered, insert finds nothing against a fragment, and what it completes
\* is the frame.
LEMMA UnhinderedKept ==
  ASSUME KInv, NEW p \in net, DeliverFragment(p), ~Hindered(p),
         net' = net \ {p}, UNCHANGED <<log, copies>>
  PROVE  \/ received'[p.data] = received[p.data] + 1
         \/ /\ R!InsertStores(p.id, Cut(p), ReadMore(p.packet))
            /\ Stored(p.id)' = Stored(p.id) \cup {Cut(p)}
<1> DEFINE k == p.id
           f == p.data
           g == Cut(p)
           more == ReadMore(p.packet)
           old == R!Entry(k).fragments
           total == R!Total(k, g, more)
<1>1. IInv /\ TypeOK /\ p.packet.next = "fragment" /\ Accepted(p.packet)
  BY DEF KInv, DeliverFragment, Accepted
<1>2. PICK m \in MtuOf : Laid(m)
  BY DEF KInv
<1>3. /\ f \in Frame /\ f \in Sent /\ k \in Id /\ log[f].id = k
      /\ m[f] \in MinMtu .. MaxMtu /\ g.data = f /\ g \in R!Fragment
      /\ ~R!Malformed(g, more)
  BY <1>1, <1>2, CutIsPiece
<1>4. PICK a \in Pieces(f, m[f]) : g = Piece(f, m[f], a)
  BY <1>1, <1>2, CutIsPiece
<1>5. copies[f] = 0
  <2>1. copies[f] \in Nat /\ ~(copies[f] > 0)
    BY <1>1, <1>3, LinkAssumption DEF TypeOK, Hindered
  <2> QED
    BY <2>1
<1>6. ~R!Full(k)
  BY DEF Hindered
<1>7. ASSUME NEW x \in Stored(k)
      PROVE  \E b \in Pieces(f, m[f]) \ {a} : x = Piece(f, m[f], b)
  <2>1. x.data \in Sent /\ log[x.data].id = k /\ IsPiece(m, x)
    BY <1>1, <1>2, <1>3, StoredPiece
  <2>2. log[x.data].epoch = log[f].epoch
    BY DEF Hindered
  <2>3. x.data = f
    BY <1>1, <1>3, <2>1, <2>2 DEF IInv, LogUnique
  <2>4. PICK b \in Pieces(f, m[f]) : x = Piece(f, m[f], b)
    BY <2>1, <2>3 DEF IsPiece
  <2>5. g \notin Stored(k)
    BY <1>1, <1>2, <1>5 DEF Laid, Once
  <2> QED
    BY <1>4, <2>4, <2>5
<1>8. /\ old \in Seq(R!Fragment) /\ Distinct(old)
      /\ Stored(k) = {old[i] : i \in DOMAIN old}
  BY <1>1, <1>2, <1>3, StoredList DEF Layout
<1> HIDE DEF old, g, more, total
<1>9. ~R!Discards(k, g)
  <2>1. Len(old) < MaxFragments
    <3>1. Len(old) < Count(FrameLength[f], m[f])
      BY <1>3, <1>7, <1>8, FewerThanCount
    <3>2. m[f] \in Mtu
      BY <1>2, <1>3 DEF Laid, CutFor
    <3>3. Count(FrameLength[f], m[f]) <= MaxFragments
      BY <1>3, <3>2 DEF Hindered, Roomy
    <3>4. Count(FrameLength[f], m[f]) \in Nat /\ Len(old) \in Nat
          /\ MaxFragments \in Nat
      BY <1>3, <1>8, LenProperties, CountBounds, LinkAssumption
    <3> QED
      BY <3>1, <3>3, <3>4
  <2>2. ASSUME NEW i \in DOMAIN old
        PROVE  ~R!Overlaps(g, old[i])
    <3>1. PICK b \in Pieces(f, m[f]) \ {a} : old[i] = Piece(f, m[f], b)
      BY <1>7, <1>8
    <3> QED
      BY <1>3, <1>4, <3>1, PiecesApart
  <2>3. Len(old) \in Nat /\ MaxFragments \in Nat
    BY <1>8, LenProperties, LinkAssumption
  <2> QED
    BY <2>1, <2>2, <2>3 DEF R!Discards, old
<1>10. R!Insert(k, g, more)
  BY DEF DeliverFragment, g, more
<1>11. CASE R!InsertStores(k, g, more)
  BY <1>1, <1>2, <1>11, StoresLaid DEF g, more
<1>12. CASE R!InsertCompletes(k, g, more)
  <2>1. PICK s \in R!Sort(Append(old, g)) :
          R!Complete(s, total) /\ R!Returns(k, g, more, s)
    BY <1>12 DEF R!InsertCompletes, old, total
  <2>2. /\ s \in Seq(R!Fragment) /\ Len(s) \in Nat \ {0}
        /\ {s[i] : i \in DOMAIN s} = Stored(k) \cup {g}
    BY <1>1, <1>2, <1>9, <2>1, ArrangedLaid DEF old, g
  <2>3. OfAFrame(s, total) /\ total \in Nat \cup {None}
    BY <1>1, <2>1, ArrangedLogged DEF old, g, total, more
  <2>4. \A i \in DOMAIN s : s[i].data = f
    <3>1. ASSUME NEW i \in DOMAIN s PROVE s[i].data = f
      <4>1. CASE s[i] = g
        BY <1>3, <4>1
      <4>2. CASE s[i] \in Stored(k)
        <5>1. PICK b \in Pieces(f, m[f]) : s[i] = Piece(f, m[f], b)
          BY <1>7, <4>2
        <5> QED
          BY <1>3, <5>1, PieceFacts
      <4> QED
        BY <2>2, <4>1, <4>2
    <3> QED
      BY <3>1
  <2>5. R!Contiguous(s) /\ total = R!End(s[Len(s)])
    BY <2>1 DEF R!Complete
  <2>6. 1 \in DOMAIN s /\ Len(s) \in DOMAIN s
    BY <2>2, LenProperties
  <2>7. total # None
    <3>1. s[Len(s)] \in R!Fragment
      BY <2>2, <2>6, ElementOfSeq, LenProperties
    <3>2. R!End(s[Len(s)]) \in Nat
      BY <3>1 DEF R!End, R!Fragment
    <3> QED
      BY <2>5, <3>2, LinkAssumption
  <2>8. R!End(s[Len(s)]) = Payload(FrameLength[f])
    BY <2>3, <2>4, <2>5, <2>7 DEF OfAFrame
  <2>9. Original(s) /\ s[1].data = f
    BY <2>4, <2>5, <2>6, <2>8 DEF Original
  <2>10. lastInsert'.out = s /\ s # None
    BY <2>1, <2>2, NoneAssumption DEF R!Returns
  <2>11. received' = [received EXCEPT ![f] = @ + 1]
    BY <2>9, <2>10 DEF DeliverFragment, Forward
  <2>12. received \in [Frame \cup {Mangled} -> Nat]
    BY <1>1 DEF TypeOK
  <2> QED
    BY <1>3, <2>11, <2>12
<1> QED
  BY <1>3, <1>6, <1>9, <1>10, <1>11, <1>12
     DEF R!Insert, R!InsertMalformed, R!InsertRefused, R!InsertDiscards

\* A fragment of a sent frame that arrives is kept, or completes its frame:
\* insert finds it malformed, overlapping, one too many or without a slot
\* only if the frame needs more fragments than are kept, the network repeated a
\* packet of it, the table is full or the sender's identifications began again
\* (reassembly.rs:36-71).
THEOREM NothingDiscarded == Spec => FragmentsKept
<1>1. KInv /\ [Next]_vars =>
        \A p \in net \ net' : DeliverFragment(p) =>
          \/ received'[p.data] = received[p.data] + 1
          \/ Stored(p.id)' = Stored(p.id) \cup {Cut(p)}
          \/ Hindered(p)
  <2> SUFFICES ASSUME KInv, [Next]_vars, NEW p \in net \ net',
                      DeliverFragment(p), ~Hindered(p)
               PROVE  \/ received'[p.data] = received[p.data] + 1
                      \/ Stored(p.id)' = Stored(p.id) \cup {Cut(p)}
    OBVIOUS
  <2>1. ASSUME NEW f \in Frame, NEW mtu \in Mtu,
               SendWhole(f, mtu) \/ SendFragments(f, mtu)
        PROVE  FALSE
    BY <2>1 DEF SendWhole, SendFragments
  <2>2. PICK q \in net : Lose(q) \/ Deliver(q) \/ Repeat(q)
    BY <2>1 DEF Next, vars, network, RestartNear, Tick, Expire, RestartFar
  <2>3. net' = net \ {p} /\ UNCHANGED <<log, copies>>
    BY <2>2 DEF Lose, Deliver, Repeat, near
  <2> QED
    BY <2>3, UnhinderedKept
<1>2. Spec => []KInv
  BY InitKInv, NextKeepsKInv, PTL DEF Spec
<1> QED
  BY <1>1, <1>2, PTL DEF Spec, FragmentsKept

-----------------------------------------------------------------------------
(* In calm, nothing is missing at the end.  What has not been received of  *)
(* a frame of which nothing was lost is in flight or in the table, and     *)
(* what is in the table is fresh: the clock only ticks when nothing is in  *)
(* flight, and then no such frame is left.                                 *)

Placed(m, f) ==
  IF log[f].id = None THEN \E p \in net : p.data = f
  ELSE /\ \A a \in Pieces(f, m[f]) :
            \/ Piece(f, m[f], a) \in Stored(log[f].id)
            \/ \E p \in net : /\ p.packet.next = "fragment"
                              /\ Cut(p) = Piece(f, m[f], a)
       /\ packets[log[f].id] # None => packets[log[f].id].idle = 0

Outstanding == {f \in Sent : Roomy(f) /\ f \notin lost /\ received[f] = 0}

AllPlaced(m) == epoch = 0 => \A f \in Outstanding : Placed(m, f)

AInv == IInv /\ TypeOK /\ \E m \in MtuOf : Laid(m) /\ AllPlaced(m)

\* The two copies of a definition the instance brings are one.
LEMMA SameCardinality ==
  ASSUME NEW S
  PROVE  R!Cardinality(S) = Cardinality(S) /\ R!IsFiniteSet(S) = IsFiniteSet(S)
<1>1. R!Cardinality(S) = Cardinality(S)
  BY DEF R!Cardinality, Cardinality
<1>2. R!IsFiniteSet(S) = IsFiniteSet(S)
  BY DEF R!IsFiniteSet, IsFiniteSet
<1> QED
  BY <1>1, <1>2

\* Within the first epoch, what is stored under a frame's identification is
\* of that frame.
LEMMA StoredAlone ==
  ASSUME IInv, NEW m \in MtuOf, Laid(m), epoch = 0, NEW f \in Sent,
         log[f].id \in Id, NEW g \in Stored(log[f].id)
  PROVE  g.data = f
<1>1. g.data \in Sent /\ log[g.data].id = log[f].id
  BY StoredPiece
<1>2. log[f].epoch = 0 /\ log[g.data].epoch = 0
  BY <1>1 DEF IInv, LogType, LogPast, Sent
<1> QED
  BY <1>1, <1>2 DEF IInv, LogUnique

\* Every slot in use holds a frame of its own that was cut, so a frame whose
\* identification has no slot yet still finds one.
LEMMA SlotFree ==
  ASSUME IInv, NEW m \in MtuOf, Laid(m), Calm, NEW p \in net,
         p.packet.next = "fragment", packets[p.id] = None
  PROVE  ~R!Full(p.id)
<1> DEFINE T == Long \ {p.data}
           h == [k \in R!Held |-> packets[k].fragments[1].data]
<1>1. p.data \in Sent /\ p.id \in Id /\ log[p.data].id = p.id
  BY CutIsPiece
<1>2. ASSUME NEW f \in Sent, log[f].id \in Id PROVE f \in Long
  BY <1>2 DEF Laid, CutFor, Long, Sent
<1>3. ASSUME NEW k \in R!Held
      PROVE  h[k] \in Sent /\ log[h[k]].id = k /\ h[k] \in T
  <2>1. k \in Id /\ packets[k] # None
    BY DEF R!Held
  <2>2. 1 \in DOMAIN packets[k].fragments /\ Filed(k, packets[k].fragments)
    BY <2>1 DEF Laid, TableLaid, IInv, TableLogged
  <2>3. h[k] \in Sent /\ log[h[k]].id = k
    BY <2>2 DEF Filed
  <2>4. h[k] # p.data
    BY <1>1, <2>1, <2>3
  <2> QED
    BY <1>2, <2>1, <2>3, <2>4
<1>4. h \in [R!Held -> T]
  BY <1>3
<1>5. \A j, k \in R!Held : h[j] = h[k] => j = k
  BY <1>3
<1> HIDE DEF h, T
<1>6. h \in Injection(R!Held, T)
  <2>1. IsInjective(h)
    BY <1>4, <1>5 DEF IsInjective
  <2> QED
    BY <1>4, <2>1 DEF Injection
<1>7. p.data \in Long /\ IsFiniteSet(Long) /\ Cardinality(Long) <= MaxPackets
  BY <1>1, <1>2 DEF Calm
<1>8. /\ IsFiniteSet(T) /\ Cardinality(T) = Cardinality(Long) - 1
      /\ Cardinality(Long) \in Nat /\ Cardinality(T) \in Nat
  BY <1>7, FS_RemoveElement, FS_CardinalityType DEF T
<1>9. IsFiniteSet(R!Held) /\ Cardinality(R!Held) <= Cardinality(T)
  BY <1>6, <1>8, FS_Injection
<1>10. Cardinality(R!Held) \in Nat /\ MaxPackets \in Nat
  BY <1>9, FS_CardinalityType, LinkAssumption
<1>11. R!Cardinality(R!Held) = Cardinality(R!Held)
  BY SameCardinality
<1>12. ~(Cardinality(R!Held) >= MaxPackets)
  BY <1>7, <1>8, <1>9, <1>10
<1> QED
  BY <1>11, <1>12 DEF R!Full

\* While pieces of a frame wait in the table, not all do.
LEMMA OutstandingInFlight ==
  ASSUME IInv, NEW m \in MtuOf, Laid(m), epoch = 0, NEW f \in Sent, Placed(m, f)
  PROVE  \E p \in net : p.data = f
<1>1. CASE log[f].id = None
  BY <1>1 DEF Placed
<1>2. CASE log[f].id # None
  <2>1. log[f].id \in Id /\ f \in Frame
    BY <1>2 DEF IInv, LogType, Sent
  <2>2. \A g \in Stored(log[f].id) : g.data = f
    BY <2>1, StoredAlone
  <2>3. PICK a \in Pieces(f, m[f]) : Piece(f, m[f], a) \notin Stored(log[f].id)
    BY <2>1, <2>2, APieceMissing
  <2>4. PICK p \in net : Cut(p) = Piece(f, m[f], a)
    BY <1>2, <2>3 DEF Placed
  <2> QED
    BY <2>4 DEF Cut, Piece
<1> QED
  BY <1>1, <1>2

\* At the start nothing is outstanding.
LEMMA InitAInv == Init => AInv
<1> SUFFICES ASSUME Init PROVE AInv
  OBVIOUS
<1>1. KInv
  BY InitKInv
<1>2. Outstanding = {}
  BY DEF Init, Outstanding, Sent
<1> QED
  BY <1>1, <1>2 DEF AInv, KInv, AllPlaced

\* A frame that is sent is in flight, and its identification has no entry yet.
LEMMA SendPlaced ==
  ASSUME IInv, NEW m \in MtuOf, Laid(m), AllPlaced(m),
         NEW f \in Frame, NEW u \in Mtu, SendWhole(f, u) \/ SendFragments(f, u)
  PROVE  AllPlaced([m EXCEPT ![f] = u])'
<1> DEFINE w == [m EXCEPT ![f] = u]
<1> SUFFICES ASSUME epoch' = 0, NEW g \in Outstanding'
             PROVE  Placed(w, g)'
  BY DEF AllPlaced
<1>1. w[f] = u /\ \A x \in Frame : x # f => w[x] = m[x]
  BY DEF MtuOf
<1> HIDE DEF w
<1>2. /\ f \notin Sent /\ net \subseteq net'
      /\ UNCHANGED <<packets, lost, received>>
  BY DEF SendWhole, SendFragments, far
<1>3. epoch = 0
  <2>1. epoch \in Nat /\ (epoch' = epoch \/ epoch' = epoch + 1)
    BY DEF IInv, LogType, SendWhole, SendFragments, NextId
  <2> QED
    BY <2>1
<1>4. fragId \in Id /\ None \notin Id
      /\ log \in [Frame -> [epoch : Nat, id : Id \cup {None}] \cup {None}]
  BY LinkAssumption DEF IInv, LogType, Id
<1>5. CASE g # f
  <2>1. log'[g] = log[g] /\ w[g] = m[g] /\ g \in Outstanding
    BY <1>1, <1>2, <1>4, <1>5
       DEF SendWhole, SendFragments, Outstanding, Sent
  <2>2. Placed(m, g)
    BY <1>3, <2>1 DEF AllPlaced
  <2>3. \A k : Stored(k)' = Stored(k)
    BY <1>2 DEF Stored, R!Entry, R!Range
  <2> QED
    BY <1>2, <2>1, <2>2, <2>3 DEF Placed
<1>6. CASE g = f /\ SendWhole(f, u)
  <2>1. log'[f].id = None
    BY <1>4, <1>6 DEF SendWhole
  <2>2. Packets(FrameLength[f], u) = <<WholePacket(FrameLength[f])>>
    BY <1>6 DEF SendWhole, Packets
  <2>3. [packet |-> Packets(FrameLength[f], u)[1], id |-> None, data |-> f,
         copy |-> 0] \in Launch(f, u, None)
    BY <2>2 DEF Launch
  <2>4. \E p \in net' : p.data = f
    BY <1>6, <2>3 DEF SendWhole
  <2> QED
    BY <1>6, <2>1, <2>4 DEF Placed
<1>7. CASE g = f /\ SendFragments(f, u)
  <2>1. log'[f].id = fragId
    BY <1>4, <1>7 DEF SendFragments
  <2>2. Packets(FrameLength[f], u) =
          [i \in Pieces(f, u) |-> FragmentPacket(FrameLength[f], u, i)]
    BY <1>7 DEF SendFragments, Packets, Pieces
  <2>3. ASSUME NEW a \in Pieces(f, u)
        PROVE  \E p \in net' : /\ p.packet.next = "fragment"
                               /\ Cut(p) = Piece(f, u, a)
    <3>1. PICK p : p = [packet |-> FragmentPacket(FrameLength[f], u, a),
                        id |-> fragId, data |-> f, copy |-> 0]
      OBVIOUS
    <3>2. p \in Launch(f, u, fragId)
      BY <2>2, <3>1 DEF Launch
    <3>3. p.packet = FragmentPacket(FrameLength[f], u, a) /\ p.data = f
      BY <3>1
    <3>4. Cut(p) = Piece(f, u, a) /\ p.packet.next = "fragment"
      BY <3>3 DEF Cut, Piece, FragmentPacket
    <3> QED
      BY <1>7, <3>2, <3>4 DEF SendFragments
  <2>4. packets'[fragId] = None
    <3> SUFFICES ASSUME packets[fragId] # None PROVE FALSE
      BY <1>2
    <3>1. 1 \in DOMAIN packets[fragId].fragments
          /\ Filed(fragId, packets[fragId].fragments)
      BY <1>4 DEF Laid, TableLaid, IInv, TableLogged
    <3>2. PICK x \in Sent : log[x].id = fragId
      BY <3>1 DEF Filed
    <3>3. log[x].epoch = 0
      BY <1>3, <1>4 DEF IInv, LogPast, Sent
    <3>4. fragId < fragId
      BY <1>3, <1>4, <3>2, <3>3 DEF IInv, LogPast
    <3> QED
      BY <1>4, <3>4 DEF Id
  <2>5. log'[f].id # None
    BY <1>4, <2>1
  <2>6. \A a \in Pieces(f, w[f]) :
          \E p \in net' : /\ p.packet.next = "fragment"
                          /\ Cut(p) = Piece(f, w[f], a)
    BY <1>1, <2>3
  <2> QED
    BY <1>7, <2>1, <2>4, <2>5, <2>6 DEF Placed
<1> QED
  BY <1>5, <1>6, <1>7

\* What stays in flight and in the table stays placed.
LEMMA StaysPlaced ==
  ASSUME NEW m \in MtuOf, NEW f \in Sent, Placed(m, f), log' = log,
         \A p \in net : p.data = f => p \in net',
         log[f].id # None => packets'[log[f].id] = packets[log[f].id]
  PROVE  Placed(m, f)'
<1>1. CASE log[f].id = None
  BY <1>1 DEF Placed
<1>2. CASE log[f].id # None
  <2>1. ASSUME NEW a \in Pieces(f, m[f])
        PROVE  \/ Piece(f, m[f], a) \in Stored(log[f].id)'
               \/ \E p \in net' : /\ p.packet.next = "fragment"
                                  /\ Cut(p) = Piece(f, m[f], a)
    <3>1. CASE Piece(f, m[f], a) \in Stored(log[f].id)
      BY <1>2, <3>1 DEF Stored, R!Entry, R!Range
    <3>2. ASSUME NEW p \in net, p.packet.next = "fragment",
                 Cut(p) = Piece(f, m[f], a)
          PROVE  p \in net'
      <4>1. p.data = f
        BY <3>2 DEF Cut, Piece
      <4> QED
        BY <4>1
    <3> QED
      BY <1>2, <3>1, <3>2 DEF Placed
  <2>2. packets'[log[f].id] # None => packets'[log[f].id].idle = 0
    BY <1>2 DEF Placed
  <2> QED
    BY <1>2, <2>1, <2>2 DEF Placed
<1> QED
  BY <1>1, <1>2

\* insert touches no slot but the one of its key.
LEMMA OtherSlotsStay ==
  ASSUME TableLogged, NEW k \in Id, NEW g, NEW more, R!Insert(k, g, more),
         NEW q \in Id \ {k}
  PROVE  packets'[q] = packets[q]
<1>1. packets \in [Id -> Entries \cup {None}]
  BY DEF TableLogged
<1>2. \A e : packets' = [packets EXCEPT ![k] = e] => packets'[q] = packets[q]
  BY <1>1
<1> QED
  BY <1>2 DEF R!Insert, R!InsertMalformed, R!InsertRefused, R!InsertDiscards,
              R!InsertStores, R!InsertCompletes, R!Remove

\* What is received stays received.
LEMMA ReceivedRises ==
  ASSUME IInv, NEW p \in net, Deliver(p), NEW f \in Frame
  PROVE  received[f] \in Nat /\ received'[f] >= received[f]
<1>1. received \in [Frame \cup {Mangled} -> Nat]
  BY DEF IInv, LogType
<1>2. received' = received
      \/ \E x : received' = [received EXCEPT ![x] = @ + 1]
  BY DEF Deliver, DeliverWhole, DeliverFragment, Forward
<1>3. ASSUME NEW x, received' = [received EXCEPT ![x] = @ + 1]
      PROVE  received'[f] >= received[f]
  <2>1. received'[f] = received[f] \/ received'[f] = received[f] + 1
    BY <1>1, <1>3
  <2> QED
    BY <1>1, <2>1
<1> QED
  BY <1>1, <1>2, <1>3

\* In calm, a fragment of a frame there is room for meets no hindrance.
LEMMA CalmUnhindered ==
  ASSUME IInv, TypeOK, NEW m \in MtuOf, Laid(m), Calm, epoch = 0,
         NEW p \in net, p.packet.next = "fragment", Roomy(p.data)
  PROVE  ~Hindered(p)
<1>1. p.data \in Frame /\ p.data \in Sent /\ p.id \in Id /\ log[p.data].id = p.id
  BY CutIsPiece
<1>2. ~(copies[p.data] > 0)
  <2>1. copies[p.data] \in 0 .. 0
    BY <1>1 DEF TypeOK, Calm
  <2> QED
    BY <2>1
<1>3. ~R!Full(p.id)
  BY SlotFree DEF R!Full
<1>4. ASSUME NEW g \in Stored(p.id)
      PROVE  log[g.data].epoch = log[p.data].epoch
  BY <1>1, StoredAlone
<1> QED
  BY <1>2, <1>3, <1>4 DEF Hindered

\* A fragment that joins the stored ones keeps its frame placed.
LEMMA StoredStaysPlaced ==
  ASSUME IInv, TypeOK, NEW m \in MtuOf, Laid(m), NEW p \in net,
         p.packet.next = "fragment", Placed(m, p.data),
         net' = net \ {p}, UNCHANGED <<log, copies>>,
         R!InsertStores(p.id, Cut(p), ReadMore(p.packet))
  PROVE  Placed(m, p.data)'
<1> DEFINE f == p.data
           k == p.id
<1>1. k \in Id /\ log[f].id = k
  BY CutIsPiece
<1>2. k # None
  BY <1>1, LinkAssumption DEF Id
<1>3. Stored(k)' = Stored(k) \cup {Cut(p)}
  BY StoresLaid
<1>4. packets'[k].idle = 0
  <2>1. PICK s, t : packets' = [packets EXCEPT ![k] =
                      [idle |-> 0, total |-> t, fragments |-> s]]
    BY DEF R!InsertStores
  <2>2. packets \in [Id -> Entries \cup {None}]
    BY DEF IInv, TableLogged
  <2> QED
    BY <1>1, <2>1, <2>2
<1>5. ASSUME NEW a \in Pieces(f, m[f])
      PROVE  \/ Piece(f, m[f], a) \in Stored(k)'
             \/ \E q \in net' : /\ q.packet.next = "fragment"
                                /\ Cut(q) = Piece(f, m[f], a)
  <2>1. CASE Piece(f, m[f], a) \in Stored(k)
    BY <1>3, <2>1
  <2>2. ASSUME NEW q \in net, q.packet.next = "fragment",
               Cut(q) = Piece(f, m[f], a)
        PROVE  \/ Piece(f, m[f], a) \in Stored(k)'
               \/ \E r \in net' : /\ r.packet.next = "fragment"
                                  /\ Cut(r) = Piece(f, m[f], a)
    <3>1. CASE q = p
      BY <1>3, <2>2, <3>1
    <3>2. CASE q # p
      BY <2>2, <3>2
    <3> QED
      BY <3>1, <3>2
  <2> QED
    BY <1>1, <1>2, <2>1, <2>2 DEF Placed
<1> QED
  BY <1>1, <1>2, <1>4, <1>5 DEF Placed

\* A packet that arrives leaves the frames that stay outstanding placed.
LEMMA DeliverPlaced ==
  ASSUME KInv, NEW m \in MtuOf, Laid(m), AllPlaced(m), Calm,
         NEW p \in net, Deliver(p)
  PROVE  AllPlaced(m)'
<1> SUFFICES ASSUME epoch' = 0, NEW f \in Outstanding'
             PROVE  Placed(m, f)'
  BY DEF AllPlaced
<1>1. IInv /\ TypeOK
  BY DEF KInv
<1>2. epoch = 0 /\ net' = net \ {p} /\ UNCHANGED <<log, copies, lost>>
  BY DEF Deliver, near
<1>3. f \in Sent /\ f \in Frame /\ Roomy(f) /\ f \notin lost /\ received'[f] = 0
  BY <1>2 DEF Outstanding, Sent, Roomy
<1>4. received[f] = 0
  BY <1>1, <1>3, ReceivedRises
<1>5. Placed(m, f)
  BY <1>2, <1>3, <1>4 DEF AllPlaced, Outstanding
<1>6. received'[f] # received[f] + 1
  BY <1>3, <1>4
<1>7. CASE DeliverWhole(p)
  <2>1. p.data # f
    BY <1>1, <1>3, <1>6, <1>7 DEF DeliverWhole, Forward, IInv, LogType
  <2> QED
    BY <1>2, <1>3, <1>5, <1>7, <2>1, StaysPlaced DEF DeliverWhole
<1>8. CASE DeliverFragment(p)
  <2>1. p.packet.next = "fragment" /\ R!Insert(p.id, Cut(p), ReadMore(p.packet))
    BY <1>8 DEF DeliverFragment, Accepted
  <2>2. p.data \in Sent /\ p.id \in Id /\ log[p.data].id = p.id
    BY <1>1, <2>1, CutIsPiece
  <2>3. CASE p.data = f
    <3>1. ~Hindered(p)
      BY <1>1, <1>2, <1>3, <2>1, <2>3, CalmUnhindered
    <3>2. R!InsertStores(p.id, Cut(p), ReadMore(p.packet))
      BY <1>2, <1>6, <1>8, <2>3, <3>1, UnhinderedKept
    <3> QED
      BY <1>1, <1>2, <1>5, <2>1, <2>3, <3>2, StoredStaysPlaced
  <2>4. CASE p.data # f
    <3>1. ASSUME log[f].id # None
          PROVE  packets'[log[f].id] = packets[log[f].id]
      <4>1. log[f].id \in Id
        BY <1>1, <1>3, <3>1 DEF IInv, LogType, Sent
      <4>2. log[f].epoch = 0 /\ log[p.data].epoch = 0
        BY <1>1, <1>2, <1>3, <2>2 DEF IInv, LogType, LogPast, Sent
      <4>3. log[f].id # p.id
        BY <1>1, <1>3, <2>2, <2>4, <4>1, <4>2 DEF IInv, LogUnique
      <4> QED
        BY <1>1, <2>1, <2>2, <4>1, <4>3, OtherSlotsStay DEF IInv
    <3> QED
      BY <1>2, <1>3, <1>5, <2>4, <3>1, StaysPlaced
  <2> QED
    BY <2>3, <2>4
<1> QED
  BY <1>7, <1>8 DEF Deliver

\* A packet the network loses is no longer awaited.
LEMMA LosePlaced ==
  ASSUME NEW m \in MtuOf, AllPlaced(m), NEW p \in net, Lose(p)
  PROVE  AllPlaced(m)'
<1> SUFFICES ASSUME epoch' = 0, NEW f \in Outstanding'
             PROVE  Placed(m, f)'
  BY DEF AllPlaced
<1>1. /\ net' = net \ {p} /\ lost' = lost \cup {p.data}
      /\ UNCHANGED <<epoch, log, packets, received>>
  BY DEF Lose, near, far
<1>2. f \in Outstanding /\ f \in Sent /\ f # p.data
  BY <1>1 DEF Outstanding, Sent
<1>3. Placed(m, f)
  BY <1>1, <1>2 DEF AllPlaced
<1> QED
  BY <1>1, <1>2, <1>3, StaysPlaced

\* The clock ticks when nothing is outstanding any more, and expire takes no
\* entry that is fresh.
LEMMA ClockPlaced ==
  ASSUME IInv, NEW m \in MtuOf, Laid(m), AllPlaced(m), Calm, Tick \/ Expire
  PROVE  AllPlaced(m)'
<1> SUFFICES ASSUME epoch' = 0, NEW f \in Outstanding'
             PROVE  Placed(m, f)'
  BY DEF AllPlaced
<1>1. UNCHANGED <<epoch, log, net, lost, received>>
  BY DEF Tick, Expire, near, network
<1>2. f \in Outstanding /\ f \in Sent /\ f \in Frame
  BY <1>1 DEF Outstanding, Sent
<1>3. Placed(m, f)
  BY <1>1, <1>2 DEF AllPlaced
<1>4. CASE Tick
  <2>1. \E p \in net : p.data = f
    BY <1>1, <1>2, <1>3, OutstandingInFlight
  <2> QED
    BY <1>4, <2>1 DEF Tick, Calm
<1>5. CASE Expire
  <2>1. ASSUME log[f].id # None
        PROVE  packets'[log[f].id] = packets[log[f].id]
    <3>1. log[f].id \in Id
      BY <1>2, <2>1 DEF IInv, LogType, Sent
    <3>2. packets[log[f].id] # None => packets[log[f].id].idle = 0
      BY <1>3, <2>1 DEF Placed
    <3>3. Timeout \in Nat \ {0}
      BY LinkAssumption
    <3>4. packets[log[f].id] # None => ~R!Stale(packets[log[f].id])
      BY <3>2, <3>3 DEF R!Stale
    <3> QED
      BY <1>5, <3>1, <3>4 DEF Expire, R!Expire
  <2> QED
    BY <1>1, <1>2, <1>3, <2>1, StaysPlaced
<1> QED
  BY <1>4, <1>5

\* In calm, every step leaves what is outstanding placed.
LEMMA NextKeepsAInv == Calm /\ AInv /\ [Next]_vars => AInv'
<1> SUFFICES ASSUME Calm, AInv, [Next]_vars PROVE AInv'
  OBVIOUS
<1>1. IInv /\ TypeOK /\ IInv' /\ TypeOK'
  BY NextKeepsIInv, NextTyped DEF AInv
<1>2. PICK m \in MtuOf : Laid(m) /\ AllPlaced(m)
  BY DEF AInv
<1>3. KInv
  BY <1>1, <1>2 DEF KInv
<1>4. ASSUME NEW f \in Frame, NEW u \in Mtu, SendWhole(f, u) \/ SendFragments(f, u)
      PROVE  \E w \in MtuOf : Laid(w)' /\ AllPlaced(w)'
  <2>1. /\ [m EXCEPT ![f] = u] \in MtuOf
        /\ Laid([m EXCEPT ![f] = u])'
    BY <1>1, <1>2, <1>4, SendLaid
  <2>2. AllPlaced([m EXCEPT ![f] = u])'
    BY <1>1, <1>2, <1>4, SendPlaced
  <2> QED
    BY <2>1, <2>2
<1>5. ASSUME NEW p \in net, Repeat(p) PROVE FALSE
  <2>1. p.data \in Frame /\ copies[p.data] \in 0 .. 0 /\ copies[p.data] < 0
    BY <1>1, <1>5 DEF TypeOK, Repeat, Calm
  <2> QED
    BY <2>1
<1>6. ASSUME NEW p \in net, Deliver(p) PROVE Laid(m)' /\ AllPlaced(m)'
  BY <1>1, <1>2, <1>3, <1>6, DeliverLaid, DeliverPlaced
<1>7. ASSUME \/ RestartNear \/ Tick \/ Expire \/ UNCHANGED vars
             \/ \E p \in net : Lose(p)
      PROVE  Laid(m)' /\ AllPlaced(m)'
  <2>1. Laid(m)'
    BY <1>1, <1>2, <1>7, GoneLaid
  <2>2. CASE RestartNear
    <3>1. epoch' = epoch + 1 /\ epoch \in Nat
      BY <1>1, <2>2 DEF RestartNear, IInv, LogType
    <3>2. epoch' # 0
      BY <3>1
    <3> QED
      BY <2>1, <3>2 DEF AllPlaced
  <2>3. CASE Tick \/ Expire
    BY <1>1, <1>2, <2>1, <2>3, ClockPlaced
  <2>4. CASE \E p \in net : Lose(p)
    BY <1>2, <2>1, <2>4, LosePlaced
  <2>5. CASE UNCHANGED vars
    BY <1>2, <2>1, <2>5
       DEF vars, near, network, far, AllPlaced, Outstanding, Placed, Sent,
           Stored, R!Entry, R!Range
  <2> QED
    BY <1>7, <2>2, <2>3, <2>4, <2>5
<1>8. ~RestartFar
  BY DEF RestartFar, Calm
<1>9. \E w \in MtuOf : Laid(w)' /\ AllPlaced(w)'
  BY <1>2, <1>4, <1>5, <1>6, <1>7, <1>8 DEF Next
<1> QED
  BY <1>1, <1>9 DEF AInv

\* What is outstanding and no longer in flight would be in the table, where
\* not all of a frame waits.
LEMMA NoneIsMissing == Calm /\ AInv => NoneMissing
<1> SUFFICES ASSUME AInv, Calm, epoch = 0, NEW f \in Sent, Roomy(f), f \notin lost,
                    \A p \in net : p.data # f, ~(received[f] > 0)
             PROVE  FALSE
  BY DEF NoneMissing
<1>1. IInv
  BY DEF AInv
<1>2. PICK m \in MtuOf : Laid(m) /\ AllPlaced(m)
  BY DEF AInv
<1>3. received[f] \in Nat
  BY <1>1 DEF IInv, LogType, Sent
<1>4. Placed(m, f)
  BY <1>2, <1>3 DEF AllPlaced, Outstanding
<1> QED
  BY <1>1, <1>2, <1>4, OutstandingInFlight

\* In calm, a frame the peer has room for, of which the network lost nothing and
\* holds nothing any more, was put on the far LAN: reassembly never leaves it waiting, whatever
\* order its fragments came in and whatever others took slots of the table.
THEOREM NothingMissing == Spec => []NoneMissing
<1>1. Init => (Calm => AInv)
  BY InitAInv
<1>2. (Calm => AInv) /\ [Next]_vars => (Calm => AInv)'
  <2>1. Calm' <=> Calm
    BY DEF Calm, Long
  <2> QED
    BY <2>1, NextKeepsAInv
<1>3. (Calm => AInv) => NoneMissing
  BY NoneIsMissing DEF NoneMissing
<1> QED
  BY <1>1, <1>2, <1>3, PTL DEF Spec

=============================================================================
