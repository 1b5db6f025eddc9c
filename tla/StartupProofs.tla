---------------------------- MODULE StartupProofs ----------------------------
(***************************************************************************)
(* What holds of the whole process, whatever the command line, the number  *)
(* of workers and of lcores, and whichever calls of DPDK fail.             *)
(***************************************************************************)
EXTENDS Startup, ForwardingProofs, WellFoundedInduction

-----------------------------------------------------------------------------
(* The inductive invariant.                                                *)

\* A port is open as long as someone holds it, and the pool is there as long
\* as anything is held; a worker in forward holds everything.
Holding ==
  /\ \A p \in Port : stage[p] = "open" <=> held[p] # {}
  /\ \A p \in Port : stage[p] \notin {"closed", "open"} =>
       main = p \/ (stage[p] = "started" /\ result = "promiscuous")
  /\ \A r \in Resource, w \in Worker :
       w \in held[r] => pc[w] \notin {"absent", "stopped"}
  /\ \A w \in Worker : Alive(w) => \A r \in Resource : w \in held[r]
  /\ pool = "live" <=> \E r \in Resource : held[r] # {}

\* What main holds at each of its stages.
Opening ==
  /\ main = "init" => \A r \in Resource : held[r] = {}
  /\ main \in Port => Main \in held["env"] /\ held[main] = {}
  /\ main = "lan" => held["wan"] = {}
  /\ main = "wan" => Main \in held["lan"]
  /\ main \in {"mac", "launch", "wait"} =>
       \A r \in Resource : Main \in held[r]
  /\ main = "returned" => \A r \in Resource : Main \notin held[r]
  /\ result = "promiscuous" => main \in {"leave", "returned"}

\* The workers are launched in order, each once.
Launching ==
  /\ Accepts(config)
  /\ main \in {"init", "lan", "wan", "mac"} => launched = 0
  /\ main = "launch" => Several /\ ~TooFewLcores
  /\ \A w \in Worker : pc[w] = "absent" <=> w >= launched

\* The lcores of the workers go up, and none is left out.
Upto(l) == {k \in config.lcores \ {config.mainLcore} : k <= l}

Lcores ==
  /\ \A w \in Worker : lcore[w] = None <=> w >= launched
  /\ Several => \A w \in Worker : w < launched =>
       /\ lcore[w] # config.mainLcore
       /\ \A v \in Worker : v < w => lcore[v] < lcore[w]
  /\ Several /\ launched > 0 =>
       Cardinality(Upto(lcore[launched - 1])) = launched

\* A worker that is not in forward has no packets, nor has a port that is not
\* started.
Idle ==
  /\ \A w \in Worker : ~Alive(w) => \A a \in Owned(w) : list[a] = <<>>
  /\ \A p \in Port : stage[p] \notin {"started", "open"} =>
       \A a \in OfPort(p) : list[a] = <<>>

IInv ==
  /\ PacketsInv /\ TypeOK /\ OnlyForCause /\ EnoughLcores
  /\ Holding /\ Opening /\ Launching /\ Lcores /\ Idle

-----------------------------------------------------------------------------
(* The constants.                                                          *)

\* A command line accepted has workers, all of them known, and a valid burst.
LEMMA AcceptedLine ==
  ASSUME config \in Config, Accepts(config)
  PROVE  /\ config.workers \in Nat \ {0} /\ ValidBurst(config.burst)
         /\ 0 .. config.workers - 1 \subseteq Worker
         /\ ~Several => config.workers = 1
<1>1. 0 .. config.workers - 1 \subseteq Worker
  BY StartupAssumption
<1>2. \A n \in PowersOfTwo : n \in Nat \ {0}
  BY SMT DEF PowersOfTwo
<1>3. config.workers \in Nat \ {0}
  BY <1>2 DEF Accepts
<1>4. ValidBurst(config.burst)
  BY DEF Accepts, ValidBurst
<1> QED
  BY <1>1, <1>3, <1>4 DEF Several

\* What the constants are.
LEMMA Constants ==
  /\ Worker \subseteq Nat /\ Main \notin Worker
  /\ None \notin Nat /\ None \notin Errors
  /\ "lan" \in Port /\ "wan" \in Port /\ "lan" \in Resource
  /\ "wan" \in Resource /\ "env" \in Resource /\ "env" \notin Port
  /\ Port \subseteq Resource
  /\ \A c \in Config : /\ IsFiniteSet(c.lcores) /\ c.mainLcore \in c.lcores
                       /\ c.lcores \subseteq Nat
BY ForwardingAssumption, StartupAssumption DEF Port, Resource

\* Nothing is outside the places of the workers and the ports.
LEMMA AllPlaces ==
  \A a \in Place : \/ \E w \in Worker : a \in Owned(w)
                   \/ \E p \in Port : a \in OfPort(p)
BY DEF Place, Owned, OfPort, Port

-----------------------------------------------------------------------------
(* The steps that leave the packets alone.                                 *)

\* Steps that touch no packet keep the packets' invariant.
LEMMA PacketsSame ==
  ASSUME PacketsInv, UNCHANGED vars
  PROVE  PacketsInv' /\ PacketsTypeOK'
BY DEF vars, PacketsInv, PacketsTypeOK, OneOwner, Cutting

\* Steps of others keep the causes.
LEMMA OnlyForCauseSame ==
  ASSUME OnlyForCause, UNCHANGED <<config, cause>>
  PROVE  OnlyForCause'
BY DEF OnlyForCause, Several

\* main begins with nothing open and no worker.
LEMMA InitIInv ==
  ASSUME Init
  PROVE  IInv
<1>1. PacketsTypeOK
  BY Constants, ForwardingAssumption DEF Init, PacketsTypeOK, PcValues
<1>2. \A a \in Place : Mbufs(list[a]) = {}
  BY DEF Init, Mbufs
<1>3. OneOwner
  BY <1>2 DEF Init, OneOwner, Partitions, Apart, MbufsAt
<1>4. PacketsInv
  BY <1>1, <1>3 DEF PacketsInv, Cutting, Init
<1>5. TypeOK
  BY <1>1, AcceptedLine DEF TypeOK, Init, PacketsTypeOK, Stages
<1>6. OnlyForCause /\ EnoughLcores
  BY Constants DEF Init, OnlyForCause, EnoughLcores, Errors
<1>7. Holding /\ Opening
  <2>1. /\ main = "init" /\ result = None /\ pool = "absent"
        /\ \A p \in Port : stage[p] = "closed"
        /\ \A r \in Resource : held[r] = {}
        /\ \A w \in Worker : pc[w] = "absent"
    BY DEF Init
  <2>2. Holding
    BY <2>1, Constants DEF Holding, Alive
  <2>3. result # "promiscuous" /\ main \notin Port
    BY <2>1, Constants DEF Port, Errors
  <2> QED
    BY <2>1, <2>2, <2>3 DEF Opening
<1>8. Launching /\ Lcores
  <2>1. /\ main = "init" /\ launched = 0 /\ Accepts(config)
        /\ \A w \in Worker : pc[w] = "absent" /\ lcore[w] = None /\ w \in Nat
    BY Constants DEF Init
  <2>2. \A w \in Worker : w >= launched /\ ~(w < launched)
    BY <2>1
  <2> QED
    BY <2>1, <2>2 DEF Launching, Lcores
<1>9. Idle
  <2>1. \A a \in Place : list[a] = <<>>
    BY DEF Init
  <2>2. \A w \in Worker : Owned(w) \subseteq Place
    BY DEF Owned, Place
  <2>3. \A p \in Port : OfPort(p) \subseteq Place
    BY DEF OfPort, Place
  <2> QED
    BY <2>1, <2>2, <2>3 DEF Idle
<1> QED
  BY <1>4, <1>5, <1>6, <1>7, <1>8, <1>9 DEF IInv

\* Before the workers are launched no port is left half open.
LEMMA Unopened ==
  ASSUME IInv, main \in {"init", "lan", "wan", "mac", "launch", "wait"}
  PROVE  /\ \A p \in Port : main # p => stage[p] \in {"closed", "open"}
         /\ result # "promiscuous"
BY DEF IInv, Holding, Opening, TypeOK

\* Steps that launch no worker keep what is known of the launched ones.
LEMMA LaunchingSame ==
  ASSUME IInv, UNCHANGED <<config, pc, launched, lcore>>,
         main' \in {"init", "lan", "wan", "mac"} => launched = 0,
         main' = "launch" => Several /\ ~TooFewLcores
  PROVE  Launching' /\ Lcores'
<1>1. Launching'
  BY DEF IInv, Launching, Accepts, Several, TooFewLcores
<1>2. Upto(lcore[launched - 1])' = Upto(lcore[launched - 1])
  BY DEF Upto
<1>3. Lcores'
  BY <1>2 DEF IInv, Lcores, Several
<1> QED
  BY <1>1, <1>3

\* rte_eal_init and the creation of the pool.
LEMMA OpenEnvironmentKeeps ==
  ASSUME IInv, OpenEnvironment
  PROVE  IInv'
<1>1. /\ main = "init" /\ launched = 0 /\ \A r \in Resource : held[r] = {}
      /\ UNCHANGED <<vars, stage, launched, lcore>>
      /\ held \in [Resource -> SUBSET Holder]
  BY DEF OpenEnvironment, IInv, Opening, Launching, TypeOK
<1>2. PacketsInv' /\ PacketsTypeOK' /\ OnlyForCause'
  BY <1>1, PacketsSame, OnlyForCauseSame DEF IInv, vars
<1>3. \/ /\ main' = "lan" /\ pool' = "live" /\ result' = result
         /\ held' = [held EXCEPT !["env"] = {Main}]
      \/ /\ main' = "leave" /\ result' = "environment"
         /\ UNCHANGED <<held, pool>>
  BY DEF OpenEnvironment, Leaves
<1>4. TypeOK' /\ EnoughLcores'
  BY <1>1, <1>2, <1>3
     DEF IInv, TypeOK, EnoughLcores, Errors, Holder, Resource, vars
<1>5. /\ \A p \in Port : stage[p] = "closed"
      /\ result # "promiscuous" /\ \A w \in Worker : pc[w] = "absent"
  <2>1. \A p \in Port : stage[p] = "closed" \/ stage[p] = "open"
    BY <1>1, Unopened DEF Port
  <2>2. \A w \in Worker : w >= launched
    <3>1. launched = 0
      BY <1>1
    <3>2. Worker \subseteq Nat
      BY Constants
    <3> QED
      BY <3>1, <3>2
  <2>3. \A p \in Port : stage[p] # "open"
    BY <1>1, Constants DEF IInv, Holding
  <2>4. result # "promiscuous"
    BY <1>1, Unopened
  <2>5. \A w \in Worker : pc[w] = "absent"
    BY <2>2 DEF IInv, Launching
  <2> QED
    BY <2>1, <2>3, <2>4, <2>5
<1>6. Holding' /\ Opening'
  <2>1. \A p \in Port : held'[p] = {}
    BY <1>1, <1>3, Constants
  <2>2. stage' = stage /\ pc' = pc
    BY <1>1 DEF vars
  <2>3. \A w \in Worker : ~Alive(w)' /\ \A r \in Resource : w \notin held'[r]
    BY <1>1, <1>3, <1>5, <2>2, Constants DEF Alive
  <2>4. pool' = "live" <=> \E r \in Resource : held'[r] # {}
    BY <1>1, <1>3, Constants DEF IInv, Holding
  <2>5. Holding'
    BY <1>5, <2>1, <2>2, <2>3, <2>4 DEF Holding
  <2>6. Opening'
    BY <1>1, <1>3, <1>5, <2>1, Constants DEF Opening, Port
  <2> QED
    BY <2>5, <2>6
<1>7. Launching' /\ Lcores'
  BY <1>1, <1>3, LaunchingSame DEF vars
<1>8. Idle'
  BY <1>1 DEF IInv, Idle, vars, Alive
<1> QED
  BY <1>2, <1>4, <1>6, <1>7, <1>8 DEF IInv

\* A call of open_with_config succeeds.
LEMMA OpenFurtherKeeps ==
  ASSUME IInv, NEW p \in Port, OpenFurther(p)
  PROVE  IInv'
<1>1. /\ main = p /\ launched = 0 /\ held[p] = {} /\ Main \in held["env"]
      /\ UNCHANGED <<vars, pool, launched, lcore, result>>
      /\ held \in [Resource -> SUBSET Holder]
      /\ stage \in [Port -> Stages]
      /\ stage[p] \in {"closed", "configured", "queues", "started"}
      /\ result # "promiscuous"
  BY Unopened DEF OpenFurther, IInv, Opening, Launching, Holding, TypeOK, Port,
         Stages
<1>2. PacketsInv' /\ PacketsTypeOK' /\ OnlyForCause'
  BY <1>1, PacketsSame, OnlyForCauseSame DEF IInv, vars
<1>3. /\ stage'[p] = OpenStep[stage[p]]
      /\ \A q \in Port \ {p} : stage'[q] = stage[q]
      /\ OpenStep[stage[p]] \in {"configured", "queues", "started", "open"}
      /\ OpenStep[stage[p]] = "open" <=> stage[p] = "started"
      /\ stage' \in [Port -> Stages]
  BY <1>1 DEF OpenFurther, OpenStep, Stages
<1>4. \/ /\ stage[p] = "started" /\ main' = AfterOpen[p]
         /\ held' = [held EXCEPT ![p] = {Main}]
      \/ stage[p] # "started" /\ main' = main /\ held' = held
  BY DEF OpenFurther
<1>5. /\ p = "lan" => AfterOpen[p] = "wan"
      /\ p = "wan" => AfterOpen[p] = "mac"
      /\ p = "lan" \/ p = "wan"
  BY DEF AfterOpen, Port
<1>6. TypeOK' /\ EnoughLcores'
  BY <1>1, <1>2, <1>3, <1>4, <1>5, Constants
     DEF IInv, TypeOK, EnoughLcores, Errors, Holder, vars
<1>7. Holding'
  <2>1. \A q \in Port : stage'[q] = "open" <=> held'[q] # {}
    BY <1>1, <1>3, <1>4, Constants DEF IInv, Holding
  <2>2. \A q \in Port : stage'[q] \notin {"closed", "open"} => main' = q
    <3>1. stage[p] = "started" => stage'[p] = "open"
      BY <1>3
    <3>2. \A q \in Port \ {p} : stage[q] \in {"closed", "open"}
      BY <1>1, Unopened, <1>5
    <3> QED
      BY <3>1, <3>2, <1>1, <1>3, <1>4
  <2>3. \A r \in Resource, w \in Worker : w \in held'[r] => w \in held[r]
    BY <1>1, <1>4, Constants
  <2>4. \A w \in Worker : Alive(w) => \A r \in Resource : w \in held'[r]
    BY <1>1, <1>4 DEF IInv, Holding, Port, Resource
  <2>5. pool = "live" /\ Main \in held'["env"]
    BY <1>1, <1>4, Constants DEF IInv, Holding
  <2> QED
    BY <2>1, <2>2, <2>3, <2>4, <2>5, <1>1, Constants
       DEF IInv, Holding, vars, Alive
<1>8. Opening'
  BY <1>1, <1>4, <1>5, Constants DEF IInv, Opening, Port, Resource
<1>9. Launching' /\ Lcores'
  BY <1>1, <1>4, <1>5, LaunchingSame DEF vars
<1>10. Idle'
  BY <1>1, <1>3 DEF IInv, Idle, vars, Alive
<1> QED
  BY <1>2, <1>6, <1>7, <1>8, <1>9, <1>10 DEF IInv

\* The packets of a port that is closed go back to the pool, and no other's.
LEMMA CloseKeeps ==
  ASSUME PacketsInv, NEW p \in Port, Close(p)
  PROVE  /\ PacketsInv' /\ UNCHANGED <<config, pc, cut, arrivals, cause>>
         /\ \A a \in OfPort(p) : list'[a] = <<>>
         /\ \A a \in Place : list'[a] = list[a] \/ list'[a] = <<>>
<1>1. /\ list' = Emptied(list, OfPort(p))
      /\ free' = free \cup MbufsAt(list, OfPort(p))
      /\ UNCHANGED <<config, pc, cut, arrivals, cause>>
  BY DEF Close
<1>2. OfPort(p) \in SUBSET Place /\ list \in [Place -> Seq(Packet)]
  BY DEF OfPort, Place, PacketsInv, PacketsTypeOK
<1>3. list' \in [Place -> Seq(Packet)]
  BY <1>1, <1>2, Freed
<1>4. Partitions(list', free', Pool[config])
  BY <1>1, <1>2, FreeOwned DEF PacketsInv, OneOwner
<1>5. free' \subseteq Mbuf
  BY <1>4, PoolOfMbufs DEF PacketsInv, PacketsTypeOK
<1>6. PacketsTypeOK' /\ OneOwner'
  BY <1>1, <1>3, <1>4, <1>5 DEF PacketsInv, PacketsTypeOK, OneOwner
<1>7. \A w \in Worker :
        list'[<<w, "received", "lan">>] = list[<<w, "received", "lan">>]
  <2>1. \A w \in Worker : /\ <<w, "received", "lan">> \in Place
                          /\ <<w, "received", "lan">> \notin OfPort(p)
    BY Places DEF OfPort
  <2> QED
    BY <2>1, <1>1 DEF Emptied
<1>8. Cutting'
  BY <1>1, <1>7 DEF Cutting, PacketsInv
<1>9. /\ \A a \in OfPort(p) : list'[a] = <<>>
      /\ \A a \in Place : list'[a] = list[a] \/ list'[a] = <<>>
  BY <1>1, <1>2 DEF Emptied
<1> QED
  BY <1>1, <1>6, <1>8, <1>9 DEF PacketsInv

\* Whoever has no packets has none after others have been taken away.
LEMMA IdleStays ==
  ASSUME Idle, UNCHANGED pc,
         \A a \in Place : list'[a] = list[a] \/ list'[a] = <<>>,
         \A p \in Port :
           \/ stage'[p] = stage[p]
           \/ stage'[p] \in {"started", "open"}
           \/ \A a \in OfPort(p) : list'[a] = <<>>
  PROVE  Idle'
<1>1. /\ \A w \in Worker : Owned(w) \subseteq Place
      /\ \A p \in Port : OfPort(p) \subseteq Place
  BY DEF Owned, OfPort, Place
<1> QED
  BY <1>1 DEF Idle, Alive

\* A call of open_with_config fails, and the port is closed.
LEMMA FailOpenKeeps ==
  ASSUME IInv, NEW p \in Port, FailOpen(p)
  PROVE  IInv'
<1>1. /\ main = p /\ launched = 0 /\ held[p] = {}
      /\ stage[p] \in {"closed", "configured", "queues", "started"}
      /\ \A q \in Port \ {p} : stage[q] \in {"closed", "open"}
      /\ UNCHANGED <<held, pool, launched, lcore>> /\ main' = "leave"
      /\ result' = IF stage[p] = "started" THEN "promiscuous" ELSE "open"
  BY Unopened
     DEF FailOpen, Leaves, IInv, Opening, Launching, Holding, TypeOK, Port,
         Stages
<1>2. /\ PacketsInv' /\ UNCHANGED <<config, pc, cause>>
      /\ \A a \in Place : list'[a] = list[a] \/ list'[a] = <<>>
      /\ \/ /\ stage' = [stage EXCEPT ![p] = "closed"]
            /\ \A a \in OfPort(p) : list'[a] = <<>>
         \/ stage' = stage /\ result' = "promiscuous" /\ stage[p] = "started"
  <2>1. CASE Close(p)
    BY <2>1, CloseKeeps DEF IInv, Close
  <2>2. CASE stage[p] = "started" /\ UNCHANGED <<vars, stage>>
    BY <2>2, <1>1, PacketsSame DEF IInv, vars
  <2> QED
    BY <2>1, <2>2 DEF FailOpen
<1>3. /\ stage' \in [Port -> Stages]
      /\ stage'[p] = "closed"
           \/ (stage'[p] = "started" /\ result' = "promiscuous")
      /\ \A q \in Port \ {p} : stage'[q] = stage[q]
  BY <1>2 DEF IInv, TypeOK, Stages
<1>4. OnlyForCause' /\ PacketsTypeOK'
  BY <1>2, OnlyForCauseSame DEF IInv, PacketsInv
<1>5. TypeOK' /\ EnoughLcores'
  BY <1>1, <1>2, <1>3, <1>4 DEF IInv, TypeOK, EnoughLcores, Errors
<1>6. Holding'
  <2>1. \A q \in Port : stage'[q] = "open" <=> held'[q] # {}
    BY <1>1, <1>3 DEF IInv, Holding
  <2>2. \A q \in Port : stage'[q] \notin {"closed", "open"} =>
          stage'[q] = "started" /\ result' = "promiscuous"
    BY <1>1, <1>3
  <2> QED
    BY <2>1, <2>2, <1>1, <1>2 DEF IInv, Holding, Alive
<1>7. Opening'
  BY <1>1 DEF Opening, Port
<1>8. Launching' /\ Lcores'
  BY <1>1, <1>2, LaunchingSame
<1>9. Idle'
  BY <1>2, <1>3, IdleStays DEF IInv
<1> QED
  BY <1>2, <1>4, <1>5, <1>6, <1>7, <1>8, <1>9 DEF IInv

\* The steps of main that touch nothing but main.
LEMMA QuietKeeps ==
  ASSUME IInv, UNCHANGED <<vars, stage, held, pool, launched, lcore>>,
         main \in {"mac", "launch", "wait", "leave"},
         main' \in {"launch", "wait", "leave", "returned"},
         main' = "launch" => Several /\ ~TooFewLcores,
         main' \in {"launch", "wait"} => main # "leave",
         main' = "returned" => \A r \in Resource : Main \notin held[r],
         \/ result' = result
         \/ /\ main # "leave" /\ main' = "leave"
            /\ result' \in {"mac", "lcores", "launch", "worker", "panic"}
  PROVE  IInv'
<1>1. PacketsInv' /\ PacketsTypeOK' /\ OnlyForCause'
  BY PacketsSame, OnlyForCauseSame DEF IInv, vars
<1>2. result = "promiscuous" => main = "leave"
  BY Unopened
<1>3. TypeOK' /\ EnoughLcores'
  BY <1>1 DEF IInv, TypeOK, EnoughLcores, Errors, vars
<1>4. \A p \in Port : main # p /\ main' # p
  BY DEF Port
<1>5. Holding'
  <2>1. \A p \in Port : stage[p] \notin {"closed", "open"} =>
          stage[p] = "started" /\ result = "promiscuous" /\ main = "leave"
    BY <1>2, <1>4 DEF IInv, Holding
  <2> QED
    BY <2>1 DEF IInv, Holding, Alive, vars
<1>6. Opening'
  BY <1>2, <1>4 DEF IInv, Opening
<1>7. Launching' /\ Lcores'
  BY LaunchingSame DEF vars
<1>8. Idle'
  BY DEF IInv, Idle, vars, Alive
<1> QED
  BY <1>1, <1>3, <1>5, <1>6, <1>7, <1>8 DEF IInv

-----------------------------------------------------------------------------
(* The lcores the workers are launched on.                                 *)

Below == {p \in Nat \X Nat : p[1] < p[2]}

\* Every set of naturals with an element has a least one.
LEMMA Least ==
  ASSUME NEW T \in SUBSET Nat, T # {}
  PROVE  \E m \in T : \A n \in T : m <= n
<1>1. OpToRel(<, Nat) = Below
  BY Zenon DEF OpToRel, Below
<1>2. PICK m \in T : \A n \in T : ~(<<n, m>> \in Below)
  BY <1>1, WFMin, NatLessThanWellFounded
<1>3. \A i, j \in Nat : i < j => <<i, j>> \in Below
  BY DEF Below
<1>4. m \in Nat /\ \A n \in T : n \in Nat
  OBVIOUS
<1>5. \A n \in T : ~(n < m)
  BY <1>2, <1>3, <1>4
<1> QED
  BY <1>4, <1>5

\* lcore_count leaves an lcore for every worker still to be launched, above
\* those of the workers already launched, none of which is skipped.
LEMMA LcoreFound ==
  ASSUME IInv, main = "launch", MoreToLaunch
  PROVE  /\ LcoreInHand \in config.lcores \ {config.mainLcore}
         /\ \A w \in Worker : w < launched => lcore[w] < LcoreInHand
         /\ Cardinality(Upto(LcoreInHand)) = launched + 1
<1> DEFINE L == config.lcores \ {config.mainLcore}
           previous == IF launched = 0 THEN None ELSE lcore[launched - 1]
           above == {l \in L : previous = None \/ l > previous}
<1>1. /\ config \in Config /\ Accepts(config) /\ Several /\ ~TooFewLcores
      /\ launched \in Nat /\ launched < config.workers
      /\ lcore \in [Worker -> config.lcores \cup {None}]
  BY DEF IInv, TypeOK, PacketsTypeOK, Launching, MoreToLaunch
<1>2. /\ config.workers \in Nat \ {0}
      /\ 0 .. config.workers - 1 \subseteq Worker
  BY <1>1, AcceptedLine
<1>3. /\ IsFiniteSet(config.lcores) /\ config.mainLcore \in config.lcores
      /\ config.lcores \subseteq Nat /\ None \notin Nat
  BY <1>1, Constants
<1>4. /\ IsFiniteSet(L) /\ L \subseteq Nat
      /\ Cardinality(L) = Cardinality(config.lcores) - 1
  BY <1>3, FS_RemoveElement
<1>5. Cardinality(L) \in Nat /\ Cardinality(L) > launched
  <2>1. Cardinality(config.lcores) \in Nat /\ Cardinality(L) \in Nat
    BY <1>3, <1>4, FS_CardinalityType
  <2> QED
    BY <2>1, <1>1, <1>2, <1>4 DEF TooFewLcores
<1>6. launched # 0 =>
        /\ launched - 1 \in Worker /\ previous = lcore[launched - 1]
        /\ previous \in Nat /\ previous \in L
        /\ Cardinality(Upto(previous)) = launched
  <2> SUFFICES ASSUME launched # 0
               PROVE  /\ launched - 1 \in Worker
                      /\ previous = lcore[launched - 1]
                      /\ previous \in Nat /\ previous \in L
                      /\ Cardinality(Upto(previous)) = launched
    OBVIOUS
  <2>1. launched - 1 \in 0 .. config.workers - 1 /\ launched - 1 \in Worker
    BY <1>1, <1>2
  <2>2. lcore[launched - 1] # None /\ lcore[launched - 1] # config.mainLcore
    BY <2>1, <1>1 DEF IInv, Lcores
  <2>3. lcore[launched - 1] \in L /\ lcore[launched - 1] \in Nat
    BY <2>1, <2>2, <1>1, <1>3
  <2>4. Cardinality(Upto(lcore[launched - 1])) = launched
    BY <1>1 DEF IInv, Lcores
  <2> QED
    BY <2>1, <2>3, <2>4
<1>7. above # {}
  <2>1. CASE launched = 0
    <3>1. above = L
      BY <2>1
    <3>2. L # {}
      BY <1>5, <2>1, FS_EmptySet
    <3> QED
      BY <3>1, <3>2
  <2>2. CASE launched # 0
    <3>1. Upto(previous) # L
      BY <2>2, <1>5, <1>6, <1>1
    <3>2. PICK l \in L : ~(l <= previous)
      BY <3>1 DEF Upto
    <3>3. l > previous
      BY <3>2, <1>4, <1>6, <2>2
    <3> QED
      BY <3>3
  <2> QED
    BY <2>1, <2>2
<1>8. \E m \in above : \A k \in above : m <= k
  BY <1>4, <1>7, Least
<1>9. LcoreInHand = CHOOSE m \in above : \A k \in above : m <= k
  BY <1>7 DEF LcoreInHand, NextLcore
<1> DEFINE m == LcoreInHand
<1>10. m \in above /\ \A k \in above : m <= k
  <2> HIDE DEF above
  <2> QED
    BY <1>8, <1>9
<1> HIDE DEF m
<1>11. m \in L /\ m \in Nat /\ (launched # 0 => previous < m)
  BY <1>10, <1>4, <1>6, <1>3
<1>12. \A w \in Worker : w < launched => lcore[w] < m
  <2> SUFFICES ASSUME NEW w \in Worker, w < launched
               PROVE  lcore[w] < m
    OBVIOUS
  <2>1. w \in Nat /\ launched # 0
    BY <1>1, Constants
  <2>2. lcore[w] \in Nat
    <3>1. ~(w >= launched)
      BY <2>1, <1>1
    <3>2. lcore[w] # None
      BY <3>1 DEF IInv, Lcores
    <3> QED
      BY <3>2, <1>1, <1>3
  <2>3. w = launched - 1 \/ w < launched - 1
    BY <2>1, <1>1
  <2>4. w < launched - 1 => lcore[w] < lcore[launched - 1]
    BY <2>1, <1>1, <1>6 DEF IInv, Lcores
  <2> QED
    BY <2>1, <2>2, <2>3, <2>4, <1>6, <1>11
<1>13. Cardinality(Upto(m)) = launched + 1
  <2>1. CASE launched = 0
    <3>1. above = L
      BY <2>1
    <3>2. Upto(m) = {m}
      BY <3>1, <1>4, <1>10, <1>11 DEF Upto
    <3> QED
      BY <3>2, <2>1, FS_Singleton
  <2>2. CASE launched # 0
    <3>1. Upto(m) = Upto(previous) \cup {m}
      <4>1. \A k \in L : k <= m <=> k <= previous \/ k = m
        <5> SUFFICES ASSUME NEW k \in L
                     PROVE  k <= m <=> k <= previous \/ k = m
          OBVIOUS
        <5>1. k \in Nat /\ previous \in Nat /\ m \in Nat /\ previous < m
          BY <1>4, <1>6, <1>11, <2>2
        <5>2. k > previous => m <= k
          BY <1>10
        <5> QED
          BY <5>1, <5>2
      <4> QED
        BY <4>1, <1>11 DEF Upto
    <3>2. m \notin Upto(previous)
      BY <1>6, <1>11, <2>2 DEF Upto
    <3>3. IsFiniteSet(Upto(previous))
      BY <1>4, FS_Subset DEF Upto
    <3>4. Cardinality(Upto(previous) \cup {m})
            = Cardinality(Upto(previous)) + 1
      BY <3>2, <3>3, FS_AddElement
    <3> QED
      BY <3>1, <3>4, <1>6, <2>2
  <2> QED
    BY <2>1, <2>2
<1> QED
  BY <1>11, <1>12, <1>13 DEF m

\* The lcore in the hands of the loop is not busy.
LEMMA LcoreIdle ==
  ASSUME IInv, main = "launch", MoreToLaunch
  PROVE  LcoreInHand # None /\ ~Busy(LcoreInHand)
<1>1. /\ LcoreInHand \in config.lcores /\ config.lcores \subseteq Nat
      /\ None \notin Nat
      /\ \A w \in Worker : w < launched => lcore[w] < LcoreInHand
      /\ launched \in Nat /\ Worker \subseteq Nat
  BY LcoreFound, Constants DEF IInv, TypeOK, PacketsTypeOK
<1> HIDE DEF LcoreInHand
<1>2. LcoreInHand # None /\ LcoreInHand \in Nat
  BY <1>1
<1>3. ASSUME NEW w \in Worker, lcore[w] = LcoreInHand
      PROVE  FALSE
  <2>1. ~(w >= launched)
    BY <1>2, <1>3 DEF IInv, Lcores
  <2>2. lcore[w] < LcoreInHand
    BY <2>1, <1>1
  <2> QED
    BY <2>2, <1>2, <1>3
<1> QED
  BY <1>2, <1>3 DEF Busy

\* A worker is launched on an lcore above those of the workers before it.
LEMMA BeginKeeps ==
  ASSUME IInv, NEW l, Begin(launched, l), UNCHANGED <<stage, pool, result>>,
         main \in {"mac", "launch"}, main' \in {"launch", "wait"},
         main' = "launch" => main = "launch",
         launched < config.workers, l \in config.lcores,
         Several => /\ l # config.mainLcore
                    /\ \A v \in Worker : v < launched => lcore[v] < l
                    /\ Cardinality(Upto(l)) = launched + 1
  PROVE  IInv'
<1>1. /\ config \in Config /\ Accepts(config) /\ launched \in Nat
      /\ lcore \in [Worker -> config.lcores \cup {None}]
      /\ held \in [Resource -> SUBSET Holder] /\ pc \in [Worker -> PcValues]
  BY DEF IInv, TypeOK, PacketsTypeOK, Launching
<1>2. /\ config.workers \in Nat \ {0} /\ launched \in Worker
      /\ Worker \subseteq Nat /\ None \notin Nat /\ l \in Nat
      /\ Main \notin Worker
  <2>1. /\ config.workers \in Nat \ {0}
        /\ 0 .. config.workers - 1 \subseteq Worker
    BY <1>1, AcceptedLine
  <2> QED
    BY <2>1, <1>1, Constants
<1> DEFINE w == launched
<1>3. /\ pc' = [pc EXCEPT ![w] = "lanReceive"]
      /\ lcore' = [lcore EXCEPT ![w] = l] /\ launched' = w + 1
      /\ held' = [r \in Resource |-> held[r] \cup {w}]
      /\ UNCHANGED <<config, list, cut, free, arrivals, cause>>
  BY DEF Begin, Share
<1>4. w \in Worker /\ w \in Nat /\ pc[w] = "absent" /\ ~Alive(w)
  BY <1>1, <1>2 DEF IInv, Launching, Alive
<1> HIDE DEF w
<1>5. /\ pc'[w] = "lanReceive" /\ \A v \in Worker \ {w} : pc'[v] = pc[v]
      /\ pc' \in [Worker -> PcValues]
      /\ lcore'[w] = l /\ \A v \in Worker \ {w} : lcore'[v] = lcore[v]
      /\ lcore' \in [Worker -> config.lcores \cup {None}]
      /\ \A r \in Resource : held'[r] = held[r] \cup {w}
  BY <1>1, <1>3, <1>4 DEF PcValues
<1>6. PacketsInv' /\ PacketsTypeOK' /\ OnlyForCause'
  <2>1. PacketsTypeOK' /\ OneOwner'
    BY <1>3, <1>5 DEF IInv, PacketsInv, PacketsTypeOK, OneOwner
  <2>2. cut[w] = None
    BY <1>4 DEF IInv, PacketsInv, Cutting
  <2>3. Cutting'
    BY <2>2, <1>3, <1>5 DEF IInv, PacketsInv, Cutting
  <2> QED
    BY <2>1, <2>3, <1>3, OnlyForCauseSame DEF IInv, PacketsInv
<1>7. \A v \in Worker : /\ v >= w + 1 <=> v >= w /\ v # w
                        /\ v < w + 1 <=> v < w \/ v = w
  BY <1>2, <1>4
<1>8. TypeOK' /\ EnoughLcores'
  <2>1. held' \in [Resource -> SUBSET Holder]
    BY <1>1, <1>3, <1>4 DEF Holder
  <2>2. launched' \in 0 .. config.workers
    BY <1>1, <1>2, <1>3, <1>4 DEF w
  <2> QED
    BY <2>1, <2>2, <1>3, <1>5, <1>6 DEF IInv, TypeOK, EnoughLcores
<1>9. /\ \A r \in Resource : Main \in held[r]
      /\ \A p \in Port : p \in Resource /\ main # p /\ main' # p
      /\ result # "promiscuous"
  BY Unopened, Constants DEF IInv, Opening, Port
<1>10. Holding'
  <2>1. \A p \in Port : stage[p] = "open" /\ held'[p] # {}
    BY <1>5, <1>9 DEF IInv, Holding
  <2>2. \A r \in Resource, v \in Worker :
          v \in held'[r] => pc'[v] \notin {"absent", "stopped"}
    BY <1>5 DEF IInv, Holding
  <2>3. \A v \in Worker : Alive(v)' => \A r \in Resource : v \in held'[r]
    <3>1. \A v \in Worker \ {w} : Alive(v)' => Alive(v)
      BY <1>5 DEF Alive
    <3> QED
      BY <3>1, <1>5 DEF IInv, Holding
  <2>4. pool = "live" /\ \A r \in Resource : held'[r] # {}
    BY <1>5, <1>9, Constants DEF IInv, Holding
  <2> QED
    BY <2>1, <2>2, <2>3, <2>4, Constants DEF Holding
<1>11. Opening'
  BY <1>5, <1>9 DEF Opening, Port
<1>12. Launching'
  <2>1. \A v \in Worker : pc'[v] = "absent" <=> v >= w + 1
    BY <1>4, <1>5, <1>7 DEF IInv, Launching, w
  <2>2. main' = "launch" => Several /\ ~TooFewLcores
    BY DEF IInv, Launching
  <2> QED
    BY <2>1, <2>2, <1>1, <1>3
       DEF Launching, Accepts, Several, TooFewLcores
<1>13. Lcores'
  <2>1. \A v \in Worker : lcore'[v] = None <=> v >= w + 1
    BY <1>2, <1>4, <1>5, <1>7 DEF IInv, Lcores, w
  <2>2. ASSUME Several, NEW v \in Worker, v < w + 1
        PROVE  /\ lcore'[v] # config.mainLcore
               /\ \A u \in Worker : u < v => lcore'[u] < lcore'[v]
    <3>1. CASE v = w
      <4>1. \A u \in Worker : u < w => u # w
        BY <1>2, <1>4
      <4>2. \A u \in Worker : u < w => lcore[u] < l
        BY <2>2 DEF w
      <4>3. l # config.mainLcore
        BY <2>2
      <4> QED
        BY <3>1, <4>1, <4>2, <4>3, <1>5
    <3>2. CASE v < w
      <4>1. v # w /\ \A u \in Worker : u < v => u # w
        BY <3>2, <1>2, <1>4
      <4>2. /\ lcore[v] # config.mainLcore
            /\ \A u \in Worker : u < v => lcore[u] < lcore[v]
        BY <2>2, <3>2 DEF IInv, Lcores, w
      <4> QED
        BY <4>1, <4>2, <1>5
    <3> QED
      BY <3>1, <3>2, <2>2, <1>7
  <2>3. (w + 1) - 1 = w
    BY <1>4
  <2>4. Several => Cardinality({k \in config.lcores \ {config.mainLcore} :
                                  k <= l}) = w + 1
    BY DEF Upto, w
  <2> QED
    BY <2>1, <2>2, <2>3, <2>4, <1>3, <1>5 DEF Lcores, Upto, Several
<1>14. Idle'
  <2>1. \A v \in Worker : ~Alive(v)' => ~Alive(v)
    BY <1>4, <1>5 DEF Alive
  <2> QED
    BY <2>1, <1>3 DEF IInv, Idle
<1> QED
  BY <1>6, <1>8, <1>10, <1>11, <1>12, <1>13, <1>14 DEF IInv

\* main.rs:67-116: the MAC, the only worker, the lcore count.
LEMMA GetMacKeeps ==
  ASSUME IInv, GetMac
  PROVE  IInv'
<1>1. main = "mac" /\ UNCHANGED <<stage, pool>>
  BY DEF GetMac
<1>2. CASE /\ UNCHANGED <<vars, held, lcore, launched>>
           /\ \/ Leaves("mac")
              \/ Several /\ TooFewLcores /\ Leaves("lcores")
              \/ /\ Several /\ ~TooFewLcores
                 /\ main' = "launch" /\ result' = result
  BY <1>1, <1>2, QuietKeeps DEF Leaves
<1>3. CASE /\ ~Several /\ main' = "wait" /\ UNCHANGED result
           /\ Begin(0, config.mainLcore)
  <2>1. launched = 0 /\ config \in Config /\ Accepts(config)
    BY <1>1 DEF IInv, Launching, TypeOK, PacketsTypeOK
  <2>2. launched < config.workers /\ config.mainLcore \in config.lcores
    BY <2>1, AcceptedLine, Constants
  <2> QED
    BY <2>1, <2>2, <1>1, <1>3, BeginKeeps
<1> QED
  BY <1>1, <1>2, <1>3 DEF GetMac

\* A worker of several is launched.
LEMMA LaunchKeeps ==
  ASSUME IInv, Launch
  PROVE  IInv'
<1>1. /\ main = "launch" /\ MoreToLaunch /\ Begin(launched, LcoreInHand)
      /\ UNCHANGED <<main, stage, pool, result>>
  BY DEF Launch
<1>2. /\ LcoreInHand \in config.lcores /\ LcoreInHand # config.mainLcore
      /\ \A w \in Worker : w < launched => lcore[w] < LcoreInHand
      /\ Cardinality(Upto(LcoreInHand)) = launched + 1
  BY <1>1, LcoreFound
<1> HIDE DEF LcoreInHand
<1> QED
  BY <1>1, <1>2, BeginKeeps DEF MoreToLaunch

\* The other steps of main: FailLaunch, AllLaunched, Wait and Return.
LEMMA LeavingKeeps ==
  ASSUME IInv, FailLaunch \/ AllLaunched \/ Wait \/ Return
  PROVE  IInv'
<1>1. CASE FailLaunch
  <2>1. main = "launch" /\ MoreToLaunch
    BY <1>1 DEF FailLaunch
  <2>2. LaunchErrors = {"launch"}
    BY <2>1, LcoreIdle DEF LaunchErrors
  <2> QED
    BY <2>1, <2>2, <1>1, QuietKeeps DEF FailLaunch, Leaves
<1>2. CASE AllLaunched
  BY <1>2, QuietKeeps DEF AllLaunched
<1>3. CASE Wait
  BY <1>3, QuietKeeps DEF Wait, Leaves
<1>4. CASE Return
  BY <1>4, QuietKeeps DEF Return, HoldsNothing
<1> QED
  BY <1>1, <1>2, <1>3, <1>4

-----------------------------------------------------------------------------
(* Dropping, stopping, forwarding, and the ports.                          *)

\* An Arc is dropped, and with the last one of a port the port is closed.
LEMMA DropKeeps ==
  ASSUME IInv, NEW h \in Holder, NEW r \in Resource, Drop(h, r)
  PROVE  IInv'
<1>1. /\ Leaving(h) /\ h \in held[r] /\ held' = [held EXCEPT ![r] = @ \ {h}]
      /\ IF held[r] = {h} THEN LastDrop(r) ELSE UNCHANGED <<vars, stage>>
      /\ UNCHANGED <<main, launched, lcore, result>>
  BY DEF Drop
<1>2. pool' = IF \A q \in Resource : held'[q] = {} THEN "freed" ELSE pool
  BY DEF Drop
<1>3. /\ held \in [Resource -> SUBSET Holder]
      /\ stage \in [Port -> Stages]
      /\ pool \in {"absent", "live", "freed"}
  BY DEF IInv, TypeOK
<1>4. /\ held'[r] = held[r] \ {h} /\ held' \in [Resource -> SUBSET Holder]
      /\ \A q \in Resource : q # r => held'[q] = held[q]
  BY <1>1, <1>3
<1>5. \/ /\ r \in Port /\ held'[r] = {} /\ PacketsInv'
         /\ UNCHANGED <<config, pc, cause>>
         /\ stage' = [stage EXCEPT ![r] = "closed"]
         /\ \A a \in OfPort(r) : list'[a] = <<>>
         /\ \A a \in Place : list'[a] = list[a] \/ list'[a] = <<>>
      \/ /\ r \notin Port \/ held'[r] # {}
         /\ UNCHANGED <<vars, stage>> /\ PacketsInv'
  <2>1. CASE held[r] = {h} /\ r \in Port
    <3>1. Close(r)
      BY <2>1, <1>1 DEF LastDrop
    <3>2. stage' = [stage EXCEPT ![r] = "closed"]
      BY <3>1 DEF Close
    <3> QED
      BY <3>1, <3>2, <2>1, <1>4, CloseKeeps DEF IInv
  <2>2. CASE held[r] # {h} \/ r \notin Port
    <3>1. UNCHANGED <<vars, stage>>
      BY <2>2, <1>1 DEF LastDrop
    <3>2. held[r] # {h} => held'[r] # {}
      BY <1>1, <1>4
    <3> QED
      BY <3>1, <3>2, <2>2, PacketsSame DEF IInv
  <2> QED
    BY <2>1, <2>2
<1>6. /\ PacketsInv' /\ UNCHANGED <<config, pc, cause>>
      /\ \A a \in Place : list'[a] = list[a] \/ list'[a] = <<>>
      /\ \A q \in Port : q # r => stage'[q] = stage[q]
      /\ r \in Port => stage'[r] = IF held'[r] = {} THEN "closed" ELSE stage[r]
      /\ \A q \in Port : \/ stage'[q] = stage[q]
                         \/ \A a \in OfPort(q) : list'[a] = <<>>
  BY <1>3, <1>5 DEF vars
<1>7. OnlyForCause' /\ PacketsTypeOK'
  BY <1>6, OnlyForCauseSame DEF IInv, PacketsInv
<1>8. TypeOK' /\ EnoughLcores'
  <2>1. stage' \in [Port -> Stages]
    BY <1>3, <1>5 DEF vars, Stages
  <2>2. pool' \in {"absent", "live", "freed"}
    BY <1>2, <1>3
  <2> QED
    BY <2>1, <2>2, <1>1, <1>4, <1>6, <1>7 DEF IInv, TypeOK, EnoughLcores
<1>9. Holding'
  <2>1. \A q \in Port : stage'[q] = "open" <=> held'[q] # {}
    <3>1. r \in Port => stage[r] = "open"
      BY <1>1 DEF IInv, Holding
    <3>2. \A q \in Port : q \in Resource
      BY Constants
    <3> QED
      BY <3>1, <3>2, <1>4, <1>6 DEF IInv, Holding
  <2>2. \A q \in Port : stage'[q] \notin {"closed", "open"} =>
          main' = q \/ (stage'[q] = "started" /\ result' = "promiscuous")
    BY <1>1, <1>6 DEF IInv, Holding
  <2>3. \A q \in Resource, w \in Worker :
          w \in held'[q] => pc'[w] \notin {"absent", "stopped"}
    BY <1>4, <1>6 DEF IInv, Holding
  <2>4. ASSUME NEW w \in Worker, Alive(w)'
        PROVE  \A q \in Resource : w \in held'[q]
    <3>1. Alive(w)
      BY <2>4, <1>6 DEF Alive
    <3>2. w # h
      BY <3>1, <1>1, Constants DEF Leaving, Alive
    <3> QED
      BY <3>1, <3>2, <1>4 DEF IInv, Holding
  <2>5. pool' = "live" <=> \E q \in Resource : held'[q] # {}
    <3>1. pool = "live"
      BY <1>1 DEF IInv, Holding
    <3> QED
      BY <3>1, <1>2
  <2> QED
    BY <2>1, <2>2, <2>3, <2>4, <2>5 DEF Holding
<1>10. Opening'
  <2>1. h = Main => main = "leave"
    BY <1>1 DEF Leaving
  <2>2. \A q \in Resource :
          /\ held'[q] \subseteq held[q]
          /\ h # Main /\ Main \in held[q] => Main \in held'[q]
    BY <1>4
  <2>3. /\ "env" \in Resource /\ Port \subseteq Resource
        /\ "lan" \in Resource /\ "wan" \in Resource
    BY Constants
  <2>4. CASE h = Main
    BY <2>1, <2>2, <2>4, <1>1 DEF IInv, Opening, Port
  <2>5. CASE h # Main
    BY <2>2, <2>3, <2>5, <1>1 DEF IInv, Opening
  <2> QED
    BY <2>4, <2>5
<1>11. Launching' /\ Lcores'
  BY <1>1, <1>6, LaunchingSame DEF IInv, Launching
<1>12. Idle'
  BY <1>6, IdleStays DEF IInv
<1> QED
  BY <1>6, <1>7, <1>8, <1>9, <1>10, <1>11, <1>12 DEF IInv

\* A worker that has dropped everything returns.
LEMMA StopKeeps ==
  ASSUME IInv, NEW w \in Worker, Stop(w)
  PROVE  IInv'
<1>1. /\ pc[w] = "failed" /\ \A r \in Resource : w \notin held[r]
      /\ pc' = [pc EXCEPT ![w] = "stopped"]
      /\ UNCHANGED <<config, list, cut, free, arrivals, cause, main, stage,
                     held, pool, launched, lcore, result>>
  BY DEF Stop, HoldsNothing, mainVars
<1>2. /\ pc' \in [Worker -> PcValues] /\ pc'[w] = "stopped"
      /\ \A v \in Worker \ {w} : pc'[v] = pc[v]
  BY <1>1 DEF IInv, PacketsInv, PacketsTypeOK, PcValues
<1>3. PacketsInv' /\ PacketsTypeOK' /\ OnlyForCause'
  <2>1. PacketsTypeOK' /\ OneOwner'
    BY <1>1, <1>2 DEF IInv, PacketsInv, PacketsTypeOK, OneOwner
  <2>2. cut[w] = None
    BY <1>1 DEF IInv, PacketsInv, Cutting
  <2>3. Cutting'
    BY <2>2, <1>1, <1>2 DEF IInv, PacketsInv, Cutting
  <2> QED
    BY <2>1, <2>3, <1>1, OnlyForCauseSame DEF IInv, PacketsInv
<1>4. TypeOK' /\ EnoughLcores'
  BY <1>1, <1>3 DEF IInv, TypeOK, EnoughLcores
<1>5. \A v \in Worker : Alive(v)' <=> Alive(v)
  BY <1>1, <1>2 DEF Alive
<1>6. Holding'
  <2>1. \A r \in Resource, v \in Worker :
          v \in held[r] => pc'[v] \notin {"absent", "stopped"}
    BY <1>1, <1>2 DEF IInv, Holding
  <2> QED
    BY <2>1, <1>1, <1>5 DEF IInv, Holding
<1>7. Opening' /\ Lcores'
  BY <1>1 DEF IInv, Opening, Lcores, Several, Upto
<1>8. Launching'
  BY <1>1, <1>2 DEF IInv, Launching, Accepts, Several, TooFewLcores
<1>9. Idle'
  BY <1>1, <1>5 DEF IInv, Idle
<1> QED
  BY <1>3, <1>4, <1>6, <1>7, <1>8, <1>9 DEF IInv

\* A panic that aborts the process leaves everything where it is.
LEMMA AbortKeeps ==
  ASSUME IInv, NEW w \in Worker, Abort(w)
  PROVE  IInv'
<1>1. PICK c \in Panics(w) : cause' = [cause EXCEPT ![w] = c]
  BY DEF Abort
<1>2. /\ main' = "aborted" /\ result' = "panic"
      /\ UNCHANGED <<config, pc, list, cut, free, arrivals, stage, held, pool,
                     launched, lcore>>
  BY DEF Abort
<1>3. /\ c \in ErrorOf /\ Accounted(w, c) /\ Alive(w)
  BY PanicAccounted DEF IInv, Alive
<1>4. PacketsInv' /\ PacketsTypeOK'
  BY <1>1, <1>2, <1>3 DEF IInv, PacketsInv, PacketsTypeOK, OneOwner, Cutting
<1>5. OnlyForCause'
  <2>1. w < config.workers /\ config \in Config /\ ValidBurst(config.burst)
    <3>1. /\ config \in Config /\ Accepts(config)
          /\ launched \in 0 .. config.workers
      BY DEF IInv, TypeOK, PacketsTypeOK, Launching
    <3>2. ~(w >= launched)
      BY <1>3 DEF IInv, Launching, Alive
    <3> QED
      BY <3>1, <3>2, AcceptedLine, Constants
  <2>2. \/ c.why = "mbufs"
        \/ c.why = "tailroom" /\ c.bytes > LongestFrame
        \/ c.why = "short" /\ c.bytes < TagOffset
        \/ /\ c.why = "queue" /\ ~Several
           /\ U16 - 1 \in {config.rxQueue, config.txQueue}
    BY <1>3, <2>1, QueueAtLimit DEF Accounted
  <2>3. cause \in [Worker -> ErrorOf \cup {None}]
    BY DEF IInv, PacketsInv, PacketsTypeOK
  <2> QED
    BY <1>1, <1>2, <2>2, <2>3 DEF IInv, OnlyForCause, Several
<1>6. TypeOK' /\ EnoughLcores'
  BY <1>2, <1>4 DEF IInv, TypeOK, EnoughLcores, Errors
<1>7. \A p \in Port : stage[p] = "open"
  BY <1>3, Constants DEF IInv, Holding
<1>8. Holding'
  BY <1>2, <1>7 DEF IInv, Holding, Alive
<1>9. Opening'
  BY <1>2 DEF IInv, Opening, Port
<1>10. Launching' /\ Lcores'
  BY <1>2, LaunchingSame DEF IInv, Launching
<1>11. Idle'
  BY <1>2 DEF IInv, Idle, Alive
<1> QED
  BY <1>4, <1>5, <1>6, <1>8, <1>9, <1>10, <1>11 DEF IInv

\* A step of forward.
LEMMA ForwardKeeps ==
  ASSUME IInv, NEW w \in Worker, Work(w), UNCHANGED mainVars
  PROVE  IInv'
<1>1. UNCHANGED <<main, stage, held, pool, launched, lcore, result>>
  BY DEF mainVars
<1>2. /\ PacketsInv' /\ Alive(w) /\ pc'[w] \notin {"absent", "stopped"}
      /\ pc'[w] = "failed" => \A a \in Owned(w) : list'[a] = <<>>
      /\ config' = config
      /\ \A v \in Worker \ {w} : pc'[v] = pc[v]
      /\ \A c \in Place : c[1] # w => list'[c] = list[c]
  BY WorkKeeps, WorkFrame DEF IInv
<1>3. w < launched
  <2>1. ~(w >= launched)
    BY <1>2 DEF IInv, Launching, Alive
  <2>2. w \in Nat /\ launched \in Nat
    BY AcceptedLine, Constants DEF IInv, TypeOK, PacketsTypeOK, Launching
  <2> QED
    BY <2>1, <2>2
<1>4. OnlyForCause'
  <2>1. /\ config \in Config /\ Accepts(config)
        /\ launched \in 0 .. config.workers
    BY DEF IInv, TypeOK, PacketsTypeOK, Launching
  <2>2. ValidBurst(config.burst) /\ config.workers \in Nat
    BY <2>1, AcceptedLine
  <2>3. w < config.workers
    BY <2>1, <2>2, <1>3, Constants
  <2> QED
    BY <2>2, <2>3, CauseKept DEF IInv
<1>5. TypeOK' /\ EnoughLcores'
  BY <1>1, <1>2 DEF IInv, TypeOK, EnoughLcores, PacketsInv
<1>6. \A v \in Worker : Alive(v)' => Alive(v)
  BY <1>2 DEF Alive
<1>7. Holding'
  <2>1. \A r \in Resource, v \in Worker :
          v \in held[r] => pc'[v] \notin {"absent", "stopped"}
    BY <1>2 DEF IInv, Holding
  <2> QED
    BY <2>1, <1>1, <1>6 DEF IInv, Holding
<1>8. Opening' /\ Lcores'
  BY <1>1, <1>2 DEF IInv, Opening, Lcores, Several, Upto
<1>9. Launching'
  <2>1. \A v \in Worker : pc'[v] = "absent" <=> pc[v] = "absent"
    BY <1>2 DEF Alive
  <2> QED
    BY <2>1, <1>1, <1>2 DEF IInv, Launching, Accepts, Several, TooFewLcores
<1>10. Idle'
  <2>1. ASSUME NEW v \in Worker, ~Alive(v)', NEW a \in Owned(v)
        PROVE  list'[a] = <<>>
    <3>1. CASE v = w
      BY <3>1, <2>1, <1>2 DEF Alive
    <3>2. CASE v # w
      <4>1. a \in Place /\ a[1] # w
        BY <3>2, <2>1 DEF Owned, Place
      <4>2. ~Alive(v)
        BY <3>2, <2>1, <1>2 DEF Alive
      <4> QED
        BY <4>1, <4>2, <1>2 DEF IInv, Idle
    <3> QED
      BY <3>1, <3>2
  <2>2. \A p \in Port : stage'[p] = "open"
    BY <1>1, <1>2, Constants DEF IInv, Holding
  <2> QED
    BY <2>1, <2>2 DEF Idle
<1> QED
  BY <1>2, <1>4, <1>5, <1>7, <1>8, <1>9, <1>10 DEF IInv

\* A port receives a packet or frees one that it has sent.
LEMMA PortKeeps ==
  ASSUME IInv, NEW p \in Port, PortStep(p)
  PROVE  IInv'
<1>1. /\ stage[p] \in {"started", "open"}
      /\ UNCHANGED <<main, stage, held, pool, launched, lcore, result>>
  BY DEF PortStep, Runs, mainVars
<1>2. PICK w \in Worker : Arrive(w, p) \/ TxDone(w, p)
  BY DEF PortStep
<1>3. PacketsInv' /\ UNCHANGED <<config, pc, cause>>
  BY <1>2, ArriveKeeps, TxDoneKeeps DEF IInv, Arrive, TxDone
<1>4. ASSUME NEW c \in Place, c \notin OfPort(p)
      PROVE  list'[c] = list[c]
  <2>1. DOMAIN list = Place
    BY DEF IInv, PacketsInv, PacketsTypeOK
  <2> DEFINE a == <<w, "queue", p>>
             b == <<w, "ring", p>>
  <2>2. c # a /\ c # b
    BY <1>4 DEF OfPort
  <2>3. \/ \E s : list' = With(list, a, s)
        \/ list' = Without(list, b, 1)
    BY <1>2 DEF Arrive, TxDone
  <2> HIDE DEF a, b
  <2>4. \A s : With(list, a, s)[c] = list[c]
    BY <2>1, <2>2 DEF With
  <2>5. Without(list, b, 1)[c] = list[c]
    BY <2>1, <2>2 DEF Without
  <2> QED
    BY <2>3, <2>4, <2>5
<1>5. OnlyForCause' /\ PacketsTypeOK'
  BY <1>3, OnlyForCauseSame DEF IInv, PacketsInv
<1>6. TypeOK' /\ EnoughLcores'
  BY <1>1, <1>3, <1>5 DEF IInv, TypeOK, EnoughLcores
<1>7. Holding' /\ Opening'
  BY <1>1, <1>3 DEF IInv, Holding, Opening, Alive
<1>8. Launching' /\ Lcores'
  BY <1>1, <1>3, LaunchingSame DEF IInv, Launching
<1>9. Idle'
  <2>1. ASSUME NEW w0 \in Worker, ~Alive(w0)', NEW a \in Owned(w0)
        PROVE  list'[a] = <<>>
    <3>1. a \in Place /\ a \notin OfPort(p)
      BY DEF Owned, Place, OfPort
    <3>2. ~Alive(w0)
      BY <2>1, <1>3 DEF Alive
    <3> QED
      BY <3>1, <3>2, <1>4 DEF IInv, Idle
  <2>2. ASSUME NEW q \in Port, stage'[q] \notin {"started", "open"},
               NEW a \in OfPort(q)
        PROVE  list'[a] = <<>>
    <3>1. q # p
      BY <1>1, <2>2
    <3>2. a \in Place /\ a \notin OfPort(p)
      BY <3>1 DEF OfPort, Place
    <3> QED
      BY <3>2, <1>1, <1>4, <2>2 DEF IInv, Idle
  <2> QED
    BY <2>1, <2>2 DEF Idle
<1> QED
  BY <1>3, <1>5, <1>6, <1>7, <1>8, <1>9 DEF IInv

\* Nothing happens.
LEMMA StutterKeeps ==
  ASSUME IInv, UNCHANGED allVars
  PROVE  IInv'
<1>1. UNCHANGED vars /\ UNCHANGED mainVars
  BY DEF allVars
<1>2. PacketsInv' /\ PacketsTypeOK' /\ OnlyForCause'
  BY <1>1, PacketsSame, OnlyForCauseSame DEF IInv, vars
<1>3. TypeOK' /\ EnoughLcores'
  BY <1>1, <1>2 DEF IInv, TypeOK, EnoughLcores, vars, mainVars
<1>4. Holding' /\ Opening'
  BY <1>1 DEF IInv, Holding, Opening, Alive, vars, mainVars
<1>5. Launching' /\ Lcores'
  BY <1>1, LaunchingSame DEF IInv, Launching, vars, mainVars
<1>6. Idle'
  BY <1>1 DEF IInv, Idle, Alive, vars, mainVars
<1> QED
  BY <1>2, <1>3, <1>4, <1>5, <1>6 DEF IInv

-----------------------------------------------------------------------------
(* The theorems.                                                           *)

\* The invariant, step by step: every action of main, of the workers and of
\* the ports keeps who holds what, who owns which mbuf and which lcore is
\* whose.
THEOREM Invariance == Spec => []IInv
<1>1. Init => IInv
  BY InitIInv
<1>2. IInv /\ [Next]_allVars => IInv'
  <2> SUFFICES ASSUME IInv, [Next]_allVars
               PROVE  IInv'
    OBVIOUS
  <2>1. CASE MainStep
    <3>1. CASE OpenEnvironment
      BY <3>1, OpenEnvironmentKeeps
    <3>2. CASE \E p \in Port : OpenFurther(p) \/ FailOpen(p)
      BY <3>2, OpenFurtherKeeps, FailOpenKeeps
    <3>3. CASE GetMac
      BY <3>3, GetMacKeeps
    <3>4. CASE Launch
      BY <3>4, LaunchKeeps
    <3>5. CASE FailLaunch \/ AllLaunched \/ Wait \/ Return
      BY <3>5, LeavingKeeps
    <3>6. CASE \E r \in Resource : Drop(Main, r)
      <4>1. Main \in Holder
        BY DEF Holder
      <4> QED
        BY <4>1, <3>6, DropKeeps
    <3> QED
      BY <2>1, <3>1, <3>2, <3>3, <3>4, <3>5, <3>6 DEF MainStep
  <2>2. CASE \E w \in Worker : WorkerStep(w)
    <3>1. PICK w \in Worker : WorkerStep(w)
      BY <2>2
    <3>2. CASE Work(w) /\ UNCHANGED mainVars
      BY <3>2, ForwardKeeps
    <3>3. CASE \E r \in Resource : Drop(w, r)
      <4>1. w \in Holder
        BY DEF Holder
      <4> QED
        BY <4>1, <3>3, DropKeeps
    <3>4. CASE Stop(w)
      BY <3>4, StopKeeps
    <3>5. CASE Abort(w)
      BY <3>5, AbortKeeps
    <3> QED
      BY <3>1, <3>2, <3>3, <3>4, <3>5 DEF WorkerStep
  <2>3. CASE \E p \in Port : PortStep(p)
    BY <2>3, PortKeeps
  <2>4. CASE UNCHANGED allVars
    BY <2>4, StutterKeeps
  <2> QED
    BY <2>1, <2>2, <2>3, <2>4 DEF Next
<1> QED
  BY <1>1, <1>2, PTL DEF Spec

\* Every variable keeps its type, at most `workers' workers are launched, and
\* those on lcores of the command line.
THEOREM TypesKept == Spec => []TypeOK
<1>1. IInv => TypeOK
  BY DEF IInv
<1> QED
  BY <1>1, Invariance, PTL

\* Each mbuf is in the pool, with one port or with one worker, once, through
\* partial sends, failures, workers that stop and ports that are closed.
THEOREM MbufsOwnedOnce == Spec => []OneOwner
<1>1. IInv => OneOwner
  BY DEF IInv, PacketsInv
<1> QED
  BY <1>1, Invariance, PTL

\* A worker is ended by its loop only for want of mbufs, for a frame too long
\* for one mbuf or too short to take a VLAN tag, or for --rx-queue or
\* --tx-queue 65535.
THEOREM StopsOnlyForCause == Spec => []OnlyForCause
<1>1. IInv => OnlyForCause
  BY DEF IInv
<1> QED
  BY <1>1, Invariance, PTL

\* Every neighbour advertisement sent is one the node that asked accepts, its
\* checksum included.
THEOREM AdvertisementsConvince == Spec => []AnswersConvince
<1>1. IInv => AnswersConvince
  BY AnswersInPackets DEF IInv, PacketsInv
<1> QED
  BY <1>1, Invariance, PTL

\* The lcores suffice for the workers the command line asks for, and none is
\* busy when its turn comes.
THEOREM LcoresSuffice == Spec => []EnoughLcores
<1>1. IInv => EnoughLcores
  BY DEF IInv
<1> QED
  BY <1>1, Invariance, PTL

\* No queue and no lcore is used by two workers.
THEOREM QueuesApart == Spec => []OwnQueues
<1>1. ASSUME IInv, NEW v \in Worker, NEW w \in Worker,
             Alive(v), Alive(w), v # w
      PROVE  /\ RxQueue(v) # RxQueue(w) /\ TxQueue(v) # TxQueue(w)
             /\ lcore[v] # lcore[w]
             /\ config.mainLcore \notin {lcore[v], lcore[w]}
  <2>1. /\ config \in Config /\ Accepts(config)
        /\ launched \in 0 .. config.workers
        /\ lcore \in [Worker -> config.lcores \cup {None}]
    BY <1>1 DEF IInv, TypeOK, PacketsTypeOK, Launching
  <2>2. /\ config.workers \in Nat \ {0} /\ v \in Nat /\ w \in Nat
        /\ config.lcores \subseteq Nat /\ None \notin Nat
    BY <2>1, AcceptedLine, Constants
  <2>3. ~(v >= launched) /\ ~(w >= launched)
    BY <1>1 DEF IInv, Launching, Alive
  <2>4. v < launched /\ w < launched /\ config.workers > 1 /\ (v < w \/ w < v)
    BY <1>1, <2>1, <2>2, <2>3
  <2>5. lcore[v] \in Nat /\ lcore[w] \in Nat
    <3>1. lcore[v] # None /\ lcore[w] # None
      BY <1>1, <2>3 DEF IInv, Lcores
    <3> QED
      BY <3>1, <2>1, <2>2
  <2>6. /\ lcore[v] # config.mainLcore /\ lcore[w] # config.mainLcore
        /\ v < w => lcore[v] < lcore[w]
        /\ w < v => lcore[w] < lcore[v]
    BY <1>1, <2>4 DEF IInv, Lcores, Several
  <2> QED
    BY <2>4, <2>5, <2>6, <1>1 DEF RxQueue, TxQueue, Several
<1>2. IInv => OwnQueues
  BY <1>1 DEF OwnQueues
<1> QED
  BY <1>2, Invariance, PTL

\* A worker never runs on a port that is closed or on a pool that is freed,
\* whichever thread has given up.
THEOREM PortsStayOpen == Spec => []PortsServeWorkers
<1>1. ASSUME IInv, NEW w \in Worker, Alive(w)
      PROVE  pool = "live" /\ \A p \in Port : stage[p] = "open"
  <2>1. \A r \in Resource : w \in held[r]
    BY <1>1 DEF IInv, Holding
  <2> QED
    BY <2>1, <1>1, Constants DEF IInv, Holding
<1>2. IInv => PortsServeWorkers
  BY <1>1 DEF PortsServeWorkers
<1> QED
  BY <1>2, Invariance, PTL

\* The pool is freed only when all its mbufs are back, and main leaves it only
\* to a worker that still runs.
THEOREM PoolLast == Spec => []PoolFreedLast
<1>1. ASSUME IInv, pool = "freed"
      PROVE  /\ \A p \in Port :
                  \/ stage[p] = "closed"
                  \/ stage[p] = "started" /\ result = "promiscuous"
             /\ result # "promiscuous" => free = Pool[config]
  <2>1. \A r \in Resource : held[r] = {}
    BY <1>1 DEF IInv, Holding
  <2>2. \A p \in Port : main # p /\ stage[p] # "open"
    BY <2>1, <1>1, Constants DEF IInv, Holding, Opening
  <2>3. \A p \in Port : \/ stage[p] = "closed"
                        \/ stage[p] = "started" /\ result = "promiscuous"
    BY <2>2, <1>1 DEF IInv, Holding
  <2>4. ASSUME result # "promiscuous"
        PROVE  free = Pool[config]
    <3>1. \A p \in Port : \A a \in OfPort(p) : list[a] = <<>>
      BY <2>3, <2>4, <1>1 DEF IInv, Idle
    <3>2. \A w \in Worker : \A a \in Owned(w) : list[a] = <<>>
      BY <2>1, <1>1, Constants DEF IInv, Idle, Holding
    <3>3. \A a \in Place : list[a] = <<>>
      BY <3>1, <3>2, AllPlaces
    <3>4. MbufsAt(list, Place) = {}
      BY <3>3 DEF MbufsAt, Mbufs
    <3> QED
      BY <3>4, <1>1 DEF IInv, PacketsInv, OneOwner, Partitions
  <2> QED
    BY <2>3, <2>4
<1>2. ASSUME IInv, main = "returned", pool = "live"
      PROVE  \E w \in Worker : pc[w] \notin {"absent", "stopped"}
  <2>1. PICK r \in Resource : held[r] # {}
    BY <1>2 DEF IInv, Holding
  <2>2. Main \notin held[r] /\ held[r] \subseteq Holder
    BY <1>2 DEF IInv, Opening, TypeOK
  <2>3. PICK w \in Worker : w \in held[r]
    BY <2>1, <2>2 DEF Holder
  <2> QED
    BY <2>3, <1>2 DEF IInv, Holding
<1>3. IInv => PoolFreedLast
  BY <1>1, <1>2 DEF PoolFreedLast
<1> QED
  BY <1>3, Invariance, PTL

\* At first there is no packet to be out of order.
LEMMA InitOrdered ==
  ASSUME Init
  PROVE  Ordered
<1>1. \A a \in Place : DOMAIN list[a] = {}
  BY DEF Init
<1> QED
  BY <1>1 DEF Ordered, Lined, Raw

\* Steps that leave the packets where they are keep their order.
LEMMA OrderSame ==
  ASSUME Ordered, UNCHANGED <<list, cut, arrivals>>
  PROVE  Ordered'
BY DEF Ordered

\* A port that is closed forgets its packets.
LEMMA CloseOrdered ==
  ASSUME IInv, Ordered, NEW p \in Port, Close(p)
  PROVE  Ordered'
<1>1. /\ list' = Emptied(list, OfPort(p))
      /\ UNCHANGED <<cut, arrivals>>
  BY DEF Close
<1>2. PacketsTypeOK
  BY DEF IInv, PacketsInv
<1> QED
  BY <1>1, <1>2, EmptiedOrdered

\* The steps of main keep the order: it only closes ports.
LEMMA MainOrdered ==
  ASSUME IInv, Ordered, MainStep
  PROVE  Ordered'
<1>1. CASE OpenEnvironment
  BY <1>1, OrderSame DEF OpenEnvironment, vars
<1>2. CASE \E p \in Port : OpenFurther(p)
  BY <1>2, OrderSame DEF OpenFurther, vars
<1>3. CASE \E p \in Port : FailOpen(p)
  BY <1>3, CloseOrdered, OrderSame DEF FailOpen, vars
<1>4. CASE GetMac \/ Launch
  BY <1>4, OrderSame DEF GetMac, Launch, Begin, vars
<1>5. CASE FailLaunch \/ AllLaunched \/ Wait \/ Return
  BY <1>5, OrderSame DEF FailLaunch, AllLaunched, Wait, Return, vars
<1>6. CASE \E r \in Resource : Drop(Main, r)
  BY <1>6, CloseOrdered, OrderSame DEF Drop, LastDrop, vars
<1> QED
  BY <1>1, <1>2, <1>3, <1>4, <1>5, <1>6 DEF MainStep

\* No step brings two packets of one origin out of order.
LEMMA StepOrdered ==
  ASSUME IInv, Ordered, [Next]_allVars
  PROVE  Ordered'
<1>1. PacketsInv
  BY DEF IInv
<1>2. ASSUME NEW w \in Worker, WorkerStep(w)
      PROVE  Ordered'
  <2>1. CASE Work(w)
    BY <2>1, <1>1, WorkOrdered
  <2>2. CASE \E r \in Resource : Drop(w, r)
    BY <2>2, CloseOrdered, OrderSame DEF Drop, LastDrop, vars
  <2>3. CASE Stop(w) \/ Abort(w)
    BY <2>3, OrderSame DEF Stop, Abort
  <2> QED
    BY <1>2, <2>1, <2>2, <2>3 DEF WorkerStep
<1>3. ASSUME NEW p \in Port, PortStep(p)
      PROVE  Ordered'
  BY <1>1, <1>3, ArrivalOrdered, TxDoneOrdered DEF PortStep
<1>4. CASE UNCHANGED allVars
  BY <1>4, OrderSame DEF allVars, vars
<1> QED
  BY <1>2, <1>3, <1>4, MainOrdered DEF Next

\* What each worker sends, or has yet to offer again, of one origin is in the
\* order of arrival, and the fragments of a frame in the order of their
\* offsets, through partial bursts, failures and ports that are closed.
THEOREM OrderKept == Spec => []InOrder
<1>1. Init => Ordered
  BY InitOrdered
<1>2. IInv /\ Ordered /\ [Next]_allVars => Ordered'
  BY StepOrdered
<1>3. IInv /\ Ordered => InOrder
  BY OrderedInOrder DEF IInv, PacketsInv
<1> QED
  BY <1>1, <1>2, <1>3, Invariance, PTL DEF Spec

-----------------------------------------------------------------------------
(* Where packets go.                                                       *)

\* List c has at most got longer.
Kept(l, k, c) ==
  \A i \in DOMAIN l[c] : i \in DOMAIN k[c] /\ k[c][i] = l[c][i]

\* Packets taken from the head of a list.
LEMMA AfterTaking ==
  ASSUME NEW S, NEW l \in [Place -> Seq(S)], NEW a \in Place,
         NEW n \in 0 .. Len(l[a])
  PROVE  /\ Without(l, a, n) \in [Place -> Seq(S)] /\ First(l[a], n) \in Seq(S)
         /\ \A c \in Place \ {a} : Without(l, a, n)[c] = l[c]
         /\ \A i \in 1 .. n : l[a][i].mbuf \in Mbufs(First(l[a], n))
         /\ \A i \in n + 1 .. Len(l[a]) :
              /\ i - n \in DOMAIN Without(l, a, n)[a]
              /\ Without(l, a, n)[a][i - n] = l[a][i]
<1> DEFINE k == Without(l, a, n)
           t == First(l[a], n)
<1>1. k \in [Place -> Seq(S)] /\ t \in Seq(S)
  BY Taken
<1>2. Len(t) = n /\ \A i \in 1 .. n : t[i] = l[a][i]
  <2>1. Len(t) = n
    BY Taken
  <2>2. \A i \in 1 .. n : t[i] = l[a][i]
    BY Taken
  <2> QED
    BY <2>1, <2>2
<1>3. Len(k[a]) = Len(l[a]) - n
  BY Taken
<1>4. \A i \in 1 .. Len(l[a]) - n : k[a][i] = l[a][n + i]
  BY Taken
<1>5. \A c \in Place \ {a} : k[c] = l[c]
  BY DEF Without
<1> HIDE DEF k, t
<1>6. \A i \in 1 .. n : l[a][i].mbuf \in Mbufs(t)
  <2>1. DOMAIN t = 1 .. n
    BY <1>1, <1>2
  <2> QED
    BY <1>2, <2>1 DEF Mbufs
<1>7. ASSUME NEW i \in n + 1 .. Len(l[a])
      PROVE  i - n \in DOMAIN k[a] /\ k[a][i - n] = l[a][i]
  <2>1. i - n \in 1 .. Len(l[a]) - n /\ n + (i - n) = i
    OBVIOUS
  <2>2. DOMAIN k[a] = 1 .. Len(l[a]) - n
    BY <1>1, <1>3
  <2> QED
    BY <1>4, <2>1, <2>2
<1> QED
  BY <1>1, <1>5, <1>6, <1>7 DEF k, t

\* Packets put at the end of a list.
LEMMA AfterPutting ==
  ASSUME NEW S, NEW l \in [Place -> Seq(S)], NEW b \in Place, NEW s \in Seq(S)
  PROVE  /\ With(l, b, s) \in [Place -> Seq(S)]
         /\ \A c \in Place : Kept(l, With(l, b, s), c)
         /\ \A c \in Place \ {b} : With(l, b, s)[c] = l[c]
         /\ Mbufs(s) \subseteq Mbufs(With(l, b, s)[b])
<1> DEFINE k == With(l, b, s)
<1>1. k \in [Place -> Seq(S)] /\ Extended(l, k, b, s)
  BY Extends
<1> HIDE DEF k
<1>2. /\ \A c \in Place \ {b} : k[c] = l[c]
      /\ Len(k[b]) = Len(l[b]) + Len(s)
      /\ \A i \in 1 .. Len(l[b]) : k[b][i] = l[b][i]
      /\ \A i \in 1 .. Len(s) : k[b][Len(l[b]) + i] = s[i]
  BY <1>1 DEF Extended
<1>3. /\ DOMAIN k[b] = 1 .. Len(l[b]) + Len(s) /\ DOMAIN l[b] = 1 .. Len(l[b])
      /\ DOMAIN s = 1 .. Len(s) /\ Len(l[b]) \in Nat /\ Len(s) \in Nat
  BY <1>1, <1>2
<1>4. \A c \in Place : Kept(l, k, c)
  BY <1>2, <1>3 DEF Kept
<1>5. ASSUME NEW i \in DOMAIN s PROVE s[i].mbuf \in Mbufs(k[b])
  <2>1. Len(l[b]) + i \in DOMAIN k[b] /\ k[b][Len(l[b]) + i] = s[i]
    BY <1>2, <1>3
  <2> QED
    BY <2>1 DEF Mbufs
<1> QED
  BY <1>1, <1>2, <1>4, <1>5 DEF k, Mbufs

\* A packet put at the end of a list, whatever it is.
LEMMA AfterPuttingOne ==
  ASSUME NEW S, NEW l \in [Place -> Seq(S)], NEW b \in Place, NEW x
  PROVE  /\ \A c \in Place : Kept(l, With(l, b, <<x>>), c)
         /\ \A c \in Place \ {b} : With(l, b, <<x>>)[c] = l[c]
         /\ x.mbuf \in Mbufs(With(l, b, <<x>>)[b])
<1>1. PICK T : T = S \cup {x}
  OBVIOUS
<1>2. PICK k : k = l /\ k \in [Place -> Seq(T)]
  <2>1. Seq(S) \subseteq Seq(T)
    BY <1>1
  <2> QED
    BY <2>1
<1>3. PICK s : s = <<x>> /\ s \in Seq(T) /\ x.mbuf \in Mbufs(s)
  <2>1. <<x>> \in Seq(T) /\ DOMAIN <<x>> = {1} /\ <<x>>[1] = x
    BY <1>1
  <2> QED
    BY <2>1 DEF Mbufs
<1>4. /\ \A c \in Place : Kept(k, With(k, b, s), c)
      /\ \A c \in Place \ {b} : With(k, b, s)[c] = k[c]
      /\ Mbufs(s) \subseteq Mbufs(With(k, b, s)[b])
  <2>1. k \in [Place -> Seq(T)] /\ s \in Seq(T)
    BY <1>2, <1>3
  <2>2. \A c \in Place : Kept(k, With(k, b, s), c)
    BY <2>1, AfterPutting
  <2>3. \A c \in Place \ {b} : With(k, b, s)[c] = k[c]
    BY <2>1, AfterPutting
  <2>4. Mbufs(s) \subseteq Mbufs(With(k, b, s)[b])
    BY <2>1, AfterPutting
  <2> QED
    BY <2>2, <2>3, <2>4
<1> QED
  BY <1>2, <1>3, <1>4

\* Packets passed from the head of a list to the end of another.
LEMMA AfterPassing ==
  ASSUME NEW S, NEW l \in [Place -> Seq(S)], NEW a \in Place, NEW b \in Place,
         a # b, NEW n \in 0 .. Len(l[a])
  PROVE  /\ \A c \in Place \ {a} : Kept(l, Passed(l, a, b, n), c)
         /\ \A c \in (Place \ {a}) \ {b} : Passed(l, a, b, n)[c] = l[c]
         /\ \A i \in 1 .. n : l[a][i].mbuf \in Mbufs(Passed(l, a, b, n)[b])
         /\ \A i \in n + 1 .. Len(l[a]) :
              /\ i - n \in DOMAIN Passed(l, a, b, n)[a]
              /\ Passed(l, a, b, n)[a][i - n] = l[a][i]
<1> DEFINE k == Without(l, a, n)
           s == First(l[a], n)
<1>1. /\ k \in [Place -> Seq(S)] /\ s \in Seq(S)
      /\ \A c \in Place \ {a} : k[c] = l[c]
      /\ \A i \in 1 .. n : l[a][i].mbuf \in Mbufs(s)
      /\ \A i \in n + 1 .. Len(l[a]) : /\ i - n \in DOMAIN k[a]
                                       /\ k[a][i - n] = l[a][i]
  BY AfterTaking
<1> HIDE DEF k, s
<1> DEFINE t == With(k, b, s)
<1>2. /\ \A c \in Place : Kept(k, t, c)
      /\ \A c \in Place \ {b} : t[c] = k[c]
      /\ Mbufs(s) \subseteq Mbufs(t[b])
  <2>1. \A c \in Place : Kept(k, t, c)
    BY <1>1, AfterPutting
  <2>2. \A c \in Place \ {b} : t[c] = k[c]
    BY <1>1, AfterPutting
  <2>3. Mbufs(s) \subseteq Mbufs(t[b])
    BY <1>1, AfterPutting
  <2> QED
    BY <2>1, <2>2, <2>3
<1>3. Passed(l, a, b, n) = t
  BY DEF Passed, k, s
<1> HIDE DEF t
<1> QED
  BY <1>1, <1>2, <1>3 DEF Kept

\* What is taken from the head of a list or stays there is all there was.
LEMMA TakenOrLeft ==
  ASSUME NEW S, NEW s \in Seq(S), NEW n \in 0 .. Len(s), NEW t,
         \A i \in n + 1 .. Len(s) : i - n \in DOMAIN t /\ t[i - n] = s[i]
  PROVE  \A m \in Mbufs(s) : m \in Mbufs(t) \/ \E i \in 1 .. n : m = s[i].mbuf
<1> SUFFICES ASSUME NEW i \in DOMAIN s
             PROVE  s[i].mbuf \in Mbufs(t) \/ \E j \in 1 .. n : s[i].mbuf = s[j].mbuf
  BY DEF Mbufs
<1>1. i \in 1 .. n \/ i \in n + 1 .. Len(s)
  OBVIOUS
<1> QED
  BY <1>1 DEF Mbufs

\* What of place a is passed on to place b.
LEMMA PassGoes ==
  ASSUME PacketsTypeOK, NEW a \in Place, NEW b \in Place, a # b,
         NEW n \in 0 .. Len(list[a]), list' = Passed(list, a, b, n)
  PROVE  /\ \A c \in Place : \A m \in Mbufs(list[c]) :
              m \in Mbufs(list'[c]) \/ (c = a /\ m \in Mbufs(list'[b]))
         /\ \A c \in Place \ {a} : Kept(list, list', c)
         /\ \A i \in 1 .. n : list[a][i].mbuf \in Mbufs(list'[b])
         /\ \A i \in n + 1 .. Len(list[a]) :
              i - n \in DOMAIN list'[a] /\ list'[a][i - n] = list[a][i]
<1>1. list \in [Place -> Seq(Packet)]
  BY DEF PacketsTypeOK
<1>2. /\ \A c \in Place \ {a} : Kept(list, list', c)
      /\ \A i \in 1 .. n : list[a][i].mbuf \in Mbufs(list'[b])
      /\ \A i \in n + 1 .. Len(list[a]) :
           i - n \in DOMAIN list'[a] /\ list'[a][i - n] = list[a][i]
  <2>1. \A c \in Place \ {a} : Kept(list, Passed(list, a, b, n), c)
    BY <1>1, AfterPassing
  <2>2. \A i \in 1 .. n : list[a][i].mbuf \in Mbufs(Passed(list, a, b, n)[b])
    BY <1>1, AfterPassing
  <2>3. \A i \in n + 1 .. Len(list[a]) :
          /\ i - n \in DOMAIN Passed(list, a, b, n)[a]
          /\ Passed(list, a, b, n)[a][i - n] = list[a][i]
    BY <1>1, AfterPassing
  <2> QED
    BY <2>1, <2>2, <2>3
<1>3. list[a] \in Seq(Packet)
  BY <1>1
<1>4. \A m \in Mbufs(list[a]) : m \in Mbufs(list'[a]) \/ m \in Mbufs(list'[b])
  <2>1. \A m \in Mbufs(list[a]) :
          m \in Mbufs(list'[a]) \/ \E i \in 1 .. n : m = list[a][i].mbuf
    BY <1>2, <1>3, TakenOrLeft
  <2> QED
    BY <1>2, <2>1
<1>5. \A c \in Place \ {a} : \A m \in Mbufs(list[c]) : m \in Mbufs(list'[c])
  BY <1>2 DEF Kept, Mbufs
<1> QED
  BY <1>2, <1>4, <1>5

\* What is at the head of place a is freed.
LEMMA HeadGoes ==
  ASSUME PacketsTypeOK, NEW a \in Place, list[a] # <<>>,
         list' = Without(list, a, 1), Head(list[a]).mbuf \in free'
  PROVE  /\ \A c \in Place : \A m \in Mbufs(list[c]) :
              m \in Mbufs(list'[c]) \/ (c = a /\ m \in free')
         /\ \A c \in Place \ {a} : Kept(list, list', c)
<1>1. list \in [Place -> Seq(Packet)] /\ list[a] \in Seq(Packet)
  BY DEF PacketsTypeOK
<1>2. 1 \in 0 .. Len(list[a]) /\ Head(list[a]) = list[a][1]
  BY <1>1, HeadTaken
<1>3. /\ \A c \in Place \ {a} : list'[c] = list[c]
      /\ \A i \in 1 + 1 .. Len(list[a]) :
           i - 1 \in DOMAIN list'[a] /\ list'[a][i - 1] = list[a][i]
  BY <1>1, <1>2, AfterTaking
<1>4. \A m \in Mbufs(list[a]) : m \in Mbufs(list'[a]) \/ m \in free'
  <2>1. \A m \in Mbufs(list[a]) :
          m \in Mbufs(list'[a]) \/ \E i \in 1 .. 1 : m = list[a][i].mbuf
    BY <1>1, <1>2, <1>3, TakenOrLeft
  <2> QED
    BY <1>2, <2>1
<1> QED
  BY <1>3, <1>4 DEF Kept

\* A free mbuf comes to place b.
LEMMA MadeGoes ==
  ASSUME PacketsTypeOK, NEW b \in Place, NEW x, list' = With(list, b, <<x>>)
  PROVE  /\ \A c \in Place : \A m \in Mbufs(list[c]) : m \in Mbufs(list'[c])
         /\ \A c \in Place : Kept(list, list', c)
         /\ x.mbuf \in Mbufs(list'[b])
<1>1. list \in [Place -> Seq(Packet)]
  BY DEF PacketsTypeOK
<1>2. (\A c \in Place : Kept(list, list', c)) /\ x.mbuf \in Mbufs(list'[b])
  BY <1>1, AfterPuttingOne
<1> QED
  BY <1>2 DEF Kept, Mbufs

\* What is at the head of place a is freed, for one that comes to place b.
LEMMA ReplaceGoes ==
  ASSUME PacketsTypeOK, NEW a \in Place, NEW b \in Place, a # b,
         list[a] # <<>>, NEW x,
         list' = With(Without(list, a, 1), b, <<x>>), Head(list[a]).mbuf \in free'
  PROVE  /\ \A c \in Place : \A m \in Mbufs(list[c]) :
              m \in Mbufs(list'[c]) \/ (c = a /\ m \in free')
         /\ \A c \in Place \ {a} : Kept(list, list', c)
         /\ x.mbuf \in Mbufs(list'[b])
<1>1. list \in [Place -> Seq(Packet)] /\ list[a] \in Seq(Packet)
  BY DEF PacketsTypeOK
<1>2. 1 \in 0 .. Len(list[a]) /\ Head(list[a]) = list[a][1]
  BY <1>1, HeadTaken
<1>3. PICK k : k = Without(list, a, 1)
  OBVIOUS
<1>4. /\ k \in [Place -> Seq(Packet)]
      /\ \A c \in Place \ {a} : k[c] = list[c]
      /\ \A i \in 1 + 1 .. Len(list[a]) :
           i - 1 \in DOMAIN k[a] /\ k[a][i - 1] = list[a][i]
  BY <1>1, <1>2, <1>3, AfterTaking
<1>5. /\ \A c \in Place : Kept(k, list', c)
      /\ \A c \in Place \ {b} : list'[c] = k[c]
      /\ x.mbuf \in Mbufs(list'[b])
  <2>1. PICK t : t = With(k, b, <<x>>)
    OBVIOUS
  <2>2. \A c \in Place : Kept(k, t, c)
    BY <1>4, <2>1, AfterPuttingOne
  <2>3. \A c \in Place \ {b} : t[c] = k[c]
    BY <1>4, <2>1, AfterPuttingOne
  <2>4. x.mbuf \in Mbufs(t[b])
    BY <1>4, <2>1, AfterPuttingOne
  <2>5. list' = t
    BY <1>3, <2>1
  <2> QED
    BY <2>2, <2>3, <2>4, <2>5
<1>6. \A m \in Mbufs(list[a]) : m \in Mbufs(list'[a]) \/ m \in free'
  <2>1. \A m \in Mbufs(list[a]) :
          m \in Mbufs(k[a]) \/ \E i \in 1 .. 1 : m = list[a][i].mbuf
    BY <1>1, <1>2, <1>4, TakenOrLeft
  <2> QED
    BY <1>2, <1>5, <2>1
<1>7. \A c \in Place \ {a} : Kept(list, list', c)
  BY <1>4, <1>5 DEF Kept
<1>8. \A c \in Place \ {a} : \A m \in Mbufs(list[c]) : m \in Mbufs(list'[c])
  BY <1>7 DEF Kept, Mbufs
<1> QED
  BY <1>5, <1>6, <1>7, <1>8

\* Whole places are freed.
LEMMA EmptiedGoes ==
  ASSUME NEW P, list' = Emptied(list, P), free' = free \cup MbufsAt(list, P)
  PROVE  /\ free \subseteq free'
         /\ \A c \in Place : \A m \in Mbufs(list[c]) :
              m \in Mbufs(list'[c]) \/ (c \in P /\ m \in free')
         /\ \A c \in Place \ P : list'[c] = list[c]
BY DEF Emptied, MbufsAt

\* Where a step of worker w takes the mbufs: from its queues to the packets
\* received, from there to its lists, from these to its rings, or from what
\* it owns to the pool and back.
Goes(w) ==
  /\ \A m \in free :
       m \in free' \/ \E q \in Port : m \in Mbufs(list'[<<w, "out", q>>])
  /\ \A c \in Place : \A m \in Mbufs(list[c]) :
       \/ m \in Mbufs(list'[c])
       \/ c \in Owned(w) /\ m \in free'
       \/ \E p \in Port : /\ c = <<w, "queue", p>>
                          /\ m \in Mbufs(list'[<<w, "received", p>>])
       \/ \E p, q \in Port : /\ c = <<w, "received", p>>
                             /\ m \in Mbufs(list'[<<w, "out", q>>])
       \/ \E p \in Port : /\ c = <<w, "out", p>>
                          /\ m \in Mbufs(list'[<<w, "ring", p>>])

\* No list for a port loses a packet, or the place of one.
OutsKept == \A v \in Worker, q \in Port : Kept(list, list', <<v, "out", q>>)

\* A burst received, or a packet sent on, or packets handed to a port.
LEMMA PassedGoes ==
  ASSUME PacketsTypeOK, NEW w \in Worker, NEW p \in Port, NEW q \in Port,
         NEW b \in Place,
         NEW a \in Place,
         \/ a = <<w, "queue", p>> /\ b = <<w, "received", p>>
         \/ a = <<w, "received", p>> /\ b = <<w, "out", q>>
         \/ a = <<w, "out", p>> /\ b = <<w, "ring", p>>,
         NEW n \in 0 .. Len(list[a]), list' = Passed(list, a, b, n),
         free' = free
  PROVE  /\ Goes(w)
         /\ a[2] # "out" => OutsKept
<1>1. a # b
  OBVIOUS
<1>2. /\ \A c \in Place : \A m \in Mbufs(list[c]) :
           m \in Mbufs(list'[c]) \/ (c = a /\ m \in Mbufs(list'[b]))
      /\ \A c \in Place \ {a} : Kept(list, list', c)
  BY <1>1, PassGoes
<1>3. Goes(w)
  BY <1>2 DEF Goes
<1>4. a[2] # "out" => OutsKept
  <2> SUFFICES ASSUME a[2] # "out", NEW v \in Worker, NEW r \in Port
               PROVE  Kept(list, list', <<v, "out", r>>)
    BY DEF OutsKept
  <2>1. <<v, "out", r>> \in Place /\ <<v, "out", r>>[2] = "out"
    BY Places
  <2> QED
    BY <1>2, <2>1
<1> QED
  BY <1>3, <1>4

\* The packet in hand is freed.
LEMMA HandFreedGoes ==
  ASSUME PacketsTypeOK, NEW w \in Worker, NEW p \in Port,
         list[<<w, "received", p>>] # <<>>,
         list' = Without(list, <<w, "received", p>>, 1),
         free' = free \cup {Hand(w, p).mbuf}
  PROVE  Goes(w) /\ OutsKept
<1>1. PICK a \in Place : a = <<w, "received", p>>
  BY Places
<1>2. a \in Owned(w)
  BY <1>1 DEF Owned
<1>3. /\ \A c \in Place : \A m \in Mbufs(list[c]) :
           m \in Mbufs(list'[c]) \/ (c = a /\ m \in free')
      /\ \A c \in Place \ {a} : Kept(list, list', c)
  <2>1. list[a] # <<>> /\ list' = Without(list, a, 1) /\ Head(list[a]).mbuf \in free'
    BY <1>1 DEF Hand
  <2> QED
    BY <2>1, HeadGoes
<1>4. Goes(w)
  BY <1>2, <1>3 DEF Goes
<1>5. \A v \in Worker, q \in Port : <<v, "out", q>> \in Place \ {a}
  BY <1>1, Places
<1> QED
  BY <1>3, <1>4, <1>5 DEF OutsKept

\* A fragment is made.
LEMMA PushedGoes ==
  ASSUME PacketsTypeOK, NEW w \in Worker, PushFragment(w)
  PROVE  Goes(w) /\ OutsKept
<1>1. PICK b \in Place : b = <<w, "out", "wan">>
  BY Places
<1>2. PICK x : /\ x = Made(w, "lan", FirstFree[free], cut[w].next)
               /\ list' = With(list, b, <<x>>) /\ free' = free \ {FirstFree[free]}
  BY <1>1 DEF PushFragment
<1>3. x.mbuf = FirstFree[free]
  BY <1>2 DEF Made
<1>4. /\ \A c \in Place : \A m \in Mbufs(list[c]) : m \in Mbufs(list'[c])
      /\ \A c \in Place : Kept(list, list', c)
      /\ x.mbuf \in Mbufs(list'[b])
  BY <1>2, MadeGoes
<1>5. "wan" \in Port
  BY Places
<1>6. Goes(w)
  BY <1>1, <1>2, <1>3, <1>4, <1>5 DEF Goes
<1> QED
  BY <1>4, <1>6, Places DEF OutsKept

\* A packet is made in place of the one in hand.
LEMMA ReplacedGoes ==
  ASSUME PacketsTypeOK, NEW w \in Worker, NEW to \in Port, NEW made,
         list[<<w, "received", "wan">>] # <<>>, Replaces(w, made, to)
  PROVE  Goes(w) /\ OutsKept
<1>1. PICK a \in Place : a = <<w, "received", "wan">>
  BY Places
<1>2. PICK b \in Place : b = <<w, "out", to>>
  BY Places
<1>3. a # b /\ a \in Owned(w) /\ list[a] # <<>>
  BY <1>1, <1>2, Places DEF Owned
<1>4. /\ list' = With(Without(list, a, 1), b, <<made>>)
      /\ free' = (free \ {made.mbuf}) \cup {Head(list[a]).mbuf}
  BY <1>1, <1>2 DEF Replaces, Hand
<1>5. /\ \A c \in Place : \A m \in Mbufs(list[c]) :
           m \in Mbufs(list'[c]) \/ (c = a /\ m \in free')
      /\ \A c \in Place \ {a} : Kept(list, list', c)
      /\ made.mbuf \in Mbufs(list'[b])
  <2>1. Head(list[a]).mbuf \in free'
    BY <1>4
  <2> QED
    BY <1>3, <1>4, <2>1, ReplaceGoes
<1>6. Goes(w)
  BY <1>2, <1>3, <1>4, <1>5 DEF Goes
<1>7. \A v \in Worker, q \in Port : <<v, "out", q>> \in Place \ {a}
  BY <1>1, Places
<1> QED
  BY <1>5, <1>6, <1>7 DEF OutsKept

\* A worker fails.
LEMMA FailedGoes ==
  ASSUME PacketsTypeOK, NEW w \in Worker, Fail(w)
  PROVE  /\ Goes(w) /\ pc'[w] = "failed"
         /\ \A v \in Worker \ {w}, q \in Port : Kept(list, list', <<v, "out", q>>)
<1>1. /\ free \subseteq free'
      /\ \A c \in Place : \A m \in Mbufs(list[c]) :
           m \in Mbufs(list'[c]) \/ (c \in Owned(w) /\ m \in free')
      /\ \A c \in Place \ Owned(w) : list'[c] = list[c]
  BY EmptiedGoes DEF Fail
<1>2. Goes(w)
  BY <1>1 DEF Goes
<1>3. pc'[w] = "failed"
  BY DEF Fail, PacketsTypeOK
<1>4. ASSUME NEW v \in Worker \ {w}, NEW q \in Port
      PROVE  Kept(list, list', <<v, "out", q>>)
  <2>1. <<v, "out", q>> \in Place \ Owned(w)
    BY Places DEF Owned
  <2> QED
    BY <1>1, <2>1 DEF Kept
<1> QED
  BY <1>2, <1>3, <1>4

\* The steps that handle the packet in hand.
Handles(w) ==
  \/ \E p \in Port : Discard(w, p)
  \/ \E f \in LanFrame : SendWhole(w, f) \/ StartFragments(w, f)
  \/ PushFragment(w)
  \/ EndFragments(w)
  \/ \E f \in WanFrame : ForwardWhole(w, f) \/ ForwardReassembled(w, f)
  \/ \E m \in Solicited : Answer(w, m)

\* Their packets stay with the worker, or with the pool.
LEMMA HandledGoes ==
  ASSUME PacketsTypeOK, Cutting, NEW w \in Worker, Handles(w)
  PROVE  Goes(w) /\ OutsKept
<1>1. ASSUME NEW p \in Port, NEW q \in Port, InHand(w, p),
             list' = Passed(list, <<w, "received", p>>, <<w, "out", q>>, 1),
             free' = free
      PROVE  Goes(w) /\ OutsKept
  <2>1. PICK a \in Place : a = <<w, "received", p>>
    BY Places
  <2>2. PICK b \in Place : b = <<w, "out", q>>
    BY Places
  <2>3. list[a] \in Seq(Packet) /\ list[a] # <<>>
    BY <1>1, <2>1 DEF InHand, PacketsTypeOK
  <2>4. 1 \in 0 .. Len(list[a])
    BY <2>3, HeadTaken
  <2>5. list' = Passed(list, a, b, 1) /\ a[2] # "out"
    BY <1>1, <2>1, <2>2
  <2> QED
    BY <1>1, <2>1, <2>2, <2>4, <2>5, PassedGoes
<1>2. CASE \E p \in Port : Discard(w, p)
  BY <1>2, HandFreedGoes DEF Discard, InHand
<1>3. CASE \E f \in LanFrame : SendWhole(w, f)
  BY <1>1, <1>3, Places DEF SendWhole
<1>4. CASE \E f \in LanFrame : StartFragments(w, f)
  BY <1>4 DEF StartFragments, Goes, OutsKept, Kept
<1>5. CASE PushFragment(w)
  BY <1>5, PushedGoes
<1>6. CASE EndFragments(w)
  <2>1. list[<<w, "received", "lan">>] # <<>>
    BY <1>6 DEF EndFragments, Cutting
  <2> QED
    BY <1>6, <2>1, Places, HandFreedGoes DEF EndFragments
<1>7. CASE \E f \in WanFrame : ForwardWhole(w, f)
  BY <1>1, <1>7, Places DEF ForwardWhole
<1>8. CASE \E f \in WanFrame : ForwardReassembled(w, f)
  BY <1>8, Places, ReplacedGoes DEF ForwardReassembled, InHand
<1>9. CASE \E m \in Solicited : Answer(w, m)
  BY <1>9, Places, ReplacedGoes DEF Answer, InHand
<1> QED
  BY <1>2, <1>3, <1>4, <1>5, <1>6, <1>7, <1>8, <1>9 DEF Handles

\* Where a worker's steps take packets.
LEMMA WorkGoes ==
  ASSUME PacketsTypeOK, Cutting, NEW w \in Worker, Work(w)
  PROVE  Goes(w)
<1>1. CASE \E p \in Port : \E n \in 0 .. Len(list[<<w, "queue", p>>]) :
             ReceiveBurst(w, p, n)
  <2>1. PICK p \in Port : \E n \in 0 .. Len(list[<<w, "queue", p>>]) :
               ReceiveBurst(w, p, n)
    BY <1>1
  <2>2. PICK n \in 0 .. Len(list[<<w, "queue", p>>]) : ReceiveBurst(w, p, n)
    BY <2>1
  <2> QED
    BY <2>2, Places, PassedGoes DEF ReceiveBurst
<1>2. CASE \E p \in Port : \E n \in 0 .. Len(list[<<w, "out", p>>]) :
             Transmit(w, p, n)
  <2>1. PICK p \in Port : \E n \in 0 .. Len(list[<<w, "out", p>>]) :
               Transmit(w, p, n)
    BY <1>2
  <2>2. PICK n \in 0 .. Len(list[<<w, "out", p>>]) : Transmit(w, p, n)
    BY <2>1
  <2>3. list' = Passed(list, <<w, "out", p>>, <<w, "ring", p>>, n)
        /\ free' = free
    BY <2>2 DEF Transmit, Unsent, Passed, Without, With
  <2> QED
    BY <2>3, Places, PassedGoes
<1>3. CASE Fail(w)
  BY <1>3, FailedGoes
<1>4. CASE ~Fail(w) /\ \A p \in Port :
             /\ \A n \in 0 .. Len(list[<<w, "queue", p>>]) : ~ReceiveBurst(w, p, n)
             /\ \A n \in 0 .. Len(list[<<w, "out", p>>]) : ~Transmit(w, p, n)
  BY <1>4, HandledGoes DEF Work, Handles
<1> QED
  BY <1>1, <1>2, <1>3, <1>4

\* What NoneOvertaken says of the packets that wait with worker w for port p.
Advances(w, p) ==
  \A i \in DOMAIN list[<<w, "out", p>>] :
    \/ \E j \in DOMAIN list'[<<w, "out", p>>] :
         j <= i /\ list'[<<w, "out", p>>][j] = list[<<w, "out", p>>][i]
    \/ \A h \in 1 .. i :
         list[<<w, "out", p>>][h].mbuf \in Mbufs(list'[<<w, "ring", p>>])
    \/ pc'[w] = "failed"

\* A packet that keeps its place has not been overtaken.
LEMMA KeptWaits ==
  ASSUME PacketsTypeOK, NEW w \in Worker, NEW p \in Port,
         Kept(list, list', <<w, "out", p>>)
  PROVE  Advances(w, p)
<1>1. PICK a \in Place : a = <<w, "out", p>>
  BY Places
<1>2. list[a] \in Seq(Packet)
  BY DEF PacketsTypeOK
<1>3. DOMAIN list[a] \subseteq Nat
  BY <1>2
<1>4. ASSUME NEW i \in DOMAIN list[a]
      PROVE  \E j \in DOMAIN list'[a] : j <= i /\ list'[a][j] = list[a][i]
  BY <1>1, <1>3, <1>4 DEF Kept
<1> QED
  BY <1>1, <1>4 DEF Advances

\* What a port takes of a burst it takes from the head.
LEMMA TransmitWaits ==
  ASSUME PacketsTypeOK, NEW v \in Worker, NEW q \in Port,
         NEW n \in 0 .. Len(list[<<v, "out", q>>]), Transmit(v, q, n),
         NEW w \in Worker, NEW p \in Port
  PROVE  Advances(w, p)
<1>1. PICK a \in Place : a = <<v, "out", q>>
  BY Places
<1>2. PICK b \in Place : b = <<v, "ring", q>>
  BY Places
<1>3. a # b /\ n \in 0 .. Len(list[a]) /\ list' = Passed(list, a, b, n)
  BY <1>1, <1>2 DEF Transmit, Unsent, Passed, Without, With
<1>4. /\ \A c \in Place \ {a} : Kept(list, list', c)
      /\ \A i \in 1 .. n : list[a][i].mbuf \in Mbufs(list'[b])
      /\ \A i \in n + 1 .. Len(list[a]) :
           i - n \in DOMAIN list'[a] /\ list'[a][i - n] = list[a][i]
  BY <1>3, PassGoes
<1>5. list[a] \in Seq(Packet)
  BY DEF PacketsTypeOK
<1>6. CASE w # v \/ p # q
  <2>1. <<w, "out", p>> \in Place \ {a}
    BY <1>1, <1>6, Places
  <2> QED
    BY <1>4, <2>1, KeptWaits
<1>7. CASE w = v /\ p = q
  <2> SUFFICES ASSUME NEW i \in DOMAIN list[a]
               PROVE  \/ \E j \in DOMAIN list'[a] :
                           j <= i /\ list'[a][j] = list[a][i]
                      \/ \A h \in 1 .. i : list[a][h].mbuf \in Mbufs(list'[b])
    BY <1>1, <1>2, <1>7 DEF Advances
  <2>1. i \in 1 .. Len(list[a]) /\ Len(list[a]) \in Nat /\ n \in Nat
    BY <1>3, <1>5
  <2>2. CASE i <= n
    <3>1. 1 .. i \subseteq 1 .. n
      BY <2>1, <2>2
    <3> QED
      BY <1>4, <3>1
  <2>3. CASE i > n
    <3>1. i \in n + 1 .. Len(list[a]) /\ i - n <= i
      BY <2>1, <2>3
    <3> QED
      BY <1>4, <3>1
  <2> QED
    BY <2>1, <2>2, <2>3
<1> QED
  BY <1>6, <1>7

\* Nor does any other step of a worker.
LEMMA WorkWaits ==
  ASSUME PacketsTypeOK, Cutting, NEW v \in Worker, Work(v),
         NEW w \in Worker, NEW p \in Port
  PROVE  Advances(w, p)
<1>1. CASE \E q \in Port : \E n \in 0 .. Len(list[<<v, "queue", q>>]) :
             ReceiveBurst(v, q, n)
  <2>1. PICK q \in Port : \E n \in 0 .. Len(list[<<v, "queue", q>>]) :
               ReceiveBurst(v, q, n)
    BY <1>1
  <2>2. PICK n \in 0 .. Len(list[<<v, "queue", q>>]) : ReceiveBurst(v, q, n)
    BY <2>1
  <2>3. PICK a \in Place : a = <<v, "queue", q>>
    BY Places
  <2>4. PICK b \in Place : b = <<v, "received", q>>
    BY Places
  <2>5. /\ n \in 0 .. Len(list[a]) /\ list' = Passed(list, a, b, n)
        /\ free' = free /\ a[2] # "out"
    BY <2>2, <2>3, <2>4 DEF ReceiveBurst
  <2>6. OutsKept
    BY <2>3, <2>4, <2>5, PassedGoes
  <2> QED
    BY <2>6, KeptWaits DEF OutsKept
<1>2. CASE \E q \in Port : \E n \in 0 .. Len(list[<<v, "out", q>>]) :
             Transmit(v, q, n)
  BY <1>2, TransmitWaits
<1>3. CASE Fail(v)
  <2>1. w # v => Kept(list, list', <<w, "out", p>>)
    BY <1>3, FailedGoes
  <2>2. w = v => Advances(w, p)
    BY <1>3, FailedGoes DEF Advances
  <2> QED
    BY <2>1, <2>2, KeptWaits
<1>4. CASE ~Fail(v) /\ \A q \in Port :
             /\ \A n \in 0 .. Len(list[<<v, "queue", q>>]) : ~ReceiveBurst(v, q, n)
             /\ \A n \in 0 .. Len(list[<<v, "out", q>>]) : ~Transmit(v, q, n)
  <2>1. Handles(v)
    BY <1>4 DEF Work, Handles
  <2>2. OutsKept
    BY <2>1, HandledGoes
  <2> QED
    BY <2>2, KeptWaits DEF OutsKept
<1> QED
  BY <1>1, <1>2, <1>3, <1>4

\* A port only adds to its queues, takes from its rings, and when it is closed
\* gives up both.
LEMMA PortLists ==
  ASSUME PacketsTypeOK, NEW p \in Port
  PROVE  /\ Close(p) => OutsKept
         /\ \A w \in Worker : Arrive(w, p) \/ TxDone(w, p) => OutsKept
<1>1. ASSUME Close(p) PROVE OutsKept
  <2>1. \A c \in Place \ OfPort(p) : list'[c] = list[c]
    BY <1>1 DEF Close, Emptied
  <2>2. \A v \in Worker, q \in Port : <<v, "out", q>> \in Place \ OfPort(p)
    BY Places DEF OfPort
  <2> QED
    BY <2>1, <2>2 DEF OutsKept, Kept
<1>2. ASSUME NEW w \in Worker, Arrive(w, p) PROVE OutsKept
  <2>1. PICK b \in Place : b = <<w, "queue", p>>
    BY Places
  <2>2. list' = With(list, b, <<[mbuf |-> FirstFree[free], from |-> p,
                                 nr |-> arrivals + 1, part |-> 0,
                                 answer |-> None]>>)
    BY <1>2, <2>1 DEF Arrive
  <2>3. \A c \in Place : Kept(list, list', c)
    BY <2>2, MadeGoes
  <2> QED
    BY <2>3, Places DEF OutsKept
<1>3. ASSUME NEW w \in Worker, TxDone(w, p) PROVE OutsKept
  <2>1. PICK a \in Place : a = <<w, "ring", p>>
    BY Places
  <2>2. /\ list[a] # <<>> /\ list' = Without(list, a, 1)
        /\ Head(list[a]).mbuf \in free'
    BY <1>3, <2>1 DEF TxDone
  <2>3. \A c \in Place \ {a} : Kept(list, list', c)
    BY <2>2, HeadGoes
  <2>4. \A v \in Worker, q \in Port : <<v, "out", q>> \in Place \ {a}
    BY <2>1, Places
  <2> QED
    BY <2>3, <2>4 DEF OutsKept
<1> QED
  BY <1>1, <1>2, <1>3

\* No step lets a packet fall back among those that wait for its port.
LEMMA StepWaits ==
  ASSUME IInv, [Next]_allVars, NEW w \in Worker, NEW p \in Port
  PROVE  Advances(w, p)
<1>1. PacketsTypeOK /\ Cutting
  BY DEF IInv, PacketsInv
<1>2. CASE list' = list
  BY <1>1, <1>2, Places, KeptWaits DEF Kept
<1>3. CASE OutsKept
  BY <1>1, <1>3, KeptWaits DEF OutsKept
<1>4. CASE MainStep
  <2>1. list' = list \/ \E q \in Port : Close(q)
    BY <1>4 DEF MainStep, OpenEnvironment, OpenFurther, FailOpen, GetMac,
                Launch, Begin, FailLaunch, AllLaunched, Wait, Drop, LastDrop,
                Return, vars
  <2> QED
    BY <1>1, <1>2, <1>3, <2>1, PortLists
<1>5. ASSUME NEW v \in Worker, WorkerStep(v)
      PROVE  Advances(w, p)
  <2>1. Work(v) \/ list' = list \/ \E q \in Port : Close(q)
    BY <1>5 DEF WorkerStep, Drop, LastDrop, Stop, Abort, vars
  <2> QED
    BY <1>1, <1>2, <1>3, <2>1, WorkWaits, PortLists
<1>6. ASSUME NEW q \in Port, PortStep(q)
      PROVE  Advances(w, p)
  BY <1>1, <1>3, <1>6, PortLists DEF PortStep
<1>7. CASE UNCHANGED allVars
  BY <1>2, <1>7 DEF allVars, vars
<1> QED
  BY <1>4, <1>5, <1>6, <1>7 DEF Next

\* Packets leave the list for a port from its head and come to its end: with
\* every part of a burst a port takes, each that waits gets nearer, whatever
\* arrives meanwhile, until the port has it or the worker fails.
THEOREM NoneOvertakes == Spec => NoneOvertaken
<1>1. IInv /\ [Next]_allVars =>
        [\A w \in Worker, p \in Port :
           LET before == list[<<w, "out", p>>]
               after == list'[<<w, "out", p>>]
               handed == Mbufs(list'[<<w, "ring", p>>])
           IN  \A i \in DOMAIN before :
                 \/ \E j \in DOMAIN after : j <= i /\ after[j] = before[i]
                 \/ \A h \in 1 .. i : before[h].mbuf \in handed
                 \/ pc'[w] = "failed"]_allVars
  BY StepWaits DEF Advances
<1> QED
  BY <1>1, Invariance, PTL DEF Spec, NoneOvertaken

-----------------------------------------------------------------------------
(* The process implements MbufPool.                                        *)

\* Whose an mbuf is, by what the lists and the pool hold.
Whose(l, F, M, m) ==
  IF m \in F THEN <<"pool">>
  ELSE IF m \notin M THEN <<"idle">>
  ELSE OwnerAt(CHOOSE a \in Place : m \in Mbufs(l[a]))

\* Where each mbuf is tells whose it is.
LEMMA WhoseIs ==
  ASSUME NEW l, NEW F, NEW M, Partitions(l, F, M), NEW m
  PROVE  /\ m \in F => Whose(l, F, M, m) = <<"pool">>
         /\ m \notin M => Whose(l, F, M, m) = <<"idle">>
         /\ \A a \in Place : m \in Mbufs(l[a]) => Whose(l, F, M, m) = OwnerAt(a)
         /\ m \in F \/ m \notin M \/ \E a \in Place : m \in Mbufs(l[a])
<1>1. Apart(l) /\ F \cap MbufsAt(l, Place) = {} /\ F \cup MbufsAt(l, Place) = M
  BY DEF Partitions
<1>2. ASSUME NEW a \in Place, m \in Mbufs(l[a])
      PROVE  Whose(l, F, M, m) = OwnerAt(a)
  <2>1. m \notin F /\ m \in M
    BY <1>1, <1>2 DEF MbufsAt
  <2>2. ASSUME NEW b \in Place, m \in Mbufs(l[b]) PROVE a = b
    BY <1>1, <1>2, <2>2 DEF Apart, Mbufs
  <2>3. (CHOOSE b \in Place : m \in Mbufs(l[b])) = a
    BY <1>2, <2>2
  <2> QED
    BY <2>1, <2>3 DEF Whose
<1>3. m \in F => Whose(l, F, M, m) = <<"pool">>
  BY DEF Whose
<1>4. m \notin M => Whose(l, F, M, m) = <<"idle">>
  BY <1>1 DEF Whose
<1>5. m \in F \/ m \notin M \/ \E a \in Place : m \in Mbufs(l[a])
  BY <1>1 DEF MbufsAt
<1> QED
  BY <1>2, <1>3, <1>4, <1>5

\* Before a step and after it.
LEMMA OwnerIs ==
  ASSUME OneOwner, NEW m
  PROVE  /\ m \in free => OwnerOf(m) = <<"pool">>
         /\ m \notin Pool[config] => OwnerOf(m) = <<"idle">>
         /\ \A a \in Place : m \in Mbufs(list[a]) => OwnerOf(m) = OwnerAt(a)
         /\ \/ m \in free \/ m \notin Pool[config]
            \/ \E a \in Place : m \in Mbufs(list[a])
<1>1. Partitions(list, free, Pool[config])
  BY DEF OneOwner
<1>2. Whose(list, free, Pool[config], m) = OwnerOf(m)
  BY DEF Whose, OwnerOf
<1>3. m \in free => Whose(list, free, Pool[config], m) = <<"pool">>
  BY <1>1, WhoseIs
<1>4. m \notin Pool[config] => Whose(list, free, Pool[config], m) = <<"idle">>
  BY <1>1, WhoseIs
<1>5. \A a \in Place : m \in Mbufs(list[a]) =>
        Whose(list, free, Pool[config], m) = OwnerAt(a)
  BY <1>1, WhoseIs
<1>6. \/ m \in free \/ m \notin Pool[config]
      \/ \E a \in Place : m \in Mbufs(list[a])
  BY <1>1, WhoseIs
<1> QED
  BY <1>2, <1>3, <1>4, <1>5, <1>6

LEMMA OwnerWillBe ==
  ASSUME OneOwner', config' = config, NEW m
  PROVE  /\ m \in free' => OwnerOf(m)' = <<"pool">>
         /\ m \notin Pool[config] => OwnerOf(m)' = <<"idle">>
         /\ \A a \in Place : m \in Mbufs(list'[a]) => OwnerOf(m)' = OwnerAt(a)
         /\ \/ m \in free' \/ m \notin Pool[config]
            \/ \E a \in Place : m \in Mbufs(list'[a])
<1>1. PICK k : k = list'
  OBVIOUS
<1>2. PICK F : F = free'
  OBVIOUS
<1>3. Partitions(k, F, Pool[config])
  BY <1>1, <1>2 DEF OneOwner, Partitions, Apart, MbufsAt, Mbufs
<1>4. Whose(k, F, Pool[config], m) = OwnerOf(m)'
  BY <1>1, <1>2 DEF Whose, OwnerOf, Mbufs
<1>5. m \in F => Whose(k, F, Pool[config], m) = <<"pool">>
  BY <1>3, WhoseIs
<1>6. m \notin Pool[config] => Whose(k, F, Pool[config], m) = <<"idle">>
  BY <1>3, WhoseIs
<1>7. \A a \in Place : m \in Mbufs(k[a]) =>
        Whose(k, F, Pool[config], m) = OwnerAt(a)
  BY <1>3, WhoseIs
<1>8. m \in F \/ m \notin Pool[config] \/ \E a \in Place : m \in Mbufs(k[a])
  BY <1>3, WhoseIs
<1> QED
  BY <1>1, <1>2, <1>4, <1>5, <1>6, <1>7, <1>8

\* The owner of what is in each place.
LEMMA OwnersAt ==
  /\ \A w \in Worker, p \in Port :
       /\ OwnerAt(<<w, "queue", p>>) = Mempool!Queue(w, p)
       /\ OwnerAt(<<w, "received", p>>) = Mempool!Of(w)
       /\ OwnerAt(<<w, "out", p>>) = Mempool!Of(w)
       /\ OwnerAt(<<w, "ring", p>>) = Mempool!Ring(w, p)
  /\ \A a \in Place : OwnerAt(a) \in Mempool!Owner
  /\ {<<"pool">>, <<"idle">>} \subseteq Mempool!Owner
<1>1. \A w \in Worker, p \in Port :
       /\ OwnerAt(<<w, "queue", p>>) = Mempool!Queue(w, p)
       /\ OwnerAt(<<w, "received", p>>) = Mempool!Of(w)
       /\ OwnerAt(<<w, "out", p>>) = Mempool!Of(w)
       /\ OwnerAt(<<w, "ring", p>>) = Mempool!Ring(w, p)
  BY DEF OwnerAt, Mempool!Queue, Mempool!Of, Mempool!Ring
<1>2. {<<"pool">>, <<"idle">>} \subseteq Mempool!Owner
  BY DEF Mempool!Owner, Mempool!InPool, Mempool!Idle
<1>3. \A w \in Worker : Mempool!Of(w) \in Mempool!Owner
  BY DEF Mempool!Owner
<1>4. ASSUME NEW w \in Worker, NEW p \in Port
      PROVE  Mempool!Queue(w, p) \in Mempool!Owner
             /\ Mempool!Ring(w, p) \in Mempool!Owner
  <2>1. {Mempool!Queue(w, p), Mempool!Ring(w, p)} \subseteq Mempool!OfPort(p)
    BY DEF Mempool!OfPort
  <2> QED
    BY <2>1 DEF Mempool!Owner
<1>5. ASSUME NEW a \in Place PROVE OwnerAt(a) \in Mempool!Owner
  <2>1. PICK w \in Worker, p \in Port :
          a \in {<<w, "queue", p>>, <<w, "received", p>>,
                 <<w, "out", p>>, <<w, "ring", p>>}
    BY DEF Place
  <2> QED
    BY <2>1, <1>1, <1>3, <1>4
<1> QED
  BY <1>1, <1>2, <1>5

\* Every mbuf has an owner.
LEMMA OwnerTyped ==
  ASSUME OneOwner, NEW m
  PROVE  OwnerOf(m) \in Mempool!Owner
<1>1. \/ OwnerOf(m) \in {<<"pool">>, <<"idle">>}
      \/ \E a \in Place : OwnerOf(m) = OwnerAt(a)
  BY OwnerIs
<1> QED
  BY <1>1, OwnersAt

LEMMA OwnerStaysTyped ==
  ASSUME OneOwner', config' = config, NEW m
  PROVE  OwnerOf(m)' \in Mempool!Owner
<1>1. \/ OwnerOf(m)' \in {<<"pool">>, <<"idle">>}
      \/ \E a \in Place : OwnerOf(m)' = OwnerAt(a)
  BY OwnerWillBe
<1> QED
  BY <1>1, OwnersAt

\* No mbuf changes hands in a step that leaves the lists and the pool alone.
LEMMA OwnersStay ==
  ASSUME UNCHANGED <<config, list, free>>, NEW m
  PROVE  OwnerOf(m)' = OwnerOf(m)
BY DEF OwnerOf, Mbufs

LEMMA PoolStutters ==
  ASSUME UNCHANGED <<config, list, free, pool>>,
         {p \in Port : Runs(p)}' = {p \in Port : Runs(p)}
  PROVE  UNCHANGED Mempool!vars
<1>1. [m \in Mbuf |-> OwnerOf(m)]' = [m \in Mbuf |-> OwnerOf(m)]
  BY OwnersStay
<1> QED
  BY <1>1 DEF Mempool!vars

\* A worker's step may pass mbuf m so.
Moves(w, m) ==
  \/ OwnerOf(m)' = OwnerOf(m)
  \/ \E p \in Port :
       \/ OwnerOf(m) = Mempool!Queue(w, p) /\ OwnerOf(m)' = Mempool!Of(w)
       \/ OwnerOf(m) = Mempool!Of(w) /\ OwnerOf(m)' = Mempool!Ring(w, p)
  \/ OwnerOf(m) = <<"pool">> /\ OwnerOf(m)' = Mempool!Of(w)
  \/ OwnerOf(m) = Mempool!Of(w) /\ OwnerOf(m)' = <<"pool">>

\* What a worker's step does with mbufs is what the pool allows.
LEMMA WorkImplements ==
  ASSUME IInv, IInv', NEW w \in Worker, Work(w), UNCHANGED mainVars
  PROVE  Mempool!WorkerStep(w)
<1>1. OneOwner /\ OneOwner' /\ PacketsTypeOK /\ Cutting
  BY DEF IInv, PacketsInv
<1>2. Alive(w) /\ config' = config
  BY WorkKeeps, WorkFrame DEF IInv
<1>3. pool = "live" /\ \A p \in Port : Runs(p)
  <2>1. \A r \in Resource : held[r] # {}
    BY <1>2 DEF IInv, Holding
  <2> QED
    BY <2>1 DEF IInv, Holding, Resource, Runs
<1>4. UNCHANGED pool /\ {p \in Port : Runs(p)}' = {p \in Port : Runs(p)}
  BY DEF mainVars, Runs
<1>5. Goes(w)
  BY <1>1, WorkGoes
<1>6. [m \in Mbuf |-> OwnerOf(m)]' \in [Mbuf -> Mempool!Owner]
  BY <1>1, <1>2, OwnerStaysTyped
<1>7. ASSUME NEW m \in Mbuf
      PROVE  Moves(w, m)
  <2>1. CASE m \notin Pool[config]
    BY <2>1, <1>1, <1>2, OwnerIs, OwnerWillBe DEF Moves
  <2>2. CASE m \in free
    <3>1. OwnerOf(m) = <<"pool">>
      BY <2>2, <1>1, OwnerIs
    <3>2. CASE m \in free'
      BY <3>1, <3>2, <1>1, <1>2, OwnerWillBe DEF Moves
    <3>3. CASE \E q \in Port : m \in Mbufs(list'[<<w, "out", q>>])
      <4>1. OwnerOf(m)' = Mempool!Of(w)
        BY <3>3, <1>1, <1>2, OwnerWillBe, OwnersAt, Places
      <4> QED
        BY <3>1, <4>1 DEF Moves
    <3> QED
      BY <2>2, <3>2, <3>3, <1>5 DEF Goes
  <2>3. ASSUME NEW c \in Place, m \in Mbufs(list[c])
        PROVE  Moves(w, m)
    <3>1. OwnerOf(m) = OwnerAt(c)
      BY <2>3, <1>1, OwnerIs
    <3>2. \A a \in Place : m \in Mbufs(list'[a]) => OwnerOf(m)' = OwnerAt(a)
      BY <1>1, <1>2, OwnerWillBe
    <3>3. m \in free' => OwnerOf(m)' = <<"pool">>
      BY <1>1, <1>2, OwnerWillBe
    <3>4. CASE m \in Mbufs(list'[c])
      BY <3>1, <3>2, <3>4 DEF Moves
    <3>5. CASE c \in Owned(w) /\ m \in free'
      <4>1. OwnerAt(c) = Mempool!Of(w)
        <5>1. PICK p \in Port : c = <<w, "received", p>> \/ c = <<w, "out", p>>
          BY <3>5 DEF Owned
        <5> QED
          BY <5>1, OwnersAt
      <4> QED
        BY <3>1, <3>3, <3>5, <4>1 DEF Moves
    <3>6. CASE \E p \in Port : /\ c = <<w, "queue", p>>
                               /\ m \in Mbufs(list'[<<w, "received", p>>])
      <4>1. PICK p \in Port : /\ c = <<w, "queue", p>>
                              /\ m \in Mbufs(list'[<<w, "received", p>>])
        BY <3>6
      <4>2. OwnerOf(m) = Mempool!Queue(w, p)
        BY <3>1, <4>1, OwnersAt
      <4>3. OwnerOf(m)' = Mempool!Of(w)
        BY <3>2, <4>1, OwnersAt, Places
      <4> QED
        BY <4>2, <4>3 DEF Moves
    <3>7. CASE \E p, q \in Port : /\ c = <<w, "received", p>>
                                  /\ m \in Mbufs(list'[<<w, "out", q>>])
      <4>1. PICK p, q \in Port : /\ c = <<w, "received", p>>
                                 /\ m \in Mbufs(list'[<<w, "out", q>>])
        BY <3>7
      <4>2. OwnerOf(m) = Mempool!Of(w)
        BY <3>1, <4>1, OwnersAt
      <4>3. OwnerOf(m)' = Mempool!Of(w)
        BY <3>2, <4>1, OwnersAt, Places
      <4> QED
        BY <4>2, <4>3 DEF Moves
    <3>8. CASE \E p \in Port : /\ c = <<w, "out", p>>
                               /\ m \in Mbufs(list'[<<w, "ring", p>>])
      <4>1. PICK p \in Port : /\ c = <<w, "out", p>>
                              /\ m \in Mbufs(list'[<<w, "ring", p>>])
        BY <3>8
      <4>2. OwnerOf(m) = Mempool!Of(w)
        BY <3>1, <4>1, OwnersAt
      <4>3. OwnerOf(m)' = Mempool!Ring(w, p)
        BY <3>2, <4>1, OwnersAt, Places
      <4> QED
        BY <4>2, <4>3 DEF Moves
    <3> QED
      BY <2>3, <3>4, <3>5, <3>6, <3>7, <3>8, <1>5 DEF Goes
  <2> QED
    BY <2>1, <2>2, <2>3, <1>1, OwnerIs
<1>8. \A m \in Mbuf :
        \/ [n \in Mbuf |-> OwnerOf(n)]'[m] = [n \in Mbuf |-> OwnerOf(n)][m]
        \/ Mempool!WorkerMoves(w, m)
  BY <1>3, <1>7 DEF Moves, Mempool!WorkerMoves, Mempool!Passes,
                    Mempool!InPool
<1> QED
  BY <1>3, <1>4, <1>6, <1>8 DEF Mempool!WorkerStep

\* While the pool lives, a port takes mbufs from it for its queues, and gives
\* back those of its rings.
LEMMA PortImplements ==
  ASSUME IInv, IInv', NEW p \in Port, PortStep(p), pool = "live"
  PROVE  Mempool!PortStep(p)
<1>1. OneOwner /\ OneOwner' /\ PacketsTypeOK
  BY DEF IInv, PacketsInv
<1>2. /\ pool = "live" /\ Runs(p) /\ UNCHANGED <<config, pool>>
      /\ {q \in Port : Runs(q)}' = {q \in Port : Runs(q)}
  BY DEF PortStep, mainVars, Arrive, TxDone, Runs
<1>3. [m \in Mbuf |-> OwnerOf(m)]' \in [Mbuf -> Mempool!Owner]
  BY <1>1, <1>2, OwnerStaysTyped
<1>4. PICK w \in Worker : Arrive(w, p) \/ TxDone(w, p)
  BY DEF PortStep
<1>5. PICK a \in Place : a = <<w, "queue", p>>
  BY Places
<1>6. PICK b \in Place : b = <<w, "ring", p>>
  BY Places
<1>7. /\ \A m \in free : m \in free' \/ m \in Mbufs(list'[a])
      /\ \A c \in Place : \A m \in Mbufs(list[c]) :
           m \in Mbufs(list'[c]) \/ (c = b /\ m \in free')
  <2>1. CASE Arrive(w, p)
    <3>1. PICK x : x = [mbuf |-> FirstFree[free], from |-> p,
                        nr |-> arrivals + 1, part |-> 0, answer |-> None]
      OBVIOUS
    <3>2. list' = With(list, a, <<x>>) /\ free' = free \ {x.mbuf}
      BY <2>1, <3>1, <1>5 DEF Arrive
    <3>3. \A c \in Place : \A m \in Mbufs(list[c]) : m \in Mbufs(list'[c])
      BY <3>2, <1>1, MadeGoes
    <3>4. x.mbuf \in Mbufs(list'[a])
      BY <3>2, <1>1, MadeGoes
    <3> QED
      BY <3>2, <3>3, <3>4
  <2>2. CASE TxDone(w, p)
    <3>1. /\ list[b] # <<>> /\ list' = Without(list, b, 1)
          /\ Head(list[b]).mbuf \in free' /\ free \subseteq free'
      BY <2>2, <1>6 DEF TxDone
    <3>2. \A c \in Place : \A m \in Mbufs(list[c]) :
            m \in Mbufs(list'[c]) \/ (c = b /\ m \in free')
      BY <3>1, <1>1, HeadGoes
    <3> QED
      BY <3>1, <3>2
  <2> QED
    BY <2>1, <2>2, <1>4
<1>8. ASSUME NEW m \in Mbuf
      PROVE  \/ OwnerOf(m)' = OwnerOf(m)
             \/ OwnerOf(m) = <<"pool">> /\ OwnerOf(m)' = Mempool!Queue(w, p)
             \/ OwnerOf(m) = Mempool!Ring(w, p) /\ OwnerOf(m)' = <<"pool">>
  <2>1. CASE m \notin Pool[config]
    BY <2>1, <1>1, <1>2, OwnerIs, OwnerWillBe
  <2>2. CASE m \in free
    <3>1. OwnerOf(m) = <<"pool">>
      BY <2>2, <1>1, OwnerIs
    <3>2. m \in free' => OwnerOf(m)' = <<"pool">>
      BY <1>1, <1>2, OwnerWillBe
    <3>3. m \in Mbufs(list'[a]) => OwnerOf(m)' = Mempool!Queue(w, p)
      BY <1>1, <1>2, <1>5, OwnerWillBe, OwnersAt
    <3> QED
      BY <2>2, <3>1, <3>2, <3>3, <1>7
  <2>3. ASSUME NEW c \in Place, m \in Mbufs(list[c])
        PROVE  \/ OwnerOf(m)' = OwnerOf(m)
               \/ OwnerOf(m) = Mempool!Ring(w, p) /\ OwnerOf(m)' = <<"pool">>
    <3>1. OwnerOf(m) = OwnerAt(c)
      BY <2>3, <1>1, OwnerIs
    <3>2. m \in Mbufs(list'[c]) => OwnerOf(m)' = OwnerAt(c)
      BY <1>1, <1>2, OwnerWillBe
    <3>3. m \in free' => OwnerOf(m)' = <<"pool">>
      BY <1>1, <1>2, OwnerWillBe
    <3>4. OwnerAt(b) = Mempool!Ring(w, p)
      BY <1>6, OwnersAt
    <3> QED
      BY <2>3, <3>1, <3>2, <3>3, <3>4, <1>7
  <2> QED
    BY <2>1, <2>2, <2>3, <1>1, OwnerIs
<1>9. \A m \in Mbuf :
        \/ [n \in Mbuf |-> OwnerOf(n)]'[m] = [n \in Mbuf |-> OwnerOf(n)][m]
        \/ Mempool!PortMoves(p, m)
  BY <1>8 DEF Mempool!PortMoves, Mempool!Passes, Mempool!InPool
<1> QED
  BY <1>2, <1>3, <1>9 DEF Mempool!PortStep

\* What belongs to a port is what is in its queues and rings.
LEMMA OwnedByPort ==
  ASSUME NEW p \in Port
  PROVE  /\ \A a \in Place : OwnerAt(a) \in Mempool!OfPort(p) <=> a \in OfPort(p)
         /\ <<"pool">> \notin Mempool!OfPort(p)
         /\ <<"idle">> \notin Mempool!OfPort(p)
<1>1. \A o \in Mempool!OfPort(p) :
        /\ o[1] \in {"queue", "ring"} /\ o[3] = p
  BY DEF Mempool!OfPort, Mempool!Queue, Mempool!Ring
<1>2. ASSUME NEW a \in Place, a \in OfPort(p)
      PROVE  OwnerAt(a) \in Mempool!OfPort(p)
  <2>1. PICK w \in Worker : a = <<w, "queue", p>> \/ a = <<w, "ring", p>>
    BY <1>2 DEF OfPort
  <2>2. OwnerAt(a) = Mempool!Queue(w, p) \/ OwnerAt(a) = Mempool!Ring(w, p)
    BY <2>1, OwnersAt
  <2> QED
    BY <2>2 DEF Mempool!OfPort
<1>3. ASSUME NEW a \in Place, OwnerAt(a) \in Mempool!OfPort(p)
      PROVE  a \in OfPort(p)
  <2>1. OwnerAt(a)[1] \in {"queue", "ring"} /\ OwnerAt(a)[3] = p
    BY <1>1, <1>3
  <2>2. a[2] \notin {"received", "out"}
    BY <2>1 DEF OwnerAt
  <2>3. OwnerAt(a) = <<a[2], a[1], a[3]>>
    BY <2>2 DEF OwnerAt
  <2>4. a[3] = p
    BY <2>1, <2>3
  <2> QED
    BY <2>2, <2>4 DEF Place, OfPort
<1>4. <<"pool">> \notin Mempool!OfPort(p) /\ <<"idle">> \notin Mempool!OfPort(p)
  <2>1. <<"pool">>[1] \notin {"queue", "ring"} /\ <<"idle">>[1] \notin {"queue", "ring"}
    OBVIOUS
  <2> QED
    BY <1>1, <2>1
<1> QED
  BY <1>2, <1>3, <1>4

\* A port that is closed gives all its mbufs back to the pool, and no others.
LEMMA CloseImplements ==
  ASSUME IInv, OneOwner', NEW p \in Port, Close(p), Runs(p), pool = "live",
         UNCHANGED pool
  PROVE  Mempool!Close(p)
<1>1. OneOwner /\ stage \in [Port -> Stages]
  BY DEF IInv, PacketsInv, TypeOK
<1>2. /\ stage' = [stage EXCEPT ![p] = "closed"] /\ config' = config
      /\ list' = Emptied(list, OfPort(p))
      /\ free' = free \cup MbufsAt(list, OfPort(p))
  BY DEF Close
<1>3. {q \in Port : Runs(q)}' = {q \in Port : Runs(q)} \ {p}
  BY <1>1, <1>2 DEF Runs
<1>4. ASSUME NEW m \in Mbuf
      PROVE  OwnerOf(m)' = IF OwnerOf(m) \in Mempool!OfPort(p) THEN <<"pool">>
                           ELSE OwnerOf(m)
  <2>1. /\ <<"pool">> \notin Mempool!OfPort(p)
        /\ <<"idle">> \notin Mempool!OfPort(p)
    BY OwnedByPort
  <2>2. CASE m \notin Pool[config]
    <3>1. OwnerOf(m) = <<"idle">> /\ OwnerOf(m)' = <<"idle">>
      BY <2>2, <1>1, <1>2, OwnerIs, OwnerWillBe
    <3> QED
      BY <3>1, <2>1
  <2>3. CASE m \in free
    <3>1. OwnerOf(m) = <<"pool">>
      BY <2>3, <1>1, OwnerIs
    <3>2. OwnerOf(m)' = <<"pool">>
      BY <2>3, <1>2, OwnerWillBe
    <3> QED
      BY <3>1, <3>2, <2>1
  <2>4. ASSUME NEW c \in Place, m \in Mbufs(list[c])
        PROVE  OwnerOf(m)' = IF OwnerOf(m) \in Mempool!OfPort(p)
                             THEN <<"pool">> ELSE OwnerOf(m)
    <3>1. OwnerOf(m) = OwnerAt(c)
      BY <2>4, <1>1, OwnerIs
    <3>2. OwnerAt(c) \in Mempool!OfPort(p) <=> c \in OfPort(p)
      BY OwnedByPort
    <3>3. CASE c \in OfPort(p)
      <4>1. m \in free'
        BY <2>4, <3>3, <1>2 DEF MbufsAt
      <4>2. OwnerOf(m)' = <<"pool">>
        BY <4>1, <1>2, OwnerWillBe
      <4> QED
        BY <4>2, <3>1, <3>2, <3>3
    <3>4. CASE c \notin OfPort(p)
      <4>1. m \in Mbufs(list'[c])
        BY <2>4, <3>4, <1>2 DEF Emptied
      <4>2. OwnerOf(m)' = OwnerAt(c)
        BY <4>1, <1>2, OwnerWillBe
      <4> QED
        BY <4>2, <3>1, <3>2, <3>4
    <3> QED
      BY <3>3, <3>4
  <2> QED
    BY <2>2, <2>3, <2>4, <1>1, OwnerIs
<1>5. [m \in Mbuf |-> OwnerOf(m)]' =
        [m \in Mbuf |->
           IF [n \in Mbuf |-> OwnerOf(n)][m] \in Mempool!OfPort(p)
           THEN Mempool!InPool ELSE [n \in Mbuf |-> OwnerOf(n)][m]]
  BY <1>4 DEF Mempool!InPool
<1> QED
  BY <1>3, <1>5 DEF Mempool!Close

\* A port that was not started has nothing to give back.
LEMMA CloseIdleStutters ==
  ASSUME IInv, NEW p \in Port, Close(p), ~Runs(p), UNCHANGED pool
  PROVE  UNCHANGED Mempool!vars
<1>1. \A a \in OfPort(p) : list[a] = <<>>
  BY DEF IInv, Idle, Runs
<1>2. list \in [Place -> Seq(Packet)] /\ stage \in [Port -> Stages]
  BY DEF IInv, PacketsInv, PacketsTypeOK, TypeOK
<1>3. list' = list
  BY <1>1, <1>2 DEF Close, Emptied
<1>4. free' = free
  BY <1>1 DEF Close, MbufsAt, Mbufs
<1>5. config' = config /\ {q \in Port : Runs(q)}' = {q \in Port : Runs(q)}
  BY <1>2 DEF Close, Runs
<1> QED
  BY <1>3, <1>4, <1>5, PoolStutters

\* Whoever holds a port holds the environment, which goes last.
EnvHeld == \A p \in Port : held[p] \subseteq held["env"]

\* It stays so: an Arc of the environment is got first and dropped last.
LEMMA EnvStaysHeld ==
  ASSUME IInv, EnvHeld, [Next]_allVars
  PROVE  EnvHeld'
<1>1. held \in [Resource -> SUBSET Holder] /\ Port \subseteq Resource
      /\ "env" \in Resource /\ "env" \notin Port
  BY Constants DEF IInv, TypeOK, Resource, Port
<1>2. CASE UNCHANGED held
  BY <1>2 DEF EnvHeld
<1>3. CASE OpenEnvironment
  <2>1. \A p \in Port : held[p] = {}
    BY <1>1, <1>3 DEF IInv, Opening, OpenEnvironment
  <2> QED
    BY <1>1, <1>3, <2>1 DEF OpenEnvironment, EnvHeld
<1>4. ASSUME NEW p \in Port, OpenFurther(p)
      PROVE  EnvHeld'
  <2>1. Main \in held["env"]
    BY <1>4 DEF OpenFurther, IInv, Opening
  <2>2. held' = held \/ held' = [held EXCEPT ![p] = {Main}]
    BY <1>4 DEF OpenFurther
  <2> QED
    BY <1>1, <2>1, <2>2 DEF EnvHeld
<1>5. ASSUME NEW w \in Worker, NEW l, Begin(w, l)
      PROVE  EnvHeld'
  BY <1>1, <1>5 DEF Begin, Share, EnvHeld
<1>6. ASSUME NEW h \in Holder, NEW r \in Resource, Drop(h, r)
      PROVE  EnvHeld'
  <2>1. held' = [held EXCEPT ![r] = @ \ {h}]
    BY <1>6 DEF Drop
  <2>2. r = "env" => \A q \in Port : h \notin held[q]
    BY <1>6 DEF Drop, DroppedBefore
  <2> QED
    BY <1>1, <2>1, <2>2 DEF EnvHeld
<1>7. CASE MainStep
  <2>1. CASE \E p \in Port : FailOpen(p)
    BY <2>1, <1>2 DEF FailOpen
  <2>2. CASE GetMac
    <3>1. 0 \in Worker \/ UNCHANGED held
      <4>1. ~Several => 0 \in Worker
        BY Constants, AcceptedLine DEF IInv, Launching, TypeOK, PacketsTypeOK, Several
      <4> QED
        BY <4>1, <2>2 DEF GetMac
    <3> QED
      BY <2>2, <3>1, <1>2, <1>5 DEF GetMac
  <2>3. CASE Launch
    <3>1. held' = Share(launched)
      BY <2>3 DEF Launch, Begin
    <3> QED
      BY <1>1, <3>1 DEF Share, EnvHeld
  <2>4. CASE FailLaunch \/ AllLaunched \/ Wait \/ Return
    BY <2>4, <1>2 DEF FailLaunch, AllLaunched, Wait, Return
  <2>5. CASE \E r \in Resource : Drop(Main, r)
    BY <2>5, <1>6 DEF Holder
  <2> QED
    BY <1>3, <1>4, <1>7, <2>1, <2>2, <2>3, <2>4, <2>5 DEF MainStep
<1>8. ASSUME NEW w \in Worker, WorkerStep(w)
      PROVE  EnvHeld'
  <2>1. CASE \E r \in Resource : Drop(w, r)
    BY <2>1, <1>6 DEF Holder
  <2>2. CASE UNCHANGED mainVars \/ Stop(w) \/ Abort(w)
    BY <2>2, <1>2 DEF mainVars, Stop, Abort
  <2> QED
    BY <1>8, <2>1, <2>2 DEF WorkerStep
<1>9. CASE \E p \in Port : PortStep(p)
  BY <1>2, <1>9 DEF PortStep, mainVars
<1>10. CASE UNCHANGED allVars
  BY <1>2, <1>10 DEF allVars, mainVars
<1> QED
  BY <1>7, <1>8, <1>9, <1>10 DEF Next

\* There is no pool before there is an environment, and there has been one
\* once promiscuous mode fails.
Unmade ==
  /\ main = "init" => pool = "absent"
  /\ result = "promiscuous" => pool # "absent"

\* main leaves the environment behind it for good, and who holds nothing frees
\* nothing.
LEMMA UnmadeStays ==
  ASSUME IInv, Unmade, [Next]_allVars
  PROVE  Unmade'
<1>1. CASE UNCHANGED <<main, pool, result>>
  BY <1>1 DEF Unmade
<1>2. ASSUME NEW h, NEW r \in Resource, Drop(h, r)
      PROVE  Unmade'
  <2>1. UNCHANGED <<main, result>> /\ held[r] # {}
    BY <1>2 DEF Drop
  <2>2. main # "init" /\ pool = "live"
    BY <2>1 DEF IInv, Opening, Holding
  <2>3. pool' \in {"freed", pool}
    BY <1>2 DEF Drop
  <2> QED
    BY <2>1, <2>2, <2>3 DEF Unmade
<1>3. CASE MainStep
  <2>1. CASE \E r \in Resource : Drop(Main, r)
    BY <2>1, <1>2
  <2>2. CASE \E p \in Port : OpenFurther(p)
    BY <2>2, <1>1 DEF OpenFurther, AfterOpen, Port, Unmade
  <2>3. CASE OpenEnvironment \/ GetMac
    <3>1. main' # "init" /\ result' # "promiscuous"
      BY <2>3, Unopened DEF OpenEnvironment, GetMac, Leaves
    <3> QED
      BY <3>1 DEF Unmade
  <2>4. CASE \E p \in Port : FailOpen(p)
    <3>1. main \in Port /\ main' = "leave" /\ pool' = pool
      BY <2>4 DEF FailOpen, Leaves
    <3>2. pool = "live"
      BY <3>1, Constants DEF IInv, Opening, Holding
    <3> QED
      BY <3>1, <3>2 DEF Unmade
  <2>5. CASE Launch \/ AllLaunched \/ Return
    BY <2>5, <1>1 DEF Launch, AllLaunched, Return, Unmade
  <2>6. CASE FailLaunch \/ Wait
    <3>1. main' = "leave" /\ pool' = pool /\ main \in {"launch", "wait"}
      BY <2>6 DEF FailLaunch, Wait, Leaves
    <3>2. pool = "live"
      BY <3>1, Constants DEF IInv, Opening, Holding
    <3> QED
      BY <3>1, <3>2 DEF Unmade
  <2> QED
    BY <1>3, <2>1, <2>2, <2>3, <2>4, <2>5, <2>6 DEF MainStep
<1>4. ASSUME NEW w \in Worker, WorkerStep(w)
      PROVE  Unmade'
  <2>1. CASE Abort(w)
    BY <2>1 DEF Abort, Unmade
  <2> QED
    BY <1>4, <2>1, <1>1, <1>2 DEF WorkerStep, Stop, mainVars
<1>5. CASE \E p \in Port : PortStep(p)
  BY <1>5, <1>1 DEF PortStep, mainVars
<1>6. CASE UNCHANGED allVars
  BY <1>6, <1>1 DEF allVars, mainVars
<1> QED
  BY <1>3, <1>4, <1>5, <1>6 DEF Next

\* Opening the environment creates the pool; starting a port is its Start.
LEMMA OpenImplements ==
  ASSUME IInv, Unmade
  PROVE  /\ OpenEnvironment => [Mempool!Next]_(Mempool!vars)
         /\ \A p \in Port : OpenFurther(p) => [Mempool!Next]_(Mempool!vars)
<1>1. ASSUME OpenEnvironment
      PROVE  [Mempool!Next]_(Mempool!vars)
  <2>1. UNCHANGED <<config, list, free, stage>>
    BY <1>1 DEF OpenEnvironment, vars
  <2>2. /\ {q \in Port : Runs(q)}' = {q \in Port : Runs(q)}
        /\ [m \in Mbuf |-> OwnerOf(m)]' = [m \in Mbuf |-> OwnerOf(m)]
    BY <2>1, OwnersStay DEF Runs
  <2>3. CASE pool' = pool
    BY <2>1, <2>2, <2>3, PoolStutters
  <2>4. CASE pool' = "live"
    <3>1. pool = "absent"
      BY <1>1 DEF OpenEnvironment, Unmade
    <3>2. Mempool!Create
      BY <2>2, <2>4, <3>1 DEF Mempool!Create
    <3> QED
      BY <3>2 DEF Mempool!Next
  <2> QED
    BY <1>1, <2>3, <2>4 DEF OpenEnvironment
<1>2. ASSUME NEW p \in Port, OpenFurther(p)
      PROVE  [Mempool!Next]_(Mempool!vars)
  <2>1. /\ main = p /\ Main \in held["env"] /\ held[p] = {}
        /\ UNCHANGED <<config, list, free, pool>>
        /\ stage' = [stage EXCEPT ![p] = OpenStep[@]]
        /\ stage \in [Port -> Stages]
    BY <1>2 DEF OpenFurther, vars, IInv, Opening, TypeOK
  <2>2. stage[p] \in {"closed", "configured", "queues", "started"}
    BY <2>1 DEF IInv, Holding, Stages
  <2>3. [m \in Mbuf |-> OwnerOf(m)]' = [m \in Mbuf |-> OwnerOf(m)]
    BY <2>1, OwnersStay
  <2>4. CASE stage[p] = "queues"
    <3>1. stage'[p] = "started" /\ \A q \in Port \ {p} : stage'[q] = stage[q]
      BY <2>1, <2>4 DEF OpenStep
    <3>2. p \notin {q \in Port : Runs(q)}
          /\ {q \in Port : Runs(q)}' = {q \in Port : Runs(q)} \cup {p}
      BY <2>4, <3>1 DEF Runs
    <3>3. pool = "live"
      BY <2>1 DEF IInv, Holding, Resource
    <3>4. Mempool!Start(p)
      BY <2>1, <2>3, <3>2, <3>3 DEF Mempool!Start
    <3> QED
      BY <3>4 DEF Mempool!Next
  <2>5. CASE stage[p] # "queues"
    <3>1. /\ stage'[p] = OpenStep[stage[p]]
          /\ \A q \in Port \ {p} : stage'[q] = stage[q]
      BY <2>1
    <3>2. Runs(p)' <=> Runs(p)
      BY <2>2, <2>5, <3>1 DEF OpenStep, Runs
    <3>3. {q \in Port : Runs(q)}' = {q \in Port : Runs(q)}
      BY <3>1, <3>2 DEF Runs
    <3> QED
      BY <2>1, <3>3, PoolStutters
  <2> QED
    BY <2>4, <2>5
<1> QED
  BY <1>1, <1>2

\* If opening a port fails half-way, what it has goes back to the pool.
LEMMA FailOpenImplements ==
  ASSUME IInv, OneOwner', NEW p \in Port, FailOpen(p)
  PROVE  [Mempool!Next]_(Mempool!vars)
<1>1. main = p /\ UNCHANGED pool /\ (Close(p) \/ UNCHANGED <<vars, stage>>)
  BY DEF FailOpen
<1>2. pool = "live"
  BY <1>1 DEF IInv, Opening, Holding, Resource
<1>3. CASE Close(p) /\ Runs(p)
  BY <1>1, <1>2, <1>3, CloseImplements DEF Mempool!Next
<1>4. CASE Close(p) /\ ~Runs(p)
  BY <1>1, <1>4, CloseIdleStutters
<1>5. CASE UNCHANGED <<vars, stage>>
  <2>1. {q \in Port : Runs(q)}' = {q \in Port : Runs(q)}
    BY <1>5 DEF Runs
  <2> QED
    BY <1>1, <1>5, <2>1, PoolStutters DEF vars
<1> QED
  BY <1>1, <1>3, <1>4, <1>5

\* The last Arc of a port closes it while the pool lives, and the last of the
\* environment frees the pool when no worker has anything left.
LEMMA DropImplements ==
  ASSUME IInv, OneOwner', EnvHeld, NEW h \in Holder, NEW r \in Resource,
         Drop(h, r)
  PROVE  [Mempool!Next]_(Mempool!vars)
<1>1. /\ h \in held[r] /\ held' = [held EXCEPT ![r] = @ \ {h}]
      /\ IF held[r] = {h} THEN LastDrop(r) ELSE UNCHANGED <<vars, stage>>
      /\ pool' = IF \A q \in Resource : held'[q] = {} THEN "freed" ELSE pool
  BY DEF Drop
<1>2. held \in [Resource -> SUBSET Holder] /\ "env" \in Resource
      /\ "env" \notin Port /\ Port \subseteq Resource
  BY Constants DEF IInv, TypeOK, Resource, Port
<1>3. pool = "live"
  BY <1>1 DEF IInv, Holding
<1>4. CASE r \in Port
  <2>1. h \in held'["env"]
    BY <1>1, <1>2, <1>4 DEF EnvHeld
  <2>2. UNCHANGED pool
    BY <1>1, <1>2, <2>1
  <2>3. Runs(r)
    BY <1>1, <1>4 DEF IInv, Holding, Runs
  <2>4. CASE Close(r)
    BY <1>3, <1>4, <2>2, <2>3, <2>4, CloseImplements DEF Mempool!Next
  <2>5. CASE UNCHANGED <<vars, stage>>
    <3>1. {q \in Port : Runs(q)}' = {q \in Port : Runs(q)}
      BY <2>5 DEF Runs
    <3> QED
      BY <2>2, <2>5, <3>1, PoolStutters DEF vars
  <2> QED
    BY <1>1, <1>4, <2>4, <2>5 DEF LastDrop
<1>5. CASE r \notin Port
  <2>1. UNCHANGED <<vars, stage>>
    BY <1>1, <1>5 DEF LastDrop
  <2>2. UNCHANGED <<config, list, free>>
        /\ {q \in Port : Runs(q)}' = {q \in Port : Runs(q)}
    BY <2>1 DEF vars, Runs
  <2>3. CASE pool' = pool
    BY <2>2, <2>3, PoolStutters
  <2>4. CASE pool' = "freed" /\ \A q \in Resource : held'[q] = {}
    <3>1. \A w \in Worker : ~Alive(w)
      <4>1. held["lan"] = {}
        BY <1>1, <1>2, <1>5, <2>4 DEF Port
      <4> QED
        BY <4>1, Constants DEF IInv, Holding
    <3>2. ASSUME NEW m \in Mbuf, NEW w \in Worker
          PROVE  OwnerOf(m) # Mempool!Of(w)
      <4>1. OneOwner
        BY DEF IInv, PacketsInv
      <4>2. <<"pool">> # Mempool!Of(w) /\ <<"idle">> # Mempool!Of(w)
        <5>1. <<"pool">>[1] # Mempool!Of(w)[1] /\ <<"idle">>[1] # Mempool!Of(w)[1]
          BY DEF Mempool!Of
        <5> QED
          BY <5>1
      <4>3. ASSUME NEW a \in Place, m \in Mbufs(list[a])
            PROVE  OwnerOf(m) # Mempool!Of(w)
        <5>1. \A v \in Worker : a \notin Owned(v)
          BY <3>1, <4>3 DEF IInv, Idle, Mbufs
        <5>2. a[2] \notin {"received", "out"}
          BY <5>1 DEF Place, Owned
        <5>3. OwnerAt(a)[1] # "worker"
          BY <5>2 DEF OwnerAt, Place
        <5>4. OwnerOf(m) = OwnerAt(a)
          BY <4>1, <4>3, OwnerIs
        <5> QED
          BY <5>3, <5>4 DEF Mempool!Of
      <4> QED
        BY <4>1, <4>2, <4>3, OwnerIs
    <3>3. [m \in Mbuf |-> OwnerOf(m)]' = [m \in Mbuf |-> OwnerOf(m)]
      BY <2>2, OwnersStay
    <3>4. Mempool!Destroy
      BY <1>3, <2>2, <2>4, <3>2, <3>3 DEF Mempool!Destroy
    <3> QED
      BY <3>4 DEF Mempool!Next
  <2> QED
    BY <1>1, <2>3, <2>4
<1> QED
  BY <1>4, <1>5

\* A port that runs without a pool was left started.
LEMMA StartedWithoutPool ==
  ASSUME IInv, Unmade, NEW p \in Port, PortStep(p)
  PROVE  pool = "live" \/ LeftStarted
<1>1. stage[p] \in {"started", "open"} /\ p \in Resource /\ "env" \in Resource
  BY Constants DEF PortStep, Runs
<1>2. pool # "live" => \A r \in Resource : held[r] = {}
  BY DEF IInv, Holding
<1>3. pool # "live" => main # p /\ stage[p] # "open"
  BY <1>1, <1>2 DEF IInv, Holding, Opening
<1>4. pool # "live" => result = "promiscuous"
  BY <1>1, <1>3 DEF IInv, Holding
<1> QED
  BY <1>4 DEF LeftStarted, Unmade, IInv, TypeOK

\* Every step of the process is one the pool allows, or none of its business,
\* but for the steps of a port left started.
LEMMA StepImplements ==
  ASSUME IInv, IInv', EnvHeld, Unmade, [Next]_allVars
  PROVE  [Mempool!Next \/ LeftStarted]_(Mempool!vars)
<1>1. OneOwner'
  BY DEF IInv, PacketsInv
<1>2. CASE UNCHANGED <<config, list, free, stage, pool>>
  <2>1. {q \in Port : Runs(q)}' = {q \in Port : Runs(q)}
    BY <1>2 DEF Runs
  <2> QED
    BY <1>2, <2>1, PoolStutters
<1>3. CASE MainStep
  <2>1. CASE OpenEnvironment \/ \E p \in Port : OpenFurther(p)
    BY <2>1, OpenImplements
  <2>2. CASE \E p \in Port : FailOpen(p)
    BY <2>2, <1>1, FailOpenImplements
  <2>3. CASE GetMac
    BY <2>3, <1>2 DEF GetMac, Begin, vars
  <2>4. CASE Launch \/ FailLaunch \/ AllLaunched \/ Wait \/ Return
    BY <2>4, <1>2 DEF Launch, Begin, FailLaunch, AllLaunched, Wait, Return, vars
  <2>5. CASE \E r \in Resource : Drop(Main, r)
    BY <2>5, <1>1, DropImplements DEF Holder
  <2> QED
    BY <1>3, <2>1, <2>2, <2>3, <2>4, <2>5 DEF MainStep
<1>4. ASSUME NEW w \in Worker, WorkerStep(w)
      PROVE  [Mempool!Next \/ LeftStarted]_(Mempool!vars)
  <2>1. CASE Work(w) /\ UNCHANGED mainVars
    BY <2>1, WorkImplements DEF Mempool!Next
  <2>2. CASE \E r \in Resource : Drop(w, r)
    BY <2>2, <1>1, DropImplements DEF Holder
  <2>3. CASE Stop(w) \/ Abort(w)
    BY <2>3, <1>2 DEF Stop, Abort, mainVars
  <2> QED
    BY <1>4, <2>1, <2>2, <2>3 DEF WorkerStep
<1>5. ASSUME NEW p \in Port, PortStep(p)
      PROVE  [Mempool!Next \/ LeftStarted]_(Mempool!vars)
  BY <1>5, PortImplements, StartedWithoutPool DEF Mempool!Next
<1>6. CASE UNCHANGED allVars
  BY <1>2, <1>6 DEF allVars, vars, mainVars
<1> QED
  BY <1>3, <1>4, <1>5, <1>6 DEF Next

\* At first every mbuf that takes part is the pool's, and no port runs.
LEMMA InitImplements ==
  ASSUME Init
  PROVE  Mempool!Init /\ EnvHeld /\ Unmade
<1>1. EnvHeld
  BY Constants DEF Init, EnvHeld, Resource
<1>2. pool = "absent" /\ {q \in Port : Runs(q)} = {} /\ Unmade
  BY Constants DEF Init, Runs, Unmade, Errors
<1>3. \A m \in Mbuf : OwnerOf(m) \in {<<"pool">>, <<"idle">>}
  BY DEF Init, OwnerOf
<1>4. [m \in Mbuf |-> OwnerOf(m)] \in [Mbuf -> {Mempool!InPool, Mempool!Idle}]
  BY <1>3 DEF Mempool!InPool, Mempool!Idle
<1> QED
  BY <1>1, <1>2, <1>4 DEF Mempool!Init

\* Whatever the workers, the port and the failing calls do to each other, each
\* worker takes mbufs only from the pool and from its own queues of ports that
\* run, and gives them only to the pool and to its own rings; a port that is
\* closed gives back all it has; and the pool goes when no worker has any.  But
\* a port left started after promiscuous mode failed outlives the pool.
THEOREM PoolKept == Spec => ImplementsPool
<1>1. Init => Mempool!Init /\ EnvHeld /\ Unmade
  BY InitImplements
<1>2. IInv /\ EnvHeld /\ Unmade /\ [Next]_allVars => EnvHeld' /\ Unmade'
  BY EnvStaysHeld, UnmadeStays
<1>3. IInv /\ IInv' /\ EnvHeld /\ Unmade /\ [Next]_allVars =>
        [Mempool!Next \/ LeftStarted]_(Mempool!vars)
  BY StepImplements
<1> QED
  BY <1>1, <1>2, <1>3, Invariance, PTL DEF Spec, ImplementsPool

=============================================================================
