------------------------------- MODULE Startup -------------------------------
(***************************************************************************)
(* main (etherip/src/main.rs:22-149) with the environment and the ports it *)
(* opens (dpdk/src/lib.rs:90-372), composed with the workers of Forwarding *)
(* it launches and waits for.  The ports and the environment are shared:   *)
(* the last of their holders to drop its Arc closes them.  DPDK's calls    *)
(* may fail wherever the code checks them.                                 *)
(***************************************************************************)
EXTENDS Forwarding

CONSTANT Main    \* the main thread

VARIABLES
  main,      \* where the main thread is
  stage,     \* what has been done to each port
  held,      \* who holds an Arc of each port and of the environment
  pool,      \* the mempool: absent, live or freed
  launched,  \* workers launched; they are waited for in this order
  lcore,     \* the lcore of each worker launched
  result     \* the error main returns, or "panic"

mainVars == <<main, stage, held, pool, launched, lcore, result>>
allVars == <<vars, mainVars>>

Resource == Port \cup {"env"}
Holder == Worker \cup {Main}

Running == main \notin {"returned", "aborted"}

-----------------------------------------------------------------------------
(* The command line.                                                       *)

PowersOfTwo == {1, 2, 4, 8, 16, 32, 64, 128, 256, 512, 1024, 2048, 4096,
                8192, 16384, 32768}

\* Mutation: parse_burst_size refuses 0 only.
AcceptsAnyBurst(c) == c.burst # 0 /\ c.workers \in PowersOfTwo

\* parse_burst_size and parse_workers.
Accepts(c) ==
  /\ c.burst # 0 /\ c.burst % BurstStep = 0
  /\ c.workers \in PowersOfTwo

\* What main returns if the call of that name fails, and the end by a panic.
Errors == {"environment", "open", "promiscuous", "mac", "lcores", "noLcore",
           "busy", "launch", "worker", "panic"}

ASSUME StartupAssumption ==
  /\ Main \notin Worker /\ None \notin Nat \cup Errors
  /\ \A c \in Config : Accepts(c) => 0 .. c.workers - 1 \subseteq Worker

Init ==
  /\ config \in {c \in Config : Accepts(c)}
  /\ pc = [w \in Worker |-> "absent"]
  /\ list = [a \in Place |-> <<>>]
  /\ cut = [w \in Worker |-> None]
  /\ free = Pool[config]
  /\ arrivals = 0
  /\ cause = [w \in Worker |-> None]
  /\ main = "init"
  /\ stage = [p \in Port |-> "closed"]
  /\ held = [r \in Resource |-> {}]
  /\ pool = "absent"
  /\ launched = 0
  /\ lcore = [w \in Worker |-> None]
  /\ result = None

-----------------------------------------------------------------------------
(* Opening the environment and the ports.                                  *)

Leaves(why) == main' = "leave" /\ result' = why

\* rte_eal_init, then rte_pktmbuf_pool_create.
OpenEnvironment ==
  /\ main = "init"
  /\ \/ /\ main' = "lan" /\ pool' = "live"
        /\ held' = [held EXCEPT !["env"] = {Main}]
        /\ UNCHANGED result
     \/ Leaves("environment") /\ UNCHANGED <<held, pool>>
  /\ UNCHANGED <<vars, stage, launched, lcore>>

OpenStep == [closed |-> "configured", configured |-> "queues",
             queues |-> "started", started |-> "open"]
AfterOpen == [lan |-> "wan", wan |-> "mac"]

\* The next call of open_with_config: rte_eth_dev_configure, the set-up of
\* the queues, rte_eth_dev_start, rte_eth_promiscuous_enable.
OpenFurther(p) ==
  /\ main = p
  /\ stage' = [stage EXCEPT ![p] = OpenStep[@]]
  /\ IF stage[p] = "started"
     THEN main' = AfterOpen[p] /\ held' = [held EXCEPT ![p] = {Main}]
     ELSE UNCHANGED <<main, held>>
  /\ UNCHANGED <<vars, pool, launched, lcore, result>>

OfPort(p) == Worker \X {"queue", "ring"} \X {p}

\* The mbufs of a port that is closed go back to the pool.
Close(p) ==
  /\ stage' = [stage EXCEPT ![p] = "closed"]
  /\ list' = Emptied(list, OfPort(p))
  /\ free' = free \cup MbufsAt(list, OfPort(p))
  /\ UNCHANGED <<config, pc, cut, arrivals, cause>>

\* The call fails, and rte_eth_dev_close is called if the port was configured.
\* DPDK may refuse to close a port it has started.
FailOpen(p) ==
  /\ main = p
  /\ Leaves(IF stage[p] = "started" THEN "promiscuous" ELSE "open")
  /\ \/ Close(p)
     \/ stage[p] = "started" /\ UNCHANGED <<vars, stage>>
  /\ UNCHANGED <<held, pool, launched, lcore>>

-----------------------------------------------------------------------------
(* Launching the workers.                                                  *)

\* Mutation: the main lcore is taken for one more worker's.
TooFewLcoresOffByOne == Cardinality(config.lcores) < config.workers

\* lcore_count counts the main lcore.
TooFewLcores == Cardinality(config.lcores) <= config.workers

NextLcore(previous) ==
  LET above == {l \in config.lcores \ {config.mainLcore} :
                  previous = None \/ l > previous}
  IN  IF above = {} THEN None
      ELSE CHOOSE l \in above : \A k \in above : l <= k

\* The lcore in the hands of the launching loop.
LcoreInHand ==
  NextLcore(IF launched = 0 THEN None ELSE lcore[launched - 1])

\* Mutation: the loop runs to 0..=workers.
MoreToLaunchInclusive == launched <= config.workers

\* for worker_id in 0..workers
MoreToLaunch == launched < config.workers

Busy(l) == \E w \in Worker : lcore[w] = l /\ pc[w] # "stopped"

\* Mutation: a worker borrows the ports and the environment of main.
ShareNothing(w) == held

\* The worker gets an Arc of each.
Share(w) == [r \in Resource |-> held[r] \cup {w}]

Begin(w, l) ==
  /\ pc' = [pc EXCEPT ![w] = "lanReceive"]
  /\ held' = Share(w)
  /\ lcore' = [lcore EXCEPT ![w] = l]
  /\ launched' = launched + 1
  /\ UNCHANGED <<config, list, cut, free, arrivals, cause>>

\* wan.mac(), then either the only worker on this thread or the lcore count.
GetMac ==
  /\ main = "mac"
  /\ \/ Leaves("mac") /\ UNCHANGED <<vars, held, lcore, launched>>
     \/ /\ ~Several
        /\ main' = "wait" /\ UNCHANGED result
        /\ Begin(0, config.mainLcore)
     \/ /\ Several /\ UNCHANGED <<vars, held, lcore, launched>>
        /\ IF TooFewLcores THEN Leaves("lcores")
           ELSE main' = "launch" /\ UNCHANGED result
  /\ UNCHANGED <<stage, pool>>

\* DPDK refuses to launch on an lcore that is not waiting.
Launch ==
  /\ main = "launch" /\ MoreToLaunch
  /\ LcoreInHand # None /\ ~Busy(LcoreInHand)
  /\ Begin(launched, LcoreInHand)
  /\ UNCHANGED <<main, stage, pool, result>>

LaunchErrors ==
  IF LcoreInHand = None THEN {"noLcore"}
  ELSE IF Busy(LcoreInHand) THEN {"busy"} ELSE {"launch"}

FailLaunch ==
  /\ main = "launch" /\ MoreToLaunch
  /\ \E why \in LaunchErrors : Leaves(why)
  /\ UNCHANGED <<vars, stage, held, pool, launched, lcore>>

AllLaunched ==
  /\ main = "launch" /\ ~MoreToLaunch
  /\ main' = "wait"
  /\ UNCHANGED <<vars, stage, held, pool, launched, lcore, result>>

-----------------------------------------------------------------------------
(* Waiting and leaving.                                                    *)

\* Mutation: the last worker launched is waited for first.
WaitedForLast == launched - 1

\* No worker returns but with an error, so the loop that waits ends with the
\* first it waits for.
WaitedFor == 0

\* A panic of the only worker goes on unwinding main.
Wait ==
  /\ main = "wait" /\ pc[WaitedFor] = "stopped"
  /\ Leaves(IF cause[WaitedFor].why = "short" THEN "panic" ELSE "worker")
  /\ UNCHANGED <<vars, stage, held, pool, launched, lcore>>

Leaving(h) == IF h = Main THEN main = "leave" ELSE pc[h] = "failed"

\* Locals are dropped in reverse order, the fields of a Worker in theirs.
DroppedBefore(h) ==
  IF h = Main THEN [wan |-> {}, lan |-> {"wan"}, env |-> Port]
  ELSE [lan |-> {}, wan |-> {"lan"}, env |-> Port]

\* Mutation: Port has no Drop.
LastDropNothing(r) == UNCHANGED <<vars, stage>>

\* Drop for Port stops and closes it.
LastDrop(r) == IF r \in Port THEN Close(r) ELSE UNCHANGED <<vars, stage>>

\* An Arc is dropped; the pool goes with the last port and the environment,
\* as no packet outlives the worker it belongs to.
Drop(h, r) ==
  /\ Leaving(h) /\ h \in held[r]
  /\ \A q \in DroppedBefore(h)[r] : h \notin held[q]
  /\ held' = [held EXCEPT ![r] = @ \ {h}]
  /\ IF held[r] = {h} THEN LastDrop(r) ELSE UNCHANGED <<vars, stage>>
  /\ pool' = IF \A q \in Resource : held'[q] = {} THEN "freed" ELSE pool
  /\ UNCHANGED <<main, launched, lcore, result>>

HoldsNothing(h) == \A r \in Resource : h \notin held[r]

Stop(w) ==
  /\ pc[w] = "failed" /\ HoldsNothing(w)
  /\ pc' = [pc EXCEPT ![w] = "stopped"]
  /\ UNCHANGED <<config, list, cut, free, arrivals, cause, mainVars>>

\* A panic does not unwind into DPDK, which called the worker: the trampoline,
\* an extern "C" function, aborts the process, and nothing is dropped.
Abort(w) ==
  /\ Several
  /\ \E c \in Panics(w) : cause' = [cause EXCEPT ![w] = c]
  /\ main' = "aborted" /\ result' = "panic"
  /\ UNCHANGED <<config, pc, list, cut, free, arrivals,
                 stage, held, pool, launched, lcore>>

\* The process ends, and with it every worker.
Return ==
  /\ main = "leave" /\ HoldsNothing(Main)
  /\ main' = "returned"
  /\ UNCHANGED <<vars, stage, held, pool, launched, lcore, result>>

-----------------------------------------------------------------------------

MainStep ==
  \/ OpenEnvironment
  \/ \E p \in Port : OpenFurther(p) \/ FailOpen(p)
  \/ GetMac \/ Launch \/ FailLaunch \/ AllLaunched \/ Wait
  \/ \E r \in Resource : Drop(Main, r)
  \/ Return

WorkerStep(w) ==
  /\ Running
  /\ \/ Work(w) /\ UNCHANGED mainVars
     \/ \E r \in Resource : Drop(w, r)
     \/ Stop(w)
     \/ Abort(w)

Runs(p) == stage[p] \in {"started", "open"}

\* A port that is started receives and sends, also one that opening it failed
\* for and DPDK did not close, which does not know that the pool is freed.
PortStep(p) ==
  /\ Running /\ Runs(p)
  /\ \E w \in Worker : Arrive(w, p) \/ TxDone(w, p)
  /\ UNCHANGED mainVars

Next ==
  \/ MainStep
  \/ \E w \in Worker : WorkerStep(w)
  \/ \E p \in Port : PortStep(p)

Spec == Init /\ [][Next]_allVars

\* Something of the list offered is taken.
Takes(w, p) ==
  /\ Running /\ UNCHANGED mainVars
  /\ \E n \in 1 .. Len(list[<<w, "out", p>>]) : Transmit(w, p, n)

\* The main thread and each worker run on lcores of their own; a port that is
\* offered packets again and again takes some of them.
Fairness ==
  /\ WF_allVars(MainStep)
  /\ \A w \in Worker : WF_allVars(WorkerStep(w))
  /\ \A w \in Worker, p \in Port : SF_allVars(Takes(w, p))

FairSpec == Spec /\ Fairness

-----------------------------------------------------------------------------
(* Properties.                                                             *)

Stages == {"closed", "configured", "queues", "started", "open"}

TypeOK ==
  /\ PacketsTypeOK
  /\ main \in {"init", "lan", "wan", "mac", "launch", "wait", "leave",
               "returned", "aborted"}
  /\ stage \in [Port -> Stages]
  /\ held \in [Resource -> SUBSET Holder]
  /\ pool \in {"absent", "live", "freed"}
  /\ launched \in 0 .. config.workers
  /\ lcore \in [Worker -> config.lcores \cup {None}]
  /\ result \in Errors \cup {None}

\* Each queue of a port, and each lcore, is touched by one worker only, which
\* is what the bindings rely on to share a Port between threads; the main
\* lcore is left alone if there are several workers.
OwnQueues ==
  \A v, w \in Worker : Alive(v) /\ Alive(w) /\ v # w =>
    /\ RxQueue(v) # RxQueue(w) /\ TxQueue(v) # TxQueue(w)
    /\ lcore[v] # lcore[w] /\ config.mainLcore \notin {lcore[v], lcore[w]}

\* The lcore count is checked such that the loop that launches never runs out
\* of lcores, nor meets one that is busy.
EnoughLcores == result \notin {"noLcore", "busy"}

\* As long as a worker runs, both ports are open and the pool is there, also
\* when main has given up or another worker has died.
PortsServeWorkers ==
  \A w \in Worker : Alive(w) =>
    /\ pool = "live" /\ \A p \in Port : stage[p] = "open"

\* The pool is freed only when every mbuf is back and the ports are closed,
\* also when opening the second port failed half-way, and it is freed before
\* main returns unless a worker is left running.  The exception is a port on
\* which promiscuous mode failed: DPDK may leave it started, with its mbufs.
PoolFreedLast ==
  /\ pool = "freed" =>
       /\ \A p \in Port : \/ stage[p] = "closed"
                          \/ stage[p] = "started" /\ result = "promiscuous"
       /\ result # "promiscuous" => free = Pool[config]
  /\ main = "returned" /\ pool = "live" =>
       \E w \in Worker : pc[w] \notin {"absent", "stopped"}

Nrs == UNION {1 .. MaxArrivals[c] : c \in Config}
Waits(nr) ==
  \E w \in Worker, p \in Port : \E i \in DOMAIN list[<<w, "out", p>>] :
    list[<<w, "out", p>>][i].nr = nr

\* What a worker holds for a port is handed over in the end, however little
\* the port takes at a time, unless the worker or the process ends.
BacklogSent ==
  \A nr \in Nrs : Waits(nr) ~> (~Running \/ ~Waits(nr))

\* A packet that waits for a port never falls back, whatever comes to wait
\* beside it, and leaves only with all before it: a port that takes some of
\* each burst gets to every packet (the safety half of BacklogSent).
NoneOvertaken ==
  [][\A w \in Worker, p \in Port :
       LET before == list[<<w, "out", p>>]
           after == list'[<<w, "out", p>>]
           handed == Mbufs(list'[<<w, "ring", p>>])
       IN  \A i \in DOMAIN before :
             \/ \E j \in DOMAIN after : j <= i /\ after[j] = before[i]
             \/ \A h \in 1 .. i : before[h].mbuf \in handed
             \/ pc'[w] = "failed"]_allVars

\* When the worker launched first has stopped, the process ends with an error.
FirstFailureEnds ==
  pc[0] = "stopped" ~> (~Running /\ result # None)

-----------------------------------------------------------------------------
(* The process as the pool sees it.                                        *)

OwnerAt(a) ==
  IF a[2] \in {"received", "out"} THEN <<"worker", a[1]>>
  ELSE <<a[2], a[1], a[3]>>

OwnerOf(m) ==
  IF m \in free THEN <<"pool">>
  ELSE IF m \notin Pool[config] THEN <<"idle">>
  ELSE OwnerAt(CHOOSE a \in Place : m \in Mbufs(list[a]))

Mempool == INSTANCE MbufPool WITH
             owner <- [m \in Mbuf |-> OwnerOf(m)],
             running <- {p \in Port : Runs(p)}

\* Promiscuous mode failed on a port and DPDK left it started: it may take and
\* give back mbufs of a pool that is freed (dpdk/src/lib.rs:223-232).
LeftStarted == pool = "freed" /\ result = "promiscuous"

\* The process keeps to what DPDK asks of it, whatever DPDK takes of a burst
\* and whichever calls fail: packets go from a worker's own queue to its own
\* ring, through no port that does not run and no pool that does not live,
\* but for what a port left started does to a freed pool.
ImplementsPool ==
  Mempool!Init /\ [][Mempool!Next \/ LeftStarted]_(Mempool!vars)

=============================================================================
