----------------------------- MODULE ScannerProcess -----------------------------
(***************************************************************************)
(* A process of the program from its first call to its exit status:        *)
(* flashloan-scan (scanner/app/service.go) or scan-console                 *)
(* (api/http/server.go, api/service/runner_bridge.go), each run by         *)
(* lifecycleCmd (common/cliapp/lifecycle.go).  It opens the database and   *)
(* the node, writes its configured addresses (scanner/bootstrap/seed.go),  *)
(* reads them back into the registry of a runner (scanner/registry), runs, *)
(* and is stopped by a signal, by its own run, or by a second signal.      *)
(* Between these steps other processes write addresses of their own; the   *)
(* process may be killed and another one started on the same tables.       *)
(*                                                                         *)
(* What a runner does to the other tables is in RunLoop and ScanPipeline,  *)
(* what a job tells its page in JobConsole: here a run or a job ends well, *)
(* or with an error, or by its context.                                    *)
(***************************************************************************)
EXTENDS Integers

CONSTANTS
  Protocols,
  Config,         \* of each protocol, the addresses and pairs configured here
  Others,         \* the rows other processes write: addresses and pairs
  None,
  MaxAttempts,    \* maxAttempts of NewDB, 10 in the code
  MaxJobs,        \* jobs of the console (bound)
  MaxFaults,      \* failed calls of a process (bound)
  MaxBoots        \* processes started one after the other (bound)

ASSUME ConfigAssumption ==
  /\ \A x \in Protocols : DOMAIN Config[x] = {"addresses", "pairs"}
  /\ DOMAIN Others = {"addresses", "pairs"}
  /\ None \notin {"ok", "canceled", "error", "interrupt", "run", "closed", "0", "1", "killed", "open"}
  /\ MaxAttempts \in Nat \ {0}
  /\ MaxJobs \in Nat
  /\ MaxFaults \in Nat
  /\ MaxBoots \in Nat

VARIABLES
  addresses,      \* protocol_addresses: <<protocol, address>>, all official
  pairs,          \* uniswap_v2_pairs
  boot,           \* what is run: app, mode and protocol
  boots,
  pc,             \* of the main goroutine
  attempts,       \* of NewDB
  faults,
  db, rpc,        \* the handles: None, "open" or "closed"
  appCtx, stopCtx,\* the cause the context was cancelled for, or None
  watchers,       \* the goroutines waiting for a signal, one for each context
  runner,         \* Start's goroutine of the service and the result of its run
  done,           \* the channel done
  serving,        \* the listener of the console
  requests,       \* HTTP requests under way
  seeded,         \* seeded of the bridge
  workers,        \* of each protocol, who seeds and builds its runner
  jobs,
  stopErr,        \* the error of Stop
  exit            \* None, "0", "1" or "killed"

tables == <<addresses, pairs>>
handles == <<db, rpc>>
contexts == <<appCtx, stopCtx, watchers>>
service == <<runner, done>>
console == <<serving, requests, seeded, jobs>>
main == <<boot, boots, pc, attempts, stopErr, exit>>
vars == <<tables, main, faults, handles, contexts, service, console, workers>>

Alive == exit = None

(* A call fails.  Calls on a closed handle always do.                      *)
Fault ==
  IF db = "open" THEN faults < MaxFaults /\ faults' = faults + 1
  ELSE UNCHANGED faults

NoRows == [addresses |-> {}, pairs |-> {}]

AddressRows(x) == {<<x, a>> : a \in Config[x].addresses}

-------------------------------------------------------------------------------
(* Seeding, and the registry: in the service by the main goroutine during  *)
(* the setup, in the console by a goroutine for each protocol of a job.    *)

At(x, stage) == Alive /\ workers[x].pc = stage

Go(x, stage) == workers' = [workers EXCEPT ![x].pc = stage]

UnchangedBySeeding == UNCHANGED <<main, handles, contexts, service, serving, requests, jobs>>

AfterSeeding == IF boot.app = "console" THEN "mark" ELSE "list"

AfterAddresses(x) == IF Config[x].pairs # {} THEN "pairs" ELSE AfterSeeding

(* ensureProtocolSeeded: the flag is read, and later written, under mu.    *)
CheckSeeded(x) ==
  /\ At(x, "check")
  /\ Go(x, IF x \in seeded THEN "list" ELSE "addresses")
  /\ UNCHANGED <<tables, faults, seeded>>
  /\ UnchangedBySeeding

(* A slip: the error of the factories is overwritten by that of the pairs. *)
SeedAddressesSwallowed(x) ==
  /\ At(x, "addresses")
  /\ \/ /\ db = "open"
        /\ addresses' = addresses \cup AddressRows(x)
        /\ Go(x, AfterAddresses(x))
        /\ UNCHANGED faults
     \/ /\ AddressRows(x) # {}
        /\ Fault
        /\ \E part \in SUBSET AddressRows(x) :
             (db = "open" \/ part = {}) /\ addresses' = addresses \cup part
        /\ Go(x, IF Config[x].pairs # {} THEN "pairs" ELSE "failed")
  /\ UNCHANGED <<pairs, seeded>>
  /\ UnchangedBySeeding

(* SeedOfficialProtocolAddresses: an upsert, of 500 rows at a time.        *)
SeedAddresses(x) ==
  /\ At(x, "addresses")
  /\ \/ /\ db = "open"
        /\ addresses' = addresses \cup AddressRows(x)
        /\ Go(x, AfterAddresses(x))
        /\ UNCHANGED faults
     \/ /\ AddressRows(x) # {}
        /\ Fault
        /\ \E part \in SUBSET AddressRows(x) :
             (db = "open" \/ part = {}) /\ addresses' = addresses \cup part
        /\ Go(x, "failed")
  /\ UNCHANGED <<pairs, seeded>>
  /\ UnchangedBySeeding

(* SeedOfficialUniswapV2Pairs                                              *)
SeedPairs(x) ==
  /\ At(x, "pairs")
  /\ \/ /\ db = "open"
        /\ pairs' = pairs \cup Config[x].pairs
        /\ Go(x, AfterSeeding)
        /\ UNCHANGED faults
     \/ /\ Fault
        /\ \E part \in SUBSET Config[x].pairs :
             (db = "open" \/ part = {}) /\ pairs' = pairs \cup part
        /\ Go(x, "failed")
  /\ UNCHANGED <<addresses, seeded>>
  /\ UnchangedBySeeding

MarkSeeded(x) ==
  /\ At(x, "mark")
  /\ seeded' = seeded \cup {x}
  /\ Go(x, "list")
  /\ UNCHANGED <<tables, faults>>
  /\ UnchangedBySeeding

(* NewMemoryRegistryFromDB, called by the builder of the runner: two reads,*)
(* of the official addresses of every protocol and of the pairs.           *)
ListAddresses(x) ==
  /\ At(x, "list")
  /\ \/ /\ db = "open"
        /\ workers' = [workers EXCEPT ![x] = [pc |-> "listPairs",
                         registry |-> [NoRows EXCEPT !.addresses = addresses]]]
        /\ UNCHANGED faults
     \/ Fault /\ Go(x, "failed")
  /\ UNCHANGED <<tables, seeded>>
  /\ UnchangedBySeeding

ListPairs(x) ==
  /\ At(x, "listPairs")
  /\ \/ /\ db = "open"
        /\ workers' = [workers EXCEPT ![x].pc = "built", ![x].registry.pairs = pairs]
        /\ UNCHANGED faults
     \/ Fault /\ Go(x, "failed")
  /\ UNCHANGED <<tables, seeded>>
  /\ UnchangedBySeeding

Seeding(x) ==
  \/ CheckSeeded(x) \/ SeedAddresses(x) \/ SeedPairs(x) \/ MarkSeeded(x)
  \/ ListAddresses(x) \/ ListPairs(x)

-------------------------------------------------------------------------------
(* The main goroutine: the setup.                                          *)

(* A return from lifecycleCmd; what still runs is gone.                    *)
Return(status) == exit' = status

(* A slip: one attempt too many.                                           *)
OpenOnceMore ==
  /\ Alive /\ pc = "opening"
  /\ \/ db' = "open" /\ pc' = "dialing" /\ UNCHANGED <<attempts, faults, exit>>
     \/ /\ attempts < MaxAttempts
        /\ attempts' = attempts + 1
        /\ UNCHANGED <<db, pc, faults, exit>>
     \/ /\ attempts = MaxAttempts
        /\ faults < MaxFaults /\ faults' = faults + 1
        /\ Return("1")
        /\ UNCHANGED <<db, pc, attempts>>
  /\ UNCHANGED <<tables, boot, boots, stopErr, rpc, contexts, service, console, workers>>

(* NewDB: retry.Do under a context of its own, so that no signal ends it;  *)
(* config.New and the checks before may fail as well.                      *)
Open ==
  /\ Alive /\ pc = "opening"
  /\ \/ db' = "open" /\ pc' = "dialing" /\ UNCHANGED <<attempts, faults, exit>>
     \/ /\ attempts + 1 < MaxAttempts
        /\ attempts' = attempts + 1
        /\ UNCHANGED <<db, pc, faults, exit>>
     \/ /\ attempts + 1 = MaxAttempts
        /\ faults < MaxFaults /\ faults' = faults + 1
        /\ Return("1")
        /\ UNCHANGED <<db, pc, attempts>>
  /\ UNCHANGED <<tables, boot, boots, stopErr, rpc, contexts, service, console, workers>>

(* A slip: the database is left open when the node cannot be dialled.      *)
DialLeavesOpen ==
  /\ Alive /\ pc = "dialing"
  /\ \/ /\ rpc' = "open"
        /\ pc' = (IF boot.app = "scan" THEN "setup" ELSE "starting")
        /\ workers' = (IF boot.app = "scan"
                       THEN [workers EXCEPT ![boot.protocol].pc = "addresses"] ELSE workers)
        /\ UNCHANGED <<faults, db, exit>>
     \/ Fault /\ Return("1") /\ UNCHANGED <<db, rpc, pc, workers>>
  /\ UNCHANGED <<tables, boot, boots, attempts, stopErr, contexts, service, console>>

(* DialContext, for the console of every configured node.                  *)
Dial ==
  /\ Alive /\ pc = "dialing"
  /\ \/ /\ rpc' = "open"
        /\ pc' = (IF boot.app = "scan" THEN "setup" ELSE "starting")
        /\ workers' = (IF boot.app = "scan"
                       THEN [workers EXCEPT ![boot.protocol].pc = "addresses"] ELSE workers)
        /\ UNCHANGED <<faults, db, exit>>
     \/ Fault /\ db' = "closed" /\ Return("1") /\ UNCHANGED <<rpc, pc, workers>>
  /\ UNCHANGED <<tables, boot, boots, attempts, stopErr, contexts, service, console>>

(* seedProtocolAddresses and buildRunner of the service are over.          *)
SetUp ==
  /\ Alive /\ pc = "setup"
  /\ \/ /\ workers[boot.protocol].pc = "built"
        /\ pc' = "starting"
        /\ UNCHANGED <<handles, exit>>
     \/ /\ workers[boot.protocol].pc = "failed"
        /\ rpc' = "closed" /\ db' = "closed"
        /\ Return("1")
        /\ UNCHANGED pc
  /\ UNCHANGED <<tables, boot, boots, attempts, stopErr, faults, contexts, service,
                 console, workers>>

Start ==
  /\ Alive /\ pc = "starting"
  /\ pc' = "waiting"
  /\ IF boot.app = "scan"
     THEN runner' = [runner EXCEPT !.pc = "running"] /\ UNCHANGED serving
     ELSE serving' = "up" /\ UNCHANGED runner
  /\ UNCHANGED <<tables, boot, boots, attempts, stopErr, exit, faults, handles, contexts,
                 done, requests, seeded, jobs, workers>>

-------------------------------------------------------------------------------
(* The main goroutine: the stop.                                           *)

(* appCtx is done; the context of Stop gets its watcher, and Shutdown      *)
(* closes the listener of the console.                                     *)
BeginStop ==
  /\ Alive /\ pc = "waiting"
  /\ appCtx # None
  /\ pc' = "stopping"
  /\ watchers' = [watchers EXCEPT !.stop = "starting"]
  /\ serving' = (IF boot.app = "console" THEN "shut" ELSE serving)
  /\ UNCHANGED <<tables, boot, boots, attempts, stopErr, exit, faults, handles, appCtx,
                 stopCtx, service, requests, seeded, jobs, workers>>

(* A slip: what comes out of the channel is dropped.                       *)
StopWaitedDropping ==
  /\ Alive /\ pc = "stopping"
  /\ IF boot.app = "scan" THEN done # None ELSE requests = 0
  /\ stopErr' = FALSE
  /\ pc' = "closing"
  /\ UNCHANGED <<tables, boot, boots, attempts, exit, faults, handles, contexts, service,
                 console, workers>>

(* Stop of the service has the result of the run; Shutdown has waited for  *)
(* the requests, though not for the websockets and their jobs.             *)
StopWaited ==
  /\ Alive /\ pc = "stopping"
  /\ IF boot.app = "scan" THEN done # None ELSE requests = 0
  /\ stopErr' = (done = "error")
  /\ pc' = "closing"
  /\ UNCHANGED <<tables, boot, boots, attempts, exit, faults, handles, contexts, service,
                 console, workers>>

(* A second signal.                                                        *)
StopForced ==
  /\ Alive /\ pc = "stopping"
  /\ stopCtx # None
  /\ stopErr' = TRUE
  /\ pc' = "closing"
  /\ UNCHANGED <<tables, boot, boots, attempts, exit, faults, handles, contexts, service,
                 console, workers>>

(* The node, then the database; a goroutine may still meet closed handles. *)
Close ==
  /\ Alive /\ pc = "closing"
  /\ rpc' = "closed" /\ db' = "closed"
  /\ \/ UNCHANGED <<stopErr, faults>>
     \/ Fault /\ stopErr' = TRUE
  /\ pc' = "returning"
  /\ UNCHANGED <<tables, boot, boots, attempts, exit, contexts, service, console, workers>>

Finish ==
  /\ Alive /\ pc = "returning"
  /\ Return(IF stopErr THEN "1" ELSE "0")
  /\ UNCHANGED <<tables, boot, boots, pc, attempts, stopErr, faults, handles, contexts,
                 service, console, workers>>

Main ==
  \/ Open \/ Dial \/ SetUp \/ Start \/ BeginStop \/ StopWaited \/ StopForced \/ Close
  \/ Finish

-------------------------------------------------------------------------------
(* The signals.  A watcher that has had its signal listens no longer, and  *)
(* a signal nobody listens for is lost: main has taken it from the system. *)

WatcherListens ==
  /\ Alive
  /\ \E w \in {"app", "stop"} :
       /\ watchers[w] = "starting"
       /\ watchers' = [watchers EXCEPT ![w] = "on"]
  /\ UNCHANGED <<tables, main, faults, handles, appCtx, stopCtx, service, console, workers>>

Interrupt ==
  /\ Alive
  /\ \E w \in {"app", "stop"} : watchers[w] = "on"
  /\ watchers' = [w \in {"app", "stop"} |-> IF watchers[w] = "on" THEN "off" ELSE watchers[w]]
  /\ appCtx' = (IF watchers.app = "on" /\ appCtx = None THEN "interrupt" ELSE appCtx)
  /\ stopCtx' = (IF watchers.stop = "on" THEN "interrupt" ELSE stopCtx)
  /\ UNCHANGED <<tables, main, faults, handles, service, console, workers>>

-------------------------------------------------------------------------------
(* The goroutine Start of the service has started.                         *)

(* RunOnce, or RunLoop, which ends by an error or its context only; a mode *)
(* it does not know is an error.                                           *)
RunEnds ==
  /\ Alive /\ runner.pc = "running"
  /\ \E result \in {"ok", "canceled", "error"} :
       /\ runner' = [pc |-> "ended", result |-> result]
       /\ result = "ok" => boot.mode = "once" /\ db = "open"
       /\ result = "canceled" => boot.mode # "other" /\ appCtx # None
       /\ IF result = "error" /\ boot.mode # "other" THEN Fault ELSE UNCHANGED faults
  /\ UNCHANGED <<tables, main, handles, contexts, done, console, workers>>

(* done has room for one result: this never waits.                         *)
TellDone ==
  /\ Alive /\ runner.pc = "ended"
  /\ done' = runner.result
  /\ runner' = [runner EXCEPT !.pc = "told"]
  /\ UNCHANGED <<tables, main, faults, handles, contexts, console, workers>>

(* A slip: only the end of a single run closes the application.            *)
ShutdownOnce ==
  /\ Alive /\ runner.pc = "told"
  /\ appCtx' = (CASE appCtx # None -> appCtx
                  [] appCtx = None /\ runner.result = "ok" -> "closed"
                  [] OTHER -> None)
  /\ runner' = [runner EXCEPT !.pc = "over"]
  /\ UNCHANGED <<tables, main, faults, handles, stopCtx, watchers, done, console, workers>>

(* shutdown(nil) or shutdown(err); the first cause stays.                  *)
Shutdown ==
  /\ Alive /\ runner.pc = "told"
  /\ appCtx' = (CASE appCtx # None -> appCtx
                  [] appCtx = None /\ runner.result = "ok" -> "closed"
                  [] appCtx = None /\ runner.result = "error" -> "run"
                  [] OTHER -> None)
  /\ runner' = [runner EXCEPT !.pc = "over"]
  /\ UNCHANGED <<tables, main, faults, handles, stopCtx, watchers, done, console, workers>>

Service == RunEnds \/ TellDone \/ Shutdown

-------------------------------------------------------------------------------
(* The console.  A websocket outlives the listener, and so may its jobs.   *)

(* ListenAndServe fails: that is logged, and the process waits on.         *)
ListenFails ==
  /\ Alive /\ serving = "up"
  /\ Fault
  /\ serving' = "dead"
  /\ UNCHANGED <<tables, main, handles, contexts, service, requests, seeded, jobs, workers>>

RequestArrives ==
  /\ Alive /\ serving = "up" /\ requests = 0
  /\ requests' = 1
  /\ UNCHANGED <<tables, main, faults, handles, contexts, service, serving, seeded, jobs,
                 workers>>

RequestEnds ==
  /\ Alive /\ requests = 1
  /\ requests' = 0
  /\ UNCHANGED <<tables, main, faults, handles, contexts, service, serving, seeded, jobs,
                 workers>>

(* One job at a time (JobConsole), a goroutine for each of its protocols.  *)
StartJob ==
  /\ Alive /\ serving # "off"
  /\ jobs < MaxJobs
  /\ \A x \in Protocols : workers[x].pc = "idle"
  /\ jobs' = jobs + 1
  /\ \E chosen \in SUBSET Protocols \ {{}} :
       workers' = [x \in Protocols |->
                     IF x \in chosen THEN [workers[x] EXCEPT !.pc = "check"] ELSE workers[x]]
  /\ UNCHANGED <<tables, main, faults, handles, contexts, service, serving, requests, seeded>>

(* RunOnce with the registry it was built with, to its end.                *)
ScanEnds(x) ==
  /\ At(x, "built") /\ boot.app = "console"
  /\ Go(x, "over")
  /\ UNCHANGED <<tables, main, faults, handles, contexts, service, console>>

JobEnds ==
  /\ Alive /\ boot.app = "console"
  /\ \E x \in Protocols : workers[x].pc # "idle"
  /\ \A x \in Protocols : workers[x].pc \in {"idle", "over", "failed"}
  /\ workers' = [x \in Protocols |-> [pc |-> "idle", registry |-> NoRows]]
  /\ UNCHANGED <<tables, main, faults, handles, contexts, service, console>>

Console ==
  \/ ListenFails \/ RequestArrives \/ RequestEnds \/ StartJob \/ JobEnds
  \/ \E x \in Protocols : ScanEnds(x)

-------------------------------------------------------------------------------
(* Around the process.                                                     *)

(* Other processes seed the addresses they have in their configuration.    *)
OthersSeed ==
  /\ \E part \in SUBSET Others.addresses : addresses' = addresses \cup part
  /\ pairs' = pairs \cup Others.pairs
  /\ UNCHANGED <<main, faults, handles, contexts, service, console, workers>>

Kill ==
  /\ Alive
  /\ exit' = "killed"
  /\ UNCHANGED <<tables, boot, boots, pc, attempts, stopErr, faults, handles, contexts,
                 service, console, workers>>

Boots ==
  [app : {"scan"}, mode : {"once", "loop", "other"}, protocol : Protocols]
    \cup [app : {"console"}, mode : {None}, protocol : {None}]

FirstWatcher == [w \in {"app", "stop"} |-> IF w = "app" THEN "starting" ELSE "off"]

Booted ==
  /\ boot' \in Boots
  /\ pc' = "opening" /\ attempts' = 0 /\ faults' = 0 /\ stopErr' = FALSE /\ exit' = None
  /\ db' = None /\ rpc' = None
  /\ appCtx' = None /\ stopCtx' = None /\ watchers' = FirstWatcher
  /\ runner' = [pc |-> "off", result |-> None] /\ done' = None
  /\ serving' = "off" /\ requests' = 0 /\ seeded' = {} /\ jobs' = 0
  /\ workers' = [x \in Protocols |-> [pc |-> "idle", registry |-> NoRows]]

(* Another process on the same tables.                                     *)
Boot ==
  /\ ~Alive
  /\ boots < MaxBoots
  /\ boots' = boots + 1
  /\ Booted
  /\ UNCHANGED tables

Init ==
  /\ addresses = {} /\ pairs = {}
  /\ boots = 1
  /\ boot \in Boots
  /\ pc = "opening" /\ attempts = 0 /\ faults = 0 /\ stopErr = FALSE /\ exit = None
  /\ db = None /\ rpc = None
  /\ appCtx = None /\ stopCtx = None /\ watchers = FirstWatcher
  /\ runner = [pc |-> "off", result |-> None] /\ done = None
  /\ serving = "off" /\ requests = 0 /\ seeded = {} /\ jobs = 0
  /\ workers = [x \in Protocols |-> [pc |-> "idle", registry |-> NoRows]]

Next ==
  \/ Main \/ WatcherListens \/ Interrupt \/ Service \/ Console
  \/ \E x \in Protocols : Seeding(x)
  \/ OthersSeed \/ Kill \/ Boot

Spec == Init /\ [][Next]_vars

(* Calls to the database and the node return, and Go runs every goroutine; *)
(* so a single run ends, and a loop does once its context is cancelled.    *)
RunReturns == RunEnds /\ (boot.mode # "loop" \/ appCtx # None)

Fairness ==
  /\ WF_vars(Main)
  /\ WF_vars(RunReturns) /\ WF_vars(TellDone) /\ WF_vars(Shutdown)
  /\ WF_vars(RequestEnds)
  /\ \A x \in Protocols : WF_vars(Seeding(x))

FairSpec == Spec /\ Fairness

-------------------------------------------------------------------------------
(* The properties.                                                         *)

Causes == {"interrupt", "run", "closed", None}
Results == {"ok", "canceled", "error", None}
Stages == {"idle", "check", "addresses", "pairs", "mark", "list", "listPairs", "built",
           "over", "failed"}

(* What any process may have written.                                      *)
AllAddresses == (UNION {AddressRows(x) : x \in Protocols}) \cup Others.addresses
AllPairs == (UNION {Config[x].pairs : x \in Protocols}) \cup Others.pairs
Registries == [addresses : SUBSET AllAddresses, pairs : SUBSET AllPairs]
Workers == [pc : Stages, registry : Registries]

TypeOK ==
  /\ addresses \subseteq AllAddresses
  /\ pairs \subseteq AllPairs
  /\ boot \in Boots
  /\ boots \in Nat
  /\ pc \in {"opening", "dialing", "setup", "starting", "waiting", "stopping", "closing",
            "returning"}
  /\ attempts \in 0 .. MaxAttempts - 1
  /\ faults \in 0 .. MaxFaults
  /\ db \in {None, "open", "closed"} /\ rpc \in {None, "open", "closed"}
  /\ appCtx \in Causes /\ stopCtx \in Causes
  /\ watchers \in [{"app", "stop"} -> {"off", "starting", "on"}]
  /\ runner \in [pc : {"off", "running", "ended", "told", "over"}, result : Results]
  /\ done \in Results
  /\ serving \in {"off", "up", "dead", "shut"}
  /\ requests \in {0, 1}
  /\ seeded \subseteq Protocols
  /\ workers \in [Protocols -> Workers]
  /\ jobs \in 0 .. MaxJobs
  /\ stopErr \in BOOLEAN
  /\ exit \in {None, "0", "1", "killed"}

(* The status of the process tells how it went, whichever of the run, its  *)
(* report and two signals came first: the service exits with 0 only after  *)
(* a run that ended well or that a signal ended, and with 1 only when some *)
(* call failed, its mode is unknown or it was forced (lifecycleCmd, Stop). *)
StatusTellsTheRun ==
  /\ (exit = "0" /\ boot.app = "scan") =>
       \/ runner.result = "ok" /\ boot.mode = "once"
       \/ runner.result = "canceled" /\ appCtx = "interrupt"
  /\ exit = "1" => faults > 0 \/ boot.mode = "other" \/ stopCtx = "interrupt"

(* However a process ends by itself, setup included, it has closed what it *)
(* had opened, and it takes the database away from a run or a request only *)
(* when a second signal tells it to (NewFlashloanScannerService, Stop).    *)
ClosedInTurn ==
  /\ exit \in {"0", "1"} => db # "open" /\ rpc # "open"
  /\ (db = "closed" /\ (runner.pc = "running" \/ requests = 1)) => stopCtx = "interrupt"

(* Whoever scans has in its registry all that is configured for its        *)
(* protocol, and nothing that no process configured, although rows are     *)
(* written in parts, under other processes, and once for many jobs         *)
(* (ensureProtocolSeeded, NewMemoryRegistryFromDB).                        *)
RegistryCovers ==
  \A x \in Protocols :
    workers[x].pc = "built" =>
      LET registry == workers[x].registry
      IN /\ AddressRows(x) \subseteq registry.addresses
         /\ Config[x].pairs \subseteq registry.pairs
         /\ registry \in Registries

(* Once a signal has been heard, or the run is over, the process ends: no  *)
(* goroutine waits for another that has gone (lifecycleCmd, Start, Stop).  *)
EndsWhenAsked == (appCtx # None \/ runner.pc \in {"ended", "told"}) ~> (exit # None)
===============================================================================
