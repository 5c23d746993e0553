-------------------------- MODULE ScannerProcessProofs --------------------------
(***************************************************************************)
(* Proofs about ScannerProcess, for any protocols and configuration, any   *)
(* rows of other processes, and any number of attempts, jobs, failures and *)
(* processes.                                                              *)
(***************************************************************************)
EXTENDS ScannerProcess, TLAPS

(* What is configured for x is in the tables.                              *)
Stored(x) == AddressRows(x) \subseteq addresses /\ Config[x].pairs \subseteq pairs

Seeded == {"mark", "list", "listPairs", "built"}

(* How far the rows of x have come, given where its goroutine is.          *)
SeedingOK(x, worker) ==
  /\ worker.pc = "pairs" => AddressRows(x) \subseteq addresses
  /\ worker.pc \in Seeded => Stored(x)
  /\ worker.pc \in {"listPairs", "built"} =>
       AddressRows(x) \subseteq worker.registry.addresses
  /\ worker.pc = "built" => Config[x].pairs \subseteq worker.registry.pairs

(* The flag of the bridge is up only for what is stored.                   *)
SeedInv ==
  /\ \A x \in seeded : Stored(x)
  /\ \A x \in Protocols : SeedingOK(x, workers[x])

(* The handles are open from the setup to the stop, and before the start   *)
(* nothing runs.                                                           *)
HandlesOK ==
  /\ (Alive /\ pc = "opening") => db = None /\ rpc = None
  /\ (Alive /\ pc = "dialing") => rpc = None
  /\ (Alive /\ pc \notin {"opening", "returning"}) => db = "open"
  /\ pc = "returning" => db = "closed" /\ rpc = "closed"
  /\ db = "closed" => pc \in {"dialing", "setup", "returning"}
  /\ pc \in {"opening", "dialing", "setup", "starting"} =>
       runner.pc = "off" /\ serving = "off" /\ requests = 0

(* A protocol fails for a reason.                                          *)
WorkersOK ==
  /\ pc \in {"opening", "dialing"} => \A x \in Protocols : workers[x].pc = "idle"
  /\ pc = "setup" => boot.app = "scan"
  /\ \A x \in Protocols : workers[x].pc = "failed" => faults > 0 \/ pc = "returning"

(* A reason for the status 1.                                              *)
Excused == faults > 0 \/ boot.mode = "other"

(* The run, its result and the channel.                                    *)
RunOK ==
  /\ runner.pc # "off" => boot.app = "scan"
  /\ serving # "off" \/ requests = 1 => boot.app = "console"
  /\ runner.pc \in {"off", "running"} <=> runner.result = None
  /\ done = (IF runner.pc \in {"told", "over"} THEN runner.result ELSE None)
  /\ runner.result = "ok" => boot.mode = "once"
  /\ runner.result = "canceled" => appCtx = "interrupt"
  /\ runner.result = "error" => Excused \/ pc = "returning"
  /\ runner.pc # "over" => appCtx \in {None, "interrupt"}
  /\ stopCtx \in {None, "interrupt"}

(* What Stop has waited for, and what it returns.                          *)
StopOK ==
  /\ (pc = "stopping" /\ boot.app = "console") => serving = "shut"
  /\ pc \in {"closing", "returning"} =>
       /\ (~stopErr /\ boot.app = "scan") => done \in {"ok", "canceled"}
       /\ stopErr => Excused \/ stopCtx = "interrupt"
       /\ stopCtx # "interrupt" =>
            IF boot.app = "scan" THEN done # None ELSE requests = 0 /\ serving = "shut"

(* The exit status, and the handles then.                                  *)
ExitOK ==
  /\ exit = "0" => pc = "returning" /\ ~stopErr
  /\ exit = "1" => faults > 0 \/ (pc = "returning" /\ stopErr)
  /\ exit \in {"0", "1"} => db # "open" /\ rpc # "open"

ProcessInv == HandlesOK /\ WorkersOK /\ RunOK /\ StopOK /\ ExitOK

(* The inductive invariant.                                                *)
IInv == TypeOK /\ SeedInv /\ ProcessInv

-------------------------------------------------------------------------------
(* The rows of a protocol are among those of all.                          *)
LEMMA RowsKnown ==
  /\ \A x \in Protocols : AddressRows(x) \subseteq AllAddresses
  /\ \A x \in Protocols : Config[x].pairs \subseteq AllPairs
  /\ Others.addresses \subseteq AllAddresses
  /\ Others.pairs \subseteq AllPairs
BY DEF AllAddresses, AllPairs

(* A goroutine that seeds moves, and the others stay.                      *)
LEMMA GoTyped ==
  ASSUME workers \in [Protocols -> Workers], NEW x \in Protocols, NEW stage \in Stages,
         Go(x, stage)
  PROVE  /\ workers' \in [Protocols -> Workers]
         /\ workers'[x].pc = stage /\ workers'[x].registry = workers[x].registry
         /\ \A y \in Protocols \ {x} : workers'[y] = workers[y]
BY DEF Go, Workers

(* The goroutine of no job.                                                *)
LEMMA IdleTyped == [pc |-> "idle", registry |-> NoRows] \in Workers
BY DEF NoRows, Workers, Stages, Registries

(* A call on an open handle fails at most MaxFaults times, and is counted. *)
LEMMA FaultTyped ==
  ASSUME faults \in 0 .. MaxFaults, Fault
  PROVE  faults' \in 0 .. MaxFaults /\ faults' >= faults /\ (db = "open" => faults' > 0)
BY ConfigAssumption DEF Fault

(* The type invariant is inductive.                                        *)
LEMMA TypeStep ==
  ASSUME TypeOK, [Next]_vars
  PROVE  TypeOK'
<1> USE DEF tables, handles, contexts, service, console, main, TypeOK, Causes, Results
<1>1. CASE Open
  <2>1. attempts' \in 0 .. MaxAttempts - 1 /\ faults' \in 0 .. MaxFaults
    BY <1>1, ConfigAssumption DEF Open
  <2> QED  BY <1>1, <2>1 DEF Open, Return
<1>2. CASE Dial
  <2>1. workers' \in [Protocols -> Workers]
    BY <1>2 DEF Dial, Boots, Workers, Stages
  <2>2. faults' \in 0 .. MaxFaults
    BY <1>2, FaultTyped DEF Dial
  <2> QED  BY <1>2, <2>1, <2>2 DEF Dial, Return
<1>3. CASE SetUp
  BY <1>3 DEF SetUp, Alive, Fault, Return
<1>4. CASE Start
  BY <1>4 DEF Start, Alive, Fault, Return
<1>5. CASE BeginStop
  BY <1>5 DEF BeginStop, Alive, Fault, Return
<1>6. CASE StopWaited
  BY <1>6 DEF StopWaited, Alive, Fault, Return
<1>7. CASE StopForced
  BY <1>7 DEF StopForced, Alive, Fault, Return
<1>8. CASE Close
  <2>1. faults' \in 0 .. MaxFaults
    BY <1>8, FaultTyped DEF Close
  <2>2. stopErr' \in BOOLEAN
    BY <1>8 DEF Close
  <2> QED  BY <1>8, <2>1, <2>2 DEF Close
<1>9. CASE Finish
  BY <1>9 DEF Finish, Alive, Fault, Return
<1>10. CASE WatcherListens
  BY <1>10 DEF WatcherListens, Alive, Fault, Return
<1>11. CASE Interrupt
  BY <1>11 DEF Interrupt, Alive, Fault, Return
<1>12. CASE RunEnds
  <2>1. faults' \in 0 .. MaxFaults
    BY <1>12, FaultTyped DEF RunEnds
  <2>2. runner' \in [pc : {"off", "running", "ended", "told", "over"}, result : Results]
    BY <1>12 DEF RunEnds
  <2> QED  BY <1>12, <2>1, <2>2 DEF RunEnds
<1>13. CASE TellDone
  BY <1>13 DEF TellDone, Alive, Fault, Return
<1>14. CASE Shutdown
  BY <1>14 DEF Shutdown, Alive, Fault, Return
<1>15. CASE ListenFails
  BY <1>15, FaultTyped DEF ListenFails
<1>16. CASE RequestArrives
  BY <1>16 DEF RequestArrives, Alive, Fault, Return
<1>17. CASE RequestEnds
  BY <1>17 DEF RequestEnds, Alive, Fault, Return
<1>18. CASE StartJob
  <2>1. workers' \in [Protocols -> Workers]
    BY <1>18 DEF StartJob, Workers, Stages
  <2>2. jobs' \in 0 .. MaxJobs
    BY <1>18, ConfigAssumption DEF StartJob
  <2> QED  BY <1>18, <2>1, <2>2 DEF StartJob
<1>19. CASE JobEnds
  <2>1. workers' \in [Protocols -> Workers]
    BY <1>19, IdleTyped DEF JobEnds
  <2> QED  BY <1>19, <2>1 DEF JobEnds
<1>20. ASSUME NEW x \in Protocols, Seeding(x) PROVE TypeOK'
  <2>1. CASE CheckSeeded(x)
    <3>1. workers' \in [Protocols -> Workers]
      BY <2>1, GoTyped DEF CheckSeeded, Stages
    <3> QED  BY <2>1, <3>1 DEF CheckSeeded, UnchangedBySeeding
  <2>2. CASE SeedAddresses(x)
    <3>1. workers' \in [Protocols -> Workers]
      BY <2>2, GoTyped DEF SeedAddresses, AfterAddresses, AfterSeeding, Stages
    <3>2. faults' \in 0 .. MaxFaults
      BY <2>2, FaultTyped DEF SeedAddresses
    <3>3. addresses' \subseteq AllAddresses
      BY <2>2, RowsKnown DEF SeedAddresses
    <3> QED  BY <2>2, <3>1, <3>2, <3>3 DEF SeedAddresses, UnchangedBySeeding
  <2>3. CASE SeedPairs(x)
    <3>1. workers' \in [Protocols -> Workers]
      BY <2>3, GoTyped DEF SeedPairs, AfterAddresses, AfterSeeding, Stages
    <3>2. faults' \in 0 .. MaxFaults
      BY <2>3, FaultTyped DEF SeedPairs
    <3>3. pairs' \subseteq AllPairs
      BY <2>3, RowsKnown DEF SeedPairs
    <3> QED  BY <2>3, <3>1, <3>2, <3>3 DEF SeedPairs, UnchangedBySeeding
  <2>4. CASE MarkSeeded(x)
    <3>1. workers' \in [Protocols -> Workers]
      BY <2>4, GoTyped DEF MarkSeeded, Stages
    <3> QED  BY <2>4, <3>1 DEF MarkSeeded, UnchangedBySeeding
  <2>5. CASE ListAddresses(x)
    <3>1. CASE Fault /\ Go(x, "failed")
      <4>1. workers' \in [Protocols -> Workers]
        BY <3>1, GoTyped DEF Stages
      <4>2. faults' \in 0 .. MaxFaults
        BY <3>1, FaultTyped
      <4> QED  BY <2>5, <4>1, <4>2 DEF ListAddresses, UnchangedBySeeding
    <3>2. CASE db = "open" /\ UNCHANGED faults /\ ~(Fault /\ Go(x, "failed"))
      <4>1. workers' \in [Protocols -> Workers]
        BY <2>5, <3>2 DEF ListAddresses, Workers, Stages, Registries, NoRows
      <4> QED  BY <2>5, <3>2, <4>1 DEF ListAddresses, UnchangedBySeeding
    <3> QED  BY <2>5, <3>1, <3>2 DEF ListAddresses
  <2>6. CASE ListPairs(x)
    <3>1. CASE Fault /\ Go(x, "failed")
      <4>1. workers' \in [Protocols -> Workers]
        BY <3>1, GoTyped DEF Stages
      <4>2. faults' \in 0 .. MaxFaults
        BY <3>1, FaultTyped
      <4> QED  BY <2>6, <4>1, <4>2 DEF ListPairs, UnchangedBySeeding
    <3>2. CASE db = "open" /\ UNCHANGED faults /\ ~(Fault /\ Go(x, "failed"))
      <4>1. workers' \in [Protocols -> Workers]
        BY <2>6, <3>2 DEF ListPairs, Workers, Stages, Registries, NoRows
      <4> QED  BY <2>6, <3>2, <4>1 DEF ListPairs, UnchangedBySeeding
    <3> QED  BY <2>6, <3>1, <3>2 DEF ListPairs
  <2> QED  BY <1>20, <2>1, <2>2, <2>3, <2>4, <2>5, <2>6 DEF Seeding
<1>21. ASSUME NEW x \in Protocols, ScanEnds(x) PROVE TypeOK'
  <2>1. workers' \in [Protocols -> Workers]
    BY <1>21, GoTyped DEF ScanEnds, Stages
  <2> QED  BY <1>21, <2>1 DEF ScanEnds
<1>22. CASE OthersSeed
  <2>1. addresses' \subseteq AllAddresses /\ pairs' \subseteq AllPairs
    BY <1>22, RowsKnown DEF OthersSeed
  <2> QED  BY <1>22, <2>1 DEF OthersSeed
<1>23. CASE Kill
  BY <1>23 DEF Kill, Alive, Booted
<1>24. CASE Boot
  <2>1. workers' \in [Protocols -> Workers]
    BY <1>24, IdleTyped DEF Boot, Booted
  <2>2. attempts' \in 0 .. MaxAttempts - 1 /\ faults' \in 0 .. MaxFaults /\ jobs' \in 0 .. MaxJobs
    BY <1>24, ConfigAssumption DEF Boot, Booted
  <2>3. watchers' \in [{"app", "stop"} -> {"off", "starting", "on"}]
    BY <1>24 DEF Boot, Booted, FirstWatcher
  <2>4. boots' \in Nat /\ boot' \in Boots
    BY <1>24 DEF Boot, Booted
  <2>5. UNCHANGED tables
    BY <1>24 DEF Boot
  <2>6. Booted
    BY <1>24 DEF Boot
  <2>7. /\ pc' = "opening" /\ stopErr' = FALSE /\ exit' = None
        /\ db' = None /\ rpc' = None /\ appCtx' = None /\ stopCtx' = None /\ done' = None
        /\ runner' = [pc |-> "off", result |-> None]
        /\ serving' = "off" /\ requests' = 0 /\ seeded' = {}
    BY <2>6 DEF Booted
  <2> QED  BY <2>1, <2>2, <2>3, <2>4, <2>5, <2>7
<1>25. CASE UNCHANGED vars
  BY <1>25 DEF vars
<1> QED
  BY <1>1, <1>2, <1>3, <1>4, <1>5, <1>6, <1>7, <1>8, <1>9, <1>10, <1>11, <1>12, <1>13, <1>14, <1>15, <1>16, <1>17, <1>18, <1>19, <1>20, <1>21, <1>22, <1>23, <1>24, <1>25 DEF Next, Main, Service, Console

(* The rows configured for a protocol whose flag is up, or that has been   *)
(* seeded by its goroutine, stay stored; its registry has them.            *)
LEMMA SeedStep ==
  ASSUME TypeOK, SeedInv, [Next]_vars
  PROVE  SeedInv'
<1> USE DEF tables, handles, contexts, service, console, main
<1>1. CASE UNCHANGED <<tables, seeded, workers>>
  BY <1>1 DEF SeedInv, SeedingOK, Stored
<1>2. CASE Dial
  BY <1>2 DEF Dial, SeedInv, SeedingOK, Stored, Seeded, TypeOK, Workers
<1>3. CASE StartJob
  BY <1>3 DEF StartJob, SeedInv, SeedingOK, Stored, Seeded, TypeOK, Workers
<1>4. CASE JobEnds
  BY <1>4 DEF JobEnds, SeedInv, SeedingOK, Stored, Seeded
<1>5. ASSUME NEW x \in Protocols, ScanEnds(x) PROVE SeedInv'
  <2>1. Go(x, "over") /\ UNCHANGED <<tables, seeded>>
    BY <1>5 DEF ScanEnds
  <2> QED
    BY <2>1, GoTyped DEF SeedInv, SeedingOK, Stored, Seeded, TypeOK, Stages
<1>6. ASSUME NEW x \in Protocols, Seeding(x) PROVE SeedInv'
  <2> USE DEF SeedInv, Seeded, UnchangedBySeeding
  <2>1. CASE CheckSeeded(x)
    <3>1. Go(x, IF x \in seeded THEN "list" ELSE "addresses") /\ UNCHANGED <<tables, seeded>>
      BY <2>1 DEF CheckSeeded
    <3>2. \A y \in Protocols \ {x} : workers'[y] = workers[y]
      BY <3>1, GoTyped DEF TypeOK, Stages
    <3>3. workers'[x].pc = (IF x \in seeded THEN "list" ELSE "addresses")
      BY <3>1, GoTyped DEF TypeOK, Stages
    <3> QED  BY <3>1, <3>2, <3>3 DEF SeedingOK, Stored
  <2>2. CASE SeedAddresses(x)
    <3>1. addresses \subseteq addresses' /\ UNCHANGED <<pairs, seeded>>
      BY <2>2 DEF SeedAddresses
    <3>2. CASE Go(x, "failed")
      <4>1. workers'[x].pc = "failed" /\ \A y \in Protocols \ {x} : workers'[y] = workers[y]
        BY <3>2, GoTyped DEF TypeOK, Stages
      <4> QED  BY <3>1, <4>1 DEF SeedingOK, Stored
    <3>3. CASE AddressRows(x) \subseteq addresses' /\ Go(x, AfterAddresses(x))
      <4>1. /\ workers'[x].pc = AfterAddresses(x)
            /\ \A y \in Protocols \ {x} : workers'[y] = workers[y]
        BY <3>3, GoTyped DEF TypeOK, Stages, AfterAddresses, AfterSeeding
      <4>2. workers'[x].pc = "pairs" \/ (workers'[x].pc \in {"mark", "list"} /\ Config[x].pairs = {})
        BY <4>1 DEF AfterAddresses, AfterSeeding
      <4> QED  BY <3>1, <3>3, <4>1, <4>2 DEF SeedingOK, Stored
    <3> QED  BY <2>2, <3>2, <3>3 DEF SeedAddresses
  <2>3. CASE SeedPairs(x)
    <3>1. pairs \subseteq pairs' /\ UNCHANGED <<addresses, seeded>>
      BY <2>3 DEF SeedPairs
    <3>2. CASE Go(x, "failed")
      <4>1. workers'[x].pc = "failed" /\ \A y \in Protocols \ {x} : workers'[y] = workers[y]
        BY <3>2, GoTyped DEF TypeOK, Stages
      <4> QED  BY <3>1, <4>1 DEF SeedingOK, Stored
    <3>3. CASE Config[x].pairs \subseteq pairs' /\ Go(x, AfterSeeding)
      <4>1. /\ workers'[x].pc \in {"mark", "list"}
            /\ \A y \in Protocols \ {x} : workers'[y] = workers[y]
        BY <3>3, GoTyped DEF TypeOK, Stages, AfterSeeding
      <4>2. AddressRows(x) \subseteq addresses
        BY <2>3 DEF SeedPairs, At, SeedingOK
      <4> QED  BY <3>1, <3>3, <4>1, <4>2 DEF SeedingOK, Stored
    <3> QED  BY <2>3, <3>2, <3>3 DEF SeedPairs
  <2>4. CASE MarkSeeded(x)
    <3>1. Go(x, "list") /\ UNCHANGED tables /\ seeded' = seeded \cup {x} /\ workers[x].pc = "mark"
      BY <2>4 DEF MarkSeeded, At
    <3>2. workers'[x].pc = "list" /\ \A y \in Protocols \ {x} : workers'[y] = workers[y]
      BY <3>1, GoTyped DEF TypeOK, Stages
    <3>3. Stored(x)
      BY <3>1 DEF SeedingOK
    <3> QED  BY <3>1, <3>2, <3>3 DEF SeedingOK, Stored
  <2>5. CASE ListAddresses(x)
    <3>1. UNCHANGED <<tables, seeded>> /\ workers[x].pc = "list"
      BY <2>5 DEF ListAddresses, At
    <3>2. CASE Go(x, "failed")
      <4>1. workers'[x].pc = "failed" /\ \A y \in Protocols \ {x} : workers'[y] = workers[y]
        BY <3>2, GoTyped DEF TypeOK, Stages
      <4> QED  BY <3>1, <4>1 DEF SeedingOK, Stored
    <3>3. CASE ~Go(x, "failed")
      <4>1. /\ workers'[x].pc = "listPairs" /\ workers'[x].registry.addresses = addresses
            /\ \A y \in Protocols \ {x} : workers'[y] = workers[y]
        BY <2>5, <3>3 DEF ListAddresses, TypeOK, NoRows
      <4>2. Stored(x)
        BY <3>1 DEF SeedingOK
      <4> QED  BY <3>1, <4>1, <4>2 DEF SeedingOK, Stored
    <3> QED  BY <3>2, <3>3
  <2>6. CASE ListPairs(x)
    <3>1. UNCHANGED <<tables, seeded>> /\ workers[x].pc = "listPairs"
      BY <2>6 DEF ListPairs, At
    <3>2. CASE Go(x, "failed")
      <4>1. workers'[x].pc = "failed" /\ \A y \in Protocols \ {x} : workers'[y] = workers[y]
        BY <3>2, GoTyped DEF TypeOK, Stages
      <4> QED  BY <3>1, <4>1 DEF SeedingOK, Stored
    <3>3. CASE ~Go(x, "failed")
      <4>1. /\ workers'[x].pc = "built" /\ workers'[x].registry.pairs = pairs
            /\ workers'[x].registry.addresses = workers[x].registry.addresses
            /\ \A y \in Protocols \ {x} : workers'[y] = workers[y]
        BY <2>6, <3>3 DEF ListPairs, TypeOK, Workers, Registries
      <4>2. Stored(x) /\ AddressRows(x) \subseteq workers[x].registry.addresses
        BY <3>1 DEF SeedingOK
      <4> QED  BY <3>1, <4>1, <4>2 DEF SeedingOK, Stored
    <3> QED  BY <3>2, <3>3
  <2> QED  BY <1>6, <2>1, <2>2, <2>3, <2>4, <2>5, <2>6 DEF Seeding
<1>7. CASE OthersSeed
  <2>1. addresses \subseteq addresses' /\ pairs \subseteq pairs' /\ UNCHANGED <<seeded, workers>>
    BY <1>7 DEF OthersSeed
  <2> QED  BY <2>1 DEF SeedInv, SeedingOK, Stored
<1>8. CASE Boot
  BY <1>8 DEF Boot, Booted, SeedInv, SeedingOK, Stored, Seeded
<1>9. Open => UNCHANGED <<tables, seeded, workers>>
  BY DEF Open
<1>10. SetUp => UNCHANGED <<tables, seeded, workers>>
  BY DEF SetUp
<1>11. Start => UNCHANGED <<tables, seeded, workers>>
  BY DEF Start
<1>12. BeginStop => UNCHANGED <<tables, seeded, workers>>
  BY DEF BeginStop
<1>13. StopWaited => UNCHANGED <<tables, seeded, workers>>
  BY DEF StopWaited
<1>14. StopForced => UNCHANGED <<tables, seeded, workers>>
  BY DEF StopForced
<1>15. Close => UNCHANGED <<tables, seeded, workers>>
  BY DEF Close
<1>16. Finish => UNCHANGED <<tables, seeded, workers>>
  BY DEF Finish
<1>17. WatcherListens => UNCHANGED <<tables, seeded, workers>>
  BY DEF WatcherListens
<1>18. Interrupt => UNCHANGED <<tables, seeded, workers>>
  BY DEF Interrupt
<1>19. RunEnds => UNCHANGED <<tables, seeded, workers>>
  BY DEF RunEnds
<1>20. TellDone => UNCHANGED <<tables, seeded, workers>>
  BY DEF TellDone
<1>21. Shutdown => UNCHANGED <<tables, seeded, workers>>
  BY DEF Shutdown
<1>22. ListenFails => UNCHANGED <<tables, seeded, workers>>
  BY DEF ListenFails
<1>23. RequestArrives => UNCHANGED <<tables, seeded, workers>>
  BY DEF RequestArrives
<1>24. RequestEnds => UNCHANGED <<tables, seeded, workers>>
  BY DEF RequestEnds
<1>25. Kill => UNCHANGED <<tables, seeded, workers>>
  BY DEF Kill
<1>26. UNCHANGED vars => UNCHANGED <<tables, seeded, workers>>
  BY DEF vars
<1> QED
  BY <1>1, <1>2, <1>3, <1>4, <1>5, <1>6, <1>7, <1>8, <1>9, <1>10, <1>11, <1>12, <1>13, <1>14, <1>15, <1>16, <1>17, <1>18, <1>19, <1>20, <1>21, <1>22, <1>23, <1>24, <1>25, <1>26
  DEF Next, Main, Service, Console

(* The main goroutine, the run, the stop and the exit status keep step.    *)
LEMMA ProcessStep ==
  ASSUME TypeOK, ProcessInv, [Next]_vars
  PROVE  ProcessInv'
<1> USE DEF tables, handles, contexts, service, console, main, Alive
<1> USE ConfigAssumption
<1>1. CASE Open
  <2>1. HandlesOK'
    BY <1>1 DEF Open, Return, HandlesOK, ProcessInv, StopOK, RunOK, TypeOK, Fault
  <2>2. WorkersOK'
    BY <1>1 DEF Open, Return, HandlesOK, WorkersOK, ProcessInv, TypeOK, Fault
  <2>3. RunOK'
    BY <1>1 DEF Open, Return, HandlesOK, RunOK, ProcessInv, TypeOK, Fault, Excused
  <2>4. StopOK'
    BY <1>1 DEF Open, Return, HandlesOK, RunOK, StopOK, ProcessInv, TypeOK, Fault, Excused
  <2>5. ExitOK'
    BY <1>1 DEF Open, Return, HandlesOK, WorkersOK, StopOK, ExitOK, ProcessInv, TypeOK, Fault, Excused
  <2> QED  BY <2>1, <2>2, <2>3, <2>4, <2>5 DEF ProcessInv
<1>2. CASE Dial
  <2>1. HandlesOK'
    BY <1>2 DEF Dial, Return, HandlesOK, ProcessInv, StopOK, RunOK, TypeOK, Fault
  <2>2. WorkersOK'
    BY <1>2 DEF Dial, Return, HandlesOK, WorkersOK, ProcessInv, TypeOK, Fault, Workers
  <2>3. RunOK'
    BY <1>2 DEF Dial, Return, HandlesOK, RunOK, ProcessInv, TypeOK, Fault, Excused
  <2>4. StopOK'
    BY <1>2 DEF Dial, Return, HandlesOK, RunOK, StopOK, ProcessInv, TypeOK, Fault, Excused
  <2>5. ExitOK'
    BY <1>2 DEF Dial, Return, HandlesOK, WorkersOK, StopOK, ExitOK, ProcessInv, TypeOK, Fault, Excused
  <2> QED  BY <2>1, <2>2, <2>3, <2>4, <2>5 DEF ProcessInv
<1>3. CASE SetUp
  <2>1. HandlesOK'
    BY <1>3 DEF SetUp, Return, HandlesOK, ProcessInv, StopOK, RunOK, TypeOK, Fault
  <2>2. WorkersOK'
    BY <1>3 DEF SetUp, Return, HandlesOK, WorkersOK, ProcessInv, TypeOK, Fault
  <2>3. RunOK'
    BY <1>3 DEF SetUp, Return, HandlesOK, RunOK, ProcessInv, TypeOK, Fault, Excused
  <2>4. StopOK'
    BY <1>3 DEF SetUp, Return, HandlesOK, RunOK, StopOK, ProcessInv, TypeOK, Fault, Excused
  <2>5. ExitOK'
    BY <1>3 DEF SetUp, Return, HandlesOK, WorkersOK, ExitOK, ProcessInv, TypeOK, Boots
  <2> QED  BY <2>1, <2>2, <2>3, <2>4, <2>5 DEF ProcessInv
<1>4. CASE Start
  <2>1. HandlesOK'
    BY <1>4 DEF Start, HandlesOK, ProcessInv, StopOK, RunOK, TypeOK, Fault
  <2>2. WorkersOK'
    BY <1>4 DEF Start, HandlesOK, WorkersOK, ProcessInv, TypeOK, Fault
  <2>3. RunOK'
    BY <1>4 DEF Start, HandlesOK, RunOK, ProcessInv, TypeOK, Excused, Boots
  <2>4. StopOK'
    BY <1>4 DEF Start, HandlesOK, RunOK, StopOK, ProcessInv, TypeOK, Fault, Excused
  <2>5. ExitOK'
    BY <1>4 DEF Start, HandlesOK, WorkersOK, StopOK, ExitOK, ProcessInv, TypeOK, Fault, Excused
  <2> QED  BY <2>1, <2>2, <2>3, <2>4, <2>5 DEF ProcessInv
<1>5. CASE BeginStop
  <2>1. HandlesOK'
    BY <1>5 DEF BeginStop, HandlesOK, ProcessInv, StopOK, RunOK, TypeOK, Fault
  <2>2. WorkersOK'
    BY <1>5 DEF BeginStop, HandlesOK, WorkersOK, ProcessInv, TypeOK, Fault
  <2>3. RunOK'
    BY <1>5 DEF BeginStop, HandlesOK, RunOK, ProcessInv, TypeOK, Fault, Excused
  <2>4. StopOK'
    BY <1>5 DEF BeginStop, HandlesOK, RunOK, StopOK, ProcessInv, TypeOK, Fault, Excused
  <2>5. ExitOK'
    BY <1>5 DEF BeginStop, HandlesOK, WorkersOK, StopOK, ExitOK, ProcessInv, TypeOK, Fault, Excused
  <2> QED  BY <2>1, <2>2, <2>3, <2>4, <2>5 DEF ProcessInv
<1>6. CASE StopWaited
  <2>1. HandlesOK'
    BY <1>6 DEF StopWaited, HandlesOK, ProcessInv, StopOK, RunOK, TypeOK, Fault
  <2>2. WorkersOK'
    BY <1>6 DEF StopWaited, HandlesOK, WorkersOK, ProcessInv, TypeOK, Fault
  <2>3. RunOK'
    BY <1>6 DEF StopWaited, HandlesOK, RunOK, ProcessInv, TypeOK, Fault, Excused
  <2>4. StopOK'
    BY <1>6 DEF StopWaited, HandlesOK, RunOK, StopOK, ProcessInv, TypeOK, Excused, Boots, Results
  <2>5. ExitOK'
    BY <1>6 DEF StopWaited, HandlesOK, WorkersOK, StopOK, ExitOK, ProcessInv, TypeOK, Fault, Excused
  <2> QED  BY <2>1, <2>2, <2>3, <2>4, <2>5 DEF ProcessInv
<1>7. CASE StopForced
  <2>1. HandlesOK'
    BY <1>7 DEF StopForced, HandlesOK, ProcessInv, StopOK, RunOK, TypeOK, Fault
  <2>2. WorkersOK'
    BY <1>7 DEF StopForced, HandlesOK, WorkersOK, ProcessInv, TypeOK, Fault
  <2>3. RunOK'
    BY <1>7 DEF StopForced, HandlesOK, RunOK, ProcessInv, TypeOK, Fault, Excused
  <2>4. StopOK'
    BY <1>7 DEF StopForced, HandlesOK, RunOK, StopOK, ProcessInv, TypeOK, Fault, Excused
  <2>5. ExitOK'
    BY <1>7 DEF StopForced, HandlesOK, WorkersOK, StopOK, ExitOK, ProcessInv, TypeOK, Fault, Excused
  <2> QED  BY <2>1, <2>2, <2>3, <2>4, <2>5 DEF ProcessInv
<1>8. CASE Close
  <2>1. HandlesOK'
    BY <1>8 DEF Close, HandlesOK, ProcessInv, StopOK, RunOK, TypeOK, Fault
  <2>2. WorkersOK'
    BY <1>8 DEF Close, HandlesOK, WorkersOK, ProcessInv, TypeOK, Fault
  <2>3. RunOK'
    BY <1>8 DEF Close, HandlesOK, RunOK, ProcessInv, TypeOK, Fault, Excused
  <2>4. StopOK'
    BY <1>8 DEF Close, HandlesOK, RunOK, StopOK, ProcessInv, TypeOK, Fault, Excused
  <2>5. ExitOK'
    BY <1>8 DEF Close, HandlesOK, WorkersOK, StopOK, ExitOK, ProcessInv, TypeOK, Fault, Excused
  <2> QED  BY <2>1, <2>2, <2>3, <2>4, <2>5 DEF ProcessInv
<1>9. CASE Finish
  <2>1. HandlesOK'
    BY <1>9 DEF Finish, Return, HandlesOK, ProcessInv, StopOK, RunOK, TypeOK, Fault
  <2>2. WorkersOK'
    BY <1>9 DEF Finish, Return, HandlesOK, WorkersOK, ProcessInv, TypeOK, Fault
  <2>3. RunOK'
    BY <1>9 DEF Finish, Return, HandlesOK, RunOK, ProcessInv, TypeOK, Fault, Excused
  <2>4. StopOK'
    BY <1>9 DEF Finish, Return, HandlesOK, RunOK, StopOK, ProcessInv, TypeOK, Fault, Excused
  <2>5. ExitOK'
    BY <1>9 DEF Finish, Return, HandlesOK, WorkersOK, StopOK, ExitOK, ProcessInv, TypeOK, Fault, Excused
  <2> QED  BY <2>1, <2>2, <2>3, <2>4, <2>5 DEF ProcessInv
<1>10. CASE WatcherListens
  <2>1. HandlesOK'
    BY <1>10 DEF WatcherListens, HandlesOK, ProcessInv, StopOK, RunOK, TypeOK, Fault
  <2>2. WorkersOK'
    BY <1>10 DEF WatcherListens, HandlesOK, WorkersOK, ProcessInv, TypeOK, Fault
  <2>3. RunOK'
    BY <1>10 DEF WatcherListens, HandlesOK, RunOK, ProcessInv, TypeOK, Fault, Excused
  <2>4. StopOK'
    BY <1>10 DEF WatcherListens, HandlesOK, RunOK, StopOK, ProcessInv, TypeOK, Fault, Excused
  <2>5. ExitOK'
    BY <1>10 DEF WatcherListens, HandlesOK, WorkersOK, StopOK, ExitOK, ProcessInv, TypeOK, Fault, Excused
  <2> QED  BY <2>1, <2>2, <2>3, <2>4, <2>5 DEF ProcessInv
<1>11. CASE Interrupt
  <2>1. HandlesOK'
    BY <1>11 DEF Interrupt, HandlesOK, ProcessInv, StopOK, RunOK, TypeOK, Fault
  <2>2. WorkersOK'
    BY <1>11 DEF Interrupt, HandlesOK, WorkersOK, ProcessInv, TypeOK, Fault
  <2>3. RunOK'
    BY <1>11 DEF Interrupt, HandlesOK, RunOK, ProcessInv, TypeOK, Fault, Excused
  <2>4. StopOK'
    BY <1>11 DEF Interrupt, HandlesOK, RunOK, StopOK, ProcessInv, TypeOK, Fault, Excused
  <2>5. ExitOK'
    BY <1>11 DEF Interrupt, HandlesOK, WorkersOK, StopOK, ExitOK, ProcessInv, TypeOK, Fault, Excused
  <2> QED  BY <2>1, <2>2, <2>3, <2>4, <2>5 DEF ProcessInv
<1>12. CASE RunEnds
  <2>1. HandlesOK'
    BY <1>12 DEF RunEnds, HandlesOK, ProcessInv, StopOK, RunOK, TypeOK, Fault
  <2>2. WorkersOK'
    BY <1>12 DEF RunEnds, HandlesOK, WorkersOK, ProcessInv, TypeOK, Fault
  <2>3. RunOK'
    BY <1>12 DEF RunEnds, HandlesOK, RunOK, ProcessInv, TypeOK, Fault, Excused
  <2>4. StopOK'
    BY <1>12 DEF RunEnds, HandlesOK, RunOK, StopOK, ProcessInv, TypeOK, Fault, Excused
  <2>5. ExitOK'
    BY <1>12 DEF RunEnds, HandlesOK, WorkersOK, StopOK, ExitOK, ProcessInv, TypeOK, Fault, Excused
  <2> QED  BY <2>1, <2>2, <2>3, <2>4, <2>5 DEF ProcessInv
<1>13. CASE TellDone
  <2>1. HandlesOK'
    BY <1>13 DEF TellDone, HandlesOK, ProcessInv, StopOK, RunOK, TypeOK, Fault
  <2>2. WorkersOK'
    BY <1>13 DEF TellDone, HandlesOK, WorkersOK, ProcessInv, TypeOK, Fault
  <2>3. RunOK'
    BY <1>13 DEF TellDone, HandlesOK, RunOK, ProcessInv, TypeOK, Fault, Excused
  <2>4. StopOK'
    BY <1>13 DEF TellDone, HandlesOK, RunOK, StopOK, ProcessInv, TypeOK, Fault, Excused
  <2>5. ExitOK'
    BY <1>13 DEF TellDone, HandlesOK, WorkersOK, StopOK, ExitOK, ProcessInv, TypeOK, Fault, Excused
  <2> QED  BY <2>1, <2>2, <2>3, <2>4, <2>5 DEF ProcessInv
<1>14. CASE Shutdown
  <2>1. HandlesOK'
    BY <1>14 DEF Shutdown, HandlesOK, ProcessInv, StopOK, RunOK, TypeOK, Fault
  <2>2. WorkersOK'
    BY <1>14 DEF Shutdown, HandlesOK, WorkersOK, ProcessInv, TypeOK, Fault
  <2>3. RunOK'
    BY <1>14 DEF Shutdown, HandlesOK, RunOK, ProcessInv, TypeOK, Fault, Excused
  <2>4. StopOK'
    BY <1>14 DEF Shutdown, HandlesOK, RunOK, StopOK, ProcessInv, TypeOK, Fault, Excused
  <2>5. ExitOK'
    BY <1>14 DEF Shutdown, HandlesOK, WorkersOK, StopOK, ExitOK, ProcessInv, TypeOK, Fault, Excused
  <2> QED  BY <2>1, <2>2, <2>3, <2>4, <2>5 DEF ProcessInv
<1>15. CASE ListenFails
  <2>1. HandlesOK'
    BY <1>15 DEF ListenFails, HandlesOK, ProcessInv, StopOK, RunOK, TypeOK, Fault
  <2>2. WorkersOK'
    BY <1>15 DEF ListenFails, HandlesOK, WorkersOK, ProcessInv, TypeOK, Fault
  <2>3. RunOK'
    BY <1>15 DEF ListenFails, HandlesOK, RunOK, ProcessInv, TypeOK, Fault, Excused
  <2>4. StopOK'
    BY <1>15 DEF ListenFails, HandlesOK, RunOK, StopOK, ProcessInv, TypeOK, Fault, Excused
  <2>5. ExitOK'
    BY <1>15 DEF ListenFails, HandlesOK, WorkersOK, StopOK, ExitOK, ProcessInv, TypeOK, Fault, Excused
  <2> QED  BY <2>1, <2>2, <2>3, <2>4, <2>5 DEF ProcessInv
<1>16. CASE RequestArrives
  <2>1. HandlesOK'
    BY <1>16 DEF RequestArrives, HandlesOK, ProcessInv, StopOK, RunOK, TypeOK, Fault
  <2>2. WorkersOK'
    BY <1>16 DEF RequestArrives, HandlesOK, WorkersOK, ProcessInv, TypeOK, Fault
  <2>3. RunOK'
    BY <1>16 DEF RequestArrives, HandlesOK, RunOK, ProcessInv, TypeOK, Fault, Excused
  <2>4. StopOK'
    BY <1>16 DEF RequestArrives, HandlesOK, RunOK, StopOK, ProcessInv, TypeOK, Fault, Excused
  <2>5. ExitOK'
    BY <1>16 DEF RequestArrives, HandlesOK, WorkersOK, StopOK, ExitOK, ProcessInv, TypeOK, Fault, Excused
  <2> QED  BY <2>1, <2>2, <2>3, <2>4, <2>5 DEF ProcessInv
<1>17. CASE RequestEnds
  <2>1. HandlesOK'
    BY <1>17 DEF RequestEnds, HandlesOK, ProcessInv, StopOK, RunOK, TypeOK, Fault
  <2>2. WorkersOK'
    BY <1>17 DEF RequestEnds, HandlesOK, WorkersOK, ProcessInv, TypeOK, Fault
  <2>3. RunOK'
    BY <1>17 DEF RequestEnds, HandlesOK, RunOK, ProcessInv, TypeOK, Fault, Excused
  <2>4. StopOK'
    BY <1>17 DEF RequestEnds, HandlesOK, RunOK, StopOK, ProcessInv, TypeOK, Fault, Excused
  <2>5. ExitOK'
    BY <1>17 DEF RequestEnds, HandlesOK, WorkersOK, StopOK, ExitOK, ProcessInv, TypeOK, Fault, Excused
  <2> QED  BY <2>1, <2>2, <2>3, <2>4, <2>5 DEF ProcessInv
<1>18. CASE StartJob
  <2>1. HandlesOK'
    BY <1>18 DEF StartJob, HandlesOK, ProcessInv, StopOK, RunOK, TypeOK, Fault
  <2>2. WorkersOK'
    BY <1>18 DEF StartJob, HandlesOK, WorkersOK, ProcessInv, TypeOK, Fault
  <2>3. RunOK'
    BY <1>18 DEF StartJob, HandlesOK, RunOK, ProcessInv, TypeOK, Fault, Excused
  <2>4. StopOK'
    BY <1>18 DEF StartJob, HandlesOK, RunOK, StopOK, ProcessInv, TypeOK, Fault, Excused
  <2>5. ExitOK'
    BY <1>18 DEF StartJob, HandlesOK, WorkersOK, StopOK, ExitOK, ProcessInv, TypeOK, Fault, Excused
  <2> QED  BY <2>1, <2>2, <2>3, <2>4, <2>5 DEF ProcessInv
<1>19. CASE JobEnds
  <2>1. HandlesOK'
    BY <1>19 DEF JobEnds, HandlesOK, ProcessInv, StopOK, RunOK, TypeOK, Fault
  <2>2. WorkersOK'
    BY <1>19 DEF JobEnds, HandlesOK, WorkersOK, ProcessInv, TypeOK, Fault
  <2>3. RunOK'
    BY <1>19 DEF JobEnds, HandlesOK, RunOK, ProcessInv, TypeOK, Fault, Excused
  <2>4. StopOK'
    BY <1>19 DEF JobEnds, HandlesOK, RunOK, StopOK, ProcessInv, TypeOK, Fault, Excused
  <2>5. ExitOK'
    BY <1>19 DEF JobEnds, HandlesOK, WorkersOK, StopOK, ExitOK, ProcessInv, TypeOK, Fault, Excused
  <2> QED  BY <2>1, <2>2, <2>3, <2>4, <2>5 DEF ProcessInv
<1>20. CASE OthersSeed
  <2>1. HandlesOK'
    BY <1>20 DEF OthersSeed, HandlesOK, ProcessInv, StopOK, RunOK, TypeOK, Fault
  <2>2. WorkersOK'
    BY <1>20 DEF OthersSeed, HandlesOK, WorkersOK, ProcessInv, TypeOK, Fault
  <2>3. RunOK'
    BY <1>20 DEF OthersSeed, HandlesOK, RunOK, ProcessInv, TypeOK, Fault, Excused
  <2>4. StopOK'
    BY <1>20 DEF OthersSeed, HandlesOK, RunOK, StopOK, ProcessInv, TypeOK, Fault, Excused
  <2>5. ExitOK'
    BY <1>20 DEF OthersSeed, HandlesOK, WorkersOK, StopOK, ExitOK, ProcessInv, TypeOK, Fault, Excused
  <2> QED  BY <2>1, <2>2, <2>3, <2>4, <2>5 DEF ProcessInv
<1>21. CASE Kill
  <2>1. HandlesOK'
    BY <1>21 DEF Kill, HandlesOK, ProcessInv, StopOK, RunOK, TypeOK, Fault
  <2>2. WorkersOK'
    BY <1>21 DEF Kill, HandlesOK, WorkersOK, ProcessInv, TypeOK, Fault
  <2>3. RunOK'
    BY <1>21 DEF Kill, HandlesOK, RunOK, ProcessInv, TypeOK, Fault, Excused
  <2>4. StopOK'
    BY <1>21 DEF Kill, HandlesOK, RunOK, StopOK, ProcessInv, TypeOK, Fault, Excused
  <2>5. ExitOK'
    BY <1>21 DEF Kill, HandlesOK, WorkersOK, StopOK, ExitOK, ProcessInv, TypeOK, Fault, Excused
  <2> QED  BY <2>1, <2>2, <2>3, <2>4, <2>5 DEF ProcessInv
<1>22. CASE Boot
  <2>1. HandlesOK'
    BY <1>22 DEF Boot, Booted, HandlesOK, ProcessInv, StopOK, RunOK, TypeOK, Fault
  <2>2. WorkersOK'
    BY <1>22 DEF Boot, Booted, HandlesOK, WorkersOK, ProcessInv, TypeOK, Fault
  <2>3. RunOK'
    BY <1>22 DEF Boot, Booted, HandlesOK, RunOK, ProcessInv, TypeOK, Fault, Excused
  <2>4. StopOK'
    BY <1>22 DEF Boot, Booted, HandlesOK, RunOK, StopOK, ProcessInv, TypeOK, Fault, Excused
  <2>5. ExitOK'
    BY <1>22 DEF Boot, Booted, HandlesOK, WorkersOK, StopOK, ExitOK, ProcessInv, TypeOK, Fault, Excused
  <2> QED  BY <2>1, <2>2, <2>3, <2>4, <2>5 DEF ProcessInv
<1>23. ASSUME NEW x \in Protocols, Seeding(x) \/ ScanEnds(x) PROVE ProcessInv'
  <2>1. UNCHANGED <<main, handles, contexts, service, serving, requests>> /\ faults' \in Nat /\ faults' >= faults
    BY <1>23 DEF Seeding, ScanEnds, UnchangedBySeeding, CheckSeeded, SeedAddresses, SeedPairs, MarkSeeded, ListAddresses, ListPairs, Fault, TypeOK
  <2>2. /\ workers[x].pc # "idle" /\ Alive
        /\ \A y \in Protocols \ {x} : workers'[y] = workers[y]
        /\ workers'[x].pc = "failed" => Fault
    <3>1. CASE Seeding(x)
      <4>1. CASE CheckSeeded(x)
        BY <4>1 DEF CheckSeeded, At, Go, TypeOK, Workers
      <4>2. CASE SeedAddresses(x)
        BY <4>2 DEF SeedAddresses, AfterAddresses, AfterSeeding, At, Go, TypeOK, Workers
      <4>3. CASE SeedPairs(x)
        BY <4>3 DEF SeedPairs, AfterSeeding, At, Go, TypeOK, Workers
      <4>4. CASE MarkSeeded(x)
        BY <4>4 DEF MarkSeeded, At, Go, TypeOK, Workers
      <4>5. CASE ListAddresses(x)
        BY <4>5 DEF ListAddresses, At, Go, TypeOK, Workers
      <4>6. CASE ListPairs(x)
        BY <4>6 DEF ListPairs, At, Go, TypeOK, Workers
      <4> QED  BY <3>1, <4>1, <4>2, <4>3, <4>4, <4>5, <4>6 DEF Seeding
    <3>2. CASE ScanEnds(x)
      BY <3>2 DEF ScanEnds, At, Go, TypeOK, Workers
    <3> QED  BY <1>23, <3>1, <3>2
  <2>3. pc \notin {"opening", "dialing"}
    BY <2>2 DEF WorkersOK, ProcessInv
  <2>4. workers'[x].pc = "failed" => faults' > 0 \/ pc = "returning"
    BY <2>2, <2>3, FaultTyped DEF HandlesOK, ProcessInv, TypeOK
  <2>5. WorkersOK'
    BY <2>1, <2>2, <2>3, <2>4 DEF WorkersOK, ProcessInv, TypeOK
  <2> QED  BY <2>1, <2>5 DEF ProcessInv, HandlesOK, RunOK, StopOK, ExitOK, Excused, TypeOK
<1>24. CASE UNCHANGED vars
  BY <1>24 DEF vars, ProcessInv, HandlesOK, WorkersOK, RunOK, StopOK, ExitOK, Excused
<1> QED
  BY <1>1, <1>2, <1>3, <1>4, <1>5, <1>6, <1>7, <1>8, <1>9, <1>10, <1>11, <1>12, <1>13, <1>14, <1>15, <1>16, <1>17, <1>18, <1>19, <1>20, <1>21, <1>22, <1>23, <1>24
  DEF Next, Main, Service, Console

(* The invariant holds when the first process starts.                      *)
LEMMA IInit ==
  ASSUME Init
  PROVE  IInv
<1> USE DEF Init, FirstWatcher, Alive
<1>1. TypeOK
  <2>1. workers \in [Protocols -> Workers]
    BY IdleTyped
  <2>2. attempts \in 0 .. MaxAttempts - 1 /\ faults \in 0 .. MaxFaults /\ jobs \in 0 .. MaxJobs
    BY ConfigAssumption
  <2>3. watchers \in [{"app", "stop"} -> {"off", "starting", "on"}]
    OBVIOUS
  <2> QED  BY <2>1, <2>2, <2>3 DEF TypeOK, Causes, Results
<1>2. SeedInv
  BY DEF SeedInv, SeedingOK, Stored, Seeded
<1>3. ProcessInv
  BY ConfigAssumption DEF ProcessInv, HandlesOK, WorkersOK, RunOK, StopOK, ExitOK
<1> QED  BY <1>1, <1>2, <1>3 DEF IInv

(* The invariant of every behaviour, from which the properties follow.     *)
THEOREM Invariance == Spec => []IInv
<1>1. IInv /\ [Next]_vars => IInv'
  BY TypeStep, SeedStep, ProcessStep DEF IInv
<1> QED  BY IInit, <1>1, PTL DEF Spec

(* Every variable keeps to what the code can hold: the attempts of NewDB   *)
(* stay below the limit, and registries and tables to configured rows.     *)
THEOREM TypeCorrect == Spec => []TypeOK
<1>1. IInv => TypeOK
  BY DEF IInv
<1> QED  BY <1>1, Invariance, PTL

(* The exit status of the service tells how its run went (lifecycleCmd,    *)
(* Start and Stop of the service), in whatever order the run, its report   *)
(* and any number of signals come.                                         *)
THEOREM StatusTold == Spec => []StatusTellsTheRun
<1>1. IInv => StatusTellsTheRun
  <2> SUFFICES ASSUME IInv PROVE StatusTellsTheRun
    OBVIOUS
  <2>1. (exit = "0" /\ boot.app = "scan") =>
          \/ runner.result = "ok" /\ boot.mode = "once"
          \/ runner.result = "canceled" /\ appCtx = "interrupt"
    BY ConfigAssumption DEF IInv, ProcessInv, ExitOK, StopOK, RunOK
  <2>2. exit = "1" => faults > 0 \/ boot.mode = "other" \/ stopCtx = "interrupt"
    BY DEF IInv, ProcessInv, ExitOK, StopOK, Excused
  <2> QED  BY <2>1, <2>2 DEF StatusTellsTheRun
<1> QED  BY <1>1, Invariance, PTL

(* A process that ends by itself has closed its handles, and has not taken *)
(* the database from a run or a request unless a second signal forced it.  *)
THEOREM HandlesClosedInTurn == Spec => []ClosedInTurn
<1>1. IInv => ClosedInTurn
  BY ConfigAssumption
  DEF IInv, ProcessInv, HandlesOK, RunOK, StopOK, ExitOK, ClosedInTurn, TypeOK, Boots
<1> QED  BY <1>1, Invariance, PTL

(* The registry a runner scans with covers the configuration of its        *)
(* protocol and holds only configured rows, however rows were written.     *)
THEOREM RegistryCovered == Spec => []RegistryCovers
<1>1. IInv => RegistryCovers
  BY DEF IInv, SeedInv, SeedingOK, RegistryCovers, TypeOK, Workers
<1> QED  BY <1>1, Invariance, PTL

===============================================================================
