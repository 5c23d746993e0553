------------------------------ MODULE JobConsole ------------------------------
(***************************************************************************)
(* The scan console: pages that start jobs over a websocket                *)
(* (api/ws/handler.go), the registry of jobs and its subscribers           *)
(* (api/service/job_manager.go), the goroutines that run a job, one per    *)
(* protocol (api/service/runner_bridge.go), whose ProtocolRunner reports   *)
(* to the registry (observer.go, protocol_runner.go), and what the page    *)
(* makes of the messages (frontend/src/store/useScanStore.ts).             *)
(*                                                                         *)
(* Every Record... and Mark... of the registry changes the job inside its  *)
(* mutex, then broadcasts copies outside it: for each event it copies the  *)
(* set of subscribers under the mutex, and sends afterwards.  The calling  *)
(* goroutine goes on when all its events are out.                          *)
(*                                                                         *)
(* A job has one subscriber ever, the page that created it, so the channel *)
(* is named by the job.  Of a finding only the protocol is kept, of a      *)
(* protocol's counters only FoundCandidates.                               *)
(***************************************************************************)
EXTENDS Naturals, Sequences, FiniteSets, FiniteSetsExt

CONSTANTS
  Pages,          \* websocket connections
  Protocols,
  None,           \* no job
  MaxJobs,        \* jobs the registry takes in a behaviour (bound)
  MaxFindings,    \* findings of each job (bound)
  Buffer,         \* the buffer of a subscriber: 128 in HandleScan
  MayLeave,       \* pages that may be closed
  MayRepeat       \* pages that may start a job after one of theirs

ASSUME ConsoleAssumption ==
  /\ IsFiniteSet(Pages) /\ IsFiniteSet(Protocols)
  /\ MaxJobs \in Nat
  /\ MaxFindings \in [1 .. MaxJobs -> Nat]
  /\ Buffer \in Nat \ {0}
  /\ MayLeave \subseteq Pages
  /\ MayRepeat \subseteq Pages
  /\ None \notin Nat
  /\ "main" \notin Protocols

JobIds == 1 .. MaxJobs

(* The goroutines that call the registry for a job: the one that starts    *)
(* and ends it (the handler of its page, then the one RunJobAsync starts), *)
(* and one per protocol.                                                   *)
Callers == Protocols \cup {"main"}

VARIABLES
  jobs,           \* JobManager.jobs, in the order of creation
  owner,          \* the page that created the job
  subscribed,     \* jobs whose channel is in JobManager.subscribers
  closed,         \* jobs whose channel is closed
  queue,          \* the buffer of each channel
  outbox,         \* events a caller has still to broadcast
  sending,        \* callers that have copied the subscribers
  main,           \* where the job is: its handler or its goroutine
  worker,         \* where the goroutine of each protocol is
  stats,          \* its stats.findings
  handler,        \* where HandleScan of the page is
  request,        \* the protocols of a start_scan it has not read, or {}
  current,        \* the job whose subscription the handler holds
  forwarders,     \* jobs with a live forwardEvents goroutine
  cancelled,      \* those whose context is done
  view,           \* what the page shows
  panicked        \* a send on a closed channel has ended the process

registry == <<jobs, owner>>
channels == <<subscribed, closed, queue>>
broadcasts == <<outbox, sending>>
goroutines == <<main, worker, stats>>
connections == <<handler, request, current, forwarders, cancelled>>
vars == <<registry, channels, broadcasts, goroutines, connections, view,
          panicked>>

Statuses == {"pending", "running", "completed", "failed"}
Terminal == {"completed", "failed"}

-------------------------------------------------------------------------------
(* Jobs, events, and what a page makes of them.                            *)

Progress == [status : Statuses \cup {"idle"}, found : Nat]

NewJob(P) ==
  [status    |-> "pending",
   protocols |-> [p \in P |-> [status |-> "pending", found |-> 0]],
   findings  |-> [p \in P |-> 0],
   total     |-> 0]

Wanted(j) == DOMAIN jobs[j].protocols

TotalOf(counters) == MapThenSumSet(LAMBDA p : counters[p], DOMAIN counters)

FoundBy(job) == [p \in DOMAIN job.protocols |-> job.protocols[p].found]

(* recalculateJobTotalsLocked                                              *)
Recalculated(job) == [job EXCEPT !.total = TotalOf(FoundBy(job))]

(* cloneJobOverview, cloneProtocolSnapshot, and the other payloads.        *)
Overview(job) == [kind |-> "overview", status |-> job.status,
                  protocols |-> job.protocols, total |-> job.total]
Snapshot(job, p) == [kind |-> "protocol", protocol |-> p,
                     progress |-> job.protocols[p]]
FindingOf(p) == [kind |-> "finding", protocol |-> p]
Log == [kind |-> "log"]

(* The protocols the page knows of, those of an overview in their new      *)
(* state.                                                                  *)
Merged(new, old) ==
  [p \in DOMAIN new \cup DOMAIN old |-> IF p \in DOMAIN new THEN new[p] ELSE old[p]]

(* startScan of the page: a fresh view.                                    *)
Blank == [status |-> "idle", total |-> 0,
          protocols |-> [p \in Protocols |-> [status |-> "idle", found |-> 0]],
          findings |-> [p \in Protocols |-> 0]]
FreshView(P) ==
  [Blank EXCEPT !.status = "pending", !.protocols = Merged(NewJob(P).protocols, @)]

(* applyMessage of the page.                                               *)
ApplyMessage(v, event) ==
  CASE event.kind = "overview" ->
         [v EXCEPT !.status = event.status, !.total = event.total,
                   !.protocols = Merged(event.protocols, @)]
    [] event.kind = "protocol" ->
         [v EXCEPT !.protocols[event.protocol] = event.progress]
    [] event.kind = "finding" ->
         [v EXCEPT !.findings[event.protocol] = @ + 1]
    [] OTHER -> v

-------------------------------------------------------------------------------
(* The registry.                                                           *)

(* A panic in a goroutine ends the process; the pages stay as they are.    *)
Alive == ~panicked

Active(j) == jobs[j].status \in {"pending", "running"}

(* The caller changes the job under the mutex, and has events to send.     *)
Record(j, caller, job, events) ==
  /\ Alive
  /\ outbox[j][caller] = <<>>
  /\ jobs' = [jobs EXCEPT ![j] = job]
  /\ outbox' = [outbox EXCEPT ![j][caller] = events]

(* broadcast, first part: the set of subscribers, under the read lock.     *)
TakeSubscribers(j, caller) ==
  /\ Alive
  /\ outbox[j][caller] # <<>>
  /\ <<j, caller>> \notin sending
  /\ IF j \in subscribed
     THEN sending' = sending \cup {<<j, caller>>} /\ UNCHANGED outbox
     ELSE outbox' = [outbox EXCEPT ![j][caller] = Tail(@)] /\ UNCHANGED sending
  /\ UNCHANGED <<registry, channels, goroutines, connections, view, panicked>>

(* A slip: the events wait in a list without a bound.                      *)
SendEventUnbounded(j, caller) ==
  /\ Alive
  /\ <<j, caller>> \in sending
  /\ sending' = sending \ {<<j, caller>>}
  /\ outbox' = [outbox EXCEPT ![j][caller] = Tail(@)]
  /\ panicked' = (j \in closed)
  /\ queue' = [queue EXCEPT ![j] = Append(@, Head(outbox[j][caller]))]
  /\ UNCHANGED <<registry, subscribed, closed, goroutines, connections, view>>

(* broadcast, second part: the send gives up when the buffer is full, and  *)
(* panics when the channel has been closed meanwhile.                      *)
SendEvent(j, caller) ==
  /\ Alive
  /\ <<j, caller>> \in sending
  /\ sending' = sending \ {<<j, caller>>}
  /\ outbox' = [outbox EXCEPT ![j][caller] = Tail(@)]
  /\ panicked' = (j \in closed)
  /\ queue' = IF j \in closed \/ Len(queue[j]) >= Buffer THEN queue
              ELSE [queue EXCEPT ![j] = Append(@, Head(outbox[j][caller]))]
  /\ UNCHANGED <<registry, subscribed, closed, goroutines, connections, view>>

(* The unsubscribe function, for the job whose subscription is held.       *)
Unsubscribe(held) ==
  /\ subscribed' = subscribed \ held
  /\ closed' = closed \cup held

-------------------------------------------------------------------------------
(* A page and its handler.                                                 *)

Held(c) == IF current[c] = None THEN {} ELSE {current[c]}

(* The button works unless the page shows a pending or running job.        *)
Click(c, P) ==
  /\ Alive
  /\ handler[c] # "closed"
  /\ request[c] = {}
  /\ Len(jobs) + Cardinality({d \in Pages : request[d] # {}}) < MaxJobs
  /\ c \in MayRepeat \/ c \notin Range(owner)
  /\ view[c].status \notin {"pending", "running"}
  /\ request' = [request EXCEPT ![c] = P]
  /\ view' = [view EXCEPT ![c] = FreshView(P)]
  /\ UNCHANGED <<registry, channels, broadcasts, goroutines, handler, current,
                 forwarders, cancelled, panicked>>

(* A slip: only a running job counts as active.                            *)
CreateJobPending(c) ==
  /\ Alive
  /\ handler[c] = "reading"
  /\ request[c] # {}
  /\ \A j \in DOMAIN jobs : jobs[j].status # "running"
  /\ jobs' = Append(jobs, NewJob(request[c]))
  /\ owner' = Append(owner, c)
  /\ request' = [request EXCEPT ![c] = {}]
  /\ handler' = [handler EXCEPT ![c] = "created"]
  /\ UNCHANGED <<channels, broadcasts, goroutines, current, forwarders,
                 cancelled, view, panicked>>

(* HandleScan reads start_scan and calls CreateJob, which refuses a second *)
(* active job.                                                             *)
CreateJob(c) ==
  /\ Alive
  /\ handler[c] = "reading"
  /\ request[c] # {}
  /\ \A j \in DOMAIN jobs : ~Active(j)
  /\ jobs' = Append(jobs, NewJob(request[c]))
  /\ owner' = Append(owner, c)
  /\ request' = [request EXCEPT ![c] = {}]
  /\ handler' = [handler EXCEPT ![c] = "created"]
  /\ UNCHANGED <<channels, broadcasts, goroutines, current, forwarders,
                 cancelled, view, panicked>>

(* A slip: the error is not sent.                                          *)
RefuseJobSilently(c) ==
  /\ Alive
  /\ handler[c] = "reading"
  /\ request[c] # {}
  /\ \E j \in DOMAIN jobs : Active(j)
  /\ request' = [request EXCEPT ![c] = {}]
  /\ UNCHANGED <<registry, channels, broadcasts, goroutines, handler, current,
                 forwarders, cancelled, view, panicked>>

(* The error message makes the page show a failed job.                     *)
RefuseJob(c) ==
  /\ Alive
  /\ handler[c] = "reading"
  /\ request[c] # {}
  /\ \E j \in DOMAIN jobs : Active(j)
  /\ request' = [request EXCEPT ![c] = {}]
  /\ view' = [view EXCEPT ![c].status = "failed"]
  /\ UNCHANGED <<registry, channels, broadcasts, goroutines, handler, current,
                 forwarders, cancelled, panicked>>

(* The job the handler of c is starting.                                   *)
Starting(c, j) == j \in DOMAIN jobs /\ owner[j] = c /\ main[j] = "none"

Subscribe(c) ==
  /\ Alive
  /\ handler[c] = "created"
  /\ \E j \in JobIds : Starting(c, j) /\ subscribed' = subscribed \cup {j}
  /\ handler' = [handler EXCEPT ![c] = "subscribed"]
  /\ UNCHANGED <<registry, closed, queue, broadcasts, goroutines, request,
                 current, forwarders, cancelled, view, panicked>>

(* The subscription of an earlier job goes, and forwardEvents starts.      *)
ReplaceSubscription(c) ==
  /\ Alive
  /\ handler[c] = "subscribed"
  /\ \E j \in JobIds :
       /\ Starting(c, j)
       /\ current' = [current EXCEPT ![c] = j]
       /\ forwarders' = forwarders \cup {j}
  /\ cancelled' = cancelled \cup Held(c)
  /\ Unsubscribe(Held(c))
  /\ handler' = [handler EXCEPT ![c] = "replaced"]
  /\ UNCHANGED <<registry, queue, broadcasts, goroutines, request, view,
                 panicked>>

(* RunJobAsync: MarkJobStarted, in the handler.                            *)
MarkJobStarted(c) ==
  /\ handler[c] = "replaced"
  /\ \E j \in JobIds :
       /\ Starting(c, j)
       /\ LET job == [jobs[j] EXCEPT !.status = "running"]
          IN Record(j, "main", job, <<Overview(job), Log>>)
       /\ main' = [main EXCEPT ![j] = "starting"]
  /\ handler' = [handler EXCEPT ![c] = "starting"]
  /\ UNCHANGED <<owner, channels, sending, worker, stats, request, current,
                 forwarders, cancelled, view, panicked>>

(* RunJobAsync starts the goroutine of the job; the handler reads again.   *)
SpawnJob(c) ==
  /\ Alive
  /\ handler[c] = "starting"
  /\ \E j \in JobIds :
       /\ j \in DOMAIN jobs /\ owner[j] = c /\ main[j] = "starting"
       /\ outbox[j]["main"] = <<>>
       /\ main' = [main EXCEPT ![j] = "run"]
  /\ handler' = [handler EXCEPT ![c] = "reading"]
  /\ UNCHANGED <<registry, channels, broadcasts, worker, stats, request,
                 current, forwarders, cancelled, view, panicked>>

(* The page is closed: ReadMessage returns an error and HandleScan its     *)
(* deferred calls.  The context of the job is done too: its workers fail,  *)
(* or finish if they need it no more.                                      *)
Leave(c) ==
  /\ Alive
  /\ c \in MayLeave
  /\ handler[c] = "reading"
  /\ handler' = [handler EXCEPT ![c] = "closed"]
  /\ request' = [request EXCEPT ![c] = {}]
  /\ current' = [current EXCEPT ![c] = None]
  /\ cancelled' = cancelled \cup Held(c)
  /\ Unsubscribe(Held(c))
  /\ UNCHANGED <<registry, queue, broadcasts, goroutines, forwarders, view,
                 panicked>>

(* forwardEvents passes an event on, and the page applies it.  A goroutine *)
(* whose context is done may still take an event instead of leaving.       *)
Forward(j) ==
  /\ Alive
  /\ j \in forwarders
  /\ queue[j] # <<>>
  /\ queue' = [queue EXCEPT ![j] = Tail(@)]
  /\ view' = IF handler[owner[j]] = "closed" THEN view
             ELSE [view EXCEPT ![owner[j]] = ApplyMessage(@, Head(queue[j]))]
  /\ UNCHANGED <<registry, subscribed, closed, broadcasts, goroutines,
                 connections, panicked>>

ForwarderStops(j) ==
  /\ Alive
  /\ j \in forwarders
  /\ j \in cancelled \/ (j \in closed /\ queue[j] = <<>>)
  /\ forwarders' = forwarders \ {j}
  /\ UNCHANGED <<registry, channels, broadcasts, goroutines, handler, request,
                 current, cancelled, view, panicked>>

-------------------------------------------------------------------------------
(* The goroutines of a job.                                                *)

SetWorker(j, p, label) == worker' = [worker EXCEPT ![j][p] = label]

(* runJob starts a goroutine per protocol, or fails before: no RPC endpoint*)
(* for the chain.                                                          *)
RunJob(j) ==
  /\ Alive
  /\ main[j] = "run"
  /\ main' = [main EXCEPT ![j] = "wait"]
  /\ worker' = [worker EXCEPT ![j] = [p \in Protocols |->
                  IF p \in Wanted(j) THEN "seed" ELSE "none"]]
  /\ UNCHANGED <<registry, channels, broadcasts, stats, connections, view,
                 panicked>>

FailJob(j) ==
  /\ LET job == [jobs[j] EXCEPT !.status = "failed"]
     IN Record(j, "main", job, <<Overview(job), Log>>)
  /\ main' = [main EXCEPT ![j] = "ended"]
  /\ UNCHANGED <<owner, channels, sending, worker, stats, connections, view,
                 panicked>>

NoEndpoint(j) == main[j] = "run" /\ FailJob(j)

(* A slip: this return comes without wg.Done.                              *)
SeedFailsStuck(j, p) ==
  /\ Alive
  /\ worker[j][p] = "seed"
  /\ SetWorker(j, p, "none")
  /\ UNCHANGED <<registry, channels, broadcasts, main, stats, connections,
                 view, panicked>>

(* ensureProtocolSeeded or buildRunner fails: RunOnce is not called, so the*)
(* registry hears nothing of the protocol.                                 *)
SeedFails(j, p) ==
  /\ Alive
  /\ worker[j][p] = "seed"
  /\ SetWorker(j, p, "error")
  /\ UNCHANGED <<registry, channels, broadcasts, main, stats, connections,
                 view, panicked>>

(* The notify... calls of RunOnce, through JobObserver.                    *)
Report(j, p, job, events, label) ==
  /\ Record(j, p, job, events)
  /\ SetWorker(j, p, label)
  /\ UNCHANGED <<owner, channels, sending, main, connections, view, panicked>>

RecordProtocolStarted(j, p) ==
  /\ worker[j][p] = "seed"
  /\ LET job == [jobs[j] EXCEPT !.protocols[p].status = "running"]
     IN Report(j, p, job, <<Snapshot(job, p), Overview(job), Log>>, "scan")
  /\ UNCHANGED stats

(* AggregateByTx has given a summary: stats.findings, OnFinding, and then  *)
(* OnProtocolProgress.                                                     *)
RecordFinding(j, p) ==
  /\ worker[j][p] = "scan"
  /\ TotalOf(stats[j]) < MaxFindings[j]
  /\ stats' = [stats EXCEPT ![j][p] = @ + 1]
  /\ LET job == [jobs[j] EXCEPT !.findings[p] = @ + 1]
     IN Report(j, p, job, <<FindingOf(p), Log>>, "found")

Counted(j, p, status) ==
  Recalculated([jobs[j] EXCEPT
                  !.protocols[p] = [status |-> status, found |-> stats[j][p]]])

(* After a finding, and once more at the end unless the last progress was  *)
(* that of the last block.                                                 *)
RecordProtocolProgress(j, p) ==
  /\ worker[j][p] \in {"found", "scan"}
  /\ LET job == Counted(j, p, "running")
     IN Report(j, p, job, <<Snapshot(job, p), Overview(job)>>,
               IF worker[j][p] = "found" THEN "scan" ELSE "final")
  /\ UNCHANGED stats

RecordProtocolCompleted(j, p) ==
  /\ \/ worker[j][p] = "final"
     \/ worker[j][p] = "scan" /\ stats[j][p] > 0
  /\ LET job == Counted(j, p, "completed")
     IN Report(j, p, job, <<Snapshot(job, p), Overview(job), Log>>, "ok")
  /\ UNCHANGED stats

(* RunOnce returns an error: the counters stay as last reported.           *)
RecordProtocolFailed(j, p) ==
  /\ worker[j][p] = "scan"
  /\ LET job == Recalculated([jobs[j] EXCEPT !.protocols[p].status = "failed"])
     IN Report(j, p, job, <<Snapshot(job, p), Overview(job), Log>>, "error")
  /\ UNCHANGED stats

(* A slip: the observer broadcasts in goroutines of their own.             *)
AllReturnedAsync(j) == \A p \in Wanted(j) : worker[j][p] \in {"ok", "error"}

(* wg.Wait: every goroutine has returned from RunOnce.                     *)
AllReturned(j) ==
  \A p \in Wanted(j) : worker[j][p] \in {"ok", "error"} /\ outbox[j][p] = <<>>

(* A slip: the first error ends the job.                                   *)
MarkJobFailedEarly(j) ==
  /\ main[j] = "wait"
  /\ \E p \in Wanted(j) : worker[j][p] = "error"
  /\ FailJob(j)

MarkJobFailed(j) ==
  /\ main[j] = "wait"
  /\ AllReturned(j)
  /\ \E p \in Wanted(j) : worker[j][p] = "error"
  /\ FailJob(j)

(* A slip: no wait, and no error yet.                                      *)
MarkJobCompletedEarly(j) ==
  /\ main[j] = "wait"
  /\ \A p \in Wanted(j) : worker[j][p] # "error"
  /\ LET job == [jobs[j] EXCEPT !.status = "completed"]
     IN Record(j, "main", job, <<Overview(job), Log>>)
  /\ main' = [main EXCEPT ![j] = "ended"]
  /\ UNCHANGED <<owner, channels, sending, worker, stats, connections, view,
                 panicked>>

MarkJobCompleted(j) ==
  /\ main[j] = "wait"
  /\ AllReturned(j)
  /\ \A p \in Wanted(j) : worker[j][p] = "ok"
  /\ LET job == [jobs[j] EXCEPT !.status = "completed"]
     IN Record(j, "main", job, <<Overview(job), Log>>)
  /\ main' = [main EXCEPT ![j] = "ended"]
  /\ UNCHANGED <<owner, channels, sending, worker, stats, connections, view,
                 panicked>>

-------------------------------------------------------------------------------
Init ==
  /\ jobs = <<>>
  /\ owner = <<>>
  /\ subscribed = {}
  /\ closed = {}
  /\ queue = [j \in JobIds |-> <<>>]
  /\ outbox = [j \in JobIds |-> [a \in Callers |-> <<>>]]
  /\ sending = {}
  /\ main = [j \in JobIds |-> "none"]
  /\ worker = [j \in JobIds |-> [p \in Protocols |-> "none"]]
  /\ stats = [j \in JobIds |-> [p \in Protocols |-> 0]]
  /\ handler = [c \in Pages |-> "reading"]
  /\ request = [c \in Pages |-> {}]
  /\ current = [c \in Pages |-> None]
  /\ forwarders = {}
  /\ cancelled = {}
  /\ view = [c \in Pages |-> Blank]
  /\ panicked = FALSE

HandlerStep(c) ==
  \/ CreateJob(c) \/ RefuseJob(c) \/ Subscribe(c) \/ ReplaceSubscription(c)
  \/ MarkJobStarted(c) \/ SpawnJob(c)

JobStep(j) ==
  \/ RunJob(j) \/ NoEndpoint(j) \/ MarkJobFailed(j) \/ MarkJobCompleted(j)
  \/ \E p \in Protocols :
       \/ SeedFails(j, p) \/ RecordProtocolStarted(j, p) \/ RecordFinding(j, p)
       \/ RecordProtocolProgress(j, p) \/ RecordProtocolCompleted(j, p)
       \/ RecordProtocolFailed(j, p)
  \/ \E a \in Callers : TakeSubscribers(j, a) \/ SendEvent(j, a)

ForwarderStep(j) == Forward(j) \/ ForwarderStops(j)

User ==
  \E c \in Pages : Leave(c) \/ \E P \in (SUBSET Protocols) \ {{}} : Click(c, P)

Server ==
  \/ \E c \in Pages : HandlerStep(c)
  \/ \E j \in JobIds : JobStep(j) \/ ForwarderStep(j)

Next == Server \/ User

Spec == Init /\ [][Next]_vars

(* The scheduler runs every goroutine that can run, and the calls RunOnce  *)
(* makes return.  Nothing is asked of the users.                           *)
FairSpec ==
  /\ Spec
  /\ \A c \in Pages : WF_vars(HandlerStep(c))
  /\ \A j \in JobIds : WF_vars(JobStep(j)) /\ WF_vars(ForwarderStep(j))

-------------------------------------------------------------------------------
(* The properties.                                                         *)

TypeOK ==
  /\ Len(jobs) <= MaxJobs /\ Len(owner) = Len(jobs)
  /\ \A j \in DOMAIN jobs :
       /\ jobs[j].status \in Statuses
       /\ Wanted(j) \in (SUBSET Protocols) \ {{}}
       /\ jobs[j].protocols \in [Wanted(j) -> [status : Statuses, found : 0 .. MaxFindings[j]]]
       /\ jobs[j].findings \in [Wanted(j) -> 0 .. MaxFindings[j]]
       /\ jobs[j].total \in Nat
       /\ owner[j] \in Pages
  /\ subscribed \subseteq JobIds /\ closed \subseteq JobIds
  /\ \A j \in JobIds : Len(queue[j]) <= Buffer
  /\ sending \subseteq JobIds \X Callers
  /\ main \in [JobIds -> {"none", "starting", "run", "wait", "ended"}]
  /\ worker \in [JobIds -> [Protocols ->
                 {"none", "seed", "scan", "found", "final", "ok", "error"}]]
  /\ \A j \in JobIds : stats[j] \in [Protocols -> 0 .. MaxFindings[j]]
  /\ handler \in [Pages -> {"reading", "created", "subscribed", "replaced",
                            "starting", "closed"}]
  /\ request \in [Pages -> SUBSET Protocols]
  /\ current \in [Pages -> JobIds \cup {None}]
  /\ forwarders \subseteq JobIds /\ cancelled \subseteq JobIds
  /\ view \in [Pages -> [status : Statuses \cup {"idle"}, total : Nat,
                         protocols : [Protocols -> Progress],
                         findings : [Protocols -> Nat]]]
  /\ panicked \in BOOLEAN

(* CreateJob refuses a second active job ("a scan job is already active"), *)
(* whatever the order in which two handlers read their messages.           *)
OneActiveJob ==
  \A i, j \in DOMAIN jobs : Active(i) /\ Active(j) => i = j

(* A job that has ended is accounted for: a completed one by protocols     *)
(* that completed and whose counters are those of its findings, a failed   *)
(* one by protocols none of which runs on (runJob waits for its goroutines *)
(* and RunOnce reports before it returns).                                 *)
EndAccountedFor ==
  \A j \in DOMAIN jobs :
    /\ jobs[j].status = "completed" =>
         /\ \A p \in Wanted(j) :
              jobs[j].protocols[p] = [status |-> "completed", found |-> jobs[j].findings[p]]
         /\ jobs[j].total = TotalOf(jobs[j].findings)
    /\ jobs[j].status = "failed" =>
         \A p \in Wanted(j) : jobs[j].protocols[p].status # "running"

(* Once completed or failed a job never changes: no late report of a       *)
(* protocol comes after the end.                                           *)
TerminalIsFinal ==
  [][\A j \in DOMAIN jobs : jobs[j].status \in Terminal => jobs'[j] = jobs[j]]_jobs

(* Although the copies of a job are sent outside the mutex, and those of   *)
(* its protocols in any order: when all are out the page shows the job as  *)
(* the registry has it, each finding once.  For a page that starts one job *)
(* (MayRepeat = {}: another start_scan makes the view fresh, even when it  *)
(* is refused), and where no buffer overflows.                             *)
PageShowsJob ==
  \A j \in DOMAIN jobs :
    (/\ \A i \in DOMAIN jobs : owner[i] = owner[j] => i = j
     /\ jobs[j].status \in Terminal
     /\ \A a \in Callers : outbox[j][a] = <<>>
     /\ queue[j] = <<>> /\ j \notin closed
     /\ request[owner[j]] = {}) =>
      LET shown == view[owner[j]]
      IN /\ shown.status = jobs[j].status /\ shown.total = jobs[j].total
         /\ \A p \in Wanted(j) : /\ shown.protocols[p] = jobs[j].protocols[p]
                               /\ shown.findings[p] = jobs[j].findings[p]

(* Every job comes to an end.                                              *)
JobsEnd ==
  \A j \in JobIds :
    (j \in DOMAIN jobs) ~> (j \in DOMAIN jobs /\ jobs[j].status \in Terminal)

(* "When the scan is over, the page should show clearly: the job has       *)
(* completed" (docs/frontend-web-console-plan.md:165): a page that stays   *)
(* open does not show a pending or running job for ever.                   *)
PageShowsEnd ==
  \A c \in Pages :
    (view[c].status \in {"pending", "running"}) ~>
      (view[c].status \notin {"pending", "running"} \/ handler[c] = "closed")
===============================================================================
