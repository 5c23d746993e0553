--------------------------- MODULE ConsolePageProofs ---------------------------
(***************************************************************************)
(* A page and the registry agree: what is in the buffers and still to be   *)
(* broadcast is what the page does not show yet.  For any number of pages, *)
(* protocols, jobs and findings and any order of the broadcasts, where     *)
(* every page starts one job and no buffer overflows.  Then the types of   *)
(* the registry and the page.                                              *)
(***************************************************************************)
EXTENDS JobConsoleProofs, FunctionTheorems, SequenceTheorems

(* The events the registry broadcasts.                                     *)
Events ==
  {Log} \cup {FindingOf(p) : p \in Protocols}
  \cup {Overview(job) : job \in JobRecords}
  \cup UNION {{Snapshot(job, p) : p \in DOMAIN job.protocols} : job \in JobRecords}

(* The events of a list that report a finding of p.                        *)
Found(s, p) == Cardinality({i \in DOMAIN s : s[i] = FindingOf(p)})

(* Only a finding is a finding.                                            *)
LEMMA Kinds ==
  ASSUME NEW p, NEW q, NEW job
  PROVE  /\ Log # FindingOf(p) /\ Overview(job) # FindingOf(p)
         /\ Snapshot(job, q) # FindingOf(p) /\ Overview(job) # Log
         /\ FindingOf(q) = FindingOf(p) => q = p
         /\ FindingOf(p).kind = "finding" /\ FindingOf(p).protocol = p
         /\ Log.kind = "log" /\ Overview(job).kind = "overview"
         /\ Snapshot(job, q).kind = "protocol"
BY DEF Log, FindingOf, Overview, Snapshot

(* The findings of a list are finitely many.                               *)
LEMMA FoundType ==
  ASSUME NEW s \in Seq(Events), NEW p
  PROVE  /\ IsFiniteSet({i \in DOMAIN s : s[i] = FindingOf(p)})
         /\ Found(s, p) \in Nat
<1>1. DOMAIN s = 1 .. Len(s) /\ Len(s) \in Nat
  OBVIOUS
<1>2. IsFiniteSet(1 .. Len(s))
  BY <1>1, FS_Interval
<1>3. {i \in DOMAIN s : s[i] = FindingOf(p)} \in SUBSET (1 .. Len(s))
  BY <1>1
<1>4. QED
  BY <1>2, <1>3, FS_Subset, FS_CardinalityType DEF Found

(* There are none in a list without any.                                   *)
LEMMA FoundNone ==
  ASSUME NEW s, NEW p, \A i \in DOMAIN s : s[i] # FindingOf(p)
  PROVE  Found(s, p) = 0
<1>1. {i \in DOMAIN s : s[i] = FindingOf(p)} = {}
  OBVIOUS
<1>2. QED
  BY <1>1, FS_EmptySet DEF Found

(* An event at the end counts when it is one.                              *)
LEMMA FoundAppend ==
  ASSUME NEW s \in Seq(Events), NEW e \in Events, NEW p
  PROVE  Found(Append(s, e), p) = Found(s, p) + IF e = FindingOf(p) THEN 1 ELSE 0
<1> DEFINE here == {i \in DOMAIN s : s[i] = FindingOf(p)}
           there == {i \in DOMAIN Append(s, e) : Append(s, e)[i] = FindingOf(p)}
           n == Len(s) + 1
<1>1. /\ DOMAIN s = 1 .. Len(s) /\ Len(s) \in Nat
      /\ DOMAIN Append(s, e) = 1 .. n
      /\ Append(s, e)[n] = e /\ \A i \in 1 .. Len(s) : Append(s, e)[i] = s[i]
  BY AppendProperties
<1>2. n \notin here /\ n \in Nat
  BY <1>1
<1>3. IsFiniteSet(here)
  BY FoundType
<1>4. CASE e = FindingOf(p)
  <2>1. there = here \cup {n}
    BY <1>1, <1>4
  <2> HIDE DEF here, there, n
  <2>2. Cardinality(there) = Cardinality(here) + 1
    BY <1>2, <1>3, <2>1, FS_AddElement
  <2>3. QED
    BY <1>4, <2>2 DEF Found, here, there
<1>5. CASE e # FindingOf(p)
  <2>1. there = here
    BY <1>1, <1>5
  <2>2. Cardinality(here) \in Nat
    BY <1>3, FS_CardinalityType
  <2>3. Found(Append(s, e), p) = Cardinality(there) /\ Found(s, p) = Cardinality(here)
    BY DEF Found
  <2> HIDE DEF here, there
  <2>4. QED
    BY <1>5, <2>1, <2>2, <2>3
<1>6. QED
  BY <1>4, <1>5

(* So does one at the head.                                                *)
LEMMA FoundTail ==
  ASSUME NEW s \in Seq(Events), s # <<>>, NEW p
  PROVE  Found(s, p) = Found(Tail(s), p) + IF Head(s) = FindingOf(p) THEN 1 ELSE 0
<1> DEFINE all == {i \in DOMAIN s : s[i] = FindingOf(p)}
           later == {i \in all : i # 1}
           rest == {i \in DOMAIN Tail(s) : Tail(s)[i] = FindingOf(p)}
           shift == [i \in rest |-> i + 1]
<1>1. /\ DOMAIN s = 1 .. Len(s) /\ Len(s) \in Nat /\ Len(s) >= 1
      /\ DOMAIN Tail(s) = 1 .. Len(s) - 1 /\ Tail(s) \in Seq(Events)
      /\ \A i \in 1 .. Len(s) - 1 : Tail(s)[i] = s[i + 1]
      /\ Head(s) = s[1]
  BY HeadTailProperties
<1>2. IsFiniteSet(rest)
  BY <1>1, FoundType
<1>3. shift \in Bijection(rest, later)
  <2>1. shift \in [rest -> later]
    BY <1>1
  <2>2. \A a, b \in rest : shift[a] = shift[b] => a = b
    BY <1>1
  <2>3. \A k \in later : \E i \in rest : shift[i] = k
    <3>1. TAKE k \in later
    <3>2. k - 1 \in rest /\ k = (k - 1) + 1
      BY <1>1
    <3>3. WITNESS k - 1 \in rest
    <3>4. QED
      BY <3>2
  <2> HIDE DEF shift, rest, later
  <2>4. QED
    BY <2>1, <2>2, <2>3, Fun_IsBij
<1>4. Cardinality(later) = Cardinality(rest) /\ IsFiniteSet(later)
  <2>1. ExistsBijection(rest, later)
    BY <1>3 DEF ExistsBijection
  <2> HIDE DEF rest, later
  <2>2. QED
    BY <1>2, <2>1, FS_Bijection
<1>5. Cardinality(rest) \in Nat
  BY <1>2, FS_CardinalityType
<1>6. CASE Head(s) = FindingOf(p)
  <2>1. all = later \cup {1} /\ 1 \notin later
    BY <1>1, <1>6
  <2> HIDE DEF all, later, rest
  <2>2. Cardinality(all) = Cardinality(later) + 1
    BY <1>4, <2>1, FS_AddElement
  <2>3. QED
    BY <1>4, <1>6, <2>2 DEF Found, all, rest
<1>7. CASE Head(s) # FindingOf(p)
  <2>1. all = later
    BY <1>1, <1>7
  <2>2. Found(s, p) = Cardinality(all) /\ Found(Tail(s), p) = Cardinality(rest)
    BY DEF Found
  <2> HIDE DEF all, later, rest
  <2>3. QED
    BY <1>4, <1>5, <1>7, <2>1, <2>2
<1>8. QED
  BY <1>6, <1>7

-------------------------------------------------------------------------------
(* What the steps do to a job, its events and its page.                    *)

(* The job has the findings it had, and the protocols.                     *)
SameFindings(new, job) ==
  /\ new.status = job.status /\ new.findings = job.findings
  /\ DOMAIN new.protocols = DOMAIN job.protocols

(* The reports on the state of a protocol leave the findings alone.        *)
LEMMA StateReports ==
  ASSUME NEW job \in JobRecords, NEW p, NEW x
  PROVE  /\ SameFindings([job EXCEPT !.protocols[p] = x], job)
         /\ SameFindings([job EXCEPT !.protocols[p].status = x], job)
         /\ SameFindings(Recalculated([job EXCEPT !.protocols[p] = x]), job)
         /\ SameFindings(Recalculated([job EXCEPT !.protocols[p].status = x]), job)
<1>1. \A ps : /\ [job EXCEPT !.protocols = ps].status = job.status
              /\ [job EXCEPT !.protocols = ps].findings = job.findings
              /\ [job EXCEPT !.protocols = ps].protocols = ps
  BY DEF JobRecords
<1>2. [job EXCEPT !.protocols[p] = x]
        = [job EXCEPT !.protocols = [job.protocols EXCEPT ![p] = x]]
  BY DEF JobRecords
<1>3. [job EXCEPT !.protocols[p].status = x]
        = [job EXCEPT !.protocols = [job.protocols EXCEPT ![p].status = x]]
  BY DEF JobRecords
<1>4. ASSUME NEW ps
      PROVE  /\ Recalculated([job EXCEPT !.protocols = ps]).status = job.status
             /\ Recalculated([job EXCEPT !.protocols = ps]).findings = job.findings
             /\ Recalculated([job EXCEPT !.protocols = ps]).protocols = ps
  <2> DEFINE new == [job EXCEPT !.protocols = ps]
             sum == TotalOf(FoundBy(new))
  <2>1. DOMAIN new = {"status", "protocols", "findings", "total"}
    BY DEF JobRecords
  <2>2. Recalculated(new) = [new EXCEPT !.total = sum]
    BY DEF Recalculated
  <2> HIDE DEF sum, new
  <2>3. /\ Recalculated(new).status = new.status
        /\ Recalculated(new).findings = new.findings
        /\ Recalculated(new).protocols = new.protocols
    BY <2>1, <2>2
  <2>4. QED
    BY <1>1, <2>3 DEF new
<1>5. QED
  BY <1>1, <1>2, <1>3, <1>4 DEF SameFindings

(* The registry replaces job j, and caller a has the events to send.       *)
Recorded(j, a, events) ==
  /\ j \in DOMAIN jobs /\ DOMAIN jobs' = DOMAIN jobs
  /\ \A i \in DOMAIN jobs : i # j => jobs'[i] = jobs[i]
  /\ DOMAIN jobs'[j].protocols = DOMAIN jobs[j].protocols
  /\ outbox[j][a] = <<>>
  /\ outbox' = [outbox EXCEPT ![j][a] = events]
  /\ UNCHANGED <<owner, subscribed, closed, queue, sending, request, current, view>>

(* A report of the goroutine of p: it has the findings that are new to the *)
(* registry among its events, and no finding of another protocol.          *)
Reported(j, p) ==
  \E events \in Seq(Events), label \in WorkerLabels \ {"none", "seed"} :
    /\ Recorded(j, p, events)
    /\ jobs[j].status = "running" /\ jobs'[j].status = "running"
    /\ \A i \in DOMAIN events, q \in Protocols : q # p => events[i] # FindingOf(q)
    /\ \A q \in Wanted(j) :
         jobs'[j].findings[q] = jobs[j].findings[q] + IF q = p THEN Found(events, p) ELSE 0
    /\ SetWorker(j, p, label)
    /\ main[j] = "wait"
    /\ UNCHANGED <<main, handler>>

(* A report of the goroutine of the job, or of the handler that starts it. *)
MainReported(j) ==
  \E events \in Seq(Events) :
    /\ events = <<Overview(jobs'[j]), Log>>
    /\ Recorded(j, "main", events)
    /\ jobs'[j].findings = jobs[j].findings
    /\ \/ main[j] = "none" /\ main' = [main EXCEPT ![j] = "starting"]
          /\ jobs'[j].status = "running"
       \/ /\ main[j] \in {"run", "wait"} /\ main' = [main EXCEPT ![j] = "ended"]
          /\ \A p \in Protocols :
               worker[j][p] \in {"none", "seed"} \/ outbox[j][p] = <<>>
          /\ UNCHANGED handler
    /\ UNCHANGED worker

(* Every step leaves records in the registry, and events about them.       *)
LEMMA RegistryEvents ==
  ASSUME IInv, IInv', NEW j \in DOMAIN jobs, NEW job, jobs' = [jobs EXCEPT ![j] = job]
  PROVE  /\ jobs[j] \in JobRecords /\ job \in JobRecords /\ jobs'[j] = job
         /\ DOMAIN jobs' = DOMAIN jobs
         /\ \A i \in DOMAIN jobs : i # j => jobs'[i] = jobs[i]
         /\ Overview(job) \in Events /\ Log \in Events
         /\ \A p \in Protocols : FindingOf(p) \in Events
         /\ \A p \in DOMAIN job.protocols : Snapshot(job, p) \in Events
<1>1. jobs \in Seq(JobRecords) /\ jobs' \in Seq(JobRecords)
  BY DEF IInv, RegistryType
<1>2. DOMAIN jobs' = DOMAIN jobs /\ jobs'[j] = job
      /\ \A i \in DOMAIN jobs : i # j => jobs'[i] = jobs[i]
  BY <1>1
<1>3. jobs[j] \in JobRecords /\ jobs'[j] \in JobRecords
  BY <1>1, <1>2
<1>4. QED
  BY <1>2, <1>3 DEF Events

(* A report with no finding among its events.                              *)
LEMMA StateReported ==
  ASSUME IInv, IInv', NEW j \in JobIds, NEW p \in Protocols,
         worker[j][p] \in {"seed", "scan", "found", "final"},
         NEW job, NEW events, NEW label \in WorkerLabels \ {"none", "seed"},
         events \in {<<Snapshot(job, p), Overview(job), Log>>, <<Snapshot(job, p), Overview(job)>>},
         Report(j, p, job, events, label), SameFindings(job, jobs[j])
  PROVE  Reported(j, p)
<1>1. /\ jobs' = [jobs EXCEPT ![j] = job] /\ SetWorker(j, p, label)
      /\ outbox[j][p] = <<>> /\ outbox' = [outbox EXCEPT ![j][p] = events]
      /\ UNCHANGED <<owner, channels, sending, main, connections, view>>
  BY DEF Report, Record
<1>2. /\ j \in DOMAIN jobs /\ p \in Wanted(j) /\ main[j] = "wait"
      /\ jobs[j].status = "running" /\ jobs[j] \in JobRecords
      /\ DOMAIN jobs[j].findings = Wanted(j)
  BY AtWork
<1>3. /\ jobs'[j] = job /\ DOMAIN jobs' = DOMAIN jobs
      /\ \A i \in DOMAIN jobs : i # j => jobs'[i] = jobs[i]
      /\ Overview(job) \in Events /\ Log \in Events /\ Snapshot(job, p) \in Events
  BY <1>1, <1>2, RegistryEvents DEF SameFindings, Wanted
<1>4. events \in Seq(Events)
  <2>1. \A a, b, d \in Events : <<a, b, d>> \in Seq(Events) /\ <<a, b>> \in Seq(Events)
    OBVIOUS
  <2>2. CASE events = <<Snapshot(job, p), Overview(job), Log>>
    BY <1>3, <2>1, <2>2, Zenon
  <2>3. CASE events = <<Snapshot(job, p), Overview(job)>>
    BY <1>3, <2>1, <2>3, Zenon
  <2>4. QED
    BY <2>2, <2>3
<1>5. \A i \in DOMAIN events, q \in Protocols : events[i] # FindingOf(q)
  BY Kinds
<1>6. Found(events, p) = 0
  BY <1>5, FoundNone
<1>7. Recorded(j, p, events)
  BY <1>1, <1>2, <1>3 DEF Recorded, SameFindings, channels, connections
<1>8. jobs[j].findings \in [Wanted(j) -> Nat]
  BY <1>2, JobFields
<1>9. \A q \in Wanted(j) :
        jobs'[j].findings[q] = jobs[j].findings[q] + IF q = p THEN Found(events, p) ELSE 0
  BY <1>3, <1>6, <1>8 DEF SameFindings
<1>10. QED
  BY <1>1, <1>2, <1>3, <1>4, <1>5, <1>7, <1>9 DEF Reported, SameFindings, connections

(* The steps of a protocol's goroutine report to the registry.             *)
LEMMA ReportsForm ==
  ASSUME IInv, IInv', NEW j \in JobIds, NEW p \in Protocols,
         \/ RecordProtocolStarted(j, p) \/ RecordFinding(j, p)
         \/ RecordProtocolProgress(j, p) \/ RecordProtocolCompleted(j, p)
         \/ RecordProtocolFailed(j, p)
  PROVE  Reported(j, p)
<1>1. worker[j][p] \in {"seed", "scan", "found", "final"}
  BY DEF RecordProtocolStarted, RecordFinding, RecordProtocolProgress,
     RecordProtocolCompleted, RecordProtocolFailed
<1>2. /\ j \in DOMAIN jobs /\ p \in Wanted(j) /\ main[j] = "wait"
      /\ jobs[j].status = "running" /\ jobs[j] \in JobRecords
      /\ DOMAIN jobs[j].findings = Wanted(j)
  BY <1>1, AtWork
<1>3. {"scan", "found", "final", "ok", "error"} \subseteq WorkerLabels \ {"none", "seed"}
  BY DEF WorkerLabels
<1>4. CASE RecordProtocolStarted(j, p)
  <2> DEFINE job == [jobs[j] EXCEPT !.protocols[p].status = "running"]
  <2>1. Report(j, p, job, <<Snapshot(job, p), Overview(job), Log>>, "scan")
    BY <1>4 DEF RecordProtocolStarted
  <2>2. SameFindings(job, jobs[j])
    BY <1>2, StateReports
  <2> HIDE DEF job
  <2>3. QED
    BY <1>1, <1>3, <2>1, <2>2, StateReported
<1>5. CASE RecordProtocolProgress(j, p)
  <2> DEFINE job == Counted(j, p, "running")
             label == IF worker[j][p] = "found" THEN "scan" ELSE "final"
  <2>1. Report(j, p, job, <<Snapshot(job, p), Overview(job)>>, label)
    BY <1>5 DEF RecordProtocolProgress
  <2>2. SameFindings(job, jobs[j])
    BY <1>2, StateReports DEF Counted
  <2>3. label \in WorkerLabels \ {"none", "seed"}
    BY <1>3
  <2> HIDE DEF job, label
  <2>4. QED
    BY <1>1, <2>1, <2>2, <2>3, StateReported
<1>6. CASE RecordProtocolCompleted(j, p)
  <2> DEFINE job == Counted(j, p, "completed")
  <2>1. Report(j, p, job, <<Snapshot(job, p), Overview(job), Log>>, "ok")
    BY <1>6 DEF RecordProtocolCompleted
  <2>2. SameFindings(job, jobs[j])
    BY <1>2, StateReports DEF Counted
  <2> HIDE DEF job
  <2>3. QED
    BY <1>1, <1>3, <2>1, <2>2, StateReported
<1>7. CASE RecordProtocolFailed(j, p)
  <2> DEFINE job == Recalculated([jobs[j] EXCEPT !.protocols[p].status = "failed"])
  <2>1. Report(j, p, job, <<Snapshot(job, p), Overview(job), Log>>, "error")
    BY <1>7 DEF RecordProtocolFailed
  <2>2. SameFindings(job, jobs[j])
    BY <1>2, StateReports
  <2> HIDE DEF job
  <2>3. QED
    BY <1>1, <1>3, <2>1, <2>2, StateReported
<1>8. CASE RecordFinding(j, p)
  <2> DEFINE job == [jobs[j] EXCEPT !.findings[p] = @ + 1]
             events == <<FindingOf(p), Log>>
  <2>1. /\ jobs' = [jobs EXCEPT ![j] = job] /\ SetWorker(j, p, "found")
        /\ outbox[j][p] = <<>> /\ outbox' = [outbox EXCEPT ![j][p] = events]
        /\ UNCHANGED <<owner, channels, sending, main, connections, view>>
    BY <1>8 DEF RecordFinding, Report, Record
  <2>2. jobs[j].findings \in [Wanted(j) -> Nat]
    BY <1>2, JobFields
  <2>3. /\ job.status = jobs[j].status /\ job.protocols = jobs[j].protocols
        /\ job.findings = [jobs[j].findings EXCEPT ![p] = @ + 1]
    BY <1>2 DEF JobRecords
  <2> HIDE DEF job
  <2>4. /\ jobs'[j] = job /\ DOMAIN jobs' = DOMAIN jobs
        /\ \A i \in DOMAIN jobs : i # j => jobs'[i] = jobs[i]
        /\ FindingOf(p) \in Events /\ Log \in Events
    BY <1>2, <2>1, RegistryEvents
  <2>5. events \in Seq(Events)
    BY <2>4
  <2>6. \A i \in DOMAIN events, q \in Protocols : q # p => events[i] # FindingOf(q)
    BY Kinds
  <2>7. Found(events, p) = 1
    <3>1. {i \in DOMAIN events : events[i] = FindingOf(p)} = {1}
      BY Kinds
    <3>2. QED
      BY <3>1, FS_Singleton DEF Found
  <2>8. Recorded(j, p, events)
    BY <1>2, <2>1, <2>3, <2>4 DEF Recorded, channels, connections
  <2> HIDE DEF events
  <2>9. \A q \in Wanted(j) :
          jobs'[j].findings[q] = jobs[j].findings[q] + IF q = p THEN Found(events, p) ELSE 0
    BY <1>2, <2>2, <2>3, <2>4, <2>7
  <2>10. QED
    BY <1>2, <1>3, <2>1, <2>3, <2>4, <2>5, <2>6, <2>8, <2>9 DEF Reported, connections
<1>9. QED
  BY <1>4, <1>5, <1>6, <1>7, <1>8

(* A new status for a job, and the two events about it.                    *)
LEMMA StatusReported ==
  ASSUME IInv, IInv', NEW j \in JobIds, j \in DOMAIN jobs, NEW x \in Statuses,
         Record(j, "main", [jobs[j] EXCEPT !.status = x],
                <<Overview([jobs[j] EXCEPT !.status = x]), Log>>),
         UNCHANGED <<owner, subscribed, closed, queue, sending, request, current, view>>
  PROVE  /\ <<Overview(jobs'[j]), Log>> \in Seq(Events)
         /\ Recorded(j, "main", <<Overview(jobs'[j]), Log>>)
         /\ jobs'[j].findings = jobs[j].findings /\ jobs'[j].status = x
<1> DEFINE job == [jobs[j] EXCEPT !.status = x]
<1>1. /\ jobs' = [jobs EXCEPT ![j] = job] /\ outbox[j]["main"] = <<>>
      /\ outbox' = [outbox EXCEPT ![j]["main"] = <<Overview(job), Log>>]
  BY DEF Record
<1>2. jobs[j] \in JobRecords
  BY JobsInRange DEF IInv
<1>3. job.findings = jobs[j].findings /\ job.protocols = jobs[j].protocols /\ job.status = x
  BY <1>2, StatusReplaced
<1> HIDE DEF job
<1>4. /\ jobs'[j] = job /\ DOMAIN jobs' = DOMAIN jobs
      /\ \A i \in DOMAIN jobs : i # j => jobs'[i] = jobs[i]
      /\ Overview(job) \in Events /\ Log \in Events
  BY <1>1, RegistryEvents
<1>5. QED
  BY <1>1, <1>3, <1>4 DEF Recorded

(* So does the handler that starts a job.                                  *)
LEMMA StartReported ==
  ASSUME IInv, IInv', NEW c \in Pages, MarkJobStarted(c)
  PROVE  \E j \in JobIds :
           /\ Starting(c, j) /\ MainReported(j)
           /\ handler[c] = "replaced" /\ handler' = [handler EXCEPT ![c] = "starting"]
<1>1. PICK j \in JobIds :
        /\ Starting(c, j)
        /\ Record(j, "main", [jobs[j] EXCEPT !.status = "running"],
                  <<Overview([jobs[j] EXCEPT !.status = "running"]), Log>>)
        /\ main' = [main EXCEPT ![j] = "starting"]
  BY DEF MarkJobStarted
<1>2. "running" \in Statuses
  BY DEF Statuses
<1>3. /\ handler[c] = "replaced" /\ handler' = [handler EXCEPT ![c] = "starting"]
      /\ UNCHANGED <<owner, subscribed, closed, queue, sending, request, current, view, worker>>
  BY DEF MarkJobStarted, channels
<1>4. j \in DOMAIN jobs /\ main[j] = "none"
  BY <1>1 DEF Starting
<1>5. /\ <<Overview(jobs'[j]), Log>> \in Seq(Events)
      /\ Recorded(j, "main", <<Overview(jobs'[j]), Log>>)
      /\ jobs'[j].findings = jobs[j].findings /\ jobs'[j].status = "running"
  BY <1>1, <1>2, <1>3, <1>4, StatusReported
<1>6. MainReported(j)
  BY <1>1, <1>3, <1>4, <1>5 DEF MainReported
<1>7. QED
  BY <1>1, <1>3, <1>6

(* And the goroutine that ends it.                                         *)
LEMMA EndReported ==
  ASSUME IInv, IInv', NEW j \in JobIds,
         NoEndpoint(j) \/ MarkJobFailed(j) \/ MarkJobCompleted(j)
  PROVE  MainReported(j) /\ main[j] \in {"run", "wait"}
<1>1. main[j] \in {"run", "wait"}
  BY DEF NoEndpoint, MarkJobFailed, MarkJobCompleted
<1>2. j \in DOMAIN jobs
  BY <1>1 DEF IInv, Unborn
<1>3. PICK x \in {"failed", "completed"} :
        /\ Record(j, "main", [jobs[j] EXCEPT !.status = x],
                  <<Overview([jobs[j] EXCEPT !.status = x]), Log>>)
        /\ main' = [main EXCEPT ![j] = "ended"]
        /\ UNCHANGED <<owner, channels, sending, worker, connections, view>>
  BY DEF NoEndpoint, MarkJobFailed, MarkJobCompleted, FailJob
<1>4. x \in Statuses
  BY DEF Statuses
<1>5. UNCHANGED <<owner, subscribed, closed, queue, sending, request, current, view>>
  BY <1>3 DEF channels, connections
<1>6. /\ <<Overview(jobs'[j]), Log>> \in Seq(Events)
      /\ Recorded(j, "main", <<Overview(jobs'[j]), Log>>)
      /\ jobs'[j].findings = jobs[j].findings
  BY <1>2, <1>3, <1>4, <1>5, StatusReported
<1>7. MainOK(jobs[j], main[j], worker[j])
  BY <1>2, WhereMainIs
<1>8. \A p \in Protocols : worker[j][p] \in {"none", "seed"} \/ outbox[j][p] = <<>>
  <2>1. CASE NoEndpoint(j)
    BY <1>7, <2>1 DEF NoEndpoint, MainOK
  <2>2. CASE MarkJobFailed(j) \/ MarkJobCompleted(j)
    BY <1>7, <2>2 DEF MarkJobFailed, MarkJobCompleted, AllReturned, MainOK, Wanted
  <2>3. QED
    BY <2>1, <2>2
<1>9. UNCHANGED <<worker, handler>>
  BY <1>3 DEF connections
<1>10. MainReported(j)
  BY <1>1, <1>3, <1>6, <1>8, <1>9 DEF MainReported
<1>11. QED
  BY <1>1, <1>10

-------------------------------------------------------------------------------
(* The events on their way.                                                *)

(* A job that has not begun has none, a protocol that has not begun has    *)
(* none to send, a caller in the middle of a broadcast has some, and a     *)
(* protocol sends the findings of its own only.                            *)
Lines(j) ==
  /\ main[j] = "none" => queue[j] = <<>> /\ \A a \in Callers : outbox[j][a] = <<>>
  /\ \A p \in Protocols : worker[j][p] \in {"none", "seed"} => outbox[j][p] = <<>>
  /\ \A a \in Callers : <<j, a>> \in sending => outbox[j][a] # <<>>
  /\ \A a \in Callers, p \in Protocols : a # p =>
       \A i \in DOMAIN outbox[j][a] : outbox[j][a][i] # FindingOf(p)

MailType ==
  /\ queue \in [JobIds -> Seq(Events)]
  /\ outbox \in [JobIds -> [Callers -> Seq(Events)]]

Mail == MailType /\ \A j \in JobIds : Lines(j)

LEMMA MailInit == Init => Mail
<1> SUFFICES ASSUME Init PROVE Mail
  OBVIOUS
<1>1. MailType
  BY DEF Init, MailType
<1>2. \A j \in JobIds : Lines(j)
  BY DEF Init, Lines, Callers
<1>3. QED
  BY <1>1, <1>2 DEF Mail

(* A step that sends nothing.                                              *)
LEMMA MailSame ==
  ASSUME Mail, UNCHANGED <<queue, outbox, sending, worker>>,
         \A i \in JobIds : main'[i] = "none" => main[i] = "none"
  PROVE  Mail'
BY DEF Mail, MailType, Lines

(* What an EXCEPT on one caller does to the outboxes.                      *)
LEMMA OutboxReplaced ==
  ASSUME MailType, NEW j \in JobIds, NEW a \in Callers, NEW s \in Seq(Events),
         outbox' = [outbox EXCEPT ![j][a] = s]
  PROVE  /\ outbox' \in [JobIds -> [Callers -> Seq(Events)]]
         /\ outbox'[j][a] = s
         /\ \A b \in Callers : b # a => outbox'[j][b] = outbox[j][b]
         /\ \A i \in JobIds : i # j => outbox'[i] = outbox[i]
BY DEF MailType

(* A job whose lines a step leaves alone.                                  *)
LEMMA LinesSame ==
  ASSUME Mail, NEW i \in JobIds, main'[i] = main[i], worker'[i] = worker[i],
         queue'[i] = queue[i], outbox'[i] = outbox[i],
         \A b \in Callers : <<i, b>> \in sending' => <<i, b>> \in sending
  PROVE  Lines(i)'
BY DEF Mail, Lines

(* What a report leaves on its way.                                        *)
LEMMA MailRecorded ==
  ASSUME Mail, NEW j \in JobIds, NEW a \in Callers, NEW events \in Seq(Events),
         Recorded(j, a, events),
         \A i \in DOMAIN events, p \in Protocols : p # a => events[i] # FindingOf(p),
         main'[j] # "none",
         a \in Protocols => worker'[j][a] \notin {"none", "seed"},
         \A p \in Protocols : p # a => worker'[j][p] = worker[j][p],
         \A i \in JobIds : i # j => main'[i] = main[i] /\ worker'[i] = worker[i]
  PROVE  Mail'
<1>1. /\ outbox' \in [JobIds -> [Callers -> Seq(Events)]]
      /\ outbox'[j][a] = events
      /\ \A b \in Callers : b # a => outbox'[j][b] = outbox[j][b]
      /\ \A i \in JobIds : i # j => outbox'[i] = outbox[i]
  BY OutboxReplaced DEF Recorded, Mail
<1>2. queue' = queue /\ sending' = sending /\ outbox[j][a] = <<>>
  BY DEF Recorded
<1>3. Protocols \subseteq Callers
  BY DEF Callers
<1>4. <<j, a>> \notin sending
  BY <1>2 DEF Mail, Lines
<1>5. Lines(j)'
  <2>1. \A p \in Protocols : worker'[j][p] \in {"none", "seed"} => outbox'[j][p] = <<>>
    BY <1>1, <1>3 DEF Mail, Lines
  <2>2. ASSUME NEW b \in Callers, <<j, b>> \in sending'
        PROVE  outbox'[j][b] # <<>>
    <3>1. <<j, b>> \in sending /\ b # a
      BY <1>2, <1>4, <2>2
    <3>2. outbox[j][b] # <<>>
      BY <3>1 DEF Mail, Lines
    <3>3. QED
      BY <1>1, <3>1, <3>2
  <2>3. \A b \in Callers, p \in Protocols : b # p =>
          \A i \in DOMAIN outbox'[j][b] : outbox'[j][b][i] # FindingOf(p)
    <3>1. ASSUME NEW b \in Callers, NEW p \in Protocols, b # p, NEW i \in DOMAIN outbox'[j][b]
          PROVE  outbox'[j][b][i] # FindingOf(p)
      <4>1. CASE b = a
        BY <1>1, <3>1, <4>1
      <4>2. CASE b # a
        <5>1. outbox'[j][b] = outbox[j][b]
          BY <1>1, <4>2
        <5>2. \A k \in DOMAIN outbox[j][b] : outbox[j][b][k] # FindingOf(p)
          BY <3>1 DEF Mail, Lines
        <5>3. QED
          BY <3>1, <5>1, <5>2
      <4>3. QED
        BY <4>1, <4>2
    <3>2. QED
      BY <3>1
  <2>4. QED
    BY <2>1, <2>2, <2>3 DEF Lines
<1>6. ASSUME NEW i \in JobIds, i # j
      PROVE  Lines(i)'
  BY <1>1, <1>2, <1>6, LinesSame
<1>7. QED
  BY <1>1, <1>2, <1>5, <1>6 DEF Mail, MailType

(* One event of a caller is out, into the buffer or to nobody.             *)
LEMMA MailSent ==
  ASSUME IInv, Mail, NEW j \in JobIds, NEW a \in Callers,
         outbox[j][a] # <<>>,
         outbox' = [outbox EXCEPT ![j][a] = Tail(@)],
         queue' \in {queue, [queue EXCEPT ![j] = Append(@, Head(outbox[j][a]))]},
         sending' = sending \ {<<j, a>>},
         UNCHANGED <<main, worker>>
  PROVE  Mail'
<1> DEFINE rest == Tail(outbox[j][a])
<1>1. outbox[j][a] \in Seq(Events)
  BY DEF Mail, MailType
<1>2. /\ rest \in Seq(Events) /\ Head(outbox[j][a]) \in Events
      /\ \A i \in DOMAIN rest : i + 1 \in DOMAIN outbox[j][a] /\ rest[i] = outbox[j][a][i + 1]
  BY <1>1, HeadTailProperties
<1>3. outbox' = [outbox EXCEPT ![j][a] = rest]
  OBVIOUS
<1> HIDE DEF rest
<1>4. /\ outbox' \in [JobIds -> [Callers -> Seq(Events)]]
      /\ outbox'[j][a] = rest
      /\ \A b \in Callers : b # a => outbox'[j][b] = outbox[j][b]
      /\ \A i \in JobIds : i # j => outbox'[i] = outbox[i]
  BY <1>2, <1>3, OutboxReplaced DEF Mail
<1>5. /\ queue' \in [JobIds -> Seq(Events)]
      /\ \A i \in JobIds : i # j => queue'[i] = queue[i]
  <2>1. queue \in [JobIds -> Seq(Events)]
    BY DEF Mail, MailType
  <2>2. Append(queue[j], Head(outbox[j][a])) \in Seq(Events)
    BY <1>2, <2>1, AppendProperties
  <2>3. QED
    BY <2>1, <2>2
<1>6. main[j] # "none" /\ (a \in Protocols => worker[j][a] \notin {"none", "seed"})
  BY DEF Mail, Lines
<1>7. Lines(j)'
  <2>1. \A p \in Protocols : worker[j][p] \in {"none", "seed"} => outbox'[j][p] = <<>>
    BY <1>4, <1>6 DEF Mail, Lines, Callers
  <2>2. \A b \in Callers : <<j, b>> \in sending' => outbox'[j][b] # <<>>
    BY <1>4 DEF Mail, Lines
  <2>3. \A p \in Protocols : a # p => \A i \in DOMAIN rest : rest[i] # FindingOf(p)
    BY <1>2 DEF Mail, Lines
  <2>4. \A b \in Callers, p \in Protocols : b # p =>
          \A i \in DOMAIN outbox'[j][b] : outbox'[j][b][i] # FindingOf(p)
    BY <1>4, <2>3 DEF Mail, Lines
  <2>5. QED
    BY <1>6, <2>1, <2>2, <2>4 DEF Lines
<1>8. ASSUME NEW i \in JobIds, i # j
      PROVE  Lines(i)'
  <2>1. \A b \in Callers : <<i, b>> \in sending' => <<i, b>> \in sending
    OBVIOUS
  <2>2. QED
    BY <1>4, <1>5, <1>8, <2>1, LinesSame
<1>9. QED
  BY <1>4, <1>5, <1>7, <1>8 DEF Mail, MailType

(* A report of the goroutine of a job, or of its handler.                  *)
LEMMA MailMain ==
  ASSUME IInv, Mail, NEW j \in JobIds, MainReported(j)
  PROVE  Mail'
<1>1. PICK events \in Seq(Events) :
        /\ events = <<Overview(jobs'[j]), Log>> /\ Recorded(j, "main", events)
        /\ main' \in {[main EXCEPT ![j] = "starting"], [main EXCEPT ![j] = "ended"]}
        /\ worker' = worker
  BY DEF MainReported
<1>2. \A i \in DOMAIN events, p \in Protocols : events[i] # FindingOf(p)
  BY <1>1, Kinds
<1>3. main'[j] # "none" /\ \A i \in JobIds : i # j => main'[i] = main[i]
  BY <1>1 DEF IInv, RegistryType
<1>4. "main" \in Callers /\ "main" \notin Protocols
  BY ConsoleAssumption DEF Callers
<1>5. Recorded(j, "main", events) /\ worker' = worker
  BY <1>1
<1>6. QED
  BY <1>2, <1>3, <1>4, <1>5, MailRecorded

(* The steps of the goroutines of a job.                                   *)
LEMMA MailOfJob ==
  ASSUME IInv, IInv', Mail, NEW j \in JobIds, JobStep(j)
  PROVE  Mail'
<1>1. CASE RunJob(j)
  <2>1. /\ main[j] = "run" /\ main' = [main EXCEPT ![j] = "wait"]
        /\ \A i \in JobIds : i # j => worker'[i] = worker[i]
        /\ UNCHANGED <<queue, outbox, sending>>
    BY <1>1 DEF RunJob, channels, broadcasts, IInv, RegistryType
  <2>2. j \in DOMAIN jobs
    BY <2>1 DEF IInv, Unborn
  <2>3. \A p \in Protocols : worker[j][p] = "none"
    BY <2>1, <2>2, WhereMainIs DEF MainOK
  <2>4. \A p \in Protocols : outbox[j][p] = <<>>
    BY <2>3 DEF Mail, Lines
  <2>5. \A i \in JobIds : main'[i] = "none" => main[i] = "none"
    BY <2>1 DEF IInv, RegistryType
  <2>6. Lines(j)'
    BY <2>1, <2>4, <2>5 DEF Mail, Lines
  <2>7. \A i \in JobIds : i # j => Lines(i)'
    BY <2>1, <2>5 DEF Mail, Lines
  <2>8. QED
    BY <2>1, <2>6, <2>7 DEF Mail, MailType
<1>2. CASE NoEndpoint(j) \/ MarkJobFailed(j) \/ MarkJobCompleted(j)
  BY <1>2, EndReported, MailMain
<1>3. ASSUME NEW p \in Protocols, SeedFails(j, p)
      PROVE  Mail'
  <2>1. /\ worker' = [worker EXCEPT ![j][p] = "error"]
        /\ UNCHANGED <<queue, outbox, sending, main>>
    BY <1>3 DEF SeedFails, SetWorker, channels, broadcasts
  <2>2. \A i \in JobIds, q \in Protocols :
          worker'[i][q] \in {"none", "seed"} => worker[i][q] \in {"none", "seed"}
    BY <2>1 DEF IInv, RegistryType
  <2>3. QED
    BY <2>1, <2>2 DEF Mail, MailType, Lines
<1>4. ASSUME NEW p \in Protocols,
             \/ RecordProtocolStarted(j, p) \/ RecordFinding(j, p)
             \/ RecordProtocolProgress(j, p) \/ RecordProtocolCompleted(j, p)
             \/ RecordProtocolFailed(j, p)
      PROVE  Mail'
  <2>1. Reported(j, p)
    BY <1>4, ReportsForm
  <2>2. PICK events \in Seq(Events), label \in WorkerLabels \ {"none", "seed"} :
          /\ Recorded(j, p, events)
          /\ \A i \in DOMAIN events, q \in Protocols : q # p => events[i] # FindingOf(q)
          /\ SetWorker(j, p, label) /\ main[j] = "wait" /\ main' = main
    BY <2>1 DEF Reported
  <2>3. /\ worker'[j][p] = label
        /\ \A q \in Protocols : q # p => worker'[j][q] = worker[j][q]
        /\ \A i \in JobIds : i # j => worker'[i] = worker[i]
    BY <2>2 DEF SetWorker, IInv, RegistryType
  <2>4. p \in Callers
    BY DEF Callers
  <2>5. QED
    BY <2>2, <2>3, <2>4, MailRecorded
<1>5. ASSUME NEW a \in Callers, TakeSubscribers(j, a)
      PROVE  Mail'
  <2>1. /\ outbox[j][a] # <<>> /\ <<j, a>> \notin sending
        /\ UNCHANGED <<queue, main, worker>>
    BY <1>5 DEF TakeSubscribers, channels, goroutines
  <2>2. CASE j \in subscribed
    BY <1>5, <2>1, <2>2 DEF TakeSubscribers, Mail, MailType, Lines
  <2>3. CASE j \notin subscribed
    <3>1. outbox' = [outbox EXCEPT ![j][a] = Tail(@)] /\ sending' = sending \ {<<j, a>>}
      BY <1>5, <2>1, <2>3 DEF TakeSubscribers
    <3>2. QED
      BY <2>1, <3>1, MailSent
  <2>4. QED
    BY <2>2, <2>3
<1>6. ASSUME NEW a \in Callers, SendEvent(j, a)
      PROVE  Mail'
  <2>1. /\ <<j, a>> \in sending /\ sending' = sending \ {<<j, a>>}
        /\ outbox' = [outbox EXCEPT ![j][a] = Tail(@)]
        /\ queue' \in {queue, [queue EXCEPT ![j] = Append(@, Head(outbox[j][a]))]}
        /\ UNCHANGED <<main, worker>>
    BY <1>6 DEF SendEvent, goroutines
  <2>2. outbox[j][a] # <<>>
    BY <2>1 DEF Mail, Lines
  <2>3. QED
    BY <2>1, <2>2, MailSent
<1>7. QED
  BY <1>1, <1>2, <1>3, <1>4, <1>5, <1>6 DEF JobStep

(* Every step.                                                             *)
LEMMA MailStep ==
  ASSUME IInv, IInv', Mail, [Next]_vars
  PROVE  Mail'
<1>1. ASSUME NEW c \in Pages, HandlerStep(c)
      PROVE  Mail'
  <2>1. CASE CreateJob(c) \/ RefuseJob(c) \/ Subscribe(c) \/ ReplaceSubscription(c)
    <3>1. UNCHANGED <<queue, outbox, sending, worker, main>>
      BY <2>1 DEF CreateJob, RefuseJob, Subscribe, ReplaceSubscription, channels,
         broadcasts, goroutines
    <3>2. QED
      BY <3>1, MailSame
  <2>2. CASE SpawnJob(c)
    <3>1. UNCHANGED <<queue, outbox, sending, worker>>
      BY <2>2 DEF SpawnJob, channels, broadcasts
    <3>2. \A i \in JobIds : main'[i] = "none" => main[i] = "none"
      BY <2>2 DEF SpawnJob, IInv, RegistryType
    <3>3. QED
      BY <3>1, <3>2, MailSame
  <2>3. CASE MarkJobStarted(c)
    BY <2>3, StartReported, MailMain
  <2>4. QED
    BY <1>1, <2>1, <2>2, <2>3 DEF HandlerStep
<1>2. ASSUME NEW j \in JobIds, JobStep(j)
      PROVE  Mail'
  BY <1>2, MailOfJob
<1>3. ASSUME NEW j \in JobIds, Forward(j)
      PROVE  Mail'
  <2>1. /\ queue[j] # <<>> /\ queue' = [queue EXCEPT ![j] = Tail(@)]
        /\ UNCHANGED <<outbox, sending, main, worker>>
    BY <1>3 DEF Forward, broadcasts, goroutines
  <2>2. queue[j] \in Seq(Events)
    BY DEF Mail, MailType
  <2>3. Tail(queue[j]) \in Seq(Events)
    BY <2>1, <2>2
  <2>4. /\ queue' \in [JobIds -> Seq(Events)] /\ main[j] # "none"
        /\ \A i \in JobIds : i # j => queue'[i] = queue[i]
    BY <2>1, <2>3 DEF Mail, MailType, Lines
  <2>5. QED
    BY <2>1, <2>4 DEF Mail, MailType, Lines
<1>4. CASE \/ \E j \in JobIds : ForwarderStops(j)
           \/ \E c \in Pages : Leave(c) \/ \E P \in (SUBSET Protocols) \ {{}} : Click(c, P)
           \/ UNCHANGED vars
  <2>1. UNCHANGED <<queue, outbox, sending, worker, main>>
    BY <1>4 DEF ForwarderStops, Leave, Click, vars, channels, broadcasts, goroutines
  <2>2. QED
    BY <2>1, MailSame
<1>5. QED
  BY <1>1, <1>2, <1>3, <1>4 DEF Next, Server, User, ForwarderStep

-------------------------------------------------------------------------------
(* A page, its handler and its job.                                        *)

HandlerLabels == {"reading", "created", "subscribed", "replaced", "starting", "closed"}

(* While a job is being started its handler is at one of the steps of      *)
(* that; afterwards the handler holds the subscription until the page      *)
(* leaves.                                                                 *)
Connected(j) ==
  LET h == handler[owner[j]]
  IN /\ main[j] = "none" =>
          /\ j \notin closed
          /\ \/ h \in {"created", "subscribed"} /\ current[owner[j]] = None
             \/ h = "replaced" /\ current[owner[j]] = j
     /\ main[j] # "none" /\ j \notin closed =>
          h \in {"starting", "reading"} /\ current[owner[j]] = j
     /\ j \notin closed /\ h # "created" => j \in subscribed

PagesType ==
  /\ owner \in Seq(Pages) /\ Len(owner) = Len(jobs)
  /\ handler \in [Pages -> HandlerLabels]
  /\ current \in [Pages -> JobIds \cup {None}]
  /\ closed \subseteq DOMAIN jobs

(* A page has at most one job, and no request once it has one.             *)
OneEach ==
  /\ \A i, j \in DOMAIN jobs : owner[i] = owner[j] => i = j
  /\ \A j \in DOMAIN jobs : request[owner[j]] = {}

PagesOK ==
  /\ PagesType /\ OneEach
  /\ \A c \in Pages : current[c] # None =>
       current[c] \in DOMAIN jobs /\ owner[current[c]] = c
  /\ \A j \in DOMAIN jobs : Connected(j)

LEMMA PagesInit == Init => PagesOK
<1> SUFFICES ASSUME Init PROVE PagesOK
  OBVIOUS
<1>1. PagesType /\ DOMAIN jobs = {}
  BY DEF Init, PagesType, HandlerLabels
<1>2. \A c \in Pages : current[c] = None
  BY DEF Init
<1>3. QED
  BY <1>1, <1>2 DEF PagesOK, OneEach

(* The owner of a job is a page.                                           *)
LEMMA Owners ==
  ASSUME IInv, PagesOK
  PROVE  /\ DOMAIN owner = DOMAIN jobs /\ DOMAIN jobs \subseteq JobIds
         /\ \A j \in DOMAIN jobs : owner[j] \in Pages
         /\ None \notin JobIds
<1>1. DOMAIN jobs = 1 .. Len(jobs) /\ DOMAIN jobs \subseteq JobIds
  BY JobsInRange DEF IInv
<1>2. QED
  BY <1>1, ConsoleAssumption DEF PagesOK, PagesType, JobIds

(* A step that leaves the connections alone, whatever the goroutines do.   *)
LEMMA PagesSame ==
  ASSUME IInv, IInv', PagesOK,
         UNCHANGED <<owner, closed, subscribed, handler, current, request>>,
         DOMAIN jobs' = DOMAIN jobs,
         \A i \in JobIds : main'[i] = "none" <=> main[i] = "none"
  PROVE  PagesOK'
<1>1. Len(jobs') = Len(jobs)
  <2>1. /\ Len(jobs) \in Nat /\ DOMAIN jobs = 1 .. Len(jobs)
        /\ Len(jobs') \in Nat /\ DOMAIN jobs' = 1 .. Len(jobs')
    BY DEF IInv, RegistryType
  <2>2. QED
    BY <2>1
<1>2. PagesType'
  BY <1>1 DEF PagesOK, PagesType
<1>3. OneEach'
  BY DEF PagesOK, OneEach
<1>4. \A j \in DOMAIN jobs' : Connected(j)'
  BY Owners DEF PagesOK, Connected
<1>5. QED
  BY <1>2, <1>3, <1>4 DEF PagesOK

(* A step of the handler of c, and of the job that is its own: the other   *)
(* jobs stay as they are.                                                  *)
LEMMA PagesOfHandler ==
  ASSUME IInv, PagesOK, NEW c \in Pages,
         NEW h \in HandlerLabels, NEW k \in DOMAIN jobs \cup {None},
         UNCHANGED owner, DOMAIN jobs' = DOMAIN jobs, Len(jobs') = Len(jobs),
         handler' = [handler EXCEPT ![c] = h],
         current' = [current EXCEPT ![c] = k],
         closed' \subseteq DOMAIN jobs,
         request' \in {request, [request EXCEPT ![c] = {}]},
         k # None => owner[k] = c,
         \A j \in DOMAIN jobs : owner[j] # c =>
           /\ main'[j] = main[j] /\ (j \in closed' <=> j \in closed)
           /\ (j \in subscribed => j \in subscribed'),
         \A j \in DOMAIN jobs : owner[j] = c => Connected(j)'
  PROVE  PagesOK'
<1>1. DOMAIN jobs \subseteq JobIds /\ \A j \in DOMAIN jobs : owner[j] \in Pages
  BY Owners
<1>2. /\ handler'[c] = h /\ \A d \in Pages : d # c => handler'[d] = handler[d]
      /\ current'[c] = k /\ \A d \in Pages : d # c => current'[d] = current[d]
  BY DEF PagesOK, PagesType
<1>3. PagesType'
  BY <1>1 DEF PagesOK, PagesType
<1>4. OneEach'
  <2>1. \A d \in Pages : request[d] = {} => request'[d] = {}
    BY DEF IInv, RegistryType
  <2>2. QED
    BY <1>1, <2>1 DEF PagesOK, OneEach
<1>5. ASSUME NEW j \in DOMAIN jobs, owner[j] # c
      PROVE  Connected(j)'
  BY <1>1, <1>2, <1>5 DEF PagesOK, Connected
<1>6. \A d \in Pages : current'[d] # None =>
        current'[d] \in DOMAIN jobs /\ owner[current'[d]] = d
  BY <1>2 DEF PagesOK
<1>7. QED
  BY <1>3, <1>4, <1>5, <1>6 DEF PagesOK

(* There is a place in the registry for a job that is asked for.           *)
LEMMA RoomForJob ==
  ASSUME IInv, NEW c \in Pages, request[c] # {}
  PROVE  Len(jobs) + 1 \in JobIds
<1>1. c \in Pending
  BY DEF Pending
<1>2. Len(jobs) \in Nat /\ Cardinality(Pending) \in Nat
  BY JobsInRange DEF IInv
<1>3. Cardinality(Pending) # 0
  <2>1. Pending \in SUBSET Pages /\ IsFiniteSet(Pages)
    BY ConsoleAssumption DEF Pending
  <2>2. IsFiniteSet(Pending)
    BY <2>1, FS_Subset
  <2>3. QED
    BY <1>1, <2>2, FS_EmptySet
<1>4. Len(jobs) + Cardinality(Pending) <= MaxJobs
  BY DEF IInv, RegistryType
<1>5. QED
  BY <1>2, <1>3, <1>4, ConsoleAssumption DEF JobIds

(* The new job of a page that has none.                                    *)
LEMMA JobCreated ==
  ASSUME IInv, PagesOK, NEW c \in Pages, CreateJob(c)
  PROVE  LET new == Len(jobs) + 1
         IN /\ new \in JobIds \ DOMAIN jobs /\ main[new] = "none"
            /\ DOMAIN jobs' = DOMAIN jobs \cup {new}
            /\ Len(jobs') = new
            /\ jobs'[new] = NewJob(request[c])
            /\ request[c] \in SUBSET Protocols
            /\ \A i \in DOMAIN jobs : jobs'[i] = jobs[i]
            /\ owner' \in Seq(Pages) /\ Len(owner') = new /\ owner'[new] = c
            /\ \A i \in DOMAIN jobs : owner'[i] = owner[i] /\ owner[i] # c
            /\ current[c] = None
<1> DEFINE new == Len(jobs) + 1
<1>1. request[c] \in SUBSET Protocols /\ request[c] # {}
  BY DEF IInv, RegistryType, CreateJob
<1>2. jobs' = Append(jobs, NewJob(request[c])) /\ owner' = Append(owner, c)
  BY DEF CreateJob
<1>3. NewJob(request[c]) \in JobRecords
  BY <1>1, NewJobType
<1>4. /\ Len(jobs') = new
      /\ DOMAIN jobs' = DOMAIN jobs \cup {new} /\ new \notin DOMAIN jobs
      /\ jobs'[new] = NewJob(request[c])
      /\ \A i \in DOMAIN jobs : jobs'[i] = jobs[i]
  BY <1>2, <1>3, JobAppended DEF IInv
<1>5. Len(jobs) \in Nat /\ DOMAIN jobs = 1 .. Len(jobs) /\ Cardinality(Pending) \in Nat
  BY JobsInRange DEF IInv
<1>6. owner \in Seq(Pages) /\ Len(owner) = Len(jobs)
  BY DEF PagesOK, PagesType
<1>7. /\ owner' \in Seq(Pages) /\ Len(owner') = new /\ owner'[new] = c
      /\ \A i \in DOMAIN jobs : owner'[i] = owner[i]
  BY <1>2, <1>5, <1>6
<1>8. new \in JobIds
  BY <1>1, RoomForJob
<1>9. \A i \in DOMAIN jobs : owner[i] # c
  BY <1>1 DEF PagesOK, OneEach
<1>10. current[c] = None
  BY <1>9 DEF PagesOK
<1>11. main[new] = "none"
  BY <1>4, <1>8 DEF IInv, Unborn
<1>12. QED
  BY <1>1, <1>4, <1>7, <1>8, <1>9, <1>10, <1>11

LEMMA PagesOfCreate ==
  ASSUME IInv, PagesOK, NEW c \in Pages, CreateJob(c)
  PROVE  PagesOK'
<1>1. PICK new \in JobIds :
      /\ new \notin DOMAIN jobs /\ main[new] = "none"
      /\ DOMAIN jobs' = DOMAIN jobs \cup {new} /\ Len(jobs') = new
      /\ owner' \in Seq(Pages) /\ Len(owner') = new /\ owner'[new] = c
      /\ \A i \in DOMAIN jobs : owner'[i] = owner[i] /\ owner[i] # c
      /\ current[c] = None
  BY JobCreated
<1>2. /\ handler' = [handler EXCEPT ![c] = "created"]
      /\ request' = [request EXCEPT ![c] = {}]
      /\ UNCHANGED <<subscribed, closed, main, current>>
  BY DEF CreateJob, channels, goroutines
<1>3. /\ handler' \in [Pages -> HandlerLabels] /\ handler'[c] = "created"
      /\ \A d \in Pages : d # c => handler'[d] = handler[d]
  BY <1>2 DEF PagesOK, PagesType, HandlerLabels
<1>4. request'[c] = {} /\ \A d \in Pages : d # c => request'[d] = request[d]
  BY <1>2 DEF IInv, RegistryType
<1>5. \A i \in DOMAIN jobs : owner[i] \in Pages
  BY Owners
<1>6. PagesType'
  <2>1. closed' \subseteq DOMAIN jobs' /\ current' \in [Pages -> JobIds \cup {None}]
    BY <1>1, <1>2 DEF PagesOK, PagesType
  <2>2. owner' \in Seq(Pages) /\ Len(owner') = Len(jobs')
    BY <1>1
  <2>3. QED
    BY <1>3, <2>1, <2>2 DEF PagesType
<1>7. OneEach'
  <2>1. OneEach
    BY DEF PagesOK
  <2>2. \A i, j \in DOMAIN jobs' : owner'[i] = owner'[j] => i = j
    BY <1>1, <2>1 DEF OneEach
  <2>3. ASSUME NEW j \in DOMAIN jobs'
        PROVE  request'[owner'[j]] = {}
    <3>1. CASE j = new
      BY <1>1, <1>4, <3>1
    <3>2. CASE j # new
      BY <1>1, <1>4, <1>5, <2>1, <2>3, <3>2 DEF OneEach
    <3>3. QED
      BY <3>1, <3>2
  <2>4. QED
    BY <2>2, <2>3 DEF OneEach
<1>8. Connected(new)'
  BY <1>1, <1>2, <1>3 DEF Connected, PagesOK, PagesType
<1>9. ASSUME NEW i \in DOMAIN jobs
      PROVE  Connected(i)'
  <2>1. /\ owner'[i] = owner[i] /\ handler'[owner[i]] = handler[owner[i]]
        /\ current' = current /\ main' = main /\ closed' = closed /\ subscribed' = subscribed
    BY <1>1, <1>2, <1>3, <1>5
  <2>2. Connected(i)
    BY DEF PagesOK
  <2>3. QED
    BY <2>1, <2>2 DEF Connected
<1>10. \A d \in Pages : current'[d] # None =>
         current'[d] \in DOMAIN jobs' /\ owner'[current'[d]] = d
  BY <1>1, <1>2 DEF PagesOK
<1>11. QED
  BY <1>1, <1>6, <1>7, <1>8, <1>9, <1>10 DEF PagesOK

(* The job a handler is starting is the only one of its page.              *)
LEMMA OnlyOne ==
  ASSUME IInv, PagesOK, NEW c \in Pages, NEW j \in DOMAIN jobs, owner[j] = c
  PROVE  /\ \A i \in DOMAIN jobs : owner[i] = c => i = j
         /\ Held(c) = IF current[c] = j THEN {j} ELSE {}
         /\ current[c] # j => current[c] = None
         /\ Connected(j) /\ j # None
BY Owners DEF PagesOK, OneEach, Held

(* The other steps of a handler, and the page that leaves.                 *)
LEMMA PagesOfStart ==
  ASSUME IInv, IInv', PagesOK, NEW c \in Pages,
         \/ Subscribe(c) \/ ReplaceSubscription(c) \/ MarkJobStarted(c) \/ SpawnJob(c)
  PROVE  PagesOK'
<1>1. /\ DOMAIN jobs \subseteq JobIds /\ closed \subseteq DOMAIN jobs
      /\ handler \in [Pages -> HandlerLabels] /\ current \in [Pages -> JobIds \cup {None}]
      /\ main \in [JobIds -> MainLabels]
  BY Owners DEF PagesOK, PagesType, IInv, RegistryType
<1>2. CASE Subscribe(c)
  <2>1. PICK j \in JobIds : Starting(c, j) /\ subscribed' = subscribed \cup {j}
    BY <1>2 DEF Subscribe
  <2>2. /\ handler[c] = "created" /\ handler' = [handler EXCEPT ![c] = "subscribed"]
        /\ UNCHANGED <<jobs, owner, closed, main, request, current>>
    BY <1>2 DEF Subscribe, registry, goroutines
  <2>3. j \in DOMAIN jobs /\ owner[j] = c /\ main[j] = "none"
    BY <2>1 DEF Starting
  <2>4. Connected(j)'
    BY <1>1, <2>1, <2>2, <2>3, OnlyOne DEF Connected
  <2>5. current' = [current EXCEPT ![c] = current[c]] /\ "subscribed" \in HandlerLabels
    BY <1>1, <2>2 DEF HandlerLabels
  <2>6. current[c] \in DOMAIN jobs \cup {None} /\ (current[c] # None => owner[current[c]] = c)
    BY DEF PagesOK
  <2>7. \A i \in DOMAIN jobs : owner[i] = c => Connected(i)'
    BY <2>3, <2>4, OnlyOne
  <2>8. QED
    BY <1>1, <2>1, <2>2, <2>5, <2>6, <2>7, PagesOfHandler
<1>3. CASE ReplaceSubscription(c)
  <2>1. PICK j \in JobIds : Starting(c, j) /\ current' = [current EXCEPT ![c] = j]
    BY <1>3 DEF ReplaceSubscription
  <2>2. /\ handler[c] = "subscribed" /\ handler' = [handler EXCEPT ![c] = "replaced"]
        /\ subscribed' = subscribed \ Held(c) /\ closed' = closed \cup Held(c)
        /\ UNCHANGED <<jobs, owner, main, request>>
    BY <1>3 DEF ReplaceSubscription, registry, goroutines, Unsubscribe
  <2>3. j \in DOMAIN jobs /\ owner[j] = c /\ main[j] = "none"
    BY <2>1 DEF Starting
  <2>4. current[c] = None /\ j \notin closed /\ j \in subscribed
    BY <2>2, <2>3, OnlyOne DEF Connected
  <2>5. Held(c) = {}
    BY <2>4 DEF Held
  <2>6. Connected(j)'
    BY <1>1, <2>1, <2>2, <2>3, <2>4, <2>5 DEF Connected
  <2>7. \A i \in DOMAIN jobs : owner[i] = c => Connected(i)'
    BY <2>3, <2>6, OnlyOne
  <2>8. "replaced" \in HandlerLabels
    BY DEF HandlerLabels
  <2>9. QED
    BY <1>1, <2>1, <2>2, <2>3, <2>5, <2>7, <2>8, PagesOfHandler
<1>4. CASE MarkJobStarted(c)
  <2>1. PICK j \in JobIds :
          /\ Starting(c, j) /\ MainReported(j)
          /\ handler[c] = "replaced" /\ handler' = [handler EXCEPT ![c] = "starting"]
    BY <1>4, StartReported
  <2>2. j \in DOMAIN jobs /\ owner[j] = c /\ main[j] = "none"
    BY <2>1 DEF Starting
  <2>3. /\ main' = [main EXCEPT ![j] = "starting"] /\ DOMAIN jobs' = DOMAIN jobs
        /\ UNCHANGED <<owner, subscribed, closed, request, current>>
    BY <2>1, <2>2 DEF MainReported, Recorded
  <2>4. Connected(j)'
    BY <1>1, <2>1, <2>2, <2>3, OnlyOne DEF Connected
  <2>5. current' = [current EXCEPT ![c] = current[c]] /\ "starting" \in HandlerLabels
    BY <1>1, <2>3 DEF HandlerLabels
  <2>6. current[c] \in DOMAIN jobs \cup {None} /\ (current[c] # None => owner[current[c]] = c)
    BY DEF PagesOK
  <2>7. \A i \in DOMAIN jobs : owner[i] = c => Connected(i)'
    BY <2>2, <2>4, OnlyOne
  <2>8. Len(jobs') = Len(jobs)
    <3>1. /\ Len(jobs) \in Nat /\ DOMAIN jobs = 1 .. Len(jobs)
          /\ Len(jobs') \in Nat /\ DOMAIN jobs' = 1 .. Len(jobs')
      BY DEF IInv, RegistryType
    <3>2. QED
      BY <2>3, <3>1
  <2>9. \A i \in DOMAIN jobs : owner[i] # c => main'[i] = main[i]
    BY <1>1, <2>2, <2>3
  <2>10. QED
    BY <1>1, <2>1, <2>3, <2>5, <2>6, <2>7, <2>8, <2>9, PagesOfHandler
<1>5. CASE SpawnJob(c)
  <2>1. PICK j \in JobIds :
          /\ j \in DOMAIN jobs /\ owner[j] = c /\ main[j] = "starting"
          /\ main' = [main EXCEPT ![j] = "run"]
    BY <1>5 DEF SpawnJob
  <2>2. /\ handler[c] = "starting" /\ handler' = [handler EXCEPT ![c] = "reading"]
        /\ UNCHANGED <<jobs, owner, subscribed, closed, request, current>>
    BY <1>5 DEF SpawnJob, registry, channels
  <2>3. Connected(j)'
    BY <1>1, <2>1, <2>2, OnlyOne DEF Connected
  <2>4. current' = [current EXCEPT ![c] = current[c]] /\ "reading" \in HandlerLabels
    BY <1>1, <2>2 DEF HandlerLabels
  <2>5. current[c] \in DOMAIN jobs \cup {None} /\ (current[c] # None => owner[current[c]] = c)
    BY DEF PagesOK
  <2>6. \A i \in DOMAIN jobs : owner[i] = c => Connected(i)'
    BY <2>1, <2>3, OnlyOne
  <2>7. \A i \in DOMAIN jobs : owner[i] # c => main'[i] = main[i]
    BY <1>1, <2>1
  <2>8. QED
    BY <1>1, <2>2, <2>4, <2>5, <2>6, <2>7, PagesOfHandler
<1>6. QED
  BY <1>2, <1>3, <1>4, <1>5

(* A page that leaves closes the channel of its job.                       *)
LEMMA PagesOfLeave ==
  ASSUME IInv, PagesOK, NEW c \in Pages, Leave(c)
  PROVE  PagesOK'
<1>1. /\ handler[c] = "reading" /\ handler' = [handler EXCEPT ![c] = "closed"]
      /\ request' = [request EXCEPT ![c] = {}]
      /\ current' = [current EXCEPT ![c] = None]
      /\ subscribed' = subscribed \ Held(c) /\ closed' = closed \cup Held(c)
      /\ UNCHANGED <<jobs, owner, main>>
  BY DEF Leave, registry, goroutines, Unsubscribe
<1>2. /\ DOMAIN jobs \subseteq JobIds /\ closed \subseteq DOMAIN jobs
      /\ handler \in [Pages -> HandlerLabels] /\ current \in [Pages -> JobIds \cup {None}]
  BY Owners DEF PagesOK, PagesType
<1>3. Held(c) \subseteq DOMAIN jobs /\ \A i \in Held(c) : owner[i] = c
  BY DEF PagesOK, Held
<1>4. ASSUME NEW j \in DOMAIN jobs, owner[j] = c
      PROVE  Connected(j)'
  <2>1. main[j] # "none" /\ (j \notin closed => current[c] = j)
    BY <1>1, <1>4, OnlyOne DEF Connected
  <2>2. j \in closed'
    BY <1>1, <1>4, <2>1, Owners DEF Held
  <2>3. QED
    BY <1>1, <2>1, <2>2 DEF Connected
<1>5. "closed" \in HandlerLabels
  BY DEF HandlerLabels
<1>6. \A j \in DOMAIN jobs : owner[j] # c =>
        (j \in closed' <=> j \in closed) /\ (j \in subscribed => j \in subscribed')
  BY <1>1, <1>3
<1>7. QED
  BY <1>1, <1>2, <1>3, <1>4, <1>5, <1>6, PagesOfHandler

(* A click: the page has no job.                                           *)
LEMMA ClickIsFirst ==
  ASSUME IInv, PagesOK, MayRepeat = {},
         NEW c \in Pages, NEW P \in SUBSET Protocols, Click(c, P)
  PROVE  /\ \A j \in DOMAIN jobs : owner[j] # c
         /\ view' = [view EXCEPT ![c] = FreshView(P)]
         /\ request' = [request EXCEPT ![c] = P]
         /\ UNCHANGED <<jobs, owner, subscribed, closed, queue, outbox, sending, main,
                        worker, handler, current>>
<1>1. c \notin Range(owner)
  BY DEF Click
<1>2. QED
  BY <1>1, Owners DEF Click, Range, registry, channels, broadcasts, goroutines

(* The steps that leave the connections alone.                             *)
LEMMA ConnectionsKept ==
  ASSUME IInv, IInv', NEW j \in JobIds, JobStep(j) \/ ForwarderStep(j)
  PROVE  /\ UNCHANGED <<owner, closed, subscribed, handler, current, request>>
         /\ DOMAIN jobs' = DOMAIN jobs
         /\ \A i \in JobIds : main'[i] = "none" <=> main[i] = "none"
<1>1. main \in [JobIds -> MainLabels]
  BY DEF IInv, RegistryType
<1>2. CASE RunJob(j)
  BY <1>1, <1>2 DEF RunJob, registry, channels, connections
<1>3. CASE NoEndpoint(j) \/ MarkJobFailed(j) \/ MarkJobCompleted(j)
  <2>1. MainReported(j) /\ main[j] \in {"run", "wait"}
    BY <1>3, EndReported
  <2>2. QED
    BY <1>1, <2>1 DEF MainReported, Recorded
<1>4. ASSUME NEW p \in Protocols, SeedFails(j, p)
      PROVE  UNCHANGED <<jobs, owner, closed, subscribed, handler, current, request, main>>
  BY <1>4 DEF SeedFails, registry, channels, connections
<1>5. ASSUME NEW p \in Protocols,
             \/ RecordProtocolStarted(j, p) \/ RecordFinding(j, p)
             \/ RecordProtocolProgress(j, p) \/ RecordProtocolCompleted(j, p)
             \/ RecordProtocolFailed(j, p)
      PROVE  /\ UNCHANGED <<owner, closed, subscribed, handler, current, request, main>>
             /\ DOMAIN jobs' = DOMAIN jobs
  BY <1>5, ReportsForm DEF Reported, Recorded
<1>6. ASSUME NEW a \in Callers, TakeSubscribers(j, a) \/ SendEvent(j, a)
      PROVE  UNCHANGED <<jobs, owner, closed, subscribed, handler, current, request, main>>
  BY <1>6 DEF TakeSubscribers, SendEvent, registry, channels, goroutines, connections
<1>7. CASE ForwarderStep(j)
  BY <1>7 DEF ForwarderStep, Forward, ForwarderStops, registry, channels, goroutines, connections
<1>8. QED
  BY <1>2, <1>3, <1>4, <1>5, <1>6, <1>7 DEF JobStep

LEMMA PagesStep ==
  ASSUME IInv, IInv', PagesOK, MayRepeat = {}, [Next]_vars
  PROVE  PagesOK'
<1>1. ASSUME NEW c \in Pages, HandlerStep(c)
      PROVE  PagesOK'
  <2>1. CASE RefuseJob(c)
    <3>1. /\ request' = [request EXCEPT ![c] = {}]
          /\ UNCHANGED <<jobs, owner, subscribed, closed, main, handler, current>>
      BY <2>1 DEF RefuseJob, registry, channels, goroutines
    <3>2. OneEach'
      BY <3>1, Owners DEF PagesOK, OneEach, IInv, RegistryType
    <3>3. QED
      BY <3>1, <3>2 DEF PagesOK, PagesType, Connected
  <2>2. QED
    BY <1>1, <2>1, PagesOfCreate, PagesOfStart DEF HandlerStep
<1>2. ASSUME NEW j \in JobIds, JobStep(j) \/ ForwarderStep(j)
      PROVE  PagesOK'
  BY <1>2, ConnectionsKept, PagesSame
<1>3. ASSUME NEW c \in Pages, Leave(c)
      PROVE  PagesOK'
  BY <1>3, PagesOfLeave
<1>4. ASSUME NEW c \in Pages, NEW P \in SUBSET Protocols, Click(c, P)
      PROVE  PagesOK'
  <2>1. /\ \A j \in DOMAIN jobs : owner[j] # c
        /\ request' = [request EXCEPT ![c] = P]
        /\ UNCHANGED <<jobs, owner, subscribed, closed, main, handler, current>>
    BY <1>4, ClickIsFirst
  <2>2. OneEach'
    BY <2>1, Owners DEF PagesOK, OneEach, IInv, RegistryType
  <2>3. QED
    BY <2>1, <2>2 DEF PagesOK, PagesType, Connected
<1>5. CASE UNCHANGED vars
  BY <1>5, PagesSame DEF vars, registry, channels, connections, goroutines
<1>6. QED
  BY <1>1, <1>2, <1>3, <1>4, <1>5 DEF Next, Server, User

-------------------------------------------------------------------------------
(* The findings a page shows, and those on their way.                      *)

ViewOK(v) ==
  /\ DOMAIN v = {"status", "total", "protocols", "findings"}
  /\ v.findings \in [Protocols -> Nat]

Views ==
  /\ DOMAIN view = Pages
  /\ \A c \in Pages : ViewOK(view[c])

(* What a page makes of an event.                                          *)
LEMMA EventApplied ==
  ASSUME NEW v, ViewOK(v), NEW e \in Events
  PROVE  /\ ViewOK(ApplyMessage(v, e))
         /\ \A q \in Protocols : ApplyMessage(v, e).findings[q]
              = v.findings[q] + IF e = FindingOf(q) THEN 1 ELSE 0
         /\ e = Log => ApplyMessage(v, e) = v
<1>1. \A q \in Protocols : v.findings[q] \in Nat
  BY DEF ViewOK
<1>2. CASE e = Log
  <2>1. ApplyMessage(v, e) = v
    BY <1>2, Kinds DEF ApplyMessage
  <2>2. \A q : e # FindingOf(q)
    BY <1>2, Kinds
  <2>3. QED
    BY <1>1, <2>1, <2>2
<1>3. ASSUME NEW p \in Protocols, e = FindingOf(p)
      PROVE  /\ ViewOK(ApplyMessage(v, e))
             /\ \A q \in Protocols : ApplyMessage(v, e).findings[q]
                  = v.findings[q] + IF e = FindingOf(q) THEN 1 ELSE 0
  <2>1. e.kind = "finding" /\ e.protocol = p /\ \A q : e = FindingOf(q) => q = p
    BY <1>3, Kinds
  <2>2. ApplyMessage(v, e) = [v EXCEPT !.findings[p] = @ + 1]
    BY <2>1 DEF ApplyMessage
  <2>3. ApplyMessage(v, e) = [v EXCEPT !.findings = [v.findings EXCEPT ![p] = @ + 1]]
    BY <2>2 DEF ViewOK
  <2>4. ViewOK(ApplyMessage(v, e))
        /\ ApplyMessage(v, e).findings = [v.findings EXCEPT ![p] = @ + 1]
    BY <2>3 DEF ViewOK
  <2>5. QED
    BY <1>1, <1>3, <2>1, <2>4 DEF ViewOK
<1>4. ASSUME e.kind \in {"overview", "protocol"}
      PROVE  /\ ViewOK(ApplyMessage(v, e))
             /\ ApplyMessage(v, e).findings = v.findings
             /\ \A q : e # FindingOf(q)
             /\ e # Log
  <2>1. CASE e.kind = "overview"
    <3>1. ApplyMessage(v, e) = [v EXCEPT !.status = e.status, !.total = e.total,
                                  !.protocols = Merged(e.protocols, v.protocols)]
      BY <2>1 DEF ApplyMessage, ViewOK
    <3>2. QED
      BY <2>1, <3>1, Kinds DEF ViewOK
  <2>2. CASE e.kind = "protocol"
    <3>1. ApplyMessage(v, e)
            = [v EXCEPT !.protocols = [v.protocols EXCEPT ![e.protocol] = e.progress]]
      BY <2>2 DEF ApplyMessage, ViewOK
    <3>2. QED
      BY <2>2, <3>1, Kinds DEF ViewOK
  <2>3. QED
    BY <1>4, <2>1, <2>2
<1>5. \/ e = Log \/ e.kind \in {"overview", "protocol"} \/ \E p \in Protocols : e = FindingOf(p)
  BY Kinds DEF Events
<1>6. QED
  BY <1>1, <1>2, <1>3, <1>4, <1>5

(* And of its own click.                                                   *)
LEMMA FreshlyViewed ==
  ASSUME NEW P \in SUBSET Protocols
  PROVE  /\ ViewOK(FreshView(P)) /\ ViewOK(Blank)
         /\ FreshView(P).findings = Blank.findings
         /\ \A q \in Protocols : Blank.findings[q] = 0
BY DEF FreshView, Blank, ViewOK

(* An overview shows the job it is of.                                     *)
Shows(v, job) ==
  /\ v.status = job.status /\ v.total = job.total
  /\ \A p \in DOMAIN job.protocols : v.protocols[p] = job.protocols[p]

LEMMA OverviewApplied ==
  ASSUME NEW v, ViewOK(v), NEW job
  PROVE  Shows(ApplyMessage(v, Overview(job)), job)
<1> DEFINE e == Overview(job)
<1>1. e.kind = "overview" /\ e.status = job.status /\ e.total = job.total
      /\ e.protocols = job.protocols
  BY DEF Overview
<1> HIDE DEF e
<1>2. ApplyMessage(v, e) = [v EXCEPT !.status = e.status, !.total = e.total,
                              !.protocols = Merged(e.protocols, v.protocols)]
  BY <1>1 DEF ApplyMessage, ViewOK
<1>3. \A p \in DOMAIN job.protocols : Merged(e.protocols, v.protocols)[p] = job.protocols[p]
  BY <1>1 DEF Merged
<1>4. QED
  BY <1>1, <1>2, <1>3 DEF Shows, ViewOK, e

(* The findings of a job are those its page shows, those in its buffer and *)
(* those its protocols have still to broadcast.                            *)
Due(j) ==
  \A q \in Wanted(j) :
    jobs[j].findings[q]
      = view[owner[j]].findings[q] + Found(queue[j], q) + Found(outbox[j][q], q)

FindingsDue ==
  /\ Views
  /\ \A j \in DOMAIN jobs \ closed : Due(j)
  /\ \A c \in Pages :
       (\A j \in DOMAIN jobs : owner[j] # c) => view[c].findings = Blank.findings

LEMMA DueInit == Init => FindingsDue
<1> SUFFICES ASSUME Init PROVE FindingsDue
  OBVIOUS
<1>1. DOMAIN jobs = {} /\ view = [c \in Pages |-> Blank]
  BY DEF Init
<1>2. ViewOK(Blank)
  BY FreshlyViewed
<1>3. QED
  BY <1>1, <1>2 DEF FindingsDue, Views

(* The protocols and the events of a job, in their places.                 *)
LEMMA Places ==
  ASSUME IInv, Mail, PagesOK, Views, NEW j \in DOMAIN jobs
  PROVE  /\ j \in JobIds /\ owner[j] \in Pages
         /\ Wanted(j) \subseteq Protocols /\ Protocols \subseteq Callers
         /\ queue[j] \in Seq(Events) /\ \A a \in Callers : outbox[j][a] \in Seq(Events)
         /\ \A q \in Protocols :
              /\ view[owner[j]].findings[q] \in Nat
              /\ Found(queue[j], q) \in Nat /\ Found(outbox[j][q], q) \in Nat
<1>1. j \in JobIds /\ owner[j] \in Pages
  BY Owners
<1>2. Wanted(j) \subseteq Protocols
  BY JobsInRange, JobFields DEF IInv, Wanted
<1>3. Protocols \subseteq Callers
  BY DEF Callers
<1>4. queue[j] \in Seq(Events) /\ \A a \in Callers : outbox[j][a] \in Seq(Events)
  BY <1>1 DEF Mail, MailType
<1>5. \A q \in Protocols : view[owner[j]].findings[q] \in Nat
  BY <1>1 DEF Views, ViewOK
<1>6. \A q \in Protocols : Found(queue[j], q) \in Nat /\ Found(outbox[j][q], q) \in Nat
  BY <1>3, <1>4, FoundType
<1>7. QED
  BY <1>1, <1>2, <1>3, <1>4, <1>5, <1>6

(* A job whose page, buffer and outboxes a step leaves alone.              *)
LEMMA DueSame ==
  ASSUME NEW j, Due(j), Wanted(j) \subseteq Protocols, DOMAIN jobs'[j].protocols = Wanted(j),
         \A q \in Protocols : outbox'[j][q] = outbox[j][q],
         queue'[j] = queue[j], owner'[j] = owner[j],
         view'[owner[j]].findings = view[owner[j]].findings,
         jobs'[j].findings = jobs[j].findings
  PROVE  Due(j)'
BY DEF Due, Wanted

(* A step that reports nothing.                                            *)
LEMMA DueQuiet ==
  ASSUME IInv, Mail, PagesOK, FindingsDue,
         UNCHANGED <<jobs, owner, queue, outbox>>, closed \subseteq closed', Views',
         \A c \in Pages : view'[c].findings = view[c].findings
  PROVE  FindingsDue'
<1>1. ASSUME NEW j \in DOMAIN jobs' \ closed'
      PROVE  Due(j)'
  <2>1. j \in DOMAIN jobs \ closed /\ Due(j) /\ DOMAIN jobs'[j].protocols = Wanted(j)
    BY DEF FindingsDue, Wanted
  <2>2. Wanted(j) \subseteq Protocols /\ owner[j] \in Pages
    BY <2>1, Places DEF FindingsDue
  <2>3. QED
    BY <2>1, <2>2, DueSame
<1>2. QED
  BY <1>1 DEF FindingsDue

(* A new job owes nothing, and neither does the page it is for.            *)
LEMMA DueOfCreate ==
  ASSUME IInv, Mail, PagesOK, FindingsDue, NEW c \in Pages, CreateJob(c)
  PROVE  FindingsDue'
<1>1. PICK new \in JobIds :
        /\ new \notin DOMAIN jobs /\ main[new] = "none"
        /\ DOMAIN jobs' = DOMAIN jobs \cup {new}
        /\ jobs'[new] = NewJob(request[c]) /\ request[c] \in SUBSET Protocols
        /\ \A i \in DOMAIN jobs : jobs'[i] = jobs[i]
        /\ owner'[new] = c
        /\ \A i \in DOMAIN jobs : owner'[i] = owner[i] /\ owner[i] # c
  BY JobCreated
<1>2. UNCHANGED <<closed, queue, outbox, view>>
  BY DEF CreateJob, channels, broadcasts
<1>3. Due(new)'
  <2>1. /\ DOMAIN jobs'[new].protocols = request[c]
        /\ \A q \in request[c] : jobs'[new].findings[q] = 0
    BY <1>1 DEF NewJob
  <2>2. view[c].findings = Blank.findings
    BY <1>1 DEF FindingsDue
  <2>3. queue[new] = <<>> /\ \A q \in Protocols : outbox[new][q] = <<>>
    BY <1>1 DEF Mail, Lines, Callers
  <2>4. \A q : Found(<<>>, q) = 0
    BY FoundNone
  <2>5. ASSUME NEW q \in request[c]
        PROVE  jobs'[new].findings[q]
                 = view'[owner'[new]].findings[q] + Found(queue'[new], q) + Found(outbox'[new][q], q)
    <3>1. q \in Protocols
      BY <1>1
    <3>2. view'[owner'[new]].findings[q] = 0
      BY <1>1, <1>2, <2>2, <3>1, FreshlyViewed
    <3>3. queue'[new] = <<>> /\ outbox'[new][q] = <<>>
      BY <1>2, <2>3, <3>1
    <3>4. QED
      BY <2>1, <2>4, <3>2, <3>3
  <2>6. QED
    BY <2>1, <2>5 DEF Due, Wanted
<1>4. ASSUME NEW j \in DOMAIN jobs \ closed
      PROVE  Due(j)'
  <2>1. Due(j) /\ Wanted(j) \subseteq Protocols /\ DOMAIN jobs'[j].protocols = Wanted(j)
    BY <1>1, Places DEF FindingsDue, Wanted
  <2>2. QED
    BY <1>1, <1>2, <2>1, DueSame
<1>5. QED
  BY <1>1, <1>2, <1>3, <1>4 DEF FindingsDue, Views

(* The reports.                                                            *)
LEMMA DueRecorded ==
  ASSUME IInv, Mail, PagesOK, FindingsDue, NEW j \in JobIds, NEW a \in Callers,
         NEW events \in Seq(Events), Recorded(j, a, events),
         \A q \in Wanted(j) :
           jobs'[j].findings[q] = jobs[j].findings[q] + IF q = a THEN Found(events, a) ELSE 0
  PROVE  FindingsDue'
<1>1. /\ j \in DOMAIN jobs /\ DOMAIN jobs' = DOMAIN jobs
      /\ \A i \in DOMAIN jobs : i # j => jobs'[i] = jobs[i]
      /\ DOMAIN jobs'[j].protocols = DOMAIN jobs[j].protocols
      /\ outbox[j][a] = <<>> /\ outbox' = [outbox EXCEPT ![j][a] = events]
      /\ UNCHANGED <<owner, closed, queue, view>>
  BY DEF Recorded
<1>2. /\ outbox'[j][a] = events
      /\ \A b \in Callers : b # a => outbox'[j][b] = outbox[j][b]
      /\ \A i \in JobIds : i # j => outbox'[i] = outbox[i]
  BY <1>1, OutboxReplaced DEF Mail
<1>3. ASSUME NEW i \in DOMAIN jobs \ closed, i # j
      PROVE  Due(i)'
  <2>1. Due(i) /\ Wanted(i) \subseteq Protocols /\ i \in JobIds
        /\ DOMAIN jobs'[i].protocols = Wanted(i)
    BY <1>1, <1>3, Places DEF FindingsDue, Wanted
  <2>2. QED
    BY <1>1, <1>2, <1>3, <2>1, DueSame
<1>4. ASSUME j \notin closed, NEW q \in Wanted(j)
      PROVE  jobs'[j].findings[q]
               = view[owner[j]].findings[q] + Found(queue[j], q) + Found(outbox'[j][q], q)
  <2>1. Due(j)
    BY <1>1, <1>4 DEF FindingsDue
  <2>2. /\ q \in Protocols /\ q \in Callers /\ view[owner[j]].findings[q] \in Nat
        /\ Found(queue[j], q) \in Nat /\ Found(outbox[j][q], q) \in Nat
    BY <1>1, Places DEF FindingsDue
  <2>3. CASE q = a
    <3>1. Found(outbox[j][q], q) = 0
      BY <1>1, <2>3, FoundNone
    <3>2. Found(events, q) \in Nat
      BY FoundType
    <3>3. QED
      BY <1>2, <2>1, <2>2, <2>3, <3>1, <3>2 DEF Due
  <2>4. CASE q # a
    BY <1>2, <2>1, <2>2, <2>4 DEF Due
  <2>5. QED
    BY <2>3, <2>4
<1>5. j \notin closed => Due(j)'
  BY <1>1, <1>4 DEF Due, Wanted
<1>6. QED
  BY <1>1, <1>3, <1>5 DEF FindingsDue, Views

(* Whatever is on its way is for a job that has been started; its page     *)
(* listens as long as the channel is open.                                 *)
LEMMA Listening ==
  ASSUME IInv, Mail, PagesOK, NEW j \in JobIds,
         queue[j] # <<>> \/ \E a \in Callers : outbox[j][a] # <<>>
  PROVE  /\ j \in DOMAIN jobs /\ main[j] # "none"
         /\ j \notin closed => j \in subscribed /\ handler[owner[j]] # "closed"
<1>1. main[j] # "none"
  BY DEF Mail, Lines
<1>2. j \in DOMAIN jobs
  BY <1>1 DEF IInv, Unborn
<1>3. Connected(j)
  BY <1>2 DEF PagesOK
<1>4. QED
  BY <1>1, <1>2, <1>3 DEF Connected

(* No send finds the buffer of an open channel full.                       *)
HasRoom ==
  \A j \in JobIds, a \in Callers :
    <<j, a>> \in sending /\ j \notin closed => Len(queue[j]) < Buffer

(* Then every event that is sent reaches the buffer.                       *)
LEMMA Sent ==
  ASSUME IInv, Mail, PagesOK, HasRoom, NEW j \in JobIds, NEW a \in Callers, SendEvent(j, a)
  PROVE  LET s == outbox[j][a]
         IN /\ s \in Seq(Events) /\ s # <<>> /\ j \in DOMAIN jobs
            /\ outbox' \in [JobIds -> [Callers -> Seq(Events)]] /\ outbox'[j][a] = Tail(s)
            /\ \A b \in Callers : b # a => outbox'[j][b] = outbox[j][b]
            /\ \A i \in JobIds : i # j => outbox'[i] = outbox[i] /\ queue'[i] = queue[i]
            /\ j \notin closed => queue'[j] = Append(queue[j], Head(s))
            /\ UNCHANGED <<jobs, owner, closed, view, request, main, worker>>
<1> DEFINE s == outbox[j][a]
<1>1. s \in Seq(Events) /\ queue[j] \in Seq(Events) /\ queue \in [JobIds -> Seq(Events)] /\ MailType
  BY DEF Mail, MailType
<1>2. /\ <<j, a>> \in sending /\ outbox' = [outbox EXCEPT ![j][a] = Tail(s)]
      /\ queue' = IF j \in closed \/ Len(queue[j]) >= Buffer THEN queue
                  ELSE [queue EXCEPT ![j] = Append(queue[j], Head(s))]
      /\ UNCHANGED <<jobs, owner, closed, view, request, main, worker>>
  BY DEF SendEvent, registry, connections, goroutines
<1>3. s # <<>>
  BY <1>2 DEF Mail, Lines
<1>4. j \in DOMAIN jobs
  BY <1>3, Listening
<1>5. Tail(s) \in Seq(Events)
  BY <1>1, <1>3
<1>6. /\ outbox' \in [JobIds -> [Callers -> Seq(Events)]] /\ outbox'[j][a] = Tail(s)
      /\ \A b \in Callers : b # a => outbox'[j][b] = outbox[j][b]
      /\ \A i \in JobIds : i # j => outbox'[i] = outbox[i]
  <2> DEFINE rest == Tail(s)
  <2>1. MailType /\ rest \in Seq(Events) /\ outbox' = [outbox EXCEPT ![j][a] = rest]
    BY <1>1, <1>2, <1>5
  <2> HIDE DEF rest, s
  <2>2. QED
    BY <2>1, OutboxReplaced, Zenon DEF rest
<1>7. j \notin closed => ~(Len(queue[j]) >= Buffer)
  BY <1>1, <1>2, ConsoleAssumption DEF HasRoom
<1>8. \A i \in JobIds : i # j => queue'[i] = queue[i]
  BY <1>1, <1>2
<1>9. j \notin closed => queue'[j] = Append(queue[j], Head(s))
  BY <1>1, <1>2, <1>7
<1>10. QED
  BY <1>1, <1>2, <1>3, <1>4, <1>6, <1>8, <1>9

(* A finding that is sent moves from the outbox of its protocol to the     *)
(* buffer.                                                                 *)
LEMMA DueOfSend ==
  ASSUME IInv, Mail, PagesOK, FindingsDue, HasRoom,
         NEW j \in JobIds, NEW a \in Callers, SendEvent(j, a)
  PROVE  FindingsDue'
<1> DEFINE s == outbox[j][a]
           e == Head(s)
<1>1. /\ s \in Seq(Events) /\ s # <<>> /\ j \in DOMAIN jobs
      /\ outbox'[j][a] = Tail(s)
      /\ \A b \in Callers : b # a => outbox'[j][b] = outbox[j][b]
      /\ \A i \in JobIds : i # j => outbox'[i] = outbox[i] /\ queue'[i] = queue[i]
      /\ j \notin closed => queue'[j] = Append(queue[j], e)
      /\ UNCHANGED <<jobs, owner, closed, view>>
  BY Sent
<1>2. e \in Events /\ s[1] = e /\ 1 \in DOMAIN s /\ Tail(s) \in Seq(Events)
  BY <1>1, HeadTailProperties
<1>3. \A q \in Protocols : q # a => e # FindingOf(q)
  BY <1>2 DEF Mail, Lines
<1> outbox[j][a] = s
  OBVIOUS
<1> HIDE DEF e, s
<1>4. ASSUME NEW i \in DOMAIN jobs \ closed, i # j
      PROVE  Due(i)'
  <2>1. Due(i) /\ Wanted(i) \subseteq Protocols /\ i \in JobIds
        /\ DOMAIN jobs'[i].protocols = Wanted(i)
    BY <1>1, <1>4, Places DEF FindingsDue, Wanted
  <2>2. QED
    BY <1>1, <1>4, <2>1, DueSame
<1>5. ASSUME j \notin closed, NEW q \in Wanted(j)
      PROVE  jobs[j].findings[q]
               = view[owner[j]].findings[q] + Found(queue'[j], q) + Found(outbox'[j][q], q)
  <2>1. Due(j)
    BY <1>1, <1>5 DEF FindingsDue
  <2>2. /\ q \in Protocols /\ q \in Callers /\ view[owner[j]].findings[q] \in Nat
        /\ Found(queue[j], q) \in Nat /\ Found(outbox[j][q], q) \in Nat
        /\ queue[j] \in Seq(Events)
    BY <1>1, Places DEF FindingsDue
  <2>3. Found(queue'[j], q) = Found(queue[j], q) + IF e = FindingOf(q) THEN 1 ELSE 0
    <3>1. Found(Append(queue[j], e), q) = Found(queue[j], q) + IF e = FindingOf(q) THEN 1 ELSE 0
      BY <1>2, <2>2, FoundAppend
    <3>2. QED
      BY <1>1, <1>5, <3>1
  <2>4. CASE q = a
    <3>1. Found(s, q) = Found(Tail(s), q) + IF e = FindingOf(q) THEN 1 ELSE 0
      BY <1>1, FoundTail DEF e
    <3>2. Found(Tail(s), q) \in Nat
      BY <1>2, FoundType
    <3>3. outbox[j][q] = s /\ outbox'[j][q] = Tail(s)
      BY <1>1, <2>4
    <3>4. jobs[j].findings[q] = view[owner[j]].findings[q] + Found(queue[j], q) + Found(s, q)
      BY <2>1, <3>3 DEF Due
    <3>5. Found(outbox'[j][q], q) = Found(Tail(s), q)
      BY <3>3
    <3> DEFINE one == IF e = FindingOf(q) THEN 1 ELSE 0
               shown == view[owner[j]].findings[q]
               kept == Found(queue[j], q)
               left == Found(Tail(s), q)
    <3>6. /\ one \in Nat /\ shown \in Nat /\ kept \in Nat /\ left \in Nat
          /\ jobs[j].findings[q] = shown + kept + Found(s, q)
          /\ Found(s, q) = left + one /\ Found(queue'[j], q) = kept + one
      BY <2>2, <2>3, <3>1, <3>2, <3>4
    <3> HIDE DEF one, shown, kept, left
    <3>7. jobs[j].findings[q] = shown + (kept + one) + left
      BY <3>6
    <3>8. QED
      BY <3>5, <3>6, <3>7 DEF shown, left
  <2>5. CASE q # a
    BY <1>1, <1>3, <2>1, <2>2, <2>3, <2>5 DEF Due
  <2>6. QED
    BY <2>4, <2>5
<1>6. j \notin closed => Due(j)'
  BY <1>1, <1>5 DEF Due, Wanted
<1>7. QED
  BY <1>1, <1>4, <1>6 DEF FindingsDue, Views

(* An event that is passed on.                                             *)
LEMMA Passed ==
  ASSUME IInv, Mail, PagesOK, Views, NEW j \in JobIds, Forward(j)
  PROVE  LET s == queue[j]
             c == owner[j]
         IN /\ s \in Seq(Events) /\ s # <<>> /\ j \in DOMAIN jobs /\ c \in Pages
            /\ Head(s) \in Events /\ Tail(s) \in Seq(Events)
            /\ queue'[j] = Tail(s)
            /\ \A i \in JobIds : i # j => queue'[i] = queue[i]
            /\ \A i \in DOMAIN jobs : i # j => owner[i] # c
            /\ Views' /\ \A d \in Pages : d # c => view'[d] = view[d]
            /\ j \notin closed => view'[c] = ApplyMessage(view[c], Head(s))
            /\ UNCHANGED <<jobs, owner, closed, outbox, request, main, worker>>
<1> DEFINE s == queue[j]
           c == owner[j]
<1>1. /\ s # <<>> /\ queue' = [queue EXCEPT ![j] = Tail(s)]
      /\ view' = IF handler[c] = "closed" THEN view
                 ELSE [view EXCEPT ![c] = ApplyMessage(view[c], Head(s))]
      /\ UNCHANGED <<jobs, owner, closed, outbox, request, main, worker>>
  BY DEF Forward, registry, broadcasts, connections, goroutines
<1>2. s \in Seq(Events) /\ queue \in [JobIds -> Seq(Events)]
  BY DEF Mail, MailType
<1>3. Head(s) \in Events /\ Tail(s) \in Seq(Events)
  BY <1>1, <1>2
<1>4. j \in DOMAIN jobs /\ (j \notin closed => handler[c] # "closed")
  BY <1>1, Listening
<1>5. c \in Pages /\ \A i \in DOMAIN jobs : i # j => owner[i] # c
  BY <1>4, Owners DEF PagesOK, OneEach
<1>6. ViewOK(ApplyMessage(view[c], Head(s)))
  BY <1>3, <1>5, EventApplied DEF Views
<1>7. /\ DOMAIN view' = Pages
      /\ \A d \in Pages : d # c => view'[d] = view[d]
      /\ view'[c] \in {view[c], ApplyMessage(view[c], Head(s))}
      /\ handler[c] # "closed" => view'[c] = ApplyMessage(view[c], Head(s))
  BY <1>1, <1>5 DEF Views
<1>8. Views'
  BY <1>5, <1>6, <1>7 DEF Views
<1>9. queue'[j] = Tail(s) /\ \A i \in JobIds : i # j => queue'[i] = queue[i]
  BY <1>1, <1>2
<1>10. QED
  BY <1>1, <1>2, <1>3, <1>4, <1>5, <1>7, <1>8, <1>9

LEMMA DueOfForward ==
  ASSUME IInv, Mail, PagesOK, FindingsDue, NEW j \in JobIds, Forward(j)
  PROVE  FindingsDue'
<1> DEFINE s == queue[j]
           c == owner[j]
<1>1. /\ s \in Seq(Events) /\ s # <<>> /\ j \in DOMAIN jobs /\ c \in Pages
      /\ Head(s) \in Events /\ Tail(s) \in Seq(Events) /\ queue'[j] = Tail(s)
      /\ \A i \in JobIds : i # j => queue'[i] = queue[i]
      /\ \A i \in DOMAIN jobs : i # j => owner[i] # c
      /\ Views' /\ \A d \in Pages : d # c => view'[d] = view[d]
      /\ j \notin closed => view'[c] = ApplyMessage(view[c], Head(s))
      /\ UNCHANGED <<jobs, owner, closed, outbox>>
  BY Passed DEF FindingsDue
<1>2. ASSUME NEW i \in DOMAIN jobs \ closed, i # j
      PROVE  Due(i)'
  <2>1. Due(i) /\ Wanted(i) \subseteq Protocols /\ i \in JobIds /\ owner[i] \in Pages
        /\ DOMAIN jobs'[i].protocols = Wanted(i)
    BY <1>1, <1>2, Places DEF FindingsDue, Wanted
  <2>2. QED
    BY <1>1, <1>2, <2>1, DueSame
<1>3. ASSUME j \notin closed, NEW q \in Wanted(j)
      PROVE  jobs[j].findings[q]
               = view'[c].findings[q] + Found(Tail(s), q) + Found(outbox[j][q], q)
  <2>1. Due(j)
    BY <1>1, <1>3 DEF FindingsDue
  <2>2. /\ q \in Protocols /\ view[c].findings[q] \in Nat
        /\ Found(queue[j], q) \in Nat /\ Found(outbox[j][q], q) \in Nat
    BY <1>1, Places DEF FindingsDue
  <2>3. Found(s, q) = Found(Tail(s), q) + IF Head(s) = FindingOf(q) THEN 1 ELSE 0
    BY <1>1, FoundTail
  <2>4. Found(Tail(s), q) \in Nat
    BY <1>1, FoundType
  <2>5. view'[c].findings[q]
          = view[c].findings[q] + IF Head(s) = FindingOf(q) THEN 1 ELSE 0
    BY <1>1, <1>3, <2>2, EventApplied DEF FindingsDue, Views
  <2>6. QED
    BY <2>1, <2>2, <2>3, <2>4, <2>5 DEF Due
<1>4. j \notin closed => Due(j)'
  BY <1>1, <1>3 DEF Due, Wanted
<1>5. ASSUME NEW d \in Pages, \A i \in DOMAIN jobs : owner[i] # d
      PROVE  view'[d].findings = Blank.findings
  BY <1>1, <1>5 DEF FindingsDue
<1>6. QED
  BY <1>1, <1>2, <1>4, <1>5 DEF FindingsDue

LEMMA DueOfMain ==
  ASSUME IInv, Mail, PagesOK, FindingsDue, NEW j \in JobIds, MainReported(j)
  PROVE  FindingsDue'
<1>1. PICK events \in Seq(Events) :
        /\ Recorded(j, "main", events) /\ jobs'[j].findings = jobs[j].findings
  BY DEF MainReported
<1>2. "main" \in Callers /\ "main" \notin Protocols /\ j \in DOMAIN jobs
  BY <1>1, ConsoleAssumption DEF Callers, Recorded
<1>3. jobs[j].findings \in [DOMAIN jobs[j].findings -> Nat] /\ DOMAIN jobs[j].findings = Wanted(j)
  BY <1>2, JobsInRange, JobFields DEF IInv, JobsOK, JobOK, Wanted
<1>4. \A q \in Wanted(j) : q \in Protocols
  BY <1>2, Places DEF FindingsDue
<1>5. \A q \in Wanted(j) :
        jobs'[j].findings[q] = jobs[j].findings[q] + IF q = "main" THEN Found(events, "main") ELSE 0
  BY <1>1, <1>2, <1>3, <1>4
<1>6. QED
  BY <1>1, <1>2, <1>5, DueRecorded

(* The steps of the goroutines of a job.                                   *)
LEMMA DueOfJob ==
  ASSUME IInv, IInv', Mail, PagesOK, FindingsDue, HasRoom, NEW j \in JobIds, JobStep(j)
  PROVE  FindingsDue'
<1>1. CASE RunJob(j) \/ \E p \in Protocols : SeedFails(j, p)
  <2>1. UNCHANGED <<jobs, owner, closed, queue, outbox, view>>
    BY <1>1 DEF RunJob, SeedFails, registry, channels, broadcasts
  <2>2. QED
    BY <2>1, DueQuiet DEF FindingsDue, Views
<1>2. CASE NoEndpoint(j) \/ MarkJobFailed(j) \/ MarkJobCompleted(j)
  BY <1>2, EndReported, DueOfMain
<1>3. ASSUME NEW p \in Protocols,
             \/ RecordProtocolStarted(j, p) \/ RecordFinding(j, p)
             \/ RecordProtocolProgress(j, p) \/ RecordProtocolCompleted(j, p)
             \/ RecordProtocolFailed(j, p)
      PROVE  FindingsDue'
  <2>1. PICK events \in Seq(Events) :
          /\ Recorded(j, p, events)
          /\ \A q \in Wanted(j) :
               jobs'[j].findings[q] = jobs[j].findings[q] + IF q = p THEN Found(events, p) ELSE 0
    BY <1>3, ReportsForm DEF Reported
  <2>2. p \in Callers
    BY DEF Callers
  <2>3. QED
    BY <2>1, <2>2, DueRecorded
<1>4. ASSUME NEW a \in Callers, TakeSubscribers(j, a)
      PROVE  FindingsDue'
  <2>1. /\ outbox[j][a] # <<>>
        /\ j \in subscribed => outbox' = outbox
        /\ j \notin subscribed => outbox' = [outbox EXCEPT ![j][a] = Tail(@)]
        /\ UNCHANGED <<jobs, owner, closed, queue, view>>
    BY <1>4 DEF TakeSubscribers, registry, channels
  <2>2. j \in closed \/ j \in subscribed
    BY <2>1, Listening
  <2>3. CASE j \in subscribed
    BY <2>1, <2>3, DueQuiet DEF FindingsDue, Views
  <2>4. CASE j \in closed /\ j \notin subscribed
    <3>1. \A i \in JobIds : i # j => outbox'[i] = outbox[i]
      BY <2>1, <2>4 DEF Mail, MailType
    <3>2. ASSUME NEW i \in DOMAIN jobs \ closed
          PROVE  Due(i)'
      <4>1. Due(i) /\ Wanted(i) \subseteq Protocols /\ i \in JobIds /\ i # j
            /\ DOMAIN jobs'[i].protocols = Wanted(i)
        BY <2>1, <2>4, <3>2, Places DEF FindingsDue, Wanted
      <4>2. QED
        BY <2>1, <3>1, <4>1, DueSame
    <3>3. QED
      BY <2>1, <3>2 DEF FindingsDue, Views
  <2>5. QED
    BY <2>2, <2>3, <2>4
<1>5. QED
  BY <1>1, <1>2, <1>3, <1>4, DueOfSend DEF JobStep

(* Every step.                                                             *)
LEMMA DueStep ==
  ASSUME IInv, IInv', Mail, PagesOK, FindingsDue, HasRoom, MayRepeat = {}, [Next]_vars
  PROVE  FindingsDue'
<1>1. ASSUME NEW c \in Pages, HandlerStep(c)
      PROVE  FindingsDue'
  <2>1. CASE RefuseJob(c)
    <3>1. /\ view' = [view EXCEPT ![c].status = "failed"]
          /\ UNCHANGED <<jobs, owner, closed, queue, outbox>>
      BY <2>1 DEF RefuseJob, registry, channels, broadcasts
    <3>2. Views' /\ \A d \in Pages : view'[d].findings = view[d].findings
      BY <3>1 DEF FindingsDue, Views, ViewOK
    <3>3. QED
      BY <3>1, <3>2, DueQuiet
  <2>2. CASE Subscribe(c) \/ ReplaceSubscription(c) \/ SpawnJob(c)
    <3>1. UNCHANGED <<jobs, owner, queue, outbox, view>> /\ closed \subseteq closed'
      BY <2>2 DEF Subscribe, ReplaceSubscription, SpawnJob, Unsubscribe, registry, channels,
         broadcasts
    <3>2. QED
      BY <3>1, DueQuiet DEF FindingsDue, Views
  <2>3. CASE MarkJobStarted(c)
    BY <2>3, StartReported, DueOfMain
  <2>4. QED
    BY <1>1, <2>1, <2>2, <2>3, DueOfCreate DEF HandlerStep
<1>2. ASSUME NEW j \in JobIds, JobStep(j)
      PROVE  FindingsDue'
  BY <1>2, DueOfJob
<1>3. ASSUME NEW j \in JobIds, Forward(j)
      PROVE  FindingsDue'
  BY <1>3, DueOfForward
<1>4. ASSUME NEW c \in Pages, NEW P \in SUBSET Protocols, Click(c, P)
      PROVE  FindingsDue'
  <2>1. /\ \A j \in DOMAIN jobs : owner[j] # c
        /\ view' = [view EXCEPT ![c] = FreshView(P)]
        /\ UNCHANGED <<jobs, owner, closed, queue, outbox>>
    BY <1>4, ClickIsFirst
  <2>2. view[c].findings = Blank.findings
    BY <2>1 DEF FindingsDue
  <2>3. Views' /\ \A d \in Pages : view'[d].findings = view[d].findings
    BY <2>1, <2>2, FreshlyViewed DEF FindingsDue, Views
  <2>4. QED
    BY <2>1, <2>3, DueQuiet
<1>5. CASE \/ \E j \in JobIds : ForwarderStops(j)
           \/ \E c \in Pages : Leave(c)
           \/ UNCHANGED vars
  <2>1. UNCHANGED <<jobs, owner, queue, outbox, view>> /\ closed \subseteq closed'
    BY <1>5 DEF ForwarderStops, Leave, Unsubscribe, vars, registry, channels, broadcasts
  <2>2. QED
    BY <2>1, DueQuiet DEF FindingsDue, Views
<1>6. QED
  BY <1>1, <1>2, <1>3, <1>4, <1>5 DEF Next, Server, User, ForwarderStep

-------------------------------------------------------------------------------
(* The end of a job on its way to the page.                                *)

(* After place i of a list there is nothing that changes a page.           *)
Logs(s, i) == \A k \in DOMAIN s : k > i => s[k] = Log

(* Its last overview is still to be broadcast, or in the buffer with       *)
(* nothing after it that changes the page, or on the page.                 *)
EndOf(j) ==
  jobs[j].status \in Terminal =>
    /\ \A p \in Protocols : outbox[j][p] = <<>>
    /\ \/ outbox[j]["main"] = <<Overview(jobs[j]), Log>>
       \/ /\ outbox[j]["main"] \in {<<Log>>, <<>>}
          /\ \/ Shows(view[owner[j]], jobs[j]) /\ Logs(queue[j], 0)
             \/ \E i \in DOMAIN queue[j] :
                  queue[j][i] = Overview(jobs[j]) /\ Logs(queue[j], i)

EndDue == \A j \in DOMAIN jobs \ closed : EndOf(j)

(* A job whose page, buffer and outboxes a step leaves alone.              *)
LEMMA EndSame ==
  ASSUME NEW j, EndOf(j), jobs'[j] = jobs[j], outbox'[j] = outbox[j],
         queue'[j] = queue[j], owner'[j] = owner[j], view'[owner[j]] = view[owner[j]]
  PROVE  EndOf(j)'
BY DEF EndOf

LEMMA EndQuiet ==
  ASSUME EndDue, UNCHANGED <<jobs, owner, queue, outbox>>, closed \subseteq closed',
         \A j \in DOMAIN jobs : view'[owner[j]] = view[owner[j]]
  PROVE  EndDue'
<1>1. ASSUME NEW j \in DOMAIN jobs' \ closed'
      PROVE  EndOf(j)'
  BY EndSame DEF EndDue
<1>2. QED
  BY <1>1 DEF EndDue

(* A new job has not ended.                                                *)
LEMMA EndOfCreate ==
  ASSUME IInv, PagesOK, EndDue, NEW c \in Pages, CreateJob(c)
  PROVE  EndDue'
<1>1. PICK new \in JobIds :
        /\ DOMAIN jobs' = DOMAIN jobs \cup {new}
        /\ jobs'[new] = NewJob(request[c])
        /\ \A i \in DOMAIN jobs : jobs'[i] = jobs[i] /\ owner'[i] = owner[i]
  BY JobCreated
<1>2. UNCHANGED <<closed, queue, outbox, view>>
  BY DEF CreateJob, channels, broadcasts
<1>3. EndOf(new)'
  BY <1>1 DEF NewJob, EndOf, Terminal
<1>4. ASSUME NEW j \in DOMAIN jobs \ closed
      PROVE  EndOf(j)'
  BY <1>1, <1>2, EndSame DEF EndDue
<1>5. QED
  BY <1>1, <1>2, <1>3, <1>4 DEF EndDue

(* A report is of a job that goes on, or it is the last one.               *)
LEMMA EndRecorded ==
  ASSUME IInv, Mail, EndDue, NEW j \in JobIds, NEW a \in Callers,
         NEW events \in Seq(Events), Recorded(j, a, events),
         jobs'[j].status \in Terminal =>
           /\ a = "main" /\ events = <<Overview(jobs'[j]), Log>>
           /\ \A p \in Protocols : outbox[j][p] = <<>>
  PROVE  EndDue'
<1>1. /\ j \in DOMAIN jobs /\ DOMAIN jobs' = DOMAIN jobs
      /\ \A i \in DOMAIN jobs : i # j => jobs'[i] = jobs[i]
      /\ outbox' = [outbox EXCEPT ![j][a] = events]
      /\ UNCHANGED <<owner, closed, queue, view>>
  BY DEF Recorded
<1>2. /\ outbox'[j][a] = events
      /\ \A b \in Callers : b # a => outbox'[j][b] = outbox[j][b]
      /\ \A i \in JobIds : i # j => outbox'[i] = outbox[i]
  BY <1>1, OutboxReplaced DEF Mail
<1>3. EndOf(j)'
  <2>1. ASSUME jobs'[j].status \in Terminal
        PROVE  /\ \A p \in Protocols : outbox'[j][p] = <<>>
               /\ outbox'[j]["main"] = <<Overview(jobs'[j]), Log>>
    BY <1>2, <2>1, ConsoleAssumption DEF Callers
  <2>2. QED
    BY <2>1 DEF EndOf
<1>4. ASSUME NEW i \in DOMAIN jobs \ closed, i # j
      PROVE  EndOf(i)'
  <2>1. i \in JobIds
    BY JobsInRange DEF IInv
  <2>2. QED
    BY <1>1, <1>2, <1>4, <2>1, EndSame DEF EndDue
<1>5. QED
  BY <1>1, <1>3, <1>4 DEF EndDue

LEMMA EndOfMain ==
  ASSUME IInv, IInv', Mail, EndDue, NEW j \in JobIds, MainReported(j)
  PROVE  EndDue'
<1>1. PICK events \in Seq(Events) :
        /\ events = <<Overview(jobs'[j]), Log>> /\ Recorded(j, "main", events)
        /\ \/ jobs'[j].status = "running"
           \/ \A p \in Protocols : worker[j][p] \in {"none", "seed"} \/ outbox[j][p] = <<>>
  BY DEF MainReported
<1>2. "main" \in Callers
  BY DEF Callers
<1>3. jobs'[j].status \in Terminal => \A p \in Protocols : outbox[j][p] = <<>>
  BY <1>1 DEF Terminal, Mail, Lines
<1>4. events = <<Overview(jobs'[j]), Log>> /\ Recorded(j, "main", events)
  BY <1>1
<1>5. QED
  BY <1>2, <1>3, <1>4, EndRecorded

(* The two events about the end go to the buffer in their order.           *)
LEMMA EndOfSend ==
  ASSUME IInv, Mail, PagesOK, EndDue, HasRoom,
         NEW j \in JobIds, NEW a \in Callers, SendEvent(j, a)
  PROVE  EndDue'
<1> DEFINE s == outbox[j][a]
           e == Head(s)
<1>1. /\ s \in Seq(Events) /\ s # <<>> /\ j \in DOMAIN jobs
      /\ outbox'[j][a] = Tail(s)
      /\ \A b \in Callers : b # a => outbox'[j][b] = outbox[j][b]
      /\ \A i \in JobIds : i # j => outbox'[i] = outbox[i] /\ queue'[i] = queue[i]
      /\ j \notin closed => queue'[j] = Append(queue[j], e)
      /\ UNCHANGED <<jobs, owner, closed, view>>
  BY Sent
<1>2. ASSUME NEW i \in DOMAIN jobs \ closed, i # j
      PROVE  EndOf(i)'
  <2>1. i \in JobIds
    BY JobsInRange DEF IInv
  <2>2. QED
    BY <1>1, <1>2, <2>1, EndSame DEF EndDue
<1>3. ASSUME j \notin closed, jobs[j].status \in Terminal
      PROVE  EndOf(j)'
  <2>1. EndOf(j)
    BY <1>1, <1>3 DEF EndDue
  <2>2. \A p \in Protocols : outbox[j][p] = <<>>
    BY <1>3, <2>1 DEF EndOf
  <2>3. a = "main" /\ a \notin Protocols
    BY <1>1, <2>2, ConsoleAssumption DEF Callers
  <2>4. \A p \in Protocols : outbox'[j][p] = <<>>
    BY <1>1, <2>2, <2>3 DEF Callers
  <2>5. queue[j] \in Seq(Events) /\ e \in Events /\ queue'[j] = Append(queue[j], e)
    BY <1>1, <1>3 DEF Mail, MailType
  <2>6. /\ DOMAIN queue[j] = 1 .. Len(queue[j]) /\ Len(queue[j]) \in Nat
        /\ DOMAIN queue'[j] = 1 .. Len(queue[j]) + 1
        /\ queue'[j][Len(queue[j]) + 1] = e
        /\ \A k \in DOMAIN queue[j] : queue'[j][k] = queue[j][k]
    BY <2>5, AppendProperties
  <2>7. CASE s = <<Overview(jobs[j]), Log>>
    <3>1. e = Overview(jobs[j]) /\ Tail(s) = <<Log>>
      BY <2>7
    <3>2. /\ Len(queue[j]) + 1 \in DOMAIN queue'[j]
          /\ queue'[j][Len(queue[j]) + 1] = Overview(jobs[j])
          /\ Logs(queue'[j], Len(queue[j]) + 1)
      BY <2>6, <3>1 DEF Logs
    <3>3. QED
      BY <1>1, <2>3, <2>4, <3>1, <3>2 DEF EndOf
  <2>8. CASE s = <<Log>>
    <3>1. e = Log /\ Tail(s) = <<>>
      BY <2>8
    <3>2. \A i \in Nat : Logs(queue[j], i) => Logs(queue'[j], i)
      BY <2>6, <3>1 DEF Logs
    <3>3. s # <<Overview(jobs[j]), Log>>
      BY <2>8
    <3>4. \/ Shows(view[owner[j]], jobs[j]) /\ Logs(queue[j], 0)
          \/ \E i \in DOMAIN queue[j] :
               queue[j][i] = Overview(jobs[j]) /\ Logs(queue[j], i)
      BY <1>3, <2>1, <2>3, <3>3 DEF EndOf
    <3>5. \/ Shows(view[owner[j]], jobs[j]) /\ Logs(queue'[j], 0)
          \/ \E i \in DOMAIN queue'[j] :
               queue'[j][i] = Overview(jobs[j]) /\ Logs(queue'[j], i)
      <4>1. CASE Shows(view[owner[j]], jobs[j]) /\ Logs(queue[j], 0)
        BY <3>2, <4>1
      <4>2. ASSUME NEW i \in DOMAIN queue[j],
                   queue[j][i] = Overview(jobs[j]) /\ Logs(queue[j], i)
            PROVE  /\ i \in DOMAIN queue'[j] /\ queue'[j][i] = Overview(jobs[j])
                   /\ Logs(queue'[j], i)
        BY <2>6, <3>2, <4>2
      <4>3. QED
        BY <3>4, <4>1, <4>2
    <3>6. QED
      BY <1>1, <2>3, <2>4, <3>1, <3>5 DEF EndOf
  <2>9. s \in {<<Overview(jobs[j]), Log>>, <<Log>>}
    BY <1>1, <1>3, <2>1, <2>3 DEF EndOf
  <2>10. QED
    BY <2>7, <2>8, <2>9
<1>4. jobs[j].status \notin Terminal => EndOf(j)'
  BY <1>1 DEF EndOf
<1>5. QED
  BY <1>1, <1>2, <1>3, <1>4 DEF EndDue

(* And from there to the page.                                             *)
LEMMA EndOfForward ==
  ASSUME IInv, Mail, PagesOK, Views, EndDue, NEW j \in JobIds, Forward(j)
  PROVE  EndDue'
<1> DEFINE s == queue[j]
           c == owner[j]
<1>1. /\ s \in Seq(Events) /\ s # <<>> /\ j \in DOMAIN jobs /\ c \in Pages
      /\ Head(s) \in Events /\ queue'[j] = Tail(s)
      /\ \A i \in JobIds : i # j => queue'[i] = queue[i]
      /\ \A i \in DOMAIN jobs : i # j => owner[i] # c
      /\ \A d \in Pages : d # c => view'[d] = view[d]
      /\ j \notin closed => view'[c] = ApplyMessage(view[c], Head(s))
      /\ UNCHANGED <<jobs, owner, closed, outbox>>
  BY Passed
<1>2. ASSUME NEW i \in DOMAIN jobs \ closed, i # j
      PROVE  EndOf(i)'
  <2>1. i \in JobIds /\ owner[i] \in Pages
    BY Owners
  <2>2. QED
    BY <1>1, <1>2, <2>1, EndSame DEF EndDue
<1>3. /\ DOMAIN s = 1 .. Len(s) /\ Len(s) \in Nat /\ Len(s) >= 1
      /\ DOMAIN Tail(s) = 1 .. Len(s) - 1
      /\ \A k \in 1 .. Len(s) - 1 : Tail(s)[k] = s[k + 1]
      /\ Head(s) = s[1]
  BY <1>1, HeadTailProperties
<1>4. ViewOK(view[c])
  BY <1>1 DEF Views
<1> HIDE DEF s, c
<1>5. ASSUME Shows(view[c], jobs[j]), Logs(s, 0), j \notin closed
      PROVE  Shows(view'[c], jobs[j]) /\ Logs(Tail(s), 0)
  <2>1. Head(s) = Log
    BY <1>3, <1>5 DEF Logs
  <2>2. view'[c] = view[c]
    BY <1>1, <1>4, <1>5, <2>1, EventApplied
  <2>3. QED
    BY <1>3, <1>5, <2>2 DEF Logs
<1>6. ASSUME NEW i \in DOMAIN s, s[i] = Overview(jobs[j]), Logs(s, i), j \notin closed
      PROVE  \/ Shows(view'[c], jobs[j]) /\ Logs(Tail(s), 0)
             \/ \E k \in DOMAIN Tail(s) :
                  Tail(s)[k] = Overview(jobs[j]) /\ Logs(Tail(s), k)
  <2>1. CASE i = 1
    <3>1. Shows(view'[c], jobs[j])
      BY <1>1, <1>3, <1>4, <1>6, <2>1, OverviewApplied
    <3>2. Logs(Tail(s), 0)
      BY <1>3, <1>6, <2>1 DEF Logs
    <3>3. QED
      BY <3>1, <3>2
  <2>2. CASE i # 1
    <3>1. i - 1 \in DOMAIN Tail(s) /\ Tail(s)[i - 1] = Overview(jobs[j])
      BY <1>3, <1>6, <2>2
    <3>2. Logs(Tail(s), i - 1)
      BY <1>3, <1>6, <2>2 DEF Logs
    <3>3. QED
      BY <3>1, <3>2
  <2>3. QED
    BY <2>1, <2>2
<1>7. ASSUME j \notin closed
      PROVE  EndOf(j)'
  <2>1. EndOf(j)
    BY <1>1, <1>7 DEF EndDue
  <2>2. ASSUME \/ Shows(view[c], jobs[j]) /\ Logs(s, 0)
               \/ \E i \in DOMAIN s : s[i] = Overview(jobs[j]) /\ Logs(s, i)
        PROVE  \/ Shows(view'[c], jobs[j]) /\ Logs(Tail(s), 0)
               \/ \E k \in DOMAIN Tail(s) :
                    Tail(s)[k] = Overview(jobs[j]) /\ Logs(Tail(s), k)
    BY <1>5, <1>6, <1>7, <2>2
  <2>3. queue'[j] = Tail(s) /\ jobs' = jobs /\ outbox' = outbox /\ owner'[j] = c
        /\ queue[j] = s /\ owner[j] = c
    BY <1>1 DEF s, c
  <2>4. QED
    BY <2>1, <2>2, <2>3 DEF EndOf
<1>8. QED
  BY <1>1, <1>2, <1>7 DEF EndDue

(* Every step.                                                             *)
LEMMA EndOfJob ==
  ASSUME IInv, IInv', Mail, PagesOK, EndDue, HasRoom, NEW j \in JobIds, JobStep(j)
  PROVE  EndDue'
<1>1. CASE RunJob(j) \/ \E p \in Protocols : SeedFails(j, p)
  <2>1. UNCHANGED <<jobs, owner, closed, queue, outbox, view>>
    BY <1>1 DEF RunJob, SeedFails, registry, channels, broadcasts
  <2>2. QED
    BY <2>1, EndQuiet
<1>2. CASE NoEndpoint(j) \/ MarkJobFailed(j) \/ MarkJobCompleted(j)
  BY <1>2, EndReported, EndOfMain
<1>3. ASSUME NEW p \in Protocols,
             \/ RecordProtocolStarted(j, p) \/ RecordFinding(j, p)
             \/ RecordProtocolProgress(j, p) \/ RecordProtocolCompleted(j, p)
             \/ RecordProtocolFailed(j, p)
      PROVE  EndDue'
  <2>1. PICK events \in Seq(Events) :
          Recorded(j, p, events) /\ jobs'[j].status = "running"
    BY <1>3, ReportsForm DEF Reported
  <2>2. p \in Callers /\ jobs'[j].status \notin Terminal
    BY <2>1 DEF Callers, Terminal
  <2>3. QED
    BY <2>1, <2>2, EndRecorded
<1>4. ASSUME NEW a \in Callers, TakeSubscribers(j, a)
      PROVE  EndDue'
  <2>1. /\ outbox[j][a] # <<>>
        /\ j \in subscribed => outbox' = outbox
        /\ j \notin subscribed => outbox' = [outbox EXCEPT ![j][a] = Tail(@)]
        /\ UNCHANGED <<jobs, owner, closed, queue, view>>
    BY <1>4 DEF TakeSubscribers, registry, channels
  <2>2. j \in closed \/ j \in subscribed
    BY <2>1, Listening
  <2>3. CASE j \in subscribed
    BY <2>1, <2>3, EndQuiet
  <2>4. CASE j \in closed /\ j \notin subscribed
    <3>1. \A i \in JobIds : i # j => outbox'[i] = outbox[i]
      BY <2>1, <2>4 DEF Mail, MailType
    <3>2. ASSUME NEW i \in DOMAIN jobs \ closed
          PROVE  EndOf(i)'
      <4>1. i \in JobIds /\ i # j /\ EndOf(i)
        BY <2>4, Owners DEF EndDue
      <4>2. QED
        BY <2>1, <3>1, <4>1, EndSame
    <3>3. QED
      BY <2>1, <3>2 DEF EndDue
  <2>5. QED
    BY <2>2, <2>3, <2>4
<1>5. QED
  BY <1>1, <1>2, <1>3, <1>4, EndOfSend DEF JobStep

LEMMA EndStep ==
  ASSUME IInv, IInv', Mail, PagesOK, Views, EndDue, HasRoom, MayRepeat = {}, [Next]_vars
  PROVE  EndDue'
<1>1. ASSUME NEW c \in Pages, HandlerStep(c)
      PROVE  EndDue'
  <2>1. CASE RefuseJob(c)
    <3>1. /\ view' = [view EXCEPT ![c].status = "failed"] /\ request[c] # {}
          /\ UNCHANGED <<jobs, owner, closed, queue, outbox>>
      BY <2>1 DEF RefuseJob, registry, channels, broadcasts
    <3>2. \A j \in DOMAIN jobs : owner[j] \in Pages /\ owner[j] # c
      BY <3>1, Owners DEF PagesOK, OneEach
    <3>3. QED
      BY <3>1, <3>2, EndQuiet DEF Views
  <2>2. CASE Subscribe(c) \/ ReplaceSubscription(c) \/ SpawnJob(c)
    <3>1. UNCHANGED <<jobs, owner, queue, outbox, view>> /\ closed \subseteq closed'
      BY <2>2 DEF Subscribe, ReplaceSubscription, SpawnJob, Unsubscribe, registry, channels,
         broadcasts
    <3>2. QED
      BY <3>1, EndQuiet
  <2>3. CASE MarkJobStarted(c)
    BY <2>3, StartReported, EndOfMain
  <2>4. QED
    BY <1>1, <2>1, <2>2, <2>3, EndOfCreate DEF HandlerStep
<1>2. ASSUME NEW j \in JobIds, JobStep(j)
      PROVE  EndDue'
  BY <1>2, EndOfJob
<1>3. ASSUME NEW j \in JobIds, Forward(j)
      PROVE  EndDue'
  BY <1>3, EndOfForward
<1>4. ASSUME NEW c \in Pages, NEW P \in SUBSET Protocols, Click(c, P)
      PROVE  EndDue'
  <2>1. /\ \A j \in DOMAIN jobs : owner[j] # c
        /\ view' = [view EXCEPT ![c] = FreshView(P)]
        /\ UNCHANGED <<jobs, owner, closed, queue, outbox>>
    BY <1>4, ClickIsFirst
  <2>2. \A j \in DOMAIN jobs : owner[j] \in Pages
    BY Owners
  <2>3. QED
    BY <2>1, <2>2, EndQuiet DEF Views
<1>5. CASE \/ \E j \in JobIds : ForwarderStops(j)
           \/ \E c \in Pages : Leave(c)
           \/ UNCHANGED vars
  <2>1. UNCHANGED <<jobs, owner, queue, outbox, view>> /\ closed \subseteq closed'
    BY <1>5 DEF ForwarderStops, Leave, Unsubscribe, vars, registry, channels, broadcasts
  <2>2. QED
    BY <2>1, EndQuiet
<1>6. QED
  BY <1>1, <1>2, <1>3, <1>4, <1>5 DEF Next, Server, User, ForwarderStep

-------------------------------------------------------------------------------
(* What the page shows in the end.                                         *)

PageInv == Mail /\ PagesOK /\ FindingsDue /\ EndDue

LEMMA PageInvShows ==
  ASSUME IInv, PageInv
  PROVE  PageShowsJob
<1> SUFFICES ASSUME NEW j \in DOMAIN jobs, jobs[j].status \in Terminal,
                    \A a \in Callers : outbox[j][a] = <<>>,
                    queue[j] = <<>>, j \notin closed
             PROVE  /\ Shows(view[owner[j]], jobs[j])
                    /\ \A p \in Wanted(j) :
                         view[owner[j]].findings[p] = jobs[j].findings[p]
  BY DEF PageShowsJob, Shows, Wanted
<1>1. EndOf(j) /\ Due(j)
  BY DEF PageInv, EndDue, FindingsDue
<1>2. "main" \in Callers /\ Protocols \subseteq Callers /\ Wanted(j) \subseteq Protocols
  BY Places DEF Callers, PageInv, FindingsDue
<1>3. Shows(view[owner[j]], jobs[j])
  <2>1. outbox[j]["main"] # <<Overview(jobs[j]), Log>> /\ DOMAIN queue[j] = {}
    BY <1>2
  <2>2. QED
    BY <1>1, <2>1 DEF EndOf
<1>4. ASSUME NEW p \in Wanted(j)
      PROVE  view[owner[j]].findings[p] = jobs[j].findings[p]
  <2>1. Found(queue[j], p) = 0 /\ Found(outbox[j][p], p) = 0
    BY <1>2, FoundNone
  <2>2. view[owner[j]].findings[p] \in Nat
    BY <1>2, Places DEF PageInv, FindingsDue
  <2>3. QED
    BY <1>1, <2>1, <2>2 DEF Due
<1>5. QED
  BY <1>3, <1>4

(* Where every page starts at most one job and no buffer overflows, a page *)
(* shows its job as the registry has it, each finding once, when all the   *)
(* broadcasts about it are out: although the callers of the registry send  *)
(* their copies outside the mutex and in any order.                        *)
THEOREM PagesShowTheirJobs ==
  ASSUME MayRepeat = {}
  PROVE  Spec /\ []HasRoom => []PageShowsJob
<1>1. Init => PageInv
  <2>1. Init => EndDue
    BY DEF Init, EndDue
  <2>2. QED
    BY <2>1, MailInit, PagesInit, DueInit DEF PageInv
<1>2. IInv /\ IInv' /\ HasRoom /\ PageInv /\ [Next]_vars => PageInv'
  BY MailStep, PagesStep, DueStep, EndStep DEF PageInv, FindingsDue
<1>3. IInv /\ PageInv => PageShowsJob
  BY PageInvShows
<1>4. Spec => []IInv
  BY RegistryConsistent
<1>5. QED
  BY <1>1, <1>2, <1>3, <1>4, PTL DEF Spec

-------------------------------------------------------------------------------
(* The values of the variables.                                            *)

(* No page shows more than its protocols, and no counter is ahead of the   *)
(* findings of its job, of which there are MaxFindings at most.            *)
ViewRecords ==
  [status : Statuses \cup {"idle"}, total : Nat,
   protocols : [Protocols -> Progress], findings : [Protocols -> Nat]]

Counts ==
  /\ \A j \in JobIds, p \in Protocols : stats[j][p] <= MaxFindings[j]
  /\ \A j \in DOMAIN jobs : \A p \in Wanted(j) : jobs[j].protocols[p].found <= stats[j][p]

Buffers == \A j \in JobIds : Len(queue[j]) <= Buffer

Connections ==
  /\ owner \in Seq(Pages) /\ Len(owner) = Len(jobs)
  /\ subscribed \subseteq JobIds /\ closed \subseteq JobIds
  /\ sending \subseteq JobIds \X Callers
  /\ handler \in [Pages -> HandlerLabels]
  /\ current \in [Pages -> JobIds \cup {None}]
  /\ forwarders \subseteq JobIds /\ cancelled \subseteq JobIds
  /\ panicked \in BOOLEAN

Values == Counts /\ Buffers /\ Connections /\ view \in [Pages -> ViewRecords]

(* A report replaces a job by one whose counters are as before or those of *)
(* its goroutines, or adds a finding there was room for.                   *)
LEMMA CountsRecorded ==
  ASSUME IInv, Counts, NEW j \in DOMAIN jobs, NEW job,
         jobs' = [jobs EXCEPT ![j] = job], DOMAIN job.protocols = Wanted(j),
         \A p \in Wanted(j) :
           job.protocols[p].found \in {jobs[j].protocols[p].found, stats[j][p]},
         \/ stats' = stats
         \/ \E p \in Protocols :
              stats' = [stats EXCEPT ![j][p] = @ + 1] /\ stats[j][p] < MaxFindings[j]
  PROVE  Counts'
<1>1. /\ DOMAIN jobs' = DOMAIN jobs /\ jobs'[j] = job /\ j \in JobIds
      /\ \A i \in DOMAIN jobs : i # j => jobs'[i] = jobs[i]
      /\ DOMAIN jobs \subseteq JobIds /\ \A i \in DOMAIN jobs : jobs[i] \in JobRecords
  BY JobsInRange DEF IInv, RegistryType
<1>2. /\ \A i \in JobIds, p \in Protocols : stats[i][p] \in Nat /\ MaxFindings[i] \in Nat
      /\ \A i \in DOMAIN jobs : Wanted(i) \subseteq Protocols
                                /\ \A p \in Wanted(i) : jobs[i].protocols[p].found \in Nat
  BY <1>1, JobFields, ConsoleAssumption DEF IInv, RegistryType, JobIds, Wanted
<1>3. \A i \in JobIds, p \in Protocols :
        \/ stats'[i][p] = stats[i][p]
        \/ stats'[i][p] = stats[i][p] + 1 /\ stats[i][p] < MaxFindings[i]
  <2>1. CASE stats' = stats
    BY <2>1
  <2>2. ASSUME NEW q \in Protocols,
               stats' = [stats EXCEPT ![j][q] = @ + 1], stats[j][q] < MaxFindings[j]
        PROVE  \A i \in JobIds, p \in Protocols :
                 \/ stats'[i][p] = stats[i][p]
                 \/ stats'[i][p] = stats[i][p] + 1 /\ stats[i][p] < MaxFindings[i]
    BY <1>1, <2>2 DEF IInv, RegistryType
  <2>3. QED
    BY <2>1, <2>2
<1>4. \A i \in JobIds, p \in Protocols :
        /\ stats'[i][p] \in Nat
        /\ stats[i][p] <= stats'[i][p] /\ stats'[i][p] <= MaxFindings[i]
  BY <1>2, <1>3 DEF Counts
<1>5. ASSUME NEW i \in DOMAIN jobs', NEW p \in DOMAIN jobs'[i].protocols
      PROVE  jobs'[i].protocols[p].found <= stats'[i][p]
  <2>1. i \in DOMAIN jobs /\ i \in JobIds /\ p \in Wanted(i) /\ p \in Protocols
    BY <1>1, <1>2 DEF Wanted
  <2>2. jobs'[i].protocols[p].found \in {jobs[i].protocols[p].found, stats[i][p]}
    BY <1>1, <2>1
  <2>3. jobs[i].protocols[p].found <= stats[i][p]
    BY <2>1 DEF Counts
  <2>4. QED
    BY <1>2, <1>4, <2>1, <2>2, <2>3
<1>6. QED
  BY <1>4, <1>5 DEF Counts, Wanted

(* The jobs the reports record.                                            *)
LEMMA CountsOfReport ==
  ASSUME NEW job \in JobRecords, NEW p \in DOMAIN job.protocols, NEW x, NEW n
  PROVE  /\ \A q \in DOMAIN job.protocols :
              /\ [job EXCEPT !.protocols[p].status = x].protocols[q].found
                   = job.protocols[q].found
              /\ [job EXCEPT !.protocols[p] = [status |-> x, found |-> n]].protocols[q].found
                   \in {job.protocols[q].found, n}
              /\ q # p => [job EXCEPT !.protocols[p] = [status |-> x, found |-> n]].protocols[q]
                            = job.protocols[q]
         /\ [job EXCEPT !.findings[p] = @ + 1].protocols = job.protocols
BY JobFields DEF JobRecords

(* Every step.                                                             *)
LEMMA CountsOfJob ==
  ASSUME IInv, IInv', Counts, NEW j \in JobIds, JobStep(j)
  PROVE  Counts'
<1>1. ASSUME NEW p \in Protocols,
             \/ RecordProtocolStarted(j, p) \/ RecordFinding(j, p)
             \/ RecordProtocolProgress(j, p) \/ RecordProtocolCompleted(j, p)
             \/ RecordProtocolFailed(j, p)
      PROVE  Counts'
  <2>1. worker[j][p] \in {"seed", "scan", "found", "final"}
    BY <1>1 DEF RecordProtocolStarted, RecordFinding, RecordProtocolProgress,
       RecordProtocolCompleted, RecordProtocolFailed
  <2>2. /\ j \in DOMAIN jobs /\ p \in Wanted(j) /\ jobs[j] \in JobRecords
        /\ jobs[j].protocols[p] \in [status : Statuses, found : Nat]
        /\ stats[j] \in [Protocols -> Nat] /\ MaxFindings[j] \in Nat
    BY <2>1, AtWork, JobFields, ConsoleAssumption DEF Wanted, IInv, RegistryType, JobIds
  <2>3. CASE RecordFinding(j, p)
    <3> DEFINE job == [jobs[j] EXCEPT !.findings[p] = @ + 1]
    <3>1. jobs' = [jobs EXCEPT ![j] = job] /\ stats' = [stats EXCEPT ![j][p] = @ + 1]
      BY <2>3 DEF RecordFinding, Report, Record
    <3>2. job.protocols = jobs[j].protocols
      BY <2>2, CountsOfReport DEF Wanted
    <3>3. TotalOf(stats[j]) < MaxFindings[j]
      BY <2>3 DEF RecordFinding
    <3>4. TotalOf(stats[j]) \in Nat /\ stats[j][p] <= TotalOf(stats[j])
      BY <2>2, ConsoleAssumption, TotalOfNumbers
    <3>5. stats[j][p] < MaxFindings[j]
      BY <2>2, <3>3, <3>4
    <3> HIDE DEF job
    <3>6. QED
      BY <2>2, <3>1, <3>2, <3>5, CountsRecorded DEF Wanted
  <2>4. CASE RecordProtocolStarted(j, p)
    <3> DEFINE job == [jobs[j] EXCEPT !.protocols[p].status = "running"]
    <3>1. jobs' = [jobs EXCEPT ![j] = job] /\ stats' = stats
      BY <2>4 DEF RecordProtocolStarted, Report, Record
    <3>2. /\ DOMAIN job.protocols = Wanted(j)
          /\ \A q \in Wanted(j) : job.protocols[q].found = jobs[j].protocols[q].found
      BY <2>2, StateReports, CountsOfReport DEF Wanted, SameFindings
    <3> HIDE DEF job
    <3>3. \A q \in Wanted(j) :
            job.protocols[q].found \in {jobs[j].protocols[q].found, stats[j][q]}
      BY <3>2
    <3>4. QED
      BY <2>2, <3>1, <3>2, <3>3, CountsRecorded
  <2>5. ASSUME NEW x \in {"running", "completed"}, stats' = stats,
               jobs' = [jobs EXCEPT ![j] = Counted(j, p, x)]
        PROVE  Counts'
    <3> DEFINE new == [status |-> x, found |-> stats[j][p]]
               job == [jobs[j] EXCEPT !.protocols[p] = new]
    <3>1. job \in JobRecords /\ new \in [status : Statuses, found : Nat]
      <4>1. new \in [status : Statuses, found : Nat]
        BY <2>2 DEF Statuses
      <4> HIDE DEF new
      <4>2. QED
        BY <2>2, <4>1, ProtocolReplaced DEF Wanted
    <3>2. /\ DOMAIN job.protocols = Wanted(j)
          /\ \A q \in Wanted(j) :
               job.protocols[q].found \in {jobs[j].protocols[q].found, stats[j][q]}
      BY <2>2, StateReports, CountsOfReport DEF Wanted, SameFindings
    <3> HIDE DEF job
    <3>3. Recalculated(job).protocols = job.protocols
      BY <3>1, RecalculatedJob
    <3>4. Counted(j, p, x) = Recalculated(job)
      BY DEF Counted, job
    <3>5. /\ DOMAIN Counted(j, p, x).protocols = Wanted(j)
          /\ \A q \in Wanted(j) : Counted(j, p, x).protocols[q].found
               \in {jobs[j].protocols[q].found, stats[j][q]}
      BY <3>2, <3>3, <3>4
    <3>6. QED
      BY <2>2, <2>5, <3>5, CountsRecorded
  <2>6. CASE RecordProtocolProgress(j, p) \/ RecordProtocolCompleted(j, p)
    BY <2>5, <2>6 DEF RecordProtocolProgress, RecordProtocolCompleted, Report, Record
  <2>7. CASE RecordProtocolFailed(j, p)
    <3> DEFINE job == [jobs[j] EXCEPT !.protocols[p].status = "failed"]
    <3>1. jobs' = [jobs EXCEPT ![j] = Recalculated(job)] /\ stats' = stats
      BY <2>7 DEF RecordProtocolFailed, Report, Record
    <3>2. /\ DOMAIN job.protocols = Wanted(j)
          /\ \A q \in Wanted(j) : job.protocols[q].found = jobs[j].protocols[q].found
      BY <2>2, StateReports, CountsOfReport DEF Wanted, SameFindings
    <3>3. job \in JobRecords
      <4> DEFINE new == [jobs[j].protocols[p] EXCEPT !.status = "failed"]
      <4>1. new \in [status : Statuses, found : Nat]
        BY <2>2 DEF Statuses
      <4>2. job = [jobs[j] EXCEPT !.protocols[p] = new]
        BY <2>2 DEF JobRecords
      <4> HIDE DEF new, job
      <4>3. QED
        BY <2>2, <4>1, <4>2, ProtocolReplaced DEF Wanted
    <3> HIDE DEF job
    <3>4. Recalculated(job).protocols = job.protocols
      BY <3>3, RecalculatedJob
    <3>5. /\ DOMAIN Recalculated(job).protocols = Wanted(j)
          /\ \A q \in Wanted(j) : Recalculated(job).protocols[q].found
               \in {jobs[j].protocols[q].found, stats[j][q]}
      BY <3>2, <3>4
    <3>6. QED
      BY <2>2, <3>1, <3>5, CountsRecorded
  <2>8. QED
    BY <1>1, <2>3, <2>4, <2>6, <2>7
<1>2. CASE NoEndpoint(j) \/ MarkJobFailed(j) \/ MarkJobCompleted(j)
  <2>1. PICK x \in {"failed", "completed"} :
          jobs' = [jobs EXCEPT ![j] = [jobs[j] EXCEPT !.status = x]] /\ stats' = stats
    BY <1>2 DEF NoEndpoint, MarkJobFailed, MarkJobCompleted, FailJob, Record
  <2>2. j \in DOMAIN jobs
    BY <1>2 DEF NoEndpoint, MarkJobFailed, MarkJobCompleted, IInv, Unborn
  <2>3. [jobs[j] EXCEPT !.status = x].protocols = jobs[j].protocols
    BY <2>2, JobsInRange DEF JobRecords, IInv
  <2>4. QED
    BY <2>1, <2>2, <2>3, CountsRecorded DEF Wanted
<1>3. ASSUME \/ RunJob(j) \/ \E p \in Protocols : SeedFails(j, p)
             \/ \E a \in Callers : TakeSubscribers(j, a) \/ SendEvent(j, a)
      PROVE  Counts'
  <2>1. UNCHANGED <<jobs, stats>>
    BY <1>3 DEF RunJob, SeedFails, TakeSubscribers, SendEvent, registry, goroutines
  <2>2. QED
    BY <2>1 DEF Counts, Wanted
<1>4. QED
  BY <1>1, <1>2, <1>3 DEF JobStep

LEMMA CountsStep ==
  ASSUME IInv, IInv', Counts, [Next]_vars
  PROVE  Counts'
<1>1. ASSUME NEW c \in Pages, CreateJob(c)
      PROVE  Counts'
  <2> DEFINE new == Len(jobs) + 1
  <2>1. /\ stats' = stats /\ DOMAIN jobs' = DOMAIN jobs \cup {new}
        /\ \A i \in DOMAIN jobs : jobs'[i] = jobs[i]
        /\ jobs'[new] = NewJob(request[c]) /\ new \in JobIds
    <3>1. request[c] \in SUBSET Protocols
      BY DEF IInv, RegistryType
    <3>2. jobs' = Append(jobs, NewJob(request[c])) /\ stats' = stats
      BY <1>1 DEF CreateJob, goroutines
    <3>3. /\ DOMAIN jobs' = DOMAIN jobs \cup {new} /\ jobs'[new] = NewJob(request[c])
          /\ \A i \in DOMAIN jobs : jobs'[i] = jobs[i]
      BY <3>1, <3>2, NewJobType, JobAppended DEF IInv
    <3>4. new \in JobIds
      BY <1>1, RoomForJob DEF CreateJob
    <3>5. QED
      BY <3>2, <3>3, <3>4
  <2>2. \A p \in DOMAIN jobs'[new].protocols :
          jobs'[new].protocols[p].found = 0 /\ p \in Protocols
    BY <2>1 DEF NewJob, IInv, RegistryType
  <2>3. \A p \in Protocols : stats'[new][p] \in Nat
    BY <2>1 DEF IInv, RegistryType
  <2> HIDE DEF new
  <2>4. \A i \in DOMAIN jobs' : \A p \in DOMAIN jobs'[i].protocols :
          jobs'[i].protocols[p].found <= stats'[i][p]
    BY <2>1, <2>2, <2>3 DEF Counts, Wanted
  <2>5. QED
    BY <2>1, <2>4 DEF Counts, Wanted
<1>2. ASSUME NEW c \in Pages, MarkJobStarted(c)
      PROVE  Counts'
  <2>1. PICK j \in DOMAIN jobs :
          jobs' = [jobs EXCEPT ![j] = [jobs[j] EXCEPT !.status = "running"]] /\ stats' = stats
    BY <1>2 DEF MarkJobStarted, Starting, Record
  <2>2. [jobs[j] EXCEPT !.status = "running"].protocols = jobs[j].protocols
    BY <2>1, JobsInRange DEF JobRecords, IInv
  <2>3. QED
    BY <2>1, <2>2, CountsRecorded DEF Wanted
<1>3. CASE \/ \E c \in Pages : RefuseJob(c) \/ Subscribe(c) \/ ReplaceSubscription(c)
                               \/ SpawnJob(c) \/ Leave(c)
           \/ \E c \in Pages : \E P \in (SUBSET Protocols) \ {{}} : Click(c, P)
           \/ \E j \in JobIds : ForwarderStep(j)
           \/ UNCHANGED vars
  <2>1. UNCHANGED <<jobs, stats>>
    BY <1>3 DEF RefuseJob, Subscribe, ReplaceSubscription, SpawnJob, Leave, Click,
       ForwarderStep, Forward, ForwarderStops, vars, registry, goroutines
  <2>2. QED
    BY <2>1 DEF Counts, Wanted
<1>4. QED
  BY <1>1, <1>2, <1>3, CountsOfJob DEF Next, Server, User, HandlerStep

-------------------------------------------------------------------------------
(* The buffers, the connections and the pages.                             *)

LEMMA BuffersStep ==
  ASSUME IInv, Mail, Buffers, [Next]_vars
  PROVE  Buffers'
<1>1. \A i \in JobIds : queue[i] \in Seq(Events) /\ Len(queue[i]) \in Nat
  BY DEF Mail, MailType
<1>2. ASSUME NEW j \in JobIds, NEW a \in Callers, SendEvent(j, a)
      PROVE  Buffers'
  <2>1. outbox[j][a] \in Seq(Events) /\ outbox[j][a] # <<>>
    BY <1>2 DEF SendEvent, Mail, MailType, Lines
  <2>2. Head(outbox[j][a]) \in Events
    BY <2>1
  <2>3. \/ queue' = queue
        \/ /\ queue' = [queue EXCEPT ![j] = Append(@, Head(outbox[j][a]))]
           /\ ~(Len(queue[j]) >= Buffer)
    BY <1>2 DEF SendEvent
  <2>4. Len(Append(queue[j], Head(outbox[j][a]))) = Len(queue[j]) + 1
    BY <1>1, <2>2
  <2>5. \A i \in JobIds : \/ queue'[i] = queue[i]
                          \/ Len(queue'[i]) = Len(queue[i]) + 1 /\ ~(Len(queue[i]) >= Buffer)
    BY <2>3, <2>4 DEF Mail, MailType
  <2>6. QED
    BY <1>1, <2>5, ConsoleAssumption DEF Buffers
<1>3. ASSUME NEW j \in JobIds, Forward(j)
      PROVE  Buffers'
  <2>1. queue[j] # <<>> /\ queue' = [queue EXCEPT ![j] = Tail(@)]
    BY <1>3 DEF Forward
  <2>2. Len(Tail(queue[j])) = Len(queue[j]) - 1
    BY <1>1, <2>1
  <2>3. \A i \in JobIds : queue'[i] = queue[i] \/ Len(queue'[i]) = Len(queue[i]) - 1
    BY <2>1, <2>2 DEF Mail, MailType
  <2>4. QED
    BY <1>1, <2>3, ConsoleAssumption DEF Buffers
<1>4. CASE queue' = queue
  BY <1>4 DEF Buffers
<1>5. ASSUME NEW j \in JobIds, JobStep(j)
      PROVE  queue' = queue \/ \E a \in Callers : SendEvent(j, a)
  BY <1>5 DEF JobStep, RunJob, NoEndpoint, MarkJobFailed, MarkJobCompleted, FailJob,
     SeedFails, RecordProtocolStarted, RecordFinding, RecordProtocolProgress,
     RecordProtocolCompleted, RecordProtocolFailed, Report, TakeSubscribers, channels
<1>6. ASSUME NEW c \in Pages, HandlerStep(c)
      PROVE  queue' = queue
  BY <1>6 DEF HandlerStep, CreateJob, RefuseJob, Subscribe, ReplaceSubscription,
     MarkJobStarted, SpawnJob, channels
<1>7. CASE User \/ UNCHANGED vars \/ \E j \in JobIds : ForwarderStops(j)
  <2>1. queue' = queue
    BY <1>7 DEF User, Leave, Click, ForwarderStops, vars, channels
  <2>2. QED
    BY <1>4, <2>1
<1>8. QED
  BY <1>2, <1>3, <1>4, <1>5, <1>6, <1>7 DEF Next, Server, ForwarderStep

(* What a handler does to its connection.                                  *)
LEMMA ConnectionsOfPage ==
  ASSUME IInv, Connections, NEW c \in Pages, HandlerStep(c) \/ Leave(c)
  PROVE  Connections'
<1>1. DOMAIN jobs \subseteq JobIds
  BY JobsInRange DEF IInv
<1>2. current[c] \in JobIds \cup {None} /\ Held(c) \subseteq JobIds
  BY DEF Connections, Held
<1>3. {"reading", "created", "subscribed", "replaced", "starting", "closed"} = HandlerLabels
  BY DEF HandlerLabels
<1>4. CASE CreateJob(c)
  <2>1. /\ jobs' = Append(jobs, NewJob(request[c])) /\ owner' = Append(owner, c)
        /\ handler' = [handler EXCEPT ![c] = "created"] /\ request[c] \in SUBSET Protocols
        /\ UNCHANGED <<channels, sending, current, forwarders, cancelled, panicked>>
    BY <1>4 DEF CreateJob, broadcasts, IInv, RegistryType
  <2>2. Len(jobs') = Len(jobs) + 1
    BY <2>1, NewJobType, JobAppended DEF IInv
  <2>3. owner' \in Seq(Pages) /\ Len(owner') = Len(owner) + 1
    BY <2>1 DEF Connections
  <2>4. QED
    BY <1>3, <2>1, <2>2, <2>3 DEF Connections, channels
<1>5. CASE RefuseJob(c)
  BY <1>5 DEF RefuseJob, Connections, registry, channels, broadcasts
<1>6. CASE Subscribe(c)
  <2>1. PICK j \in JobIds : subscribed' = subscribed \cup {j}
    BY <1>6 DEF Subscribe
  <2>2. QED
    BY <1>3, <1>6, <2>1 DEF Subscribe, Connections, registry, broadcasts
<1>7. CASE ReplaceSubscription(c)
  <2>1. PICK j \in JobIds :
          current' = [current EXCEPT ![c] = j] /\ forwarders' = forwarders \cup {j}
    BY <1>7 DEF ReplaceSubscription
  <2>2. QED
    BY <1>2, <1>3, <1>7, <2>1 DEF ReplaceSubscription, Unsubscribe, Connections, registry,
       broadcasts
<1>8. CASE MarkJobStarted(c)
  <2>1. PICK j \in DOMAIN jobs : \E job : jobs' = [jobs EXCEPT ![j] = job]
    BY <1>8 DEF MarkJobStarted, Starting, Record
  <2>2. Len(jobs') = Len(jobs)
    BY <2>1 DEF IInv, RegistryType
  <2>3. QED
    BY <1>3, <1>8, <2>2 DEF MarkJobStarted, Connections, channels
<1>9. CASE SpawnJob(c)
  BY <1>3, <1>9 DEF SpawnJob, Connections, registry, channels, broadcasts
<1>10. CASE Leave(c)
  BY <1>2, <1>3, <1>10 DEF Leave, Unsubscribe, Connections, registry, broadcasts
<1>11. QED
  BY <1>4, <1>5, <1>6, <1>7, <1>8, <1>9, <1>10 DEF HandlerStep

LEMMA ConnectionsStep ==
  ASSUME IInv, Connections, [Next]_vars
  PROVE  Connections'
<1>1. ASSUME NEW j \in JobIds, NEW a \in Callers, TakeSubscribers(j, a) \/ SendEvent(j, a)
      PROVE  Connections'
  <2>1. /\ UNCHANGED <<jobs, owner, subscribed, closed, handler, current, forwarders, cancelled>>
        /\ sending' \in {sending, sending \cup {<<j, a>>}, sending \ {<<j, a>>}}
        /\ panicked' = panicked \/ panicked' = (j \in closed)
    BY <1>1 DEF TakeSubscribers, SendEvent, registry, channels, connections
  <2>2. panicked \in BOOLEAN
    BY DEF Connections
  <2>3. panicked' \in BOOLEAN
    <3>1. CASE panicked' = panicked
      BY <2>2, <3>1
    <3>2. CASE panicked' = (j \in closed)
      BY <3>2
    <3>3. QED
      BY <2>1, <3>1, <3>2
  <2>4. sending' \subseteq JobIds \X Callers
    BY <2>1 DEF Connections
  <2>5. QED
    BY <2>1, <2>3, <2>4 DEF Connections
<1>2. ASSUME NEW j \in JobIds, JobStep(j)
      PROVE  Connections' \/ \E a \in Callers : TakeSubscribers(j, a) \/ SendEvent(j, a)
  <2>1. CASE RunJob(j) \/ \E p \in Protocols : SeedFails(j, p)
    BY <2>1 DEF RunJob, SeedFails, Connections, registry, channels, broadcasts, connections
  <2>2. CASE \/ NoEndpoint(j) \/ MarkJobFailed(j) \/ MarkJobCompleted(j)
             \/ \E p \in Protocols :
                  \/ RecordProtocolStarted(j, p) \/ RecordFinding(j, p)
                  \/ RecordProtocolProgress(j, p) \/ RecordProtocolCompleted(j, p)
                  \/ RecordProtocolFailed(j, p)
    <3>1. \E job : jobs' = [jobs EXCEPT ![j] = job]
      BY <2>2 DEF NoEndpoint, MarkJobFailed, MarkJobCompleted, FailJob, RecordProtocolStarted,
         RecordFinding, RecordProtocolProgress, RecordProtocolCompleted,
         RecordProtocolFailed, Report, Record
    <3>2. Len(jobs') = Len(jobs)
      BY <3>1 DEF IInv, RegistryType
    <3>3. UNCHANGED <<owner, channels, sending, connections, panicked>>
      BY <2>2 DEF NoEndpoint, MarkJobFailed, MarkJobCompleted, FailJob, RecordProtocolStarted,
         RecordFinding, RecordProtocolProgress, RecordProtocolCompleted,
         RecordProtocolFailed, Report
    <3>4. QED
      BY <3>2, <3>3 DEF Connections, channels, connections
  <2>3. QED
    BY <1>2, <2>1, <2>2 DEF JobStep
<1>3. ASSUME NEW j \in JobIds, ForwarderStep(j)
      PROVE  Connections'
  BY <1>3 DEF ForwarderStep, Forward, ForwarderStops, Connections, registry, channels,
     broadcasts, connections
<1>4. CASE UNCHANGED vars \/ \E c \in Pages : \E P \in (SUBSET Protocols) \ {{}} : Click(c, P)
  BY <1>4 DEF Click, Connections, vars, registry, channels, broadcasts, connections
<1>5. QED
  BY <1>1, <1>2, <1>3, <1>4, ConnectionsOfPage DEF Next, Server, User

(* What a page makes of an event is something it can show.                 *)
LEMMA EventShown ==
  ASSUME NEW v \in ViewRecords, NEW e \in Events
  PROVE  ApplyMessage(v, e) \in ViewRecords
<1>1. /\ v.protocols \in [Protocols -> Progress] /\ v.findings \in [Protocols -> Nat]
      /\ [status : Statuses, found : Nat] \subseteq Progress
  BY DEF ViewRecords, Progress
<1>2. CASE e = Log
  <2>1. ApplyMessage(v, e) = v
    BY <1>2, Kinds DEF ApplyMessage
  <2>2. QED
    BY <2>1
<1>3. ASSUME NEW p \in Protocols, e = FindingOf(p)
      PROVE  ApplyMessage(v, e) \in ViewRecords
  <2>1. e.kind = "finding" /\ e.protocol = p
    BY <1>3, Kinds
  <2>2. ApplyMessage(v, e) = [v EXCEPT !.findings[p] = @ + 1]
    BY <2>1 DEF ApplyMessage
  <2>3. [v.findings EXCEPT ![p] = @ + 1] \in [Protocols -> Nat]
    BY <1>1
  <2>4. QED
    BY <2>2, <2>3 DEF ViewRecords
<1>4. ASSUME NEW job \in JobRecords, e = Overview(job)
      PROVE  ApplyMessage(v, e) \in ViewRecords
  <2>1. /\ e.kind = "overview" /\ e.status = job.status /\ e.total = job.total
        /\ e.protocols = job.protocols
    BY <1>4 DEF Overview
  <2>2. ApplyMessage(v, e) = [v EXCEPT !.status = job.status, !.total = job.total,
                                !.protocols = Merged(job.protocols, v.protocols)]
    BY <2>1 DEF ApplyMessage, ViewRecords
  <2>3. job.status \in Statuses /\ job.total \in Nat
    BY JobFields
  <2>4. Merged(job.protocols, v.protocols) \in [Protocols -> Progress]
    <3>1. /\ DOMAIN job.protocols \subseteq Protocols /\ DOMAIN v.protocols = Protocols
          /\ \A p \in DOMAIN job.protocols : job.protocols[p] \in [status : Statuses, found : Nat]
      BY <1>1, JobFields
    <3>2. QED
      BY <1>1, <3>1 DEF Merged
  <2>5. QED
    BY <2>2, <2>3, <2>4 DEF ViewRecords
<1>5. ASSUME NEW job \in JobRecords, NEW p \in DOMAIN job.protocols, e = Snapshot(job, p)
      PROVE  ApplyMessage(v, e) \in ViewRecords
  <2>1. e.kind = "protocol" /\ e.protocol = p /\ e.progress = job.protocols[p]
    BY <1>5 DEF Snapshot
  <2>2. ApplyMessage(v, e) = [v EXCEPT !.protocols[p] = job.protocols[p]]
    BY <2>1 DEF ApplyMessage
  <2>3. job.protocols[p] \in [status : Statuses, found : Nat] /\ p \in Protocols
    BY JobFields
  <2>4. [v.protocols EXCEPT ![p] = job.protocols[p]] \in [Protocols -> Progress]
    BY <1>1, <2>3
  <2>5. QED
    BY <2>2, <2>4 DEF ViewRecords
<1>6. QED
  BY <1>2, <1>3, <1>4, <1>5 DEF Events

LEMMA FreshShown ==
  ASSUME NEW P \in SUBSET Protocols
  PROVE  FreshView(P) \in ViewRecords /\ Blank \in ViewRecords
<1>1. Blank \in ViewRecords
  BY DEF Blank, ViewRecords, Progress
<1>2. NewJob(P).protocols \in [P -> Progress]
  BY DEF NewJob, Progress, Statuses
<1>3. Merged(NewJob(P).protocols, Blank.protocols) \in [Protocols -> Progress]
  BY <1>1, <1>2 DEF Merged, ViewRecords
<1>4. FreshView(P) = [Blank EXCEPT !.status = "pending",
                        !.protocols = Merged(NewJob(P).protocols, Blank.protocols)]
  BY DEF FreshView, Blank
<1>5. QED
  BY <1>1, <1>3, <1>4 DEF ViewRecords, Statuses

LEMMA ViewsStep ==
  ASSUME IInv, Mail, Connections, view \in [Pages -> ViewRecords], [Next]_vars
  PROVE  view' \in [Pages -> ViewRecords]
<1>1. ASSUME NEW j \in JobIds, Forward(j)
      PROVE  view' \in [Pages -> ViewRecords]
  <2>1. queue[j] \in Seq(Events) /\ queue[j] # <<>>
    BY <1>1 DEF Forward, Mail, MailType
  <2>2. Head(queue[j]) \in Events
    BY <2>1
  <2>3. \A v \in ViewRecords : ApplyMessage(v, Head(queue[j])) \in ViewRecords
    BY <2>2, EventShown
  <2>4. view' = view \/ view' = [view EXCEPT ![owner[j]] = ApplyMessage(@, Head(queue[j]))]
    BY <1>1 DEF Forward
  <2>5. QED
    BY <2>3, <2>4
<1>2. ASSUME NEW c \in Pages, NEW P \in SUBSET Protocols, Click(c, P)
      PROVE  view' \in [Pages -> ViewRecords]
  BY <1>2, FreshShown DEF Click
<1>3. ASSUME NEW c \in Pages, RefuseJob(c)
      PROVE  view' \in [Pages -> ViewRecords]
  <2>1. view' = [view EXCEPT ![c].status = "failed"] /\ view[c] \in ViewRecords
    BY <1>3 DEF RefuseJob
  <2>2. [view[c] EXCEPT !.status = "failed"] \in ViewRecords
    BY <2>1 DEF ViewRecords, Statuses
  <2>3. view' = [view EXCEPT ![c] = [view[c] EXCEPT !.status = "failed"]]
    BY <2>1
  <2>4. QED
    BY <2>2, <2>3
<1>4. ASSUME NEW j \in JobIds, JobStep(j)
      PROVE  view' = view
  BY <1>4 DEF JobStep, RunJob, NoEndpoint, MarkJobFailed, MarkJobCompleted, FailJob,
     SeedFails, RecordProtocolStarted, RecordFinding, RecordProtocolProgress,
     RecordProtocolCompleted, RecordProtocolFailed, Report, TakeSubscribers, SendEvent
<1>5. ASSUME NEW c \in Pages, HandlerStep(c)
      PROVE  view' = view \/ RefuseJob(c)
  BY <1>5 DEF HandlerStep, CreateJob, Subscribe, ReplaceSubscription, MarkJobStarted, SpawnJob
<1>6. CASE \/ \E c \in Pages : Leave(c)
           \/ \E j \in JobIds : ForwarderStops(j)
           \/ UNCHANGED vars
  BY <1>6 DEF Leave, ForwarderStops, vars
<1>7. QED
  BY <1>1, <1>2, <1>3, <1>4, <1>5, <1>6 DEF Next, Server, User, ForwarderStep

-------------------------------------------------------------------------------

LEMMA ValuesInit == Init => Values /\ Mail
<1> SUFFICES ASSUME Init PROVE Values /\ Mail
  OBVIOUS
<1>1. \A j \in JobIds : MaxFindings[j] \in Nat
  BY ConsoleAssumption DEF JobIds
<1>2. Counts
  BY <1>1 DEF Init, Counts
<1>3. Buffers
  BY ConsoleAssumption DEF Init, Buffers
<1>4. Connections
  <2>1. owner \in Seq(Pages) /\ Len(owner) = Len(jobs)
    BY DEF Init
  <2>2. panicked \in BOOLEAN
    BY DEF Init
  <2>3. QED
    BY <2>1, <2>2 DEF Init, Connections, HandlerLabels
<1>5. view \in [Pages -> ViewRecords]
  BY FreshShown DEF Init
<1>6. QED
  BY <1>2, <1>3, <1>4, <1>5, MailInit DEF Values

LEMMA ValuesStep ==
  ASSUME IInv, IInv', Values, Mail, [Next]_vars
  PROVE  (Values /\ Mail)'
BY CountsStep, BuffersStep, ConnectionsStep, ViewsStep, MailStep DEF Values

LEMMA ValuesTyped ==
  ASSUME IInv, Values
  PROVE  TypeOK
<1>1. /\ Len(jobs) \in Nat /\ Len(jobs) <= MaxJobs
      /\ DOMAIN jobs \subseteq JobIds /\ \A j \in DOMAIN jobs : jobs[j] \in JobRecords
  BY JobsInRange, ConsoleAssumption DEF IInv, RegistryType
<1>2. \A j \in JobIds : /\ MaxFindings[j] \in Nat
                        /\ stats[j] \in [Protocols -> 0 .. MaxFindings[j]]
  <2>1. TAKE j \in JobIds
  <2>2. stats[j] \in [Protocols -> Nat] /\ MaxFindings[j] \in Nat
        /\ \A p \in Protocols : stats[j][p] <= MaxFindings[j]
    BY ConsoleAssumption DEF IInv, RegistryType, Values, Counts, JobIds
  <2>3. QED
    BY <2>2
<1>3. ASSUME NEW j \in DOMAIN jobs
      PROVE  /\ jobs[j].status \in Statuses
             /\ Wanted(j) \in (SUBSET Protocols) \ {{}}
             /\ jobs[j].protocols
                  \in [Wanted(j) -> [status : Statuses, found : 0 .. MaxFindings[j]]]
             /\ jobs[j].findings \in [Wanted(j) -> 0 .. MaxFindings[j]]
             /\ jobs[j].total \in Nat
             /\ owner[j] \in Pages
  <2>1. /\ jobs[j].status \in Statuses /\ jobs[j].total \in Nat
        /\ DOMAIN jobs[j].protocols \in SUBSET Protocols
        /\ jobs[j].protocols \in [DOMAIN jobs[j].protocols -> [status : Statuses, found : Nat]]
        /\ jobs[j].findings \in [DOMAIN jobs[j].findings -> Nat]
    BY <1>1, JobFields
  <2>2. /\ Wanted(j) # {} /\ DOMAIN jobs[j].findings = Wanted(j)
        /\ \A p \in Wanted(j) : stats[j][p] = jobs[j].findings[p]
    BY DEF IInv, JobsOK, JobOK, WorkerOK, Wanted
  <2>3. \A p \in Wanted(j) : /\ stats[j][p] \in 0 .. MaxFindings[j]
                             /\ jobs[j].protocols[p].found <= stats[j][p]
    BY <1>1, <1>2, <2>1 DEF Values, Counts, Wanted
  <2>4. \A p \in Wanted(j) :
          jobs[j].protocols[p] \in [status : Statuses, found : 0 .. MaxFindings[j]]
    <3>1. TAKE p \in Wanted(j)
    <3>2. jobs[j].protocols[p] \in [status : Statuses, found : Nat]
      BY <2>1 DEF Wanted
    <3>3. jobs[j].protocols[p].found \in 0 .. MaxFindings[j]
      BY <1>1, <1>2, <2>3, <3>2
    <3>4. QED
      BY <3>2, <3>3
  <2>5. DOMAIN owner = DOMAIN jobs
    <3>1. Len(owner) = Len(jobs) /\ owner \in Seq(Pages) /\ jobs \in Seq(JobRecords)
      BY DEF Values, Connections, IInv, RegistryType
    <3>2. QED
      BY <3>1
  <2>6. owner[j] \in Pages
    BY <2>5 DEF Values, Connections
  <2>7. QED
    BY <2>1, <2>2, <2>3, <2>4, <2>6 DEF Wanted
<1>4. QED
  BY <1>1, <1>2, <1>3
  DEF TypeOK, Values, Buffers, Connections, HandlerLabels, ViewRecords, IInv, RegistryType,
      MainLabels, WorkerLabels

(* The variables keep their ranges whatever is asked of the registry: it   *)
(* has room for every job, no counter passes the number of findings, which *)
(* needs that a total is no less than any of its counters, and no buffer   *)
(* holds more than it has room for.                                        *)
THEOREM TypeCorrect ==
  Spec => []TypeOK
<1>1. Init => Values /\ Mail
  BY ValuesInit
<1>2. IInv /\ IInv' /\ Values /\ Mail /\ [Next]_vars => (Values /\ Mail)'
  BY ValuesStep
<1>3. IInv /\ Values => TypeOK
  BY ValuesTyped
<1>4. Spec => []IInv
  BY RegistryConsistent
<1>5. QED
  BY <1>1, <1>2, <1>3, <1>4, PTL DEF Spec
===============================================================================
