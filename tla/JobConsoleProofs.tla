--------------------------- MODULE JobConsoleProofs ---------------------------
(***************************************************************************)
(* Proofs about JobConsole, for any number of pages, protocols, jobs and   *)
(* findings, and any size of the buffers.                                  *)
(***************************************************************************)
EXTENDS JobConsole, FiniteSetTheorems, WellFoundedInduction, TLAPS

(* The values a job of the registry takes.                                 *)
Counters == UNION {[P -> Nat] : P \in SUBSET Protocols}
JobRecords ==
  [status    : Statuses,
   protocols : UNION {[P -> [status : Statuses, found : Nat]] : P \in SUBSET Protocols},
   findings  : Counters,
   total     : Nat]

MainLabels == {"none", "starting", "run", "wait", "ended"}
WorkerLabels == {"none", "seed", "scan", "found", "final", "ok", "error"}

Pending == {c \in Pages : request[c] # {}}

(* The registry and the goroutines, and that every request not yet read    *)
(* has room for its job.                                                   *)
RegistryType ==
  /\ jobs \in Seq(JobRecords)
  /\ main \in [JobIds -> MainLabels]
  /\ worker \in [JobIds -> [Protocols -> WorkerLabels]]
  /\ stats \in [JobIds -> [Protocols -> Nat]]
  /\ request \in [Pages -> SUBSET Protocols]
  /\ Len(jobs) + Cardinality(Pending) <= MaxJobs

(* Nothing runs for a job that is not in the registry yet.                 *)
Unborn ==
  \A j \in JobIds \ DOMAIN jobs :
    /\ main[j] = "none"
    /\ worker[j] = [p \in Protocols |-> "none"]
    /\ stats[j] = [p \in Protocols |-> 0]

(* The status of a job follows m, where the goroutine of the job is.  A    *)
(* goroutine of a protocol works only while that one waits, and only for a *)
(* job that wants the protocol.                                            *)
MainOK(job, m, w) ==
  /\ m = "none" => job.status = "pending"
  /\ m \in {"starting", "run", "wait"} => job.status = "running"
  /\ m = "ended" => job.status \in Terminal
  /\ job.status = "completed" => \A p \in DOMAIN job.protocols : w[p] = "ok"
  /\ \A p \in Protocols :
       /\ w[p] # "none" => m \in {"wait", "ended"} /\ p \in DOMAIN job.protocols
       /\ m = "ended" => w[p] \in {"none", "ok", "error"}

(* The status of a protocol follows label, where its goroutine is, and its *)
(* findings are the n the goroutine has counted.                           *)
WorkerOK(job, p, label, n) ==
  /\ n = job.findings[p]
  /\ label \in {"none", "seed"} => job.protocols[p].status = "pending"
  /\ label \in {"scan", "found", "final"} => job.protocols[p].status = "running"
  /\ label = "ok" =>
       job.protocols[p] = [status |-> "completed", found |-> job.findings[p]]
  /\ label = "error" => job.protocols[p].status \in {"pending", "failed"}

(* What the job with goroutines at m and w and counters s looks like.  The *)
(* total has been computed since the first protocol completed.             *)
JobOK(job, m, w, s) ==
  /\ DOMAIN job.protocols # {} /\ DOMAIN job.findings = DOMAIN job.protocols
  /\ MainOK(job, m, w)
  /\ \A p \in DOMAIN job.protocols : WorkerOK(job, p, w[p], s[p])
  /\ (\E p \in DOMAIN job.protocols : w[p] = "ok") => job.total = TotalOf(FoundBy(job))

JobsOK == \A j \in DOMAIN jobs : JobOK(jobs[j], main[j], worker[j], stats[j])

(* The inductive invariant.                                                *)
IInv == RegistryType /\ Unborn /\ JobsOK /\ OneActiveJob

(* What a step leaves of a job that has ended.                             *)
TerminalKept ==
  \A i \in DOMAIN jobs : jobs[i].status \in Terminal => jobs'[i] = jobs[i]

-------------------------------------------------------------------------------
(* Totals.                                                                 *)

(* Induction: a set of numbers has a least element.                       *)
LEMMA Least ==
  ASSUME NEW T \in SUBSET Nat, T # {}
  PROVE  \E n \in T : \A m \in T : n <= m
<1>1. PICK n \in T : \A y \in T : ~ (<<y, n>> \in OpToRel(<, Nat))
  BY NatLessThanWellFounded, WFMin
<1>2. \A m \in T : ~(m < n)
  BY <1>1 DEF OpToRel
<1>3. n \in Nat /\ \A m \in T : m \in Nat
  OBVIOUS
<1>4. \A m \in T : n <= m
  BY <1>2, <1>3
<1>5. QED
  BY <1>4

(* The element with which the sum over a set begins, and what the partial  *)
(* sums it obey.                                                           *)
One(s) == CHOOSE x \in s : TRUE
Summing(f, S, it) ==
  [s \in SUBSET S |-> IF s = {} THEN 0 ELSE f[One(s)] + it[s \ {One(s)}]]

(* The fold behind a total.                                                *)
LEMMA TotalIs ==
  ASSUME NEW f
  PROVE  TotalOf(f) = (CHOOSE it : it = Summing(f, DOMAIN f, it))[DOMAIN f]
BY DEF TotalOf, MapThenSumSet, MapThenFoldSet, Summing, One

(* The subsets of S with n elements at most, and their sums.               *)
Small(S, n) == {s \in SUBSET S : Cardinality(s) <= n}
Sums(f, S, n) ==
  {g \in [Small(S, n) -> Nat] :
     \A s \in Small(S, n) : g[s] = IF s = {} THEN 0 ELSE f[One(s)] + g[s \ {One(s)}]}

(* If there are such sums for n there are for n + 1.                       *)
LEMMA SumStep ==
  ASSUME NEW S, IsFiniteSet(S), NEW f \in [S -> Nat], NEW n \in Nat, Sums(f, S, n) # {}
  PROVE  Sums(f, S, n + 1) # {}
<1>1. PICK g \in Sums(f, S, n) : TRUE
  OBVIOUS
<1> DEFINE h == [s \in Small(S, n + 1) |->
                   IF s = {} THEN 0 ELSE f[One(s)] + g[s \ {One(s)}]]
<1>2. /\ g \in [Small(S, n) -> Nat]
      /\ \A s \in Small(S, n) : g[s] = IF s = {} THEN 0 ELSE f[One(s)] + g[s \ {One(s)}]
  BY <1>1 DEF Sums
<1>3. ASSUME NEW s \in Small(S, n + 1), s # {}
      PROVE  One(s) \in S /\ s \ {One(s)} \in Small(S, n) /\ s \ {One(s)} \in Small(S, n + 1)
  <2>1. One(s) \in s /\ s \subseteq S
    BY <1>3 DEF One, Small
  <2>2. IsFiniteSet(s)
    BY <2>1, FS_Subset
  <2>3. Cardinality(s) \in Nat /\ Cardinality(s \ {One(s)}) = Cardinality(s) - 1
    BY <2>1, <2>2, FS_RemoveElement, FS_CardinalityType
  <2>4. Cardinality(s) <= n + 1
    BY DEF Small
  <2>5. Cardinality(s \ {One(s)}) <= n /\ Cardinality(s \ {One(s)}) <= n + 1
    BY <2>3, <2>4
  <2>6. QED
    BY <2>1, <2>5 DEF Small
<1>4. h \in [Small(S, n + 1) -> Nat]
  BY <1>2, <1>3
<1>5. \A s \in Small(S, n) : h[s] = g[s]
  <2>1. ASSUME NEW s \in Small(S, n)
        PROVE  s \in Small(S, n + 1)
    <3>1. IsFiniteSet(s) /\ Cardinality(s) <= n
      BY FS_Subset DEF Small
    <3>2. Cardinality(s) <= n + 1
      BY <3>1, FS_CardinalityType
    <3>3. QED
      BY <3>2 DEF Small
  <2>2. QED
    BY <1>2, <2>1
<1>6. \A s \in Small(S, n + 1) : h[s] = IF s = {} THEN 0 ELSE f[One(s)] + h[s \ {One(s)}]
  BY <1>3, <1>5
<1> HIDE DEF h
<1>7. h \in Sums(f, S, n + 1)
  BY <1>4, <1>6 DEF Sums
<1>8. QED
  BY <1>7

(* There are for the empty set.                                            *)
LEMMA SumBase ==
  ASSUME NEW S, IsFiniteSet(S), NEW f \in [S -> Nat]
  PROVE  Sums(f, S, 0) # {}
<1> DEFINE h == [s \in Small(S, 0) |-> 0]
<1>1. \A s \in Small(S, 0) : s = {}
  <2>1. TAKE s \in Small(S, 0)
  <2>2. IsFiniteSet(s) /\ Cardinality(s) <= 0
    BY FS_Subset DEF Small
  <2>3. Cardinality(s) \in Nat
    BY <2>2, FS_CardinalityType
  <2>4. QED
    BY <2>2, <2>3, FS_EmptySet
<1>2. h \in Sums(f, S, 0)
  BY <1>1 DEF Sums
<1>3. QED
  BY <1>2

(* So there are for any n.                                                 *)
LEMMA SumsExist ==
  ASSUME NEW S, IsFiniteSet(S), NEW f \in [S -> Nat]
  PROVE  \A n \in Nat : Sums(f, S, n) # {}
<1> DEFINE without == {n \in Nat : Sums(f, S, n) = {}}
<1>1. SUFFICES ASSUME without # {} PROVE FALSE
  OBVIOUS
<1>2. PICK n \in without : \A m \in without : n <= m
  BY <1>1, Least
<1>3. n \in Nat /\ Sums(f, S, n) = {}
  OBVIOUS
<1>4. n # 0
  BY <1>3, SumBase
<1>5. n - 1 \in Nat /\ n - 1 \notin without /\ (n - 1) + 1 = n
  BY <1>2, <1>3, <1>4
<1>6. Sums(f, S, n - 1) # {}
  BY <1>5
<1> HIDE DEF without
<1>7. Sums(f, S, (n - 1) + 1) # {}
  BY <1>5, <1>6, SumStep
<1>8. QED
  BY <1>3, <1>5, <1>7

(* A total is a number and no counter is larger.                           *)
LEMMA TotalOfNumbers ==
  ASSUME NEW S, IsFiniteSet(S), NEW f \in [S -> Nat]
  PROVE  TotalOf(f) \in Nat /\ \A x \in S : f[x] <= TotalOf(f)
<1> DEFINE c == Cardinality(S)
           it == CHOOSE it : it = Summing(f, S, it)
<1>1. c \in Nat
  BY FS_CardinalityType
<1>2. PICK g \in Sums(f, S, c) : TRUE
  BY <1>1, SumsExist
<1>3. Small(S, c) = SUBSET S
  <2>1. ASSUME NEW s \in SUBSET S PROVE Cardinality(s) <= c
    BY FS_Subset
  <2>2. QED
    BY <2>1 DEF Small
<1>4. g = Summing(f, S, g)
  <2>1. /\ g \in [SUBSET S -> Nat]
        /\ \A s \in SUBSET S : g[s] = IF s = {} THEN 0 ELSE f[One(s)] + g[s \ {One(s)}]
    BY <1>3 DEF Sums
  <2>2. QED
    BY <2>1 DEF Summing
<1>5. it = Summing(f, S, it)
  BY <1>4
<1>6. \A s \in SUBSET S : it[s] = IF s = {} THEN 0 ELSE f[One(s)] + it[s \ {One(s)}]
  BY <1>5 DEF Summing
<1>7. TotalOf(f) = it[S]
  BY TotalIs
<1> HIDE DEF it, c
<1> DEFINE right(s) == it[s] \in Nat /\ \A x \in s : f[x] <= it[s]
           wrong == {n \in Nat : \E s \in SUBSET S : Cardinality(s) = n /\ ~right(s)}
<1>8. wrong = {}
  <2>1. SUFFICES ASSUME wrong # {} PROVE FALSE
    OBVIOUS
  <2>2. PICK n \in wrong : \A m \in wrong : n <= m
    BY <2>1, Least
  <2>3. PICK s \in SUBSET S : Cardinality(s) = n /\ ~right(s)
    OBVIOUS
  <2>4. s # {}
    <3>1. it[{}] = 0
      BY <1>6
    <3>2. right({})
      BY <3>1
    <3>3. QED
      BY <2>3, <3>2
  <2>5. One(s) \in s
    BY <2>4 DEF One
  <2> DEFINE x == One(s)
             r == s \ {x}
  <2>6. Cardinality(r) \in Nat /\ Cardinality(r) = n - 1
    <3>1. IsFiniteSet(s)
      BY FS_Subset
    <3>2. QED
      BY <2>3, <2>5, <3>1, FS_RemoveElement, FS_CardinalityType
  <2>7. Cardinality(r) \notin wrong
    <3>1. n \in Nat /\ ~(n <= n - 1)
      OBVIOUS
    <3> HIDE DEF wrong
    <3>2. QED
      BY <2>2, <2>6, <3>1
  <2>8. right(r)
    BY <2>6, <2>7
  <2>9. it[s] = f[x] + it[r] /\ f[x] \in Nat /\ it[r] \in Nat
    BY <1>6, <2>4, <2>5, <2>8
  <2>10. \A y \in s : f[y] \in Nat /\ (y = x \/ f[y] <= it[r])
    BY <2>8
  <2>11. right(s)
    BY <2>9, <2>10
  <2>12. QED
    BY <2>3, <2>11
<1>9. right(S)
  <2>1. Cardinality(S) \in Nat /\ Cardinality(S) \notin wrong
    BY <1>8, FS_CardinalityType
  <2>2. QED
    BY <2>1
<1>10. QED
  BY <1>7, <1>9

(* So the total of a job is a number.                                      *)
LEMMA TotalOfCounters ==
  ASSUME NEW f \in Counters
  PROVE  TotalOf(f) \in Nat
<1>1. PICK P \in SUBSET Protocols : f \in [P -> Nat]
  BY DEF Counters
<1>2. IsFiniteSet(P)
  BY ConsoleAssumption, FS_Subset
<1>3. QED
  BY <1>1, <1>2, TotalOfNumbers

-------------------------------------------------------------------------------
(* The registry as a sequence of jobs.                                     *)

LEMMA JobsInRange ==
  ASSUME RegistryType
  PROVE  /\ Len(jobs) \in Nat
         /\ DOMAIN jobs = 1 .. Len(jobs)
         /\ DOMAIN jobs \subseteq JobIds
         /\ Cardinality(Pending) \in Nat
         /\ \A j \in DOMAIN jobs : jobs[j] \in JobRecords
<1>1. Len(jobs) \in Nat /\ DOMAIN jobs = 1 .. Len(jobs)
  BY DEF RegistryType
<1>2. Cardinality(Pending) \in Nat
  <2>1. Pending \in SUBSET Pages /\ IsFiniteSet(Pages)
    BY ConsoleAssumption DEF Pending
  <2>2. QED
    BY <2>1, FS_Subset, FS_CardinalityType
<1>3. Len(jobs) <= MaxJobs
  BY <1>1, <1>2, ConsoleAssumption DEF RegistryType
<1>4. QED
  BY <1>1, <1>2, <1>3, ConsoleAssumption DEF JobIds, RegistryType

(* What Record does to the sequence.                                       *)
LEMMA JobReplaced ==
  ASSUME RegistryType,
         NEW j \in DOMAIN jobs, NEW job \in JobRecords,
         jobs' = [jobs EXCEPT ![j] = job]
  PROVE  /\ jobs' \in Seq(JobRecords)
         /\ Len(jobs') = Len(jobs)
         /\ DOMAIN jobs' = DOMAIN jobs
         /\ jobs'[j] = job
         /\ \A i \in DOMAIN jobs : i # j => jobs'[i] = jobs[i]
<1>1. QED
  BY JobsInRange DEF RegistryType

(* What CreateJob does to it.                                              *)
LEMMA JobAppended ==
  ASSUME RegistryType, NEW job \in JobRecords, jobs' = Append(jobs, job)
  PROVE  /\ jobs' \in Seq(JobRecords)
         /\ Len(jobs') = Len(jobs) + 1
         /\ DOMAIN jobs' = DOMAIN jobs \cup {Len(jobs) + 1}
         /\ Len(jobs) + 1 \notin DOMAIN jobs
         /\ jobs'[Len(jobs) + 1] = job
         /\ \A i \in DOMAIN jobs : jobs'[i] = jobs[i]
<1>1. Len(jobs) \in Nat /\ DOMAIN jobs = 1 .. Len(jobs)
  BY JobsInRange
<1>2. jobs' \in Seq(JobRecords) /\ Len(jobs') = Len(jobs) + 1
  BY DEF RegistryType
<1>3. DOMAIN jobs' = 1 .. Len(jobs) + 1
  BY <1>1, <1>2
<1>4. jobs'[Len(jobs) + 1] = job /\ \A i \in 1 .. Len(jobs) : jobs'[i] = jobs[i]
  BY <1>1 DEF RegistryType
<1>5. QED
  BY <1>1, <1>2, <1>3, <1>4

(* A new job is one of the values the registry holds.                      *)
LEMMA NewJobType ==
  ASSUME NEW P \in SUBSET Protocols
  PROVE  NewJob(P) \in JobRecords
<1>1. [p \in P |-> [status |-> "pending", found |-> 0]]
        \in [P -> [status : Statuses, found : Nat]]
  BY DEF Statuses
<1>2. [p \in P |-> 0] \in [P -> Nat]
  OBVIOUS
<1>3. QED
  BY <1>1, <1>2 DEF NewJob, JobRecords, Statuses, Counters

-------------------------------------------------------------------------------
(* Steps of the whole registry.                                            *)

(* The initial state.                                                      *)
LEMMA InitIInv ==
  Init => IInv
<1> SUFFICES ASSUME Init PROVE IInv
  OBVIOUS
<1>1. Len(jobs) = 0 /\ DOMAIN jobs = {} /\ jobs \in Seq(JobRecords)
  BY DEF Init
<1>2. Pending = {}
  BY DEF Init, Pending
<1>3. Cardinality(Pending) = 0
  BY <1>2, FS_EmptySet
<1>4. RegistryType
  BY <1>1, <1>3, ConsoleAssumption DEF Init, RegistryType, MainLabels, WorkerLabels
<1>5. Unborn /\ JobsOK /\ OneActiveJob
  BY <1>1 DEF Init, Unborn, JobsOK, OneActiveJob
<1>6. QED
  BY <1>4, <1>5 DEF IInv

(* A step of one job: it keeps IInv when the job itself ends up well and   *)
(* changes only while it is active.  TerminalKept is then clear.           *)
LEMMA JobStepKeeps ==
  ASSUME IInv, NEW j \in DOMAIN jobs,
         NEW job \in JobRecords, NEW m \in MainLabels,
         NEW w \in [Protocols -> WorkerLabels], NEW s \in [Protocols -> Nat],
         jobs' = [jobs EXCEPT ![j] = job],
         main' = [main EXCEPT ![j] = m],
         worker' = [worker EXCEPT ![j] = w],
         stats' = [stats EXCEPT ![j] = s],
         UNCHANGED request,
         JobOK(job, m, w, s),
         Active(j)
  PROVE  IInv' /\ TerminalKept
<1> USE DEF IInv
<1>1. j \in JobIds
  BY JobsInRange
<1>2. /\ jobs' \in Seq(JobRecords) /\ Len(jobs') = Len(jobs)
      /\ DOMAIN jobs' = DOMAIN jobs
      /\ jobs'[j] = job
      /\ \A i \in DOMAIN jobs : i # j => jobs'[i] = jobs[i]
  BY JobReplaced
<1>3. RegistryType'
  <2>1. Pending' = Pending
    BY DEF Pending
  <2>2. main' \in [JobIds -> MainLabels] /\ worker' \in [JobIds -> [Protocols -> WorkerLabels]]
        /\ stats' \in [JobIds -> [Protocols -> Nat]]
    BY <1>1 DEF RegistryType
  <2>3. QED
    BY <1>2, <2>1, <2>2 DEF RegistryType
<1>4. \A i \in JobIds : i # j => main'[i] = main[i] /\ worker'[i] = worker[i] /\ stats'[i] = stats[i]
  BY DEF RegistryType
<1>5. main'[j] = m /\ worker'[j] = w /\ stats'[j] = s
  BY <1>1 DEF RegistryType
<1>6. Unborn'
  BY <1>2, <1>4 DEF Unborn
<1>7. JobsOK'
  <2> SUFFICES ASSUME NEW i \in DOMAIN jobs
               PROVE  JobOK(jobs'[i], main'[i], worker'[i], stats'[i])
    BY <1>2 DEF JobsOK
  <2>1. CASE i = j
    BY <2>1, <1>2, <1>5
  <2>2. CASE i # j
    BY <2>2, <1>2, <1>4, JobsInRange DEF JobsOK
  <2>3. QED
    BY <2>1, <2>2
<1>8. OneActiveJob'
  BY <1>2 DEF OneActiveJob, Active
<1>9. TerminalKept
  BY <1>2 DEF TerminalKept, Terminal, Active
<1>10. QED
  BY <1>3, <1>6, <1>7, <1>8, <1>9

(* A step of anybody else.                                                 *)
LEMMA OtherStepKeeps ==
  ASSUME IInv, UNCHANGED <<jobs, main, worker, stats, request>>
  PROVE  IInv' /\ TerminalKept
<1>1. Pending' = Pending
  BY DEF Pending
<1>2. RegistryType' /\ Unborn' /\ JobsOK' /\ OneActiveJob'
  BY <1>1 DEF IInv, RegistryType, Unborn, JobsOK, OneActiveJob, Active
<1>3. TerminalKept
  BY DEF TerminalKept
<1>4. QED
  BY <1>2, <1>3 DEF IInv

(* A step of a handler that forgets a request or leaves it alone.          *)
LEMMA RequestDroppedKeeps ==
  ASSUME IInv, NEW c \in Pages,
         UNCHANGED <<jobs, main, worker, stats>>,
         request' = [request EXCEPT ![c] = {}]
  PROVE  IInv' /\ TerminalKept
<1>1. request' \in [Pages -> SUBSET Protocols]
  BY DEF IInv, RegistryType
<1>2. Pending' \subseteq Pending
  BY DEF Pending, IInv, RegistryType
<1>3. IsFiniteSet(Pending)
  BY ConsoleAssumption, FS_Subset DEF Pending
<1>4. Cardinality(Pending') <= Cardinality(Pending) /\ Cardinality(Pending') \in Nat
  BY <1>2, <1>3, FS_Subset, FS_CardinalityType
<1>5. RegistryType'
  BY <1>1, <1>4, JobsInRange, ConsoleAssumption DEF IInv, RegistryType
<1>6. Unborn' /\ JobsOK' /\ OneActiveJob'
  BY DEF IInv, Unborn, JobsOK, OneActiveJob, Active
<1>7. TerminalKept
  BY DEF TerminalKept
<1>8. QED
  BY <1>5, <1>6, <1>7 DEF IInv

(* A click leaves room for its job.                                        *)
LEMMA ClickKeeps ==
  ASSUME IInv, NEW c \in Pages, NEW P \in (SUBSET Protocols) \ {{}}, Click(c, P)
  PROVE  IInv' /\ TerminalKept
<1>1. request' \in [Pages -> SUBSET Protocols]
  BY DEF IInv, RegistryType, Click
<1>2. Pending' = Pending \cup {c} /\ c \notin Pending
  <2>1. P # {}
    OBVIOUS
  <2>2. request[c] = {} /\ request' = [request EXCEPT ![c] = P]
    BY Zenon DEF Click
  <2>3. \A d \in Pages : request'[d] = IF d = c THEN P ELSE request[d]
    BY <2>2 DEF IInv, RegistryType
  <2>4. QED
    BY <2>1, <2>2, <2>3 DEF Pending
<1>3. IsFiniteSet(Pending)
  BY ConsoleAssumption, FS_Subset DEF Pending
<1>4. Cardinality(Pending') = Cardinality(Pending) + 1
  BY <1>2, <1>3, FS_AddElement
<1>5. Len(jobs) + Cardinality(Pending) < MaxJobs
  BY DEF Click, Pending
<1>6. UNCHANGED <<jobs, main, worker, stats>>
  BY DEF Click, registry, goroutines
<1>7. RegistryType'
  BY <1>1, <1>4, <1>5, <1>6, JobsInRange, ConsoleAssumption DEF IInv, RegistryType
<1>8. Unborn' /\ JobsOK' /\ OneActiveJob'
  BY <1>6 DEF IInv, Unborn, JobsOK, OneActiveJob, Active
<1>9. TerminalKept
  BY <1>6 DEF TerminalKept
<1>10. QED
  BY <1>7, <1>8, <1>9 DEF IInv

(* CreateJob adds a job when no job is active, and it is as NewJob makes   *)
(* it: nothing runs for it yet.                                            *)
LEMMA CreateJobKeeps ==
  ASSUME IInv, NEW c \in Pages, CreateJob(c)
  PROVE  IInv' /\ TerminalKept
<1> DEFINE new == Len(jobs) + 1
<1>1. request[c] \in SUBSET Protocols /\ request[c] # {}
  BY DEF IInv, RegistryType, CreateJob
<1>2. jobs' = Append(jobs, NewJob(request[c])) /\ UNCHANGED <<main, worker, stats>>
      /\ request' = [request EXCEPT ![c] = {}]
  BY DEF CreateJob, goroutines
<1>3. NewJob(request[c]) \in JobRecords
  BY <1>1, NewJobType
<1>4. /\ jobs' \in Seq(JobRecords) /\ Len(jobs') = new
      /\ DOMAIN jobs' = DOMAIN jobs \cup {new} /\ new \notin DOMAIN jobs
      /\ jobs'[new] = NewJob(request[c])
      /\ \A i \in DOMAIN jobs : jobs'[i] = jobs[i]
  BY <1>2, <1>3, JobAppended DEF IInv
<1>5. Cardinality(Pending') = Cardinality(Pending) - 1 /\ Cardinality(Pending') \in Nat
  <2>1. Pending' = Pending \ {c} /\ c \in Pending
    BY <1>1, <1>2 DEF Pending, IInv, RegistryType
  <2>2. IsFiniteSet(Pending)
    BY ConsoleAssumption, FS_Subset DEF Pending
  <2>3. QED
    BY <2>1, <2>2, FS_RemoveElement, FS_CardinalityType
<1>6. request' \in [Pages -> SUBSET Protocols]
  BY <1>2 DEF IInv, RegistryType
<1>7. RegistryType'
  BY <1>2, <1>4, <1>5, <1>6, JobsInRange, ConsoleAssumption DEF IInv, RegistryType
<1>8. new \in JobIds
  <2>1. Len(jobs') + Cardinality(Pending') <= MaxJobs
    BY <1>7 DEF RegistryType
  <2>2. QED
    BY <2>1, <1>4, <1>5, JobsInRange, ConsoleAssumption DEF IInv, JobIds
<1>9. Unborn'
  BY <1>2, <1>4 DEF IInv, Unborn
<1>10. JobOK(NewJob(request[c]), main[new], worker[new], stats[new])
  <2>1. /\ main[new] = "none" /\ worker[new] = [p \in Protocols |-> "none"]
        /\ stats[new] = [p \in Protocols |-> 0]
    BY <1>4, <1>8 DEF IInv, Unborn
  <2>2. QED
    BY <2>1, <1>1 DEF NewJob, JobOK, MainOK, WorkerOK
<1>11. JobsOK'
  BY <1>2, <1>4, <1>10 DEF IInv, JobsOK
<1>12. OneActiveJob'
  <2>1. \A i \in DOMAIN jobs : ~Active(i)
    BY DEF CreateJob
  <2>2. QED
    BY <2>1, <1>4 DEF OneActiveJob, Active
<1>13. TerminalKept
  BY <1>4 DEF TerminalKept
<1>14. QED
  BY <1>7, <1>9, <1>11, <1>12, <1>13 DEF IInv

-------------------------------------------------------------------------------
(* The goroutines of a protocol.                                           *)

(* The fields of a job of the registry.                                    *)
LEMMA JobFields ==
  ASSUME NEW job \in JobRecords
  PROVE  /\ job.status \in Statuses /\ job.total \in Nat
         /\ DOMAIN job.protocols \in SUBSET Protocols
         /\ job.protocols \in [DOMAIN job.protocols -> [status : Statuses, found : Nat]]
         /\ job.findings \in [DOMAIN job.findings -> Nat]
         /\ DOMAIN job.findings \in SUBSET Protocols
         /\ FoundBy(job) \in [DOMAIN job.protocols -> Nat]
<1>1. PICK P \in SUBSET Protocols : job.protocols \in [P -> [status : Statuses, found : Nat]]
  BY DEF JobRecords
<1>2. PICK F \in SUBSET Protocols : job.findings \in [F -> Nat]
  BY DEF JobRecords, Counters
<1>3. job.status \in Statuses /\ job.total \in Nat
  BY DEF JobRecords
<1>4. FoundBy(job) \in [P -> Nat]
  BY <1>1 DEF FoundBy
<1>5. QED
  BY <1>1, <1>2, <1>3, <1>4

(* Where a goroutine is at work its job is running.                        *)
LEMMA AtWork ==
  ASSUME IInv, NEW j \in JobIds, NEW p \in Protocols,
         worker[j][p] \in {"seed", "scan", "found", "final"}
  PROVE  /\ j \in DOMAIN jobs /\ p \in Wanted(j)
         /\ main[j] = "wait" /\ jobs[j].status = "running"
         /\ jobs[j] \in JobRecords
         /\ DOMAIN jobs[j].findings = Wanted(j)
         /\ \A q \in Wanted(j) : WorkerOK(jobs[j], q, worker[j][q], stats[j][q])
<1>1. j \in DOMAIN jobs
  BY DEF IInv, Unborn
<1>2. JobOK(jobs[j], main[j], worker[j], stats[j]) /\ jobs[j] \in JobRecords
  BY <1>1, JobsInRange DEF IInv, JobsOK
<1>3. p \in Wanted(j) /\ main[j] \in {"wait", "ended"} /\ main[j] # "ended"
  BY <1>2 DEF JobOK, MainOK, Wanted
<1>4. QED
  BY <1>1, <1>2, <1>3 DEF JobOK, MainOK, Wanted

(* A report of one protocol: it is enough to look at that protocol and at  *)
(* the total.                                                              *)
LEMMA ReportKeeps ==
  ASSUME IInv, NEW j \in JobIds, NEW p \in Protocols,
         worker[j][p] \in {"seed", "scan", "found", "final"},
         NEW job \in JobRecords, NEW label \in WorkerLabels \ {"none"}, NEW n \in Nat,
         jobs' = [jobs EXCEPT ![j] = job],
         SetWorker(j, p, label),
         stats' = [stats EXCEPT ![j][p] = n],
         UNCHANGED <<main, request>>,
         job.status = jobs[j].status,
         DOMAIN job.protocols = Wanted(j), DOMAIN job.findings = Wanted(j),
         \A q \in Wanted(j) : q # p =>
           job.protocols[q] = jobs[j].protocols[q] /\ job.findings[q] = jobs[j].findings[q],
         WorkerOK(job, p, label, n),
         job.total = TotalOf(FoundBy(job))
           \/ (job.total = jobs[j].total /\ FoundBy(job) = FoundBy(jobs[j]) /\ label # "ok")
  PROVE  IInv' /\ TerminalKept
<1> DEFINE w == [worker[j] EXCEPT ![p] = label]
           s == [stats[j] EXCEPT ![p] = n]
<1>1. /\ j \in DOMAIN jobs /\ p \in Wanted(j)
      /\ main[j] = "wait" /\ jobs[j].status = "running"
      /\ \A q \in Wanted(j) : WorkerOK(jobs[j], q, worker[j][q], stats[j][q])
  BY AtWork
<1>2. w \in [Protocols -> WorkerLabels] /\ s \in [Protocols -> Nat]
      /\ worker[j] \in [Protocols -> WorkerLabels] /\ stats[j] \in [Protocols -> Nat]
  BY DEF IInv, RegistryType
<1>3. worker' = [worker EXCEPT ![j] = w] /\ stats' = [stats EXCEPT ![j] = s]
      /\ main' = [main EXCEPT ![j] = "wait"]
  BY <1>1 DEF SetWorker, IInv, RegistryType
<1>4. JobOK(jobs[j], "wait", worker[j], stats[j])
  BY <1>1 DEF IInv, JobsOK
<1>5. w[p] = label /\ s[p] = n /\ \A q \in Protocols : q # p => w[q] = worker[j][q] /\ s[q] = stats[j][q]
  BY <1>2
<1>6. Wanted(j) \subseteq Protocols
  BY <1>1, JobsInRange, JobFields DEF IInv, Wanted
<1>7. JobOK(job, "wait", w, s)
  <2>1. DOMAIN job.protocols # {} /\ DOMAIN job.findings = DOMAIN job.protocols
    BY <1>1
  <2>2. MainOK(job, "wait", w)
    BY <1>1, <1>4, <1>5 DEF JobOK, MainOK, Wanted
  <2>3. \A q \in Wanted(j) : q # p => WorkerOK(job, q, w[q], s[q])
    BY <1>1, <1>5, <1>6 DEF WorkerOK
  <2>4. (\E q \in Wanted(j) : w[q] = "ok") => job.total = TotalOf(FoundBy(job))
    <3>1. CASE job.total = TotalOf(FoundBy(job))
      BY <3>1
    <3>2. CASE job.total = jobs[j].total /\ FoundBy(job) = FoundBy(jobs[j]) /\ label # "ok"
      <4>1. (\E q \in Wanted(j) : w[q] = "ok") => \E q \in Wanted(j) : worker[j][q] = "ok"
        BY <3>2, <1>5, <1>6
      <4>2. QED
        BY <4>1, <3>2, <1>4 DEF JobOK, Wanted
    <3>3. QED
      BY <3>1, <3>2
  <2>5. WorkerOK(job, p, w[p], s[p])
    BY <1>5
  <2>6. QED
    BY <2>1, <2>2, <2>3, <2>4, <2>5 DEF JobOK
<1>8. Active(j) /\ "wait" \in MainLabels
  BY <1>1 DEF Active, MainLabels
<1>9. QED
  BY <1>1, <1>2, <1>3, <1>7, <1>8, JobStepKeeps

(* What recalculateJobTotalsLocked does to a job.                          *)
LEMMA RecalculatedJob ==
  ASSUME NEW job \in JobRecords
  PROVE  /\ Recalculated(job) \in JobRecords
         /\ Recalculated(job).status = job.status
         /\ Recalculated(job).protocols = job.protocols
         /\ Recalculated(job).findings = job.findings
         /\ Recalculated(job).total = TotalOf(FoundBy(Recalculated(job)))
<1> DEFINE T == TotalOf(FoundBy(job))
<1>1. FoundBy(job) \in Counters
  BY JobFields DEF Counters
<1>2. T \in Nat
  BY <1>1, TotalOfCounters
<1>3. Recalculated(job) = [job EXCEPT !.total = T]
  BY DEF Recalculated
<1> HIDE DEF T
<1>4. /\ Recalculated(job) \in JobRecords
      /\ Recalculated(job).status = job.status
      /\ Recalculated(job).protocols = job.protocols
      /\ Recalculated(job).findings = job.findings
      /\ Recalculated(job).total = T
  BY <1>2, <1>3 DEF JobRecords
<1>5. FoundBy(Recalculated(job)) = FoundBy(job)
  BY <1>4 DEF FoundBy
<1>6. QED
  BY <1>4, <1>5 DEF T

(* What an EXCEPT on one protocol does to a job.                           *)
LEMMA ProtocolReplaced ==
  ASSUME NEW job \in JobRecords, NEW p \in DOMAIN job.protocols,
         NEW x \in [status : Statuses, found : Nat]
  PROVE  LET new == [job EXCEPT !.protocols[p] = x]
         IN /\ new \in JobRecords
            /\ new.status = job.status /\ new.findings = job.findings
            /\ new.total = job.total
            /\ DOMAIN new.protocols = DOMAIN job.protocols
            /\ new.protocols[p] = x
            /\ \A q \in DOMAIN job.protocols : q # p => new.protocols[q] = job.protocols[q]
<1> DEFINE P == DOMAIN job.protocols
           ps == [job.protocols EXCEPT ![p] = x]
<1>1. job.protocols \in [P -> [status : Statuses, found : Nat]] /\ P \in SUBSET Protocols
  BY JobFields
<1>2. ps \in [P -> [status : Statuses, found : Nat]] /\ ps[p] = x
      /\ DOMAIN ps = P
      /\ \A q \in P : q # p => ps[q] = job.protocols[q]
  BY <1>1
<1>3. [job EXCEPT !.protocols[p] = x] = [job EXCEPT !.protocols = ps]
  BY DEF JobRecords
<1> HIDE DEF ps
<1>4. [job EXCEPT !.protocols = ps] \in JobRecords
  BY <1>1, <1>2 DEF JobRecords
<1>5. QED
  BY <1>2, <1>3, <1>4 DEF JobRecords

(* notifyProtocolStarted.                                                  *)
LEMMA ProtocolStartedKeeps ==
  ASSUME IInv, NEW j \in JobIds, NEW p \in Protocols, RecordProtocolStarted(j, p)
  PROVE  IInv' /\ TerminalKept
<1> DEFINE x == [jobs[j].protocols[p] EXCEPT !.status = "running"]
           job == [jobs[j] EXCEPT !.protocols[p] = x]
<1>1. worker[j][p] = "seed"
  BY DEF RecordProtocolStarted
<1>2. /\ j \in DOMAIN jobs /\ p \in Wanted(j) /\ jobs[j] \in JobRecords
      /\ DOMAIN jobs[j].findings = Wanted(j)
      /\ WorkerOK(jobs[j], p, worker[j][p], stats[j][p])
  BY <1>1, AtWork
<1>3. x \in [status : Statuses, found : Nat] /\ x.status = "running"
      /\ x.found = jobs[j].protocols[p].found
  <2>1. jobs[j].protocols[p] \in [status : Statuses, found : Nat]
    BY <1>2, JobFields DEF Wanted
  <2>2. QED
    BY <2>1 DEF Statuses
<1>4. [jobs[j] EXCEPT !.protocols[p].status = "running"] = job
  BY <1>2 DEF JobRecords
<1>5. jobs' = [jobs EXCEPT ![j] = job] /\ SetWorker(j, p, "scan")
      /\ UNCHANGED <<main, stats, request>>
  BY <1>4 DEF RecordProtocolStarted, Report, Record, connections
<1> HIDE DEF x
<1>6. /\ job \in JobRecords
      /\ job.status = jobs[j].status /\ job.findings = jobs[j].findings
      /\ job.total = jobs[j].total
      /\ DOMAIN job.protocols = Wanted(j)
      /\ job.protocols[p] = x
      /\ \A q \in Wanted(j) : q # p => job.protocols[q] = jobs[j].protocols[q]
  BY <1>2, <1>3, ProtocolReplaced DEF Wanted
<1> HIDE DEF job
<1>7. FoundBy(job) = FoundBy(jobs[j])
  BY <1>3, <1>6 DEF FoundBy, Wanted
<1>8. stats' = [stats EXCEPT ![j][p] = stats[j][p]] /\ stats[j][p] \in Nat
  BY <1>5 DEF IInv, RegistryType
<1>9. WorkerOK(job, p, "scan", stats[j][p])
  BY <1>2, <1>3, <1>6 DEF WorkerOK, IInv, RegistryType
<1>10. "scan" \in WorkerLabels \ {"none"} /\ "scan" # "ok"
  BY DEF WorkerLabels
<1>11. DOMAIN job.protocols = Wanted(j) /\ DOMAIN job.findings = Wanted(j)
       /\ \A q \in Wanted(j) : q # p =>
             job.protocols[q] = jobs[j].protocols[q] /\ job.findings[q] = jobs[j].findings[q]
  BY <1>2, <1>6
<1>12. QED
  BY <1>1, <1>5, <1>6, <1>7, <1>8, <1>9, <1>10, <1>11, ReportKeeps

(* OnFinding.                                                              *)
LEMMA FindingKeeps ==
  ASSUME IInv, NEW j \in JobIds, NEW p \in Protocols, RecordFinding(j, p)
  PROVE  IInv' /\ TerminalKept
<1> DEFINE fs == [jobs[j].findings EXCEPT ![p] = @ + 1]
           job == [jobs[j] EXCEPT !.findings = fs]
           n == stats[j][p] + 1
<1>1. worker[j][p] = "scan"
  BY DEF RecordFinding
<1>2. /\ j \in DOMAIN jobs /\ p \in Wanted(j) /\ jobs[j] \in JobRecords
      /\ DOMAIN jobs[j].findings = Wanted(j)
      /\ WorkerOK(jobs[j], p, worker[j][p], stats[j][p])
  BY <1>1, AtWork
<1>3. jobs[j].findings \in [Wanted(j) -> Nat] /\ Wanted(j) \in SUBSET Protocols
  BY <1>2, JobFields DEF Wanted
<1>4. fs \in [Wanted(j) -> Nat] /\ fs[p] = jobs[j].findings[p] + 1
      /\ \A q \in Wanted(j) : q # p => fs[q] = jobs[j].findings[q]
  BY <1>2, <1>3
<1>5. [jobs[j] EXCEPT !.findings[p] = @ + 1] = job
  BY <1>2 DEF JobRecords
<1>6. jobs' = [jobs EXCEPT ![j] = job] /\ SetWorker(j, p, "found")
      /\ UNCHANGED <<main, request>> /\ stats' = [stats EXCEPT ![j][p] = @ + 1]
  BY <1>5 DEF RecordFinding, Report, Record, connections
<1> HIDE DEF fs
<1>7. fs \in Counters
  BY <1>3, <1>4 DEF Counters
<1>8. /\ job \in JobRecords
      /\ job.status = jobs[j].status /\ job.protocols = jobs[j].protocols
      /\ job.total = jobs[j].total /\ job.findings = fs
  BY <1>2, <1>7 DEF JobRecords
<1> HIDE DEF job
<1>9. FoundBy(job) = FoundBy(jobs[j])
  BY <1>8 DEF FoundBy
<1>10. stats' = [stats EXCEPT ![j][p] = n] /\ n \in Nat
  BY <1>6 DEF IInv, RegistryType
<1>11. WorkerOK(job, p, "found", n)
  BY <1>1, <1>2, <1>4, <1>8 DEF WorkerOK, IInv, RegistryType
<1>12. "found" \in WorkerLabels \ {"none"} /\ "found" # "ok"
  BY DEF WorkerLabels
<1>13. DOMAIN job.protocols = Wanted(j) /\ DOMAIN job.findings = Wanted(j)
       /\ \A q \in Wanted(j) : q # p =>
             job.protocols[q] = jobs[j].protocols[q] /\ job.findings[q] = jobs[j].findings[q]
  BY <1>4, <1>8 DEF Wanted
<1> HIDE DEF n
<1>14. QED
  BY <1>1, <1>6, <1>8, <1>9, <1>10, <1>11, <1>12, <1>13, ReportKeeps

(* A report that counts: progress, or the completion of the protocol.      *)
LEMMA CountedKeeps ==
  ASSUME IInv, NEW j \in JobIds, NEW p \in Protocols,
         worker[j][p] \in {"scan", "found", "final"},
         NEW status, NEW label,
         (status = "running" /\ label \in {"scan", "final"}) \/ (status = "completed" /\ label = "ok"),
         jobs' = [jobs EXCEPT ![j] = Counted(j, p, status)],
         SetWorker(j, p, label),
         UNCHANGED <<main, stats, request>>
  PROVE  IInv' /\ TerminalKept
<1> DEFINE x == [status |-> status, found |-> stats[j][p]]
           before == [jobs[j] EXCEPT !.protocols[p] = x]
           job == Recalculated(before)
<1>1. /\ j \in DOMAIN jobs /\ p \in Wanted(j) /\ jobs[j] \in JobRecords
      /\ DOMAIN jobs[j].findings = Wanted(j)
      /\ WorkerOK(jobs[j], p, worker[j][p], stats[j][p])
  BY AtWork
<1>2. stats[j][p] \in Nat
  BY DEF IInv, RegistryType
<1>3. x \in [status : Statuses, found : Nat] /\ x.status = status /\ x.found = stats[j][p]
  BY <1>2 DEF Statuses
<1>4. /\ before \in JobRecords
      /\ before.status = jobs[j].status /\ before.findings = jobs[j].findings
      /\ DOMAIN before.protocols = Wanted(j)
      /\ before.protocols[p] = x
      /\ \A q \in Wanted(j) : q # p => before.protocols[q] = jobs[j].protocols[q]
  BY <1>1, <1>3, ProtocolReplaced DEF Wanted
<1>5. jobs' = [jobs EXCEPT ![j] = job]
  BY DEF Counted
<1> HIDE DEF before
<1>6. /\ job \in JobRecords /\ job.status = before.status
      /\ job.protocols = before.protocols /\ job.findings = before.findings
      /\ job.total = TotalOf(FoundBy(job))
  BY <1>4, RecalculatedJob
<1> HIDE DEF job
<1>7. WorkerOK(job, p, label, stats[j][p])
  BY <1>1, <1>3, <1>4, <1>6 DEF WorkerOK
<1>8. DOMAIN job.protocols = Wanted(j) /\ DOMAIN job.findings = Wanted(j)
      /\ \A q \in Wanted(j) : q # p =>
            job.protocols[q] = jobs[j].protocols[q] /\ job.findings[q] = jobs[j].findings[q]
  BY <1>1, <1>4, <1>6
<1>9. stats' = [stats EXCEPT ![j][p] = stats[j][p]]
  BY DEF IInv, RegistryType
<1>10. label \in WorkerLabels \ {"none"}
  BY DEF WorkerLabels
<1>11. job.status = jobs[j].status
  BY <1>4, <1>6
<1>12. QED
  BY <1>2, <1>5, <1>6, <1>7, <1>8, <1>9, <1>10, <1>11, ReportKeeps

(* OnProtocolProgress.                                                     *)
LEMMA ProgressKeeps ==
  ASSUME IInv, NEW j \in JobIds, NEW p \in Protocols, RecordProtocolProgress(j, p)
  PROVE  IInv' /\ TerminalKept
<1> DEFINE label == IF worker[j][p] = "found" THEN "scan" ELSE "final"
<1>1. worker[j][p] \in {"found", "scan"}
  BY DEF RecordProtocolProgress
<1>2. jobs' = [jobs EXCEPT ![j] = Counted(j, p, "running")] /\ SetWorker(j, p, label)
      /\ UNCHANGED <<main, stats, request>>
  BY DEF RecordProtocolProgress, Report, Record, connections
<1>3. label \in {"scan", "final"}
  OBVIOUS
<1> HIDE DEF label
<1>4. QED
  BY <1>1, <1>2, <1>3, CountedKeeps

(* OnProtocolCompleted.                                                    *)
LEMMA ProtocolCompletedKeeps ==
  ASSUME IInv, NEW j \in JobIds, NEW p \in Protocols, RecordProtocolCompleted(j, p)
  PROVE  IInv' /\ TerminalKept
<1>1. worker[j][p] \in {"final", "scan"}
  BY DEF RecordProtocolCompleted
<1>2. jobs' = [jobs EXCEPT ![j] = Counted(j, p, "completed")] /\ SetWorker(j, p, "ok")
      /\ UNCHANGED <<main, stats, request>>
  BY DEF RecordProtocolCompleted, Report, Record, connections
<1>3. QED
  BY <1>1, <1>2, CountedKeeps

(* OnProtocolFailed.                                                       *)
LEMMA ProtocolFailedKeeps ==
  ASSUME IInv, NEW j \in JobIds, NEW p \in Protocols, RecordProtocolFailed(j, p)
  PROVE  IInv' /\ TerminalKept
<1> DEFINE x == [jobs[j].protocols[p] EXCEPT !.status = "failed"]
           before == [jobs[j] EXCEPT !.protocols[p] = x]
           job == Recalculated(before)
<1>1. worker[j][p] = "scan"
  BY DEF RecordProtocolFailed
<1>2. /\ j \in DOMAIN jobs /\ p \in Wanted(j) /\ jobs[j] \in JobRecords
      /\ DOMAIN jobs[j].findings = Wanted(j)
      /\ WorkerOK(jobs[j], p, worker[j][p], stats[j][p])
  BY <1>1, AtWork
<1>3. x \in [status : Statuses, found : Nat] /\ x.status = "failed"
  <2>1. jobs[j].protocols[p] \in [status : Statuses, found : Nat]
    BY <1>2, JobFields DEF Wanted
  <2>2. QED
    BY <2>1 DEF Statuses
<1>4. [jobs[j] EXCEPT !.protocols[p].status = "failed"] = before
  BY <1>2 DEF JobRecords
<1>5. jobs' = [jobs EXCEPT ![j] = job] /\ SetWorker(j, p, "error")
      /\ UNCHANGED <<main, stats, request>>
  BY <1>4 DEF RecordProtocolFailed, Report, Record, connections
<1> HIDE DEF x
<1>6. /\ before \in JobRecords
      /\ before.status = jobs[j].status /\ before.findings = jobs[j].findings
      /\ DOMAIN before.protocols = Wanted(j)
      /\ before.protocols[p] = x
      /\ \A q \in Wanted(j) : q # p => before.protocols[q] = jobs[j].protocols[q]
  BY <1>2, <1>3, ProtocolReplaced DEF Wanted
<1> HIDE DEF before
<1>7. /\ job \in JobRecords /\ job.status = before.status
      /\ job.protocols = before.protocols /\ job.findings = before.findings
      /\ job.total = TotalOf(FoundBy(job))
  BY <1>6, RecalculatedJob
<1> HIDE DEF job
<1>8. WorkerOK(job, p, "error", stats[j][p])
  BY <1>2, <1>3, <1>6, <1>7 DEF WorkerOK
<1>9. DOMAIN job.protocols = Wanted(j) /\ DOMAIN job.findings = Wanted(j)
      /\ \A q \in Wanted(j) : q # p =>
            job.protocols[q] = jobs[j].protocols[q] /\ job.findings[q] = jobs[j].findings[q]
  BY <1>2, <1>6, <1>7
<1>10. stats' = [stats EXCEPT ![j][p] = stats[j][p]] /\ stats[j][p] \in Nat
  BY <1>5 DEF IInv, RegistryType
<1>11. "error" \in WorkerLabels \ {"none"} /\ job.status = jobs[j].status
  BY <1>6, <1>7 DEF WorkerLabels
<1>12. QED
  BY <1>1, <1>5, <1>7, <1>8, <1>9, <1>10, <1>11, ReportKeeps

(* A goroutine that returns before RunOnce says nothing to the registry.   *)
LEMMA SeedFailsKeeps ==
  ASSUME IInv, NEW j \in JobIds, NEW p \in Protocols, SeedFails(j, p)
  PROVE  IInv' /\ TerminalKept
<1>1. worker[j][p] = "seed"
  BY DEF SeedFails
<1>2. /\ j \in DOMAIN jobs /\ p \in Wanted(j) /\ jobs[j] \in JobRecords
      /\ DOMAIN jobs[j].findings = Wanted(j)
      /\ WorkerOK(jobs[j], p, worker[j][p], stats[j][p])
  BY <1>1, AtWork
<1>3. UNCHANGED <<jobs, main, stats, request>> /\ SetWorker(j, p, "error")
  BY DEF SeedFails, registry, connections
<1>4. jobs' = [jobs EXCEPT ![j] = jobs[j]]
  BY <1>2, <1>3 DEF IInv, RegistryType
<1>5. stats' = [stats EXCEPT ![j][p] = stats[j][p]] /\ stats[j][p] \in Nat
  BY <1>3 DEF IInv, RegistryType
<1>6. WorkerOK(jobs[j], p, "error", stats[j][p])
  BY <1>1, <1>2 DEF WorkerOK
<1>7. "error" \in WorkerLabels \ {"none"} /\ "error" # "ok"
  BY DEF WorkerLabels
<1>8. QED
  BY <1>1, <1>2, <1>3, <1>4, <1>5, <1>6, <1>7, ReportKeeps DEF Wanted

-------------------------------------------------------------------------------
(* The goroutine of a job.                                                 *)

(* What a new status does to a job.                                        *)
LEMMA StatusReplaced ==
  ASSUME NEW job \in JobRecords, NEW x \in Statuses
  PROVE  LET new == [job EXCEPT !.status = x]
         IN /\ new \in JobRecords /\ new.status = x
            /\ new.protocols = job.protocols /\ new.findings = job.findings
            /\ new.total = job.total /\ FoundBy(new) = FoundBy(job)
<1>1. /\ [job EXCEPT !.status = x] \in JobRecords
      /\ [job EXCEPT !.status = x].status = x
      /\ [job EXCEPT !.status = x].protocols = job.protocols
      /\ [job EXCEPT !.status = x].findings = job.findings
      /\ [job EXCEPT !.status = x].total = job.total
  BY DEF JobRecords
<1>2. FoundBy([job EXCEPT !.status = x]) = FoundBy(job)
  BY <1>1 DEF FoundBy
<1>3. QED
  BY <1>1, <1>2

(* A step of a job that is active: only its status and its place change.   *)
LEMMA MainStepKeeps ==
  ASSUME IInv, NEW j \in DOMAIN jobs, NEW x \in Statuses, NEW m \in MainLabels,
         jobs' = [jobs EXCEPT ![j] = [jobs[j] EXCEPT !.status = x]],
         main' = [main EXCEPT ![j] = m],
         UNCHANGED <<worker, stats, request>>,
         Active(j),
         MainOK([jobs[j] EXCEPT !.status = x], m, worker[j])
  PROVE  IInv' /\ TerminalKept
<1> DEFINE job == [jobs[j] EXCEPT !.status = x]
<1>1. j \in JobIds /\ jobs[j] \in JobRecords
  BY JobsInRange DEF IInv
<1>2. /\ job \in JobRecords
      /\ job.protocols = jobs[j].protocols /\ job.findings = jobs[j].findings
      /\ job.total = jobs[j].total /\ FoundBy(job) = FoundBy(jobs[j])
  BY <1>1, StatusReplaced
<1>3. JobOK(jobs[j], main[j], worker[j], stats[j])
  BY DEF IInv, JobsOK
<1>4. MainOK(job, m, worker[j])
  OBVIOUS
<1>5. jobs' = [jobs EXCEPT ![j] = job]
  OBVIOUS
<1> HIDE DEF job
<1>6. JobOK(job, m, worker[j], stats[j])
  BY <1>2, <1>3, <1>4 DEF JobOK, WorkerOK
<1>7. worker' = [worker EXCEPT ![j] = worker[j]] /\ stats' = [stats EXCEPT ![j] = stats[j]]
      /\ worker[j] \in [Protocols -> WorkerLabels] /\ stats[j] \in [Protocols -> Nat]
  BY <1>1 DEF IInv, RegistryType
<1>8. QED
  BY <1>2, <1>5, <1>6, <1>7, JobStepKeeps

(* A job whose goroutine has not ended has not ended.                      *)
LEMMA WhereMainIs ==
  ASSUME IInv, NEW j \in DOMAIN jobs
  PROVE  /\ jobs[j] \in JobRecords
         /\ MainOK(jobs[j], main[j], worker[j])
         /\ main[j] # "ended" => Active(j)
<1>1. jobs[j] \in JobRecords /\ MainOK(jobs[j], main[j], worker[j]) /\ main[j] \in MainLabels
  BY JobsInRange DEF IInv, JobsOK, JobOK, RegistryType
<1>2. QED
  BY <1>1 DEF MainOK, Active, MainLabels

(* RunJobAsync in the handler.                                             *)
LEMMA JobStartedKeeps ==
  ASSUME IInv, NEW c \in Pages, MarkJobStarted(c)
  PROVE  IInv' /\ TerminalKept
<1>1. PICK j \in JobIds :
        /\ j \in DOMAIN jobs /\ main[j] = "none"
        /\ jobs' = [jobs EXCEPT ![j] = [jobs[j] EXCEPT !.status = "running"]]
        /\ main' = [main EXCEPT ![j] = "starting"]
  BY DEF MarkJobStarted, Starting, Record
<1>2. UNCHANGED <<worker, stats, request>>
  BY DEF MarkJobStarted
<1>3. jobs[j] \in JobRecords /\ MainOK(jobs[j], "none", worker[j]) /\ Active(j)
  BY <1>1, WhereMainIs
<1>4. "running" \in Statuses /\ "starting" \in MainLabels
  BY DEF Statuses, MainLabels
<1>5. MainOK([jobs[j] EXCEPT !.status = "running"], "starting", worker[j])
  BY <1>3, <1>4, StatusReplaced DEF MainOK
<1>6. QED
  BY <1>1, <1>2, <1>3, <1>4, <1>5, MainStepKeeps

(* The go statement of RunJobAsync.                                        *)
LEMMA SpawnKeeps ==
  ASSUME IInv, NEW c \in Pages, SpawnJob(c)
  PROVE  IInv' /\ TerminalKept
<1>1. PICK j \in JobIds :
        j \in DOMAIN jobs /\ main[j] = "starting" /\ main' = [main EXCEPT ![j] = "run"]
  BY DEF SpawnJob
<1>2. UNCHANGED <<jobs, worker, stats, request>>
  BY DEF SpawnJob, registry
<1>3. jobs[j] \in JobRecords /\ MainOK(jobs[j], "starting", worker[j]) /\ Active(j)
  BY <1>1, WhereMainIs
<1>4. [jobs[j] EXCEPT !.status = jobs[j].status] = jobs[j] /\ jobs[j].status \in Statuses
  BY <1>3 DEF JobRecords
<1>5. jobs' = [jobs EXCEPT ![j] = [jobs[j] EXCEPT !.status = jobs[j].status]]
  BY <1>1, <1>2, <1>4 DEF IInv, RegistryType
<1>6. MainOK(jobs[j], "run", worker[j]) /\ "run" \in MainLabels
  BY <1>3 DEF MainOK, MainLabels
<1>7. QED
  BY <1>1, <1>2, <1>3, <1>4, <1>5, <1>6, MainStepKeeps

(* runJob starts the goroutines of the protocols.                          *)
LEMMA RunJobKeeps ==
  ASSUME IInv, NEW j \in JobIds, RunJob(j)
  PROVE  IInv' /\ TerminalKept
<1> DEFINE w == [p \in Protocols |-> IF p \in Wanted(j) THEN "seed" ELSE "none"]
<1>1. /\ main[j] = "run" /\ main' = [main EXCEPT ![j] = "wait"]
      /\ worker' = [worker EXCEPT ![j] = w]
      /\ UNCHANGED <<jobs, stats, request>>
  BY DEF RunJob, registry, connections
<1>2. j \in DOMAIN jobs
  BY <1>1 DEF IInv, Unborn
<1>3. jobs[j] \in JobRecords /\ MainOK(jobs[j], "run", worker[j]) /\ Active(j)
  BY <1>1, <1>2, WhereMainIs
<1>4. Wanted(j) \subseteq Protocols
  BY <1>3, JobFields DEF Wanted
<1>5. JobOK(jobs[j], "run", worker[j], stats[j])
  BY <1>1, <1>2 DEF IInv, JobsOK
<1>6. w \in [Protocols -> WorkerLabels]
  BY DEF WorkerLabels
<1>7. JobOK(jobs[j], "wait", w, stats[j])
  <2>1. \A p \in Wanted(j) : w[p] = "seed" /\ worker[j][p] = "none"
    BY <1>3, <1>4 DEF MainOK
  <2>2. \A p \in Wanted(j) : WorkerOK(jobs[j], p, w[p], stats[j][p])
    BY <2>1, <1>5 DEF JobOK, WorkerOK, Wanted
  <2>3. MainOK(jobs[j], "wait", w)
    <3>1. jobs[j].status = "running"
      BY <1>3 DEF MainOK
    <3>2. \A p \in Protocols : w[p] # "none" => p \in Wanted(j)
      OBVIOUS
    <3>3. QED
      BY <3>1, <3>2 DEF MainOK, Wanted
  <2>4. QED
    BY <2>1, <2>2, <2>3, <1>5 DEF JobOK, Wanted
<1>8. jobs' = [jobs EXCEPT ![j] = jobs[j]] /\ stats' = [stats EXCEPT ![j] = stats[j]]
      /\ stats[j] \in [Protocols -> Nat] /\ "wait" \in MainLabels
  BY <1>1, <1>2 DEF IInv, RegistryType, MainLabels
<1> HIDE DEF w
<1>9. QED
  BY <1>1, <1>2, <1>3, <1>6, <1>7, <1>8, JobStepKeeps

(* A job fails: nothing of it is at work.                                  *)
LEMMA FailJobKeeps ==
  ASSUME IInv, NEW j \in JobIds, FailJob(j), main[j] \in {"run", "wait"},
         \A p \in Protocols : worker[j][p] \in {"none", "ok", "error"}
  PROVE  IInv' /\ TerminalKept
<1>1. /\ jobs' = [jobs EXCEPT ![j] = [jobs[j] EXCEPT !.status = "failed"]]
      /\ main' = [main EXCEPT ![j] = "ended"]
      /\ UNCHANGED <<worker, stats, request>>
  BY DEF FailJob, Record, connections
<1>2. j \in DOMAIN jobs
  BY DEF IInv, Unborn
<1>3. jobs[j] \in JobRecords /\ MainOK(jobs[j], main[j], worker[j]) /\ Active(j)
  BY <1>2, WhereMainIs
<1>4. "failed" \in Statuses /\ "ended" \in MainLabels
  BY DEF Statuses, MainLabels
<1>5. MainOK([jobs[j] EXCEPT !.status = "failed"], "ended", worker[j])
  BY <1>3, <1>4, StatusReplaced DEF MainOK, Terminal
<1>6. QED
  BY <1>1, <1>2, <1>3, <1>4, <1>5, MainStepKeeps

(* The end of runJob, after wg.Wait.                                       *)
LEMMA JobEndKeeps ==
  ASSUME IInv, NEW j \in JobIds, NoEndpoint(j) \/ MarkJobFailed(j) \/ MarkJobCompleted(j)
  PROVE  IInv' /\ TerminalKept
<1>1. main[j] \in {"run", "wait"}
  BY DEF NoEndpoint, MarkJobFailed, MarkJobCompleted
<1>2. j \in DOMAIN jobs
  BY <1>1 DEF IInv, Unborn
<1>3. jobs[j] \in JobRecords /\ MainOK(jobs[j], main[j], worker[j]) /\ Active(j)
  BY <1>1, <1>2, WhereMainIs
<1>4. \A p \in Protocols : worker[j][p] # "none" => p \in Wanted(j)
  BY <1>3 DEF MainOK, Wanted
<1>5. CASE NoEndpoint(j)
  <2>1. main[j] = "run" /\ FailJob(j)
    BY <1>5 DEF NoEndpoint
  <2>2. \A p \in Protocols : worker[j][p] = "none"
    BY <2>1, <1>3 DEF MainOK
  <2>3. QED
    BY <2>1, <2>2, FailJobKeeps
<1>6. CASE MarkJobFailed(j)
  <2>1. FailJob(j) /\ \A p \in Wanted(j) : worker[j][p] \in {"ok", "error"}
    BY <1>6 DEF MarkJobFailed, AllReturned
  <2>2. QED
    BY <2>1, <1>1, <1>4, FailJobKeeps
<1>7. CASE MarkJobCompleted(j)
  <2>1. /\ jobs' = [jobs EXCEPT ![j] = [jobs[j] EXCEPT !.status = "completed"]]
        /\ main' = [main EXCEPT ![j] = "ended"]
        /\ UNCHANGED <<worker, stats, request>>
        /\ \A p \in Wanted(j) : worker[j][p] = "ok"
    BY <1>7 DEF MarkJobCompleted, Record, connections
  <2>2. "completed" \in Statuses /\ "ended" \in MainLabels
    BY DEF Statuses, MainLabels
  <2>3. MainOK([jobs[j] EXCEPT !.status = "completed"], "ended", worker[j])
    BY <2>1, <2>2, <1>3, <1>4, StatusReplaced DEF MainOK, Terminal, Wanted
  <2>4. QED
    BY <2>1, <2>2, <2>3, <1>2, <1>3, MainStepKeeps
<1>8. QED
  BY <1>5, <1>6, <1>7

-------------------------------------------------------------------------------
(* Every step.                                                             *)

(* The steps of a handler.                                                 *)
LEMMA HandlerKeeps ==
  ASSUME IInv, NEW c \in Pages, HandlerStep(c)
  PROVE  IInv' /\ TerminalKept
<1>1. CASE CreateJob(c)
  BY <1>1, CreateJobKeeps
<1>2. CASE RefuseJob(c)
  <2>1. UNCHANGED <<jobs, main, worker, stats>> /\ request' = [request EXCEPT ![c] = {}]
    BY <1>2 DEF RefuseJob, registry, goroutines
  <2>2. QED
    BY <2>1, RequestDroppedKeeps
<1>3. CASE Subscribe(c) \/ ReplaceSubscription(c)
  <2>1. UNCHANGED <<jobs, main, worker, stats, request>>
    BY <1>3 DEF Subscribe, ReplaceSubscription, registry, goroutines
  <2>2. QED
    BY <2>1, OtherStepKeeps
<1>4. CASE MarkJobStarted(c)
  BY <1>4, JobStartedKeeps
<1>5. CASE SpawnJob(c)
  BY <1>5, SpawnKeeps
<1>6. QED
  BY <1>1, <1>2, <1>3, <1>4, <1>5 DEF HandlerStep

(* The steps of the goroutines of a job.                                   *)
LEMMA JobKeeps ==
  ASSUME IInv, NEW j \in JobIds, JobStep(j)
  PROVE  IInv' /\ TerminalKept
<1>1. CASE RunJob(j)
  BY <1>1, RunJobKeeps
<1>2. CASE NoEndpoint(j) \/ MarkJobFailed(j) \/ MarkJobCompleted(j)
  BY <1>2, JobEndKeeps
<1>3. ASSUME NEW p \in Protocols,
             \/ SeedFails(j, p) \/ RecordProtocolStarted(j, p) \/ RecordFinding(j, p)
             \/ RecordProtocolProgress(j, p) \/ RecordProtocolCompleted(j, p)
             \/ RecordProtocolFailed(j, p)
      PROVE  IInv' /\ TerminalKept
  BY <1>3, SeedFailsKeeps, ProtocolStartedKeeps, FindingKeeps, ProgressKeeps,
     ProtocolCompletedKeeps, ProtocolFailedKeeps
<1>4. ASSUME NEW a \in Callers, TakeSubscribers(j, a) \/ SendEvent(j, a)
      PROVE  IInv' /\ TerminalKept
  <2>1. UNCHANGED <<jobs, main, worker, stats, request>>
    BY <1>4 DEF TakeSubscribers, SendEvent, registry, goroutines, connections
  <2>2. QED
    BY <2>1, OtherStepKeeps
<1>5. QED
  BY <1>1, <1>2, <1>3, <1>4 DEF JobStep

(* No step breaks the invariant or changes a job that has ended.           *)
LEMMA StepKeeps ==
  IInv /\ [Next]_vars => IInv' /\ TerminalKept
<1> SUFFICES ASSUME IInv, [Next]_vars PROVE IInv' /\ TerminalKept
  OBVIOUS
<1>1. ASSUME NEW c \in Pages, HandlerStep(c) PROVE IInv' /\ TerminalKept
  BY <1>1, HandlerKeeps
<1>2. ASSUME NEW j \in JobIds, JobStep(j) PROVE IInv' /\ TerminalKept
  BY <1>2, JobKeeps
<1>3. ASSUME NEW j \in JobIds, ForwarderStep(j) PROVE IInv' /\ TerminalKept
  <2>1. UNCHANGED <<jobs, main, worker, stats, request>>
    BY <1>3 DEF ForwarderStep, Forward, ForwarderStops, registry, goroutines, connections
  <2>2. QED
    BY <2>1, OtherStepKeeps
<1>4. ASSUME NEW c \in Pages, Leave(c) PROVE IInv' /\ TerminalKept
  <2>1. UNCHANGED <<jobs, main, worker, stats>> /\ request' = [request EXCEPT ![c] = {}]
    BY <1>4 DEF Leave, registry, goroutines
  <2>2. QED
    BY <2>1, RequestDroppedKeeps
<1>5. ASSUME NEW c \in Pages, NEW P \in (SUBSET Protocols) \ {{}}, Click(c, P)
      PROVE  IInv' /\ TerminalKept
  BY <1>5, ClickKeeps
<1>6. CASE UNCHANGED vars
  <2>1. UNCHANGED <<jobs, main, worker, stats, request>>
    BY <1>6 DEF vars, registry, goroutines, connections
  <2>2. QED
    BY <2>1, OtherStepKeeps
<1>7. QED
  BY <1>1, <1>2, <1>3, <1>4, <1>5, <1>6 DEF Next, Server, User

-------------------------------------------------------------------------------
(* The theorems.                                                           *)

(* The registry and the goroutines of the jobs always fit together.        *)
THEOREM RegistryConsistent ==
  Spec => []IInv
<1>1. Init => IInv
  BY InitIInv
<1>2. IInv /\ [Next]_vars => IInv'
  BY StepKeeps
<1>3. QED
  BY <1>1, <1>2, PTL DEF Spec

(* However many pages ask at once, CreateJob never lets two jobs be active.*)
THEOREM OneJobAtATime ==
  Spec => []OneActiveJob
<1>1. IInv => OneActiveJob
  BY DEF IInv
<1>2. QED
  BY <1>1, RegistryConsistent, PTL

(* When runJob marks a job completed or failed, its protocols have         *)
(* reported all they found.                                                *)
THEOREM EndsAreAccountedFor ==
  Spec => []EndAccountedFor
<1>1. ASSUME IInv PROVE EndAccountedFor
  <2> SUFFICES ASSUME NEW j \in DOMAIN jobs
               PROVE  /\ jobs[j].status = "completed" =>
                           /\ \A p \in Wanted(j) :
                                jobs[j].protocols[p] =
                                  [status |-> "completed", found |-> jobs[j].findings[p]]
                           /\ jobs[j].total = TotalOf(jobs[j].findings)
                      /\ jobs[j].status = "failed" =>
                           \A p \in Wanted(j) : jobs[j].protocols[p].status # "running"
    BY DEF EndAccountedFor
  <2>1. /\ JobOK(jobs[j], main[j], worker[j], stats[j]) /\ jobs[j] \in JobRecords
        /\ main[j] \in MainLabels
    BY <1>1, JobsInRange DEF IInv, JobsOK, RegistryType
  <2>2. /\ Wanted(j) \subseteq Protocols /\ DOMAIN jobs[j].findings = Wanted(j)
        /\ jobs[j].findings \in [Wanted(j) -> Nat]
    BY <2>1, JobFields DEF JobOK, Wanted
  <2>3. CASE jobs[j].status = "completed"
    <3>1. \A p \in Wanted(j) :
            worker[j][p] = "ok" /\ jobs[j].protocols[p] =
              [status |-> "completed", found |-> jobs[j].findings[p]]
      BY <2>1, <2>3 DEF JobOK, MainOK, WorkerOK, Wanted
    <3>2. jobs[j].total = TotalOf(FoundBy(jobs[j]))
      BY <3>1, <2>1 DEF JobOK, Wanted
    <3>3. FoundBy(jobs[j]) = jobs[j].findings
      <4>1. ASSUME NEW p \in Wanted(j)
            PROVE  jobs[j].protocols[p].found = jobs[j].findings[p]
        <5>1. jobs[j].protocols[p] = [status |-> "completed", found |-> jobs[j].findings[p]]
          BY <3>1
        <5>2. QED
          BY ONLY <5>1
      <4>2. FoundBy(jobs[j]) = [p \in Wanted(j) |-> jobs[j].findings[p]]
        BY <4>1 DEF FoundBy, Wanted
      <4>3. QED
        BY <4>2, <2>2
    <3>4. QED
      BY <2>3, <3>1, <3>2, <3>3
  <2>4. CASE jobs[j].status = "failed"
    <3>1. main[j] = "ended"
      BY <2>1, <2>4 DEF JobOK, MainOK, MainLabels
    <3>2. \A p \in Wanted(j) : worker[j][p] \in {"none", "ok", "error"}
      BY <3>1, <2>1, <2>2 DEF JobOK, MainOK
    <3>3. ASSUME NEW p \in Wanted(j)
          PROVE  jobs[j].protocols[p].status # "running"
      <4>1. WorkerOK(jobs[j], p, worker[j][p], stats[j][p])
        BY <2>1 DEF JobOK, Wanted
      <4>2. CASE worker[j][p] = "ok"
        <5>1. jobs[j].protocols[p] = [status |-> "completed", found |-> jobs[j].findings[p]]
          BY <4>1, <4>2 DEF WorkerOK
        <5>2. QED
          BY ONLY <5>1
      <4>3. CASE worker[j][p] \in {"none", "error"}
        BY <4>1, <4>3 DEF WorkerOK
      <4>4. QED
        BY <3>2, <4>2, <4>3
    <3>4. QED
      BY <2>4, <3>3
  <2>5. QED
    BY <2>3, <2>4
<1>2. QED
  BY <1>1, RegistryConsistent, PTL

(* A report after the end of a job would change it; there is none.         *)
THEOREM EndsAreFinal ==
  Spec => TerminalIsFinal
<1>1. IInv /\ [Next]_vars =>
        [\A j \in DOMAIN jobs : jobs[j].status \in Terminal => jobs'[j] = jobs[j]]_jobs
  BY StepKeeps DEF TerminalKept
<1>2. QED
  BY <1>1, RegistryConsistent, PTL DEF Spec, TerminalIsFinal
===============================================================================
