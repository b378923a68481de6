---------------------- MODULE ProjectPermissions_proofs ----------------------
(***************************************************************************)
(* Proofs about ProjectPermissions, for any processes, workers, rules and   *)
(* bounds. The inductive invariant says how far the holder of the lock has  *)
(* come, in its own terms and in those of the disk, and what a review that  *)
(* is still fresh is a review of; the properties of the store follow.       *)
(***************************************************************************)
EXTENDS ProjectPermissions, FiniteSetTheorems, TLAPS

\* A process without a view shows nothing of one; one that is off does nothing, and one
\* that starts only refreshes.
MemoryOf(s) ==
  /\ mem[s].kind # "ready" => mem[s] = NoView(mem[s].kind)
  /\ mem[s].kind = "off" => \A j \in Jobs : j[1] = s => job[j] = Idle
  /\ mem[s].kind = "starting" =>
       \A j \in Jobs : j[1] = s =>
         job[j] = Idle \/ (job[j].op = "refresh" /\ ~job[j].fresh /\ j = <<s, "control">>)

MemoryInv == \A s \in Processes : MemoryOf(s)

\* What is acknowledged is in the log, unless somebody deleted it, and then the marker tells.
LogInv ==
  /\ log.fold.present => marker = "set" /\ acked <= log.fold.seq
  /\ ~log.fold.present => log.fold = Absent
  /\ marker = "empty" => acked = 0

\* How far a worker has come in its transaction.
StageOf(j) ==
  /\ job[j].at \in {"opened", "owned", "write"} => Readable /\ job[j].view = log.fold
  /\ job[j].at \in {"mark", "rename"} => acked = 0 /\ ~job[j].view.present /\ ~log.fold.present
  /\ job[j].at = "rename" => marker = "set"
  /\ job[j].at \in {"append", "tail"} => log.fold = Base(j)
  /\ job[j].at = "sync" => log.fold = Changed(j)
  /\ job[j].at \in Writing => job[j].op \in Changes \cup {"grant"}
  /\ job[j].at \in Writing \ {"write"} => Fits(j)

StageInv == \A j \in Jobs : StageOf(j)

\* A review that is still fresh is of the view in memory, which under the lock is the view of
\* the transaction; nobody else can replace it by another one than by none.
ReviewOf(j) ==
  /\ job[j].at \in {"waiting", "opened", "owned"} /\ job[j].fresh => job[j].reviewed = mem[j[1]]
  /\ job[j].at = "owned" /\ mem[j[1]].kind = "ready" =>
       mem[j[1]] = Ready(job[j].view, job[j].loaded)
  /\ job[j].at \in Writing => job[j].reviewed = Ready(job[j].view, job[j].loaded)
  /\ job[j].op = "grant" => CanRemember(job[j].reviewed.log)

ReviewInv == \A j \in Jobs : ReviewOf(j)

IInv == TypeOK /\ LockHeld /\ MemoryInv /\ LogInv /\ StageInv /\ ReviewInv

-----------------------------------------------------------------------------
(* What the state is made of.                                              *)

\* The values the actions assign have their types.
LEMMA Values ==
  /\ Absent \in Folds /\ Fresh \in Folds /\ Idle \in Work
  /\ \A kind \in {"off", "starting", "unavailable", "ready"} : NoView(kind) \in Views
  /\ \A f \in Folds, c \in Configs : Ready(f, c) \in Views
BY ConfigsAssumption, BoundsAssumption
   DEF Absent, Fresh, Idle, Folds, Work, NoView, Views, Ready

\* Every process has its control worker, every worker its process, and nobody is none of them.
LEMMA Workers ==
  /\ Nobody \notin Jobs /\ Tools \subseteq Jobs
  /\ \A p \in Processes : <<p, "control">> \in Jobs
  /\ \A j \in Jobs : j[1] \in Processes
BY ToolsAssumption, NobodyAssumption DEF Jobs

\* A worker that returns is idle, or waits to refresh what it changed.
LEMMA DroppedFacts ==
  ASSUME TypeOK, NEW j \in Jobs
  PROVE  /\ Dropped(j) \in [Jobs -> Work]
         /\ \A k \in Jobs \ {j} : Dropped(j)[k] = job[k]
         /\ Dropped(j)[j].at \in {"none", "waiting"} /\ ~Dropped(j)[j].fresh
         /\ Dropped(j)[j].op \in {"none", "refresh"}
         /\ job[j].op \notin Changes => Dropped(j)[j] = Idle
BY Values DEF Dropped, TypeOK, Work, Idle, Changes

\* Who is idle has reviewed nothing.
LEMMA IdleStale == [Idle EXCEPT !.fresh = FALSE] = Idle
<1> DEFINE stale == [Idle EXCEPT !.fresh = FALSE]
<1>1. Idle \in Work /\ stale \in Work
  BY Values DEF Work
<1>2. /\ stale.op = Idle.op /\ stale.at = Idle.at /\ stale.arg = Idle.arg
      /\ stale.reviewed = Idle.reviewed /\ stale.fresh = Idle.fresh
      /\ stale.view = Idle.view /\ stale.loaded = Idle.loaded
  BY DEF Idle
<1> HIDE DEF stale
<1>3. stale = Idle
  BY <1>1, <1>2 DEF Work
<1> QED BY <1>3 DEF stale

\* observe_project keeps what every worker does; who reviewed another view is not fresh any more.
LEMMA Observed ==
  ASSUME TypeOK, NEW jobs \in [Jobs -> Work], NEW p \in Processes, NEW view \in Views,
         Observe(jobs, p, view)
  PROVE  /\ job' \in [Jobs -> Work] /\ mem' \in [Processes -> Views]
         /\ mem'[p] = view /\ \A s \in Processes \ {p} : mem'[s] = mem[s]
         /\ \A k \in Jobs :
              /\ job'[k].op = jobs[k].op /\ job'[k].at = jobs[k].at /\ job'[k].arg = jobs[k].arg
              /\ job'[k].reviewed = jobs[k].reviewed
              /\ job'[k].view = jobs[k].view /\ job'[k].loaded = jobs[k].loaded
              /\ job'[k].fresh => jobs[k].fresh /\ (k[1] = p => view = mem[p])
              /\ k[1] # p => job'[k] = jobs[k]
              /\ jobs[k] = Idle => job'[k] = Idle
<1> USE DEF Observe, TypeOK
<1>1. mem' \in [Processes -> Views] /\ mem'[p] = view /\ \A s \in Processes \ {p} : mem'[s] = mem[s]
  OBVIOUS
<1>2. ASSUME NEW k \in Jobs
      PROVE  job'[k] = jobs[k] \/ (k[1] = p /\ mem[p] # view /\ job'[k] = [jobs[k] EXCEPT !.fresh = FALSE])
  OBVIOUS
<1>3. ASSUME NEW k \in Jobs
      PROVE  k[1] = p /\ mem[p] # view => job'[k] = [jobs[k] EXCEPT !.fresh = FALSE]
  OBVIOUS
<1>4. ASSUME NEW k \in Jobs PROVE job'[k] \in Work
  BY <1>2 DEF Work
<1>5. job' \in [Jobs -> Work]
  BY <1>4
<1>6. ASSUME NEW k \in Jobs
      PROVE  /\ job'[k].op = jobs[k].op /\ job'[k].at = jobs[k].at /\ job'[k].arg = jobs[k].arg
             /\ job'[k].reviewed = jobs[k].reviewed
             /\ job'[k].view = jobs[k].view /\ job'[k].loaded = jobs[k].loaded
             /\ job'[k].fresh => jobs[k].fresh /\ (k[1] = p => view = mem[p])
             /\ k[1] # p => job'[k] = jobs[k]
             /\ jobs[k] = Idle => job'[k] = Idle
  <2>1. [Idle EXCEPT !.fresh = FALSE] = Idle
    BY IdleStale
  <2>2. CASE job'[k] = jobs[k] /\ ~(k[1] = p /\ mem[p] # view)
    <3> HIDE DEF Observe, TypeOK
    <3> QED BY <2>2
  <2>3. CASE k[1] = p /\ mem[p] # view /\ job'[k] = [jobs[k] EXCEPT !.fresh = FALSE]
    <3>1. jobs[k] \in Work
      OBVIOUS
    <3> HIDE DEF Observe, TypeOK
    <3> QED BY <2>1, <2>3, <3>1 DEF Work
  <2>4. ~(k[1] = p /\ mem[p] # view) => job'[k] = jobs[k]
    OBVIOUS
  <2> HIDE DEF Observe, TypeOK
  <2> QED BY <1>3, <2>2, <2>3, <2>4
<1> QED BY <1>1, <1>5, <1>6

\* Who does not hold the lock is at no stage.
LEMMA Outside ==
  ASSUME NEW k \in Jobs, job'[k].at \notin Holding
  PROVE  StageOf(k)'
BY DEF StageOf, Holding, Writing

\* A worker that goes on with the same work over the same disk is where it was.
LEMMA StageKept ==
  ASSUME NEW k \in Jobs, StageOf(k), UNCHANGED <<log, marker, acked>>,
         job'[k].op = job[k].op, job'[k].at = job[k].at, job'[k].arg = job[k].arg,
         job'[k].reviewed = job[k].reviewed, job'[k].view = job[k].view
  PROVE  StageOf(k)'
BY DEF StageOf, Readable, Base, Changed, Fits

\* A review survives what others publish: an equal view, or another one that ends its freshness.
LEMMA ReviewKept ==
  ASSUME NEW k \in Jobs, ReviewOf(k),
         job'[k].op = job[k].op, job'[k].at = job[k].at, job'[k].reviewed = job[k].reviewed,
         job'[k].view = job[k].view, job'[k].loaded = job[k].loaded,
         job'[k].fresh => job[k].fresh,
         \/ mem'[k[1]] = mem[k[1]]
         \/ ~job'[k].fresh /\ (job[k].at = "owned" => mem'[k[1]].kind # "ready")
  PROVE  ReviewOf(k)'
BY DEF ReviewOf, CanRemember, Ready

\* A change that fits makes a log of one record more.
LEMMA ChangedFacts ==
  ASSUME TypeOK, NEW j \in Jobs, job[j].op \in Changes \cup {"grant"}, Fits(j)
  PROVE  /\ Changed(j) \in Folds /\ Changed(j).present /\ Changed(j).seq = Base(j).seq + 1
         /\ Base(j) \in Folds /\ Base(j).present
<1>1. Base(j) \in Folds /\ Base(j).present
  BY Values DEF TypeOK, Work, Base, Fresh, Folds
<1>2. job[j].reviewed.config \in Configs /\ job[j].arg \in 0..MaxRecords /\ "none" \in Configs
  BY ConfigsAssumption DEF TypeOK, Work, Views
<1>3. Base(j).seq + 1 \in 1..MaxRecords
  BY <1>1, BoundsAssumption DEF Fits, Folds
<1> DEFINE next == [Base(j) EXCEPT !.seq = @ + 1]
<1>4. next \in Folds /\ next.present /\ next.seq = Base(j).seq + 1
  BY <1>1, <1>3 DEF Folds
<1> HIDE DEF next
<1>5. CASE job[j].op = "grant"
  <2>1. Changed(j) = [next EXCEPT !.grants = @ \cup {next.seq}]
    BY <1>5 DEF Changed, next
  <2> QED BY <1>1, <1>3, <1>4, <2>1 DEF Folds
<1>6. CASE job[j].op = "revoke"
  <2>1. Changed(j) = [next EXCEPT !.grants = @ \ {job[j].arg}]
    BY <1>6 DEF Changed, next
  <2> QED BY <1>1, <1>4, <2>1 DEF Folds
<1>7. CASE job[j].op = "trust"
  <2>1. Changed(j) = [next EXCEPT !.trust = job[j].reviewed.config]
    BY <1>7 DEF Changed, next
  <2> QED BY <1>1, <1>2, <1>4, <2>1 DEF Folds
<1>8. CASE job[j].op = "untrust"
  <2>1. Changed(j) = [next EXCEPT !.trust = "none"]
    BY <1>8 DEF Changed, next
  <2> QED BY <1>1, <1>2, <1>4, <2>1 DEF Folds
<1> QED BY <1>5, <1>6, <1>7, <1>8 DEF Changes

\* One worker goes on: the invariant holds again if it does for this worker and the log.
LEMMA Progress ==
  ASSUME IInv, NEW j \in Jobs, NEW w \in Work, job' = [job EXCEPT ![j] = w],
         UNCHANGED <<config, mem, left>>,
         \/ Running(j[1])
         \/ job[j] # Idle /\ w.op = job[j].op /\ w.fresh = job[j].fresh,
         lock' \in Jobs \cup {Nobody}, LockHeld',
         UNCHANGED <<log, marker, acked>> \/ lock = j,
         log' \in [fold: Folds, torn: BOOLEAN], marker' \in {"empty", "partial", "set"},
         acked' \in 0..MaxRecords, LogInv', StageOf(j)', ReviewOf(j)'
  PROVE  IInv'
<1>1. job' \in [Jobs -> Work] /\ \A k \in Jobs \ {j} : job'[k] = job[k]
  BY DEF IInv, TypeOK
<1>2. job'[j] = w
  BY DEF IInv, TypeOK
<1>3. TypeOK'
  BY <1>1 DEF IInv, TypeOK
<1>4. MemoryInv'
  <2> SUFFICES ASSUME NEW s \in Processes PROVE MemoryOf(s)'
    BY DEF MemoryInv
  <2> QED BY <1>1, <1>2 DEF IInv, MemoryInv, MemoryOf, Running
<1>5. ASSUME NEW k \in Jobs \ {j} PROVE StageOf(k)'
  <2>1. StageOf(k) /\ job'[k] = job[k]
    BY <1>1 DEF IInv, StageInv
  <2>2. CASE lock = j
    <3>1. job'[k].at \notin Holding
      BY <2>1, <2>2 DEF IInv, LockHeld
    <3> QED BY <3>1, Outside
  <2>3. CASE UNCHANGED <<log, marker, acked>>
    BY <2>1, <2>3, StageKept
  <2> QED BY <2>2, <2>3
<1>6. ASSUME NEW k \in Jobs \ {j} PROVE ReviewOf(k)'
  <2>1. ReviewOf(k) /\ job'[k] = job[k] /\ mem'[k[1]] = mem[k[1]]
    BY <1>1 DEF IInv, ReviewInv
  <2> QED BY <2>1, ReviewKept
<1>7. StageInv' /\ ReviewInv'
  BY <1>5, <1>6 DEF StageInv, ReviewInv
<1> QED BY <1>3, <1>4, <1>7 DEF IInv

\* A worker that returns, with the view of its process or with none, leaves the rest as it is.
LEMMA Leaving ==
  ASSUME IInv, NEW j \in Jobs, job[j] # Idle, Return(j) \/ SourceFailure(j),
         UNCHANGED <<marker, log, config, left, acked>>
  PROVE  IInv'
<1>1. Dropped(j) \in [Jobs -> Work] /\ \A k \in Jobs \ {j} : Dropped(j)[k] = job[k]
  BY DroppedFacts DEF IInv
<1>2. /\ Dropped(j)[j].at \in {"none", "waiting"} /\ ~Dropped(j)[j].fresh
      /\ Dropped(j)[j].op \in {"none", "refresh"}
      /\ job[j].op \notin Changes => Dropped(j)[j] = Idle
  BY DroppedFacts DEF IInv
<1>3. j[1] \in Processes
  BY Workers
<1>4. mem[j[1]].kind # "off" /\ (mem[j[1]].kind = "starting" =>
         /\ Dropped(j)[j] = Idle
         /\ \A k \in Jobs \ {j} : k[1] = j[1] => job[k] = Idle)
  BY <1>2, <1>3 DEF IInv, MemoryInv, MemoryOf, Changes
<1> DEFINE after == IF Running(j[1]) THEN Unavailable ELSE NoView("off")
<1>5. after \in Views /\ after.kind \in {"unavailable", "off"} /\ after = NoView(after.kind)
      /\ (after.kind = "off" => mem[j[1]].kind = "starting")
  <2>1. mem[j[1]].kind \in {"off", "starting", "unavailable", "ready"}
    BY <1>3 DEF IInv, TypeOK, Views
  <2> QED BY <1>4, <2>1, Values DEF Unavailable, NoView, Running
<1> HIDE DEF after
<1>6. /\ job' \in [Jobs -> Work] /\ mem' \in [Processes -> Views]
      /\ \A s \in Processes \ {j[1]} : mem'[s] = mem[s]
      /\ mem'[j[1]] \in {mem[j[1]], after}
      /\ mem'[j[1]] = after => \A k \in Jobs : job'[k].fresh /\ k[1] = j[1] => mem[j[1]] = after
      /\ \A k \in Jobs :
           /\ job'[k].op = Dropped(j)[k].op /\ job'[k].at = Dropped(j)[k].at
           /\ job'[k].arg = Dropped(j)[k].arg /\ job'[k].reviewed = Dropped(j)[k].reviewed
           /\ job'[k].view = Dropped(j)[k].view /\ job'[k].loaded = Dropped(j)[k].loaded
           /\ job'[k].fresh => Dropped(j)[k].fresh
           /\ k[1] # j[1] => job'[k] = Dropped(j)[k]
           /\ Dropped(j)[k] = Idle => job'[k] = Idle
  <2>1. CASE Return(j)
    BY <1>1, <1>3, <2>1 DEF Return, IInv, TypeOK
  <2>2. CASE SourceFailure(j)
    <3>1. Observe(Dropped(j), j[1], after)
      BY <2>2 DEF SourceFailure, after
    <3> QED BY <1>1, <1>3, <1>5, <3>1, Observed DEF IInv
  <2> QED BY <2>1, <2>2
<1>7. job'[j].at \in {"none", "waiting"} /\ ~job'[j].fresh /\ job'[j].op \in {"none", "refresh"}
  BY <1>2, <1>6
<1>8. TypeOK'
  <2>1. lock' \in Jobs \cup {Nobody}
    BY DEF IInv, TypeOK, Return, SourceFailure, Unlock
  <2> QED BY <1>6, <2>1 DEF IInv, TypeOK
<1>9. LockHeld'
  <2>1. lock' = IF lock = j THEN Nobody ELSE lock
    BY DEF Return, SourceFailure, Unlock
  <2>2. job'[j].at \notin Holding
    BY <1>7 DEF Holding, Writing
  <2>3. ASSUME NEW k \in Jobs \ {j} PROVE job'[k].at = job[k].at
    BY <1>1, <1>6
  <2> QED BY <2>1, <2>2, <2>3, Workers DEF IInv, LockHeld
<1>10. MemoryInv'
  <2> SUFFICES ASSUME NEW s \in Processes PROVE MemoryOf(s)'
    BY DEF MemoryInv
  <2>1. CASE s # j[1]
    <3>1. mem'[s] = mem[s] /\ \A k \in Jobs : k[1] = s => job'[k] = job[k]
      BY <1>1, <1>6, <2>1
    <3> QED BY <3>1 DEF IInv, MemoryInv, MemoryOf
  <2>2. CASE s = j[1] /\ mem'[s] = mem[s]
    <3>1. mem[s].kind # "off" /\ (mem[s].kind = "starting" => \A k \in Jobs : k[1] = s => job'[k] = Idle)
      BY <1>1, <1>4, <1>6, <2>2
    <3> QED BY <2>2, <3>1 DEF IInv, MemoryInv, MemoryOf
  <2>3. CASE s = j[1] /\ mem'[s] = after
    <3>1. after.kind = "off" => \A k \in Jobs : k[1] = s => job'[k] = Idle
      BY <1>1, <1>4, <1>5, <1>6, <2>3
    <3> QED BY <1>5, <2>3, <3>1 DEF MemoryOf
  <2> QED BY <1>6, <2>1, <2>2, <2>3
<1>11. LogInv'
  BY DEF IInv, LogInv
<1>12. ASSUME NEW k \in Jobs PROVE StageOf(k)'
  <2>1. CASE k = j
    BY <1>7, <2>1, Outside DEF Holding, Writing
  <2>2. CASE k # j
    <3>1. StageOf(k)
      BY DEF IInv, StageInv
    <3> QED BY <1>1, <1>6, <2>2, <3>1, StageKept
  <2> QED BY <2>1, <2>2
<1>13. ASSUME NEW k \in Jobs PROVE ReviewOf(k)'
  <2>1. CASE k = j
    BY <1>7, <2>1 DEF ReviewOf, Writing
  <2>2. CASE k # j
    <3>1. ReviewOf(k)
      BY DEF IInv, ReviewInv
    <3>2. mem'[k[1]] = mem[k[1]] \/ (~job'[k].fresh /\ mem'[k[1]].kind # "ready")
      <4>1. k[1] \in Processes
        BY Workers
      <4> QED BY <1>5, <1>6, <4>1
    <3> QED BY <1>1, <1>6, <2>2, <3>1, <3>2, ReviewKept
  <2> QED BY <2>1, <2>2
<1> QED BY <1>8, <1>9, <1>10, <1>11, <1>12, <1>13 DEF IInv, StageInv, ReviewInv

-----------------------------------------------------------------------------
(* The invariant is inductive: one lemma for each group of actions.         *)

LEMMA Initial == Init => IInv
<1> SUFFICES ASSUME Init PROVE IInv
  OBVIOUS
<1>1. \A j \in Jobs : job[j] = Idle
  BY DEF Init
<1>2. TypeOK
  BY Values, BoundsAssumption, ConfigsAssumption DEF Init, TypeOK, Folds
<1>3. LockHeld
  BY <1>1, Workers DEF Init, LockHeld, Idle, Holding, Writing
<1>4. MemoryInv
  BY <1>1 DEF Init, MemoryInv, MemoryOf, NoView
<1>5. LogInv
  BY DEF Init, LogInv, Absent
<1>6. StageInv /\ ReviewInv
  BY <1>1 DEF StageInv, StageOf, ReviewInv, ReviewOf, Idle, Holding, Writing
<1> QED BY <1>2, <1>3, <1>4, <1>5, <1>6 DEF IInv

\* A worker that begins has taken no lock yet, and reviews what its process shows.
LEMMA Beginning ==
  ASSUME IInv, NEW j \in Jobs, Running(j[1]), job[j] = Idle,
         NEW op \in {"refresh", "grant"} \cup Changes \cup Authorizations,
         NEW arg \in 0..MaxRecords, op = "grant" => CanRemember(mem[j[1]].log),
         (Begin(j, op, arg) /\ op # "grant") \/ BeginReviewed(j, op, arg),
         UNCHANGED <<lock, marker, log, config, mem, left, acked>>
  PROVE  IInv'
<1>1. mem[j[1]] \in Views /\ job \in [Jobs -> Work] /\ lock \in Jobs \cup {Nobody}
  BY Workers DEF IInv, TypeOK
<1>2. PICK v \in Work : /\ job' = [job EXCEPT ![j] = v] /\ v.op = op /\ v.at = "waiting"
                        /\ v.fresh => v.reviewed = mem[j[1]]
                        /\ op = "grant" => v.reviewed = mem[j[1]]
  <2>1. CASE Begin(j, op, arg) /\ op # "grant"
    <3> DEFINE w == [Idle EXCEPT !.op = op, !.at = "waiting", !.arg = arg]
    <3>1. w \in Work /\ w.op = op /\ w.at = "waiting" /\ ~w.fresh
      BY Values DEF Work, Idle
    <3>2. job' = [job EXCEPT ![j] = w]
      BY <2>1 DEF Begin
    <3> HIDE DEF w
    <3> QED BY <2>1, <3>1, <3>2
  <2>2. CASE BeginReviewed(j, op, arg)
    <3> DEFINE w == [Idle EXCEPT !.op = op, !.at = "waiting", !.arg = arg,
                                 !.reviewed = mem[j[1]], !.fresh = TRUE]
    <3>1. w \in Work /\ w.op = op /\ w.at = "waiting" /\ w.reviewed = mem[j[1]]
      BY <1>1, Values DEF Work, Idle
    <3>2. job' = [job EXCEPT ![j] = w]
      BY <2>2 DEF BeginReviewed
    <3> HIDE DEF w
    <3> QED BY <3>1, <3>2
  <2> QED BY <2>1, <2>2
<1>3. job'[j] = v
  BY <1>1, <1>2
<1>4. LockHeld'
  <2>1. job[j].at = "none"
    BY DEF Idle
  <2> QED BY <1>1, <1>2, <1>3, <2>1 DEF IInv, LockHeld, Holding, Writing
<1>5. StageOf(j)'
  BY <1>2, <1>3, Outside DEF Holding, Writing
<1>6. ReviewOf(j)'
  BY <1>2, <1>3 DEF ReviewOf, Writing, CanRemember
<1>7. LogInv'
  BY DEF IInv, LogInv
<1> QED BY <1>1, <1>2, <1>4, <1>5, <1>6, <1>7, Progress DEF IInv, TypeOK

LEMMA Begins ==
  ASSUME IInv,
         (\E p \in Processes : BeginControl(p)) \/ (\E j \in Tools : BeginGrant(j) \/ BeginTool(j))
  PROVE  IInv'
<1>1. ASSUME NEW p \in Processes, BeginControl(p) PROVE IInv'
  <2> DEFINE j == <<p, "control">>
  <2>1. j \in Jobs /\ j[1] = p /\ Running(p) /\ UNCHANGED <<lock, marker, log, config, mem, left, acked>>
    BY <1>1, Workers DEF BeginControl
  <2>2. mem[p].log.grants \subseteq 0..MaxRecords /\ 0 \in 0..MaxRecords
    BY BoundsAssumption DEF IInv, TypeOK, Views, Folds
  <2>3. PICK op \in {"refresh"} \cup Changes, arg \in 0..MaxRecords :
          Begin(j, op, arg) \/ BeginReviewed(j, op, arg)
    BY <1>1, <2>2 DEF BeginControl, Changes
  <2>4. job[j] = Idle /\ op # "grant" /\ op \in {"refresh", "grant"} \cup Changes \cup Authorizations
    BY <2>3 DEF Begin, BeginReviewed, Changes
  <2> HIDE DEF j
  <2> QED BY <2>1, <2>3, <2>4, Beginning
<1>2. ASSUME NEW j \in Tools, BeginGrant(j) PROVE IInv'
  <2>1. j \in Jobs /\ 0 \in 0..MaxRecords
    BY Workers, BoundsAssumption
  <2>2. job[j] = Idle
    BY <1>2 DEF BeginGrant, BeginReviewed
  <2> QED BY <1>2, <2>1, <2>2, Beginning DEF BeginGrant
<1>3. ASSUME NEW j \in Tools, BeginTool(j) PROVE IInv'
  <2>1. j \in Jobs /\ mem[j[1]].log.grants \subseteq 0..MaxRecords /\ 0 \in 0..MaxRecords
    BY Workers, BoundsAssumption DEF IInv, TypeOK, Views, Folds
  <2>2. PICK op \in Authorizations, arg \in 0..MaxRecords : Begin(j, op, arg)
    BY <1>3, <2>1 DEF BeginTool
  <2>3. job[j] = Idle /\ op # "grant"
    BY <2>2 DEF Begin, Authorizations
  <2> QED BY <1>3, <2>1, <2>2, <2>3, Beginning DEF BeginTool
<1> QED BY <1>1, <1>2, <1>3

\* Nothing but its own refresh runs in a process that starts.
LEMMA Starts ==
  ASSUME IInv, NEW p \in Processes, Start(p)
  PROVE  IInv'
<1> DEFINE control == <<p, "control">>
           w == [Idle EXCEPT !.op = "refresh", !.at = "waiting"]
<1>1. /\ control \in Jobs /\ w \in Work /\ w.op = "refresh" /\ w.at = "waiting" /\ ~w.fresh
      /\ job \in [Jobs -> Work] /\ job[control] = Idle /\ mem[p].kind = "off"
  BY Workers, Values DEF Work, Idle, Start, IInv, TypeOK, MemoryInv, MemoryOf
<1>2. job' = [job EXCEPT ![control] = w] /\ mem' = [mem EXCEPT ![p] = NoView("starting")]
  BY DEF Start
<1> HIDE DEF w
<1>3. job'[control] = w /\ \A k \in Jobs \ {control} : job'[k] = job[k]
  BY <1>1, <1>2
<1>4. /\ mem' \in [Processes -> Views] /\ mem'[p] = NoView("starting")
      /\ \A s \in Processes \ {p} : mem'[s] = mem[s]
  BY <1>2, Values DEF IInv, TypeOK
<1>5. UNCHANGED <<lock, marker, log, config, left, acked>>
  BY DEF Start
<1>6. TypeOK'
  BY <1>1, <1>2, <1>4, <1>5 DEF IInv, TypeOK
<1>7. LockHeld'
  BY <1>1, <1>3, <1>5 DEF IInv, LockHeld, Idle, Holding, Writing
<1>8. MemoryInv'
  <2> SUFFICES ASSUME NEW s \in Processes PROVE MemoryOf(s)'
    BY DEF MemoryInv
  <2>1. CASE s = p
    <3>1. mem'[s].kind = "starting" /\ mem'[s] = NoView("starting")
      BY <1>4, <2>1 DEF NoView
    <3>2. \A k \in Jobs \ {control} : k[1] = p => job[k] = Idle
      BY <1>1 DEF IInv, MemoryInv, MemoryOf
    <3> QED BY <1>1, <1>3, <2>1, <3>1, <3>2 DEF MemoryOf
  <2>2. CASE s # p
    <3>1. mem'[s] = mem[s] /\ \A k \in Jobs : k[1] = s => job'[k] = job[k]
      BY <1>3, <1>4, <2>2
    <3> QED BY <3>1 DEF IInv, MemoryInv, MemoryOf
  <2> QED BY <2>1, <2>2
<1>9. ASSUME NEW k \in Jobs PROVE StageOf(k)' /\ ReviewOf(k)'
  <2>1. CASE k = control
    BY <1>1, <1>3, <2>1, Outside DEF Holding, Writing, ReviewOf
  <2>2. CASE k # control /\ k[1] = p
    <3>1. job'[k] = Idle
      BY <1>1, <1>3, <2>2 DEF IInv, MemoryInv, MemoryOf
    <3> QED BY <3>1, Outside DEF Holding, Writing, ReviewOf, Idle
  <2>3. CASE k[1] # p
    <3>1. StageOf(k) /\ ReviewOf(k) /\ job'[k] = job[k] /\ mem'[k[1]] = mem[k[1]]
      BY <1>3, <1>4, <2>3, Workers DEF IInv, StageInv, ReviewInv
    <3> QED BY <1>5, <3>1, StageKept, ReviewKept
  <2> QED BY <2>1, <2>2, <2>3
<1>10. LogInv'
  BY <1>5 DEF IInv, LogInv
<1> QED BY <1>6, <1>7, <1>8, <1>9, <1>10 DEF IInv, StageInv, ReviewInv

\* Whoever gets the lock has read what is on disk.
LEMMA Opens ==
  ASSUME IInv, NEW j \in Jobs, Open(j)
  PROVE  IInv'
<1>1. job[j] # Idle /\ UNCHANGED <<marker, log, config, left, acked>>
  BY DEF Open, Idle
<1>2. CASE SourceFailure(j)
  BY <1>1, <1>2, Leaving
<1>3. CASE Readable /\ lock' = j /\ job' = [job EXCEPT ![j].at = "opened", ![j].view = log.fold]
           /\ UNCHANGED mem
  <2> DEFINE w == [job[j] EXCEPT !.at = "opened", !.view = log.fold]
  <2>1. /\ w \in Work /\ w.at = "opened" /\ w.view = log.fold /\ w.op = job[j].op
        /\ w.fresh = job[j].fresh /\ w.reviewed = job[j].reviewed
        /\ job \in [Jobs -> Work]
    BY DEF IInv, TypeOK, Work, Holding
  <2>2. job' = [job EXCEPT ![j] = w]
    BY <1>3
  <2> HIDE DEF w
  <2>3. job'[j] = w /\ \A k \in Jobs \ {j} : job'[k] = job[k]
    BY <2>1, <2>2
  <2>4. LockHeld'
    <3>1. lock = Nobody /\ \A k \in Jobs : job[k].at \notin Holding
      BY Workers DEF IInv, LockHeld, Open
    <3> QED BY <1>3, <2>1, <2>3, <3>1 DEF LockHeld, Holding
  <2>5. StageOf(j)'
    BY <1>1, <1>3, <2>1, <2>3 DEF StageOf, Readable, Writing
  <2>6. ReviewOf(j)'
    <3>1. ReviewOf(j) /\ job[j].at = "waiting"
      BY DEF Open, IInv, ReviewInv
    <3> QED BY <1>3, <2>1, <2>3, <3>1 DEF ReviewOf, Writing, CanRemember
  <2>7. LogInv'
    BY <1>1 DEF IInv, LogInv
  <2> QED BY <1>1, <1>3, <2>1, <2>2, <2>4, <2>5, <2>6, <2>7, Progress DEF IInv, TypeOK
<1> QED BY <1>2, <1>3 DEF Open

\* The view that is published under the lock is what is on disk, with the configuration as loaded.
LEMMA Publishes ==
  ASSUME IInv, NEW j \in Jobs, Publish(j)
  PROVE  IInv'
<1> DEFINE p == j[1]
           view == Ready(job[j].view, config)
           after == IF job[j].op = "refresh" THEN Dropped(j)
                    ELSE [job EXCEPT ![j].at = "owned", ![j].loaded = config]
<1>1. /\ job[j].at = "opened" /\ config \in Configs /\ job[j] \in Work /\ lock = j
      /\ UNCHANGED <<marker, log, config, left, acked>>
  BY DEF Publish, IInv, TypeOK, LockHeld, Holding
<1>2. /\ p \in Processes /\ view \in Views /\ view.kind = "ready"
      /\ view.log = job[j].view /\ view.config = config
  BY <1>1, Workers, Values DEF Work, Ready
<1>3. \A k \in Jobs \ {j} : job[k].at \notin Holding
  BY <1>1 DEF IInv, LockHeld
<1>4. /\ after \in [Jobs -> Work] /\ \A k \in Jobs \ {j} : after[k] = job[k]
      /\ job[j].op = "refresh" => after[j] = Idle
      /\ job[j].op # "refresh" =>
           /\ after[j].at = "owned" /\ after[j].loaded = config /\ after[j].op = job[j].op
           /\ after[j].view = job[j].view /\ after[j].reviewed = job[j].reviewed
           /\ after[j].arg = job[j].arg
  <2>1. CASE job[j].op = "refresh"
    <3>1. after = Dropped(j) /\ job[j].op \notin Changes
      BY <2>1 DEF Changes
    <3> QED BY <2>1, <3>1, DroppedFacts DEF IInv
  <2>2. CASE job[j].op # "refresh"
    <3> DEFINE w == [job[j] EXCEPT !.at = "owned", !.loaded = config]
    <3>1. /\ w \in Work /\ w.at = "owned" /\ w.loaded = config /\ w.op = job[j].op
          /\ w.view = job[j].view /\ w.reviewed = job[j].reviewed /\ w.arg = job[j].arg
      BY <1>1 DEF Work, Holding
    <3>2. after = [job EXCEPT ![j] = w] /\ job \in [Jobs -> Work]
      BY <2>2 DEF IInv, TypeOK
    <3> HIDE DEF w, after
    <3> QED BY <2>2, <3>1, <3>2
  <2> QED BY <2>1, <2>2
<1>5. Observe(after, p, view) /\ lock' = IF job[j].op = "refresh" THEN Nobody ELSE lock
  BY <1>1 DEF Publish, Unlock
<1> HIDE DEF after, view, p
<1>6. /\ job' \in [Jobs -> Work] /\ mem' \in [Processes -> Views]
      /\ mem'[p] = view /\ \A s \in Processes \ {p} : mem'[s] = mem[s]
      /\ \A k \in Jobs :
           /\ job'[k].op = after[k].op /\ job'[k].at = after[k].at /\ job'[k].arg = after[k].arg
           /\ job'[k].reviewed = after[k].reviewed
           /\ job'[k].view = after[k].view /\ job'[k].loaded = after[k].loaded
           /\ job'[k].fresh => after[k].fresh /\ (k[1] = p => view = mem[p])
           /\ k[1] # p => job'[k] = after[k]
           /\ after[k] = Idle => job'[k] = Idle
  BY <1>2, <1>4, <1>5, Observed DEF IInv
<1>7. TypeOK'
  BY <1>1, <1>5, <1>6 DEF IInv, TypeOK
<1>8. LockHeld'
  <2>1. \A k \in Jobs \ {j} : job'[k].at \notin Holding
    BY <1>3, <1>4, <1>6
  <2>2. job'[j].at = IF job[j].op = "refresh" THEN "none" ELSE "owned"
    BY <1>4, <1>6 DEF Idle
  <2> QED BY <1>1, <1>5, <2>1, <2>2, Workers DEF LockHeld, Holding, Writing
<1>9. MemoryInv'
  <2> SUFFICES ASSUME NEW s \in Processes, s # p PROVE MemoryOf(s)'
    BY <1>2, <1>6 DEF MemoryInv, MemoryOf
  <2>1. mem'[s] = mem[s] /\ \A k \in Jobs : k[1] = s => job'[k] = job[k]
    BY <1>4, <1>6 DEF p
  <2> QED BY <2>1 DEF IInv, MemoryInv, MemoryOf
<1>10. LogInv'
  BY <1>1 DEF IInv, LogInv
<1>11. ASSUME NEW k \in Jobs PROVE StageOf(k)'
  <2>1. CASE job'[k].at \notin Holding
    BY <2>1, Outside
  <2>2. CASE k = j /\ job'[k].at = "owned"
    <3>1. job'[k].view = job[j].view /\ StageOf(j)
      BY <1>4, <1>6, <2>2 DEF Idle, IInv, StageInv
    <3> QED BY <1>1, <2>2, <3>1 DEF StageOf, Readable, Writing
  <2>3. job'[j].at \in {"none", "owned"} /\ \A i \in Jobs \ {j} : job'[i].at \notin Holding
    BY <1>3, <1>4, <1>6 DEF Idle
  <2> QED BY <2>1, <2>2, <2>3 DEF Holding, Writing
<1>12. ASSUME NEW k \in Jobs PROVE ReviewOf(k)'
  <2>1. ReviewOf(k)
    BY DEF IInv, ReviewInv
  <2>2. CASE k # j
    <3>1. job[k].at # "owned" /\ k[1] \in Processes
      BY <1>3, <2>2, Workers DEF Holding
    <3>2. mem'[k[1]] = mem[k[1]] \/ ~job'[k].fresh
      BY <1>6, <3>1
    <3> QED BY <1>4, <1>6, <2>1, <2>2, <3>1, <3>2, ReviewKept
  <2>3. CASE k = j
    <3>1. job'[k].at \in {"none", "owned"}
      BY <1>4, <1>6, <2>3 DEF Idle
    <3>2. job'[k].at = "owned" => /\ job'[k].view = job[j].view /\ job'[k].loaded = config
                                 /\ job'[k].reviewed = job[j].reviewed /\ job'[k].op = job[j].op
      BY <1>4, <1>6, <2>3 DEF Idle
    <3>3. job'[k].at = "none" => job'[k].op # "grant"
      BY <1>4, <1>6, <2>3 DEF Idle
    <3>4. job'[k].fresh => job'[k].reviewed = mem'[k[1]]
      <4>1. CASE job[j].op = "refresh"
        BY <1>4, <1>6, <2>3, <4>1 DEF Idle
      <4>2. CASE job[j].op # "refresh"
        <5>1. job'[k].fresh => job[j].fresh /\ view = mem[p]
          BY <1>4, <1>5, <1>6, <2>3, <4>2 DEF p, after
        <5> QED BY <1>1, <1>4, <1>6, <2>1, <2>3, <4>2, <5>1 DEF ReviewOf, p
      <4> QED BY <4>1, <4>2
    <3> QED BY <1>6, <2>1, <2>3, <3>1, <3>2, <3>3, <3>4 DEF ReviewOf, Writing, CanRemember, view, p
  <2> QED BY <2>2, <2>3
<1> QED BY <1>7, <1>8, <1>9, <1>10, <1>11, <1>12 DEF IInv, StageInv, ReviewInv

\* Who holds the lock for a change or a tool is in a process that runs.
LEMMA Holder ==
  ASSUME IInv, NEW j \in Jobs, job[j].at \in Holding,
         job[j].op \in Changes \cup {"grant"} \cup Authorizations
  PROVE  /\ lock = j /\ Running(j[1]) /\ job[j] # Idle /\ job[j] \in Work
         /\ job \in [Jobs -> Work] /\ mem[j[1]] \in Views
<1>1. lock = j /\ job[j] \in Work /\ j[1] \in Processes /\ mem[j[1]] \in Views
  BY Workers DEF IInv, LockHeld, TypeOK
<1>2. job[j] # Idle /\ job[j].op # "refresh"
  BY DEF Idle, Changes, Authorizations, Holding, Writing
<1>3. mem[j[1]].kind \notin {"off", "starting"}
  BY <1>1, <1>2 DEF IInv, MemoryInv, MemoryOf
<1>4. mem[j[1]].kind \in {"off", "starting", "unavailable", "ready"}
  BY <1>1 DEF Views
<1> QED BY <1>1, <1>2, <1>3, <1>4 DEF Running, IInv, TypeOK

\* What agrees is the view of the transaction: nobody reviewed a process without a view.
LEMMA Agreed ==
  ASSUME IInv, NEW j \in Jobs, job[j].at = "owned", Agrees(j)
  PROVE  /\ mem[j[1]] = Ready(job[j].view, job[j].loaded) /\ job[j].reviewed = mem[j[1]]
         /\ job[j].op \in Changes \cup {"grant"}
<1>1. job[j].op \in Changes \cup {"grant"} /\ job[j].fresh
  BY DEF Agrees, Changes
<1>2. j[1] \in Processes /\ mem[j[1]] \in Views
  BY Workers DEF IInv, TypeOK
<1>3. mem[j[1]].kind = "ready"
  <2> SUFFICES ASSUME mem[j[1]].kind # "ready" PROVE FALSE
    OBVIOUS
  <2>1. mem[j[1]] = NoView(mem[j[1]].kind)
    BY <1>2 DEF IInv, MemoryInv, MemoryOf
  <2>2. mem[j[1]].log = Absent /\ mem[j[1]].config = "none"
    BY <2>1 DEF NoView
  <2>3. mem[j[1]].log.grants = {} /\ mem[j[1]].log.trust = "none" /\ Rule[mem[j[1]].config] = "none"
    BY <2>2, ConfigsAssumption DEF Absent
  <2>4. ~PermitsRemembering(mem[j[1]])
    BY DEF PermitsRemembering
  <2> QED BY <1>1, <2>3, <2>4 DEF Agrees, Changes
<1>4. ReviewOf(j)
  BY DEF IInv, ReviewInv
<1> QED BY <1>1, <1>3, <1>4 DEF ReviewOf

\* The review is compared under the mutex before the write begins.
LEMMA Reviews ==
  ASSUME IInv, NEW j \in Jobs, Review(j)
  PROVE  IInv'
<1>1. /\ job[j].at = "owned" /\ job[j].op \in Changes \cup {"grant"}
      /\ UNCHANGED <<marker, log, config, left, acked>>
  BY DEF Review
<1>2. /\ lock = j /\ Running(j[1]) /\ job[j] # Idle /\ job[j] \in Work
      /\ job \in [Jobs -> Work]
  BY <1>1, Holder DEF Holding
<1>3. CASE Return(j)
  BY <1>1, <1>2, <1>3, Leaving
<1>4. CASE Agrees(j) /\ job' = [job EXCEPT ![j].at = "write"] /\ UNCHANGED <<lock, mem>>
  <2> DEFINE w == [job[j] EXCEPT !.at = "write"]
  <2>1. /\ w \in Work /\ w.at = "write" /\ w.view = job[j].view /\ w.op = job[j].op
        /\ w.reviewed = job[j].reviewed /\ w.loaded = job[j].loaded
    BY <1>2 DEF Work, Holding, Writing
  <2>2. job' = [job EXCEPT ![j] = w]
    BY <1>2, <1>4
  <2> HIDE DEF w
  <2>3. job'[j] = w /\ \A k \in Jobs \ {j} : job'[k] = job[k]
    BY <1>2, <2>2
  <2>4. LockHeld'
    BY <1>1, <1>4, <2>1, <2>3 DEF IInv, LockHeld, Holding, Writing
  <2>5. StageOf(j)'
    <3>1. StageOf(j)
      BY DEF IInv, StageInv
    <3> QED BY <1>1, <2>1, <2>3, <3>1 DEF StageOf, Readable, Writing
  <2>6. ReviewOf(j)'
    <3>1. ReviewOf(j)
      BY DEF IInv, ReviewInv
    <3> QED BY <1>1, <1>4, <2>1, <2>3, <3>1, Agreed DEF ReviewOf, Writing, CanRemember, Ready
  <2>7. LogInv'
    BY <1>1 DEF IInv, LogInv
  <2> QED BY <1>1, <1>2, <1>4, <2>1, <2>2, <2>4, <2>5, <2>6, <2>7, Progress DEF IInv, TypeOK
<1> QED BY <1>3, <1>4 DEF Review

\* A tool that is allowed gives the lock back and runs.
LEMMA Authorizing ==
  ASSUME IInv, NEW j \in Jobs, Authorize(j)
  PROVE  IInv'
<1>1. /\ job[j].at = "owned" /\ job[j].op \in Authorizations
      /\ UNCHANGED <<marker, log, config, left, acked>>
  BY DEF Authorize
<1>2. /\ lock = j /\ Running(j[1]) /\ job[j] # Idle /\ job[j] \in Work
      /\ job \in [Jobs -> Work]
  BY <1>1, Holder DEF Holding
<1>3. CASE Return(j)
  BY <1>1, <1>2, <1>3, Leaving
<1>4. CASE job' = [job EXCEPT ![j] = [Idle EXCEPT !.op = job[j].op, !.at = "running"]]
           /\ Unlock(j) /\ UNCHANGED mem
  <2> DEFINE w == [Idle EXCEPT !.op = job[j].op, !.at = "running"]
  <2>1. w \in Work /\ w.at = "running" /\ w.op = job[j].op /\ ~w.fresh
    BY <1>1, Values DEF Work, Idle
  <2>2. job' = [job EXCEPT ![j] = w] /\ lock' = Nobody
    BY <1>2, <1>4 DEF Unlock
  <2> HIDE DEF w
  <2>3. job'[j] = w /\ \A k \in Jobs \ {j} : job'[k] = job[k]
    BY <1>2, <2>2
  <2>4. LockHeld'
    BY <1>2, <2>1, <2>2, <2>3, Workers DEF IInv, LockHeld, Holding, Writing
  <2>5. StageOf(j)'
    BY <2>1, <2>3, Outside DEF Holding, Writing
  <2>6. ReviewOf(j)'
    BY <1>1, <2>1, <2>3 DEF ReviewOf, Writing, Authorizations
  <2>7. LogInv'
    BY <1>1 DEF IInv, LogInv
  <2> QED BY <1>1, <1>2, <1>4, <2>1, <2>2, <2>4, <2>5, <2>6, <2>7, Progress DEF IInv, TypeOK
<1> QED BY <1>3, <1>4 DEF Authorize

\* A worker that has begun to write goes from place to place with what it has; only the
\* disk changes.
LEMMA Writes ==
  ASSUME IInv, NEW j \in Jobs, NEW w \in Work, job[j].at \in Writing,
         w.at \in Writing \cup {"observe"}, w.op = job[j].op, w.arg = job[j].arg,
         w.reviewed = job[j].reviewed, w.loaded = job[j].loaded,
         job' = [job EXCEPT ![j] = w], UNCHANGED <<lock, config, mem, left>>,
         w.at \in Writing => w.view = job[j].view,
         log' \in [fold: Folds, torn: BOOLEAN], marker' \in {"empty", "partial", "set"},
         acked' \in 0..MaxRecords, LogInv', StageOf(j)'
  PROVE  IInv'
<1>1. job[j].at \in Holding /\ w.at \in Holding /\ StageOf(j) /\ ReviewOf(j)
  BY DEF Holding, IInv, StageInv, ReviewInv
<1>2. job[j].op \in Changes \cup {"grant"}
  BY <1>1 DEF StageOf
<1>3. lock = j /\ Running(j[1]) /\ job \in [Jobs -> Work]
  BY <1>1, <1>2, Holder
<1>4. job'[j] = w /\ \A k \in Jobs \ {j} : job'[k] = job[k]
  BY <1>3
<1>5. LockHeld'
  BY <1>1, <1>3, <1>4 DEF IInv, LockHeld
<1>6. ReviewOf(j)'
  BY <1>1, <1>4 DEF ReviewOf, Writing, CanRemember
<1> QED BY <1>3, <1>5, <1>6, Progress DEF IInv, TypeOK

LEMMA Creates ==
  ASSUME IInv, NEW j \in Jobs, Mark(j) \/ Marked(j) \/ Rename(j)
  PROVE  IInv'
<1>1. job[j] \in Work /\ job \in [Jobs -> Work] /\ StageOf(j) /\ log \in [fold: Folds, torn: BOOLEAN]
      /\ acked \in 0..MaxRecords
  BY DEF IInv, TypeOK, StageInv
<1>2. CASE Mark(j)
  <2> DEFINE w == [job[j] EXCEPT !.at = "mark"]
  <2>1. /\ w \in Work /\ w.at = "mark" /\ w.op = job[j].op /\ w.arg = job[j].arg
        /\ w.reviewed = job[j].reviewed /\ w.loaded = job[j].loaded /\ w.view = job[j].view
    BY <1>1 DEF Work, Holding, Writing
  <2>2. job' = [job EXCEPT ![j] = w] /\ UNCHANGED <<lock, log, config, mem, left, acked>>
    BY <1>1, <1>2 DEF Mark
  <2> HIDE DEF w
  <2>3. job'[j] = w
    BY <1>1, <2>2
  <2>4. ~log.fold.present /\ acked = 0 /\ Fits(j) /\ ~job[j].view.present /\ job[j].at = "write"
    BY <1>1, <1>2 DEF Mark, StageOf, Readable, IInv, LogInv
  <2>5. Fits(j)'
    BY <2>1, <2>3, <2>4 DEF Fits, Base
  <2>6. LogInv'
    BY <2>2, <2>4 DEF LogInv, IInv
  <2>7. StageOf(j)'
    BY <1>1, <2>1, <2>2, <2>3, <2>4, <2>5 DEF StageOf, Writing
  <2> QED BY <1>1, <1>2, <2>1, <2>2, <2>4, <2>6, <2>7, Writes DEF Mark, Writing
<1>3. CASE Marked(j)
  <2> DEFINE w == [job[j] EXCEPT !.at = "rename"]
  <2>1. /\ w \in Work /\ w.at = "rename" /\ w.op = job[j].op /\ w.arg = job[j].arg
        /\ w.reviewed = job[j].reviewed /\ w.loaded = job[j].loaded /\ w.view = job[j].view
    BY <1>1 DEF Work, Holding, Writing
  <2>2. job' = [job EXCEPT ![j] = w] /\ UNCHANGED <<lock, log, config, mem, left, acked>>
    BY <1>1, <1>3 DEF Marked
  <2> HIDE DEF w
  <2>3. job'[j] = w
    BY <1>1, <2>2
  <2>4. Fits(j) /\ acked = 0 /\ ~job[j].view.present /\ job[j].at = "mark"
    BY <1>1, <1>3 DEF Marked, StageOf, Writing
  <2>5. Fits(j)'
    BY <2>1, <2>3, <2>4 DEF Fits, Base
  <2>6. LogInv' /\ StageOf(j)'
    BY <1>1, <1>3, <2>1, <2>2, <2>3, <2>4, <2>5 DEF LogInv, IInv, StageOf, Writing, Marked
  <2> QED BY <1>1, <1>3, <2>1, <2>2, <2>4, <2>6, Writes DEF Marked, Writing
<1>4. CASE Rename(j)
  <2> DEFINE w == [job[j] EXCEPT !.at = "append"]
  <2>1. /\ w \in Work /\ w.at = "append" /\ w.op = job[j].op /\ w.arg = job[j].arg
        /\ w.reviewed = job[j].reviewed /\ w.loaded = job[j].loaded /\ w.view = job[j].view
    BY <1>1 DEF Work, Holding, Writing
  <2>2. job' = [job EXCEPT ![j] = w] /\ UNCHANGED <<lock, marker, config, mem, left, acked>>
    BY <1>1, <1>4 DEF Rename
  <2>3. log' = [fold |-> Fresh, torn |-> FALSE] /\ log' \in [fold: Folds, torn: BOOLEAN]
    BY <1>4, Values DEF Rename
  <2> HIDE DEF w
  <2>4. job'[j] = w
    BY <1>1, <2>2
  <2>5. Fits(j) /\ acked = 0 /\ ~job[j].view.present /\ marker = "set" /\ job[j].at = "rename"
    BY <1>1, <1>4 DEF Rename, StageOf, Writing
  <2>6. Fits(j)' /\ Base(j)' = Fresh
    BY <2>1, <2>4, <2>5 DEF Fits, Base
  <2>7. LogInv'
    BY <2>2, <2>3, <2>5 DEF LogInv, Fresh
  <2>8. StageOf(j)'
    BY <1>1, <2>1, <2>3, <2>4, <2>5, <2>6 DEF StageOf, Writing
  <2> QED BY <1>1, <2>1, <2>2, <2>3, <2>5, <2>7, <2>8, Writes DEF IInv, TypeOK, Writing
<1> QED BY <1>2, <1>3, <1>4

LEMMA Appends ==
  ASSUME IInv, NEW j \in Jobs, Append(j) \/ Complete(j) \/ Sync(j)
  PROVE  IInv'
<1>1. job[j] \in Work /\ job \in [Jobs -> Work] /\ StageOf(j) /\ log \in [fold: Folds, torn: BOOLEAN]
      /\ acked \in 0..MaxRecords
  BY DEF IInv, TypeOK, StageInv
<1>2. CASE Append(j)
  <2> DEFINE w == [job[j] EXCEPT !.at = "tail"]
  <2>1. /\ w \in Work /\ w.at = "tail" /\ w.op = job[j].op /\ w.arg = job[j].arg
        /\ w.reviewed = job[j].reviewed /\ w.loaded = job[j].loaded /\ w.view = job[j].view
    BY <1>1 DEF Work, Holding, Writing
  <2>2. job' = [job EXCEPT ![j] = w] /\ UNCHANGED <<lock, marker, config, mem, left, acked>>
    BY <1>1, <1>2 DEF Append
  <2>3. log'.fold = log.fold /\ log' \in [fold: Folds, torn: BOOLEAN]
    BY <1>1, <1>2 DEF Append
  <2> HIDE DEF w
  <2>4. job'[j] = w
    BY <1>1, <2>2
  <2>5. Fits(j) /\ log.fold = Base(j) /\ job[j].at \in {"write", "append"}
    BY <1>1, <1>2 DEF Append, StageOf, Writing, Base
  <2>6. Fits(j)' /\ Base(j)' = Base(j)
    BY <2>1, <2>4, <2>5 DEF Fits, Base
  <2>7. LogInv'
    BY <2>2, <2>3 DEF LogInv, IInv
  <2>8. StageOf(j)'
    BY <1>1, <2>1, <2>3, <2>4, <2>5, <2>6 DEF StageOf, Writing
  <2> QED BY <1>1, <2>1, <2>2, <2>3, <2>5, <2>7, <2>8, Writes DEF IInv, TypeOK, Writing
<1>3. CASE Complete(j)
  <2> DEFINE w == [job[j] EXCEPT !.at = "sync"]
  <2>1. /\ w \in Work /\ w.at = "sync" /\ w.op = job[j].op /\ w.arg = job[j].arg
        /\ w.reviewed = job[j].reviewed /\ w.loaded = job[j].loaded /\ w.view = job[j].view
    BY <1>1 DEF Work, Holding, Writing
  <2>2. /\ job' = [job EXCEPT ![j] = w] /\ UNCHANGED <<lock, marker, config, mem, left, acked>>
        /\ log' = [fold |-> Changed(j), torn |-> FALSE]
    BY <1>1, <1>3 DEF Complete
  <2> HIDE DEF w
  <2>3. job'[j] = w
    BY <1>1, <2>2
  <2>4. /\ Fits(j) /\ log.fold = Base(j) /\ job[j].at = "tail"
        /\ job[j].op \in Changes \cup {"grant"}
    BY <1>1, <1>3 DEF Complete, StageOf, Writing
  <2>5. /\ Changed(j) \in Folds /\ Changed(j).present /\ Changed(j).seq = Base(j).seq + 1
        /\ Base(j) \in Folds /\ Base(j).present
    BY <2>4, ChangedFacts DEF IInv
  <2>6. Fits(j)' /\ Changed(j)' = Changed(j)
    BY <2>1, <2>3, <2>4 DEF Fits, Base, Changed
  <2>7. LogInv'
    <3>1. marker = "set" /\ acked <= Base(j).seq /\ Base(j).seq \in 0..MaxRecords
      BY <2>4, <2>5 DEF LogInv, IInv, Folds
    <3>2. log'.fold = Changed(j) /\ acked <= Base(j).seq + 1
      BY <1>1, <2>2, <3>1, BoundsAssumption
    <3> QED BY <2>2, <2>5, <3>1, <3>2 DEF LogInv
  <2>8. StageOf(j)'
    BY <1>1, <2>1, <2>2, <2>3, <2>4, <2>6 DEF StageOf, Writing
  <2> QED BY <1>1, <2>1, <2>2, <2>4, <2>5, <2>7, <2>8, Writes DEF IInv, TypeOK, Writing
<1>4. CASE Sync(j)
  <2>1. /\ Fits(j) /\ log.fold = Changed(j) /\ job[j].at = "sync"
        /\ job[j].op \in Changes \cup {"grant"}
    BY <1>1, <1>4 DEF Sync, StageOf, Writing
  <2>2. Changed(j) \in Folds /\ Changed(j).present
    BY <2>1, ChangedFacts DEF IInv
  <2> DEFINE w == [job[j] EXCEPT !.at = "observe", !.view = Changed(j)]
  <2>3. /\ w \in Work /\ w.at = "observe" /\ w.op = job[j].op /\ w.arg = job[j].arg
        /\ w.reviewed = job[j].reviewed /\ w.loaded = job[j].loaded
    BY <1>1, <2>2 DEF Work, Holding, Writing
  <2>4. /\ job' = [job EXCEPT ![j] = w] /\ UNCHANGED <<lock, marker, log, config, mem, left>>
        /\ acked' = Changed(j).seq
    BY <1>1, <1>4 DEF Sync
  <2> HIDE DEF w
  <2>5. job'[j] = w
    BY <1>1, <2>4
  <2>6. LogInv'
    <3>1. marker = "set" /\ Changed(j).seq \in 0..MaxRecords
      BY <2>1, <2>2 DEF LogInv, IInv, Folds
    <3> QED BY <2>1, <2>2, <2>4, <3>1, BoundsAssumption DEF LogInv
  <2>7. StageOf(j)'
    BY <2>3, <2>5 DEF StageOf, Writing
  <2>8. acked' \in 0..MaxRecords
    BY <2>2, <2>4 DEF Folds
  <2> QED BY <1>1, <2>1, <2>3, <2>4, <2>6, <2>7, <2>8, Writes DEF IInv, TypeOK, Writing
<1> QED BY <1>2, <1>3, <1>4

\* What the writer publishes ends the reviews of its process.
LEMMA Acknowledges ==
  ASSUME IInv, NEW j \in Jobs, Acknowledge(j)
  PROVE  IInv'
<1> DEFINE p == j[1]
           view == Ready(job[j].view, mem[p].config)
<1>1. /\ job[j].at = "observe" /\ job[j] \in Work /\ lock = j /\ job[j] # Idle
      /\ UNCHANGED <<marker, log, config, left, acked>>
  BY DEF Acknowledge, IInv, TypeOK, LockHeld, Holding, Idle
<1>2. p \in Processes /\ view \in Views /\ view.kind = "ready" /\ mem \in [Processes -> Views]
  <2>1. p \in Processes /\ mem \in [Processes -> Views]
    BY Workers DEF IInv, TypeOK
  <2>2. mem[p].config \in Configs /\ job[j].view \in Folds
    BY <1>1, <2>1 DEF Work, Views
  <2> QED BY <2>1, <2>2, Values DEF Ready
<1>3. Observe(Dropped(j), p, view) /\ lock' = Nobody
  BY <1>1 DEF Acknowledge, Unlock
<1>4. /\ Dropped(j) \in [Jobs -> Work] /\ \A k \in Jobs \ {j} : Dropped(j)[k] = job[k]
      /\ Dropped(j)[j].at \in {"none", "waiting"} /\ ~Dropped(j)[j].fresh
      /\ Dropped(j)[j].op \in {"none", "refresh"}
  BY DroppedFacts DEF IInv
<1> HIDE DEF view, p
<1>5. /\ job' \in [Jobs -> Work] /\ mem' \in [Processes -> Views]
      /\ mem'[p] = view /\ \A s \in Processes \ {p} : mem'[s] = mem[s]
      /\ \A k \in Jobs :
           /\ job'[k].op = Dropped(j)[k].op /\ job'[k].at = Dropped(j)[k].at
           /\ job'[k].arg = Dropped(j)[k].arg /\ job'[k].reviewed = Dropped(j)[k].reviewed
           /\ job'[k].view = Dropped(j)[k].view /\ job'[k].loaded = Dropped(j)[k].loaded
           /\ job'[k].fresh => Dropped(j)[k].fresh /\ (k[1] = p => view = mem[p])
           /\ k[1] # p => job'[k] = Dropped(j)[k]
           /\ Dropped(j)[k] = Idle => job'[k] = Idle
  BY <1>2, <1>3, <1>4, Observed DEF IInv
<1>6. \A k \in Jobs : job'[k].at \notin Holding
  <2>1. \A k \in Jobs \ {j} : job'[k].at \notin Holding
    BY <1>1, <1>4, <1>5 DEF IInv, LockHeld
  <2>2. job'[j].at \notin Holding
    BY <1>4, <1>5 DEF Holding, Writing
  <2> QED BY <2>1, <2>2
<1>7. TypeOK' /\ LockHeld'
  BY <1>1, <1>3, <1>5, <1>6, Workers DEF IInv, TypeOK, LockHeld
<1>8. MemoryInv'
  <2> SUFFICES ASSUME NEW s \in Processes, s # p PROVE MemoryOf(s)'
    BY <1>2, <1>5 DEF MemoryInv, MemoryOf
  <2>1. mem'[s] = mem[s] /\ \A k \in Jobs : k[1] = s => job'[k] = job[k]
    BY <1>4, <1>5 DEF p
  <2> QED BY <2>1 DEF IInv, MemoryInv, MemoryOf
<1>9. LogInv'
  BY <1>1 DEF IInv, LogInv
<1>10. StageInv'
  BY <1>6, Outside DEF StageInv
<1>11. ASSUME NEW k \in Jobs PROVE ReviewOf(k)'
  <2>1. CASE k = j
    BY <1>4, <1>5, <2>1 DEF ReviewOf, Writing
  <2>2. CASE k # j
    <3>1. job[k].at # "owned" /\ k[1] \in Processes /\ ReviewOf(k)
      BY <1>4, <1>5, <1>6, <2>2, Workers DEF Holding, IInv, ReviewInv
    <3>2. mem'[k[1]] = mem[k[1]] \/ ~job'[k].fresh
      BY <1>5, <3>1
    <3> QED BY <1>4, <1>5, <2>2, <3>1, <3>2, ReviewKept
  <2> QED BY <2>1, <2>2
<1> QED BY <1>7, <1>8, <1>9, <1>10, <1>11 DEF IInv, ReviewInv

\* A deletion needs the lock to be free, and an edit is seen by the next transaction only.
LEMMA Outer ==
  ASSUME IInv, Edit \/ Delete
  PROVE  IInv'
<1>1. UNCHANGED <<lock, marker, mem, job, acked>>
  BY DEF Edit, Delete
<1>2. TypeOK'
  <2>1. log' \in [fold: Folds, torn: BOOLEAN]
    <3>1. CASE Edit
      BY <3>1 DEF Edit, IInv, TypeOK
    <3>2. CASE Delete
      BY <3>2, Values DEF Delete
    <3> QED BY <3>1, <3>2
  <2>2. config' \in Configs \cup {"broken"}
    BY DEF Edit, Delete, IInv, TypeOK
  <2>3. left' \in [edits: 0..MaxEdits, deaths: 0..MaxDeaths, deletes: 0..MaxDeletes]
    BY BoundsAssumption DEF Edit, Delete, IInv, TypeOK
  <2> QED BY <1>1, <2>1, <2>2, <2>3 DEF IInv, TypeOK
<1>3. LockHeld' /\ MemoryInv'
  BY <1>1 DEF IInv, LockHeld, MemoryInv, MemoryOf
<1>4. LogInv'
  <2>1. CASE Edit
    BY <1>1, <2>1 DEF Edit, IInv, LogInv
  <2>2. CASE Delete
    <3>1. log'.fold = Absent /\ ~Absent.present /\ UNCHANGED <<marker, acked>>
      BY <2>2 DEF Delete, Absent
    <3> QED BY <2>2, <3>1 DEF Delete, IInv, LogInv
  <2> QED BY <2>1, <2>2
<1>5. ASSUME NEW k \in Jobs PROVE StageOf(k)'
  <2>1. CASE Edit
    <3>1. StageOf(k) /\ UNCHANGED <<log, marker, acked, job>>
      BY <1>1, <2>1 DEF Edit, IInv, StageInv
    <3> QED BY <3>1, StageKept
  <2>2. CASE Delete
    <3>1. job'[k].at \notin Holding
      BY <1>1, <2>2, Workers DEF Delete, IInv, LockHeld
    <3> QED BY <3>1, Outside
  <2> QED BY <2>1, <2>2
<1>6. ASSUME NEW k \in Jobs PROVE ReviewOf(k)'
  <2>1. ReviewOf(k)
    BY DEF IInv, ReviewInv
  <2> QED BY <1>1, <2>1, ReviewKept
<1> QED BY <1>2, <1>3, <1>4, <1>5, <1>6 DEF IInv, StageInv, ReviewInv

\* A death takes the memory, the workers and the lock of one process, and nothing of the disk.
LEMMA Dies ==
  ASSUME IInv, NEW p \in Processes, Die(p)
  PROVE  IInv'
<1>1. /\ mem' = [mem EXCEPT ![p] = NoView("off")]
      /\ job' = [j \in Jobs |-> IF j[1] = p THEN Idle ELSE job[j]]
      /\ lock' = IF lock[1] = p THEN Nobody ELSE lock
      /\ UNCHANGED <<marker, log, config, acked>>
      /\ left' \in [edits: 0..MaxEdits, deaths: 0..MaxDeaths, deletes: 0..MaxDeletes]
  BY BoundsAssumption DEF Die, IInv, TypeOK
<1>2. /\ mem' \in [Processes -> Views] /\ mem'[p] = NoView("off")
      /\ \A s \in Processes \ {p} : mem'[s] = mem[s]
      /\ \A k \in Jobs : job'[k] = IF k[1] = p THEN Idle ELSE job[k]
  BY <1>1, Values DEF IInv, TypeOK
<1>3. job' \in [Jobs -> Work]
  BY <1>1, Values DEF IInv, TypeOK
<1>4. TypeOK'
  BY <1>1, <1>2, <1>3 DEF IInv, TypeOK
<1>5. LockHeld'
  <2> SUFFICES ASSUME NEW k \in Jobs PROVE job'[k].at \in Holding <=> lock' = k
    BY DEF LockHeld
  <2>1. k # Nobody /\ (job[k].at \in Holding <=> lock = k)
    BY Workers DEF IInv, LockHeld
  <2>2. Idle.at \notin Holding
    BY DEF Idle, Holding, Writing
  <2> QED BY <1>1, <1>2, <2>1, <2>2
<1>6. MemoryInv'
  <2> SUFFICES ASSUME NEW s \in Processes PROVE MemoryOf(s)'
    BY DEF MemoryInv
  <2>1. CASE s = p
    BY <1>2, <2>1 DEF NoView, MemoryOf
  <2>2. CASE s # p
    BY <1>2, <2>2 DEF IInv, MemoryInv, MemoryOf
  <2> QED BY <2>1, <2>2
<1>7. LogInv'
  BY <1>1 DEF IInv, LogInv
<1>8. ASSUME NEW k \in Jobs PROVE StageOf(k)' /\ ReviewOf(k)'
  <2>1. CASE k[1] = p
    BY <1>2, <2>1, Outside DEF Idle, Holding, Writing, ReviewOf
  <2>2. CASE k[1] # p
    <3>1. StageOf(k) /\ ReviewOf(k) /\ job'[k] = job[k] /\ mem'[k[1]] = mem[k[1]]
      BY <1>2, <2>2, Workers DEF IInv, StageInv, ReviewInv
    <3> QED BY <1>1, <3>1, StageKept, ReviewKept
  <2> QED BY <2>1, <2>2
<1> QED BY <1>4, <1>5, <1>6, <1>7, <1>8 DEF IInv, StageInv, ReviewInv

\* Every way to give up, refuse or end.
LEMMA Leaves ==
  ASSUME IInv, NEW j \in Jobs,
         GiveUp(j) \/ LoadFails(j) \/ Cancelled(j) \/ ToolEnds(j) \/ Refuse(j) \/ WriteFails(j)
  PROVE  IInv'
<1>1. job[j] # Idle
  BY DEF GiveUp, LoadFails, Cancelled, ToolEnds, Refuse, WriteFails, Writing, Idle
<1>2. UNCHANGED <<marker, log, config, left, acked>> /\ (Return(j) \/ SourceFailure(j))
  BY DEF GiveUp, LoadFails, Cancelled, ToolEnds, Refuse, WriteFails
<1> QED BY <1>1, <1>2, Leaving

LEMMA Stutters ==
  ASSUME IInv, UNCHANGED vars
  PROVE  IInv'
<1>1. TypeOK' /\ LockHeld' /\ MemoryInv' /\ LogInv'
  BY DEF vars, IInv, TypeOK, LockHeld, MemoryInv, MemoryOf, LogInv
<1>2. ASSUME NEW k \in Jobs PROVE StageOf(k)' /\ ReviewOf(k)'
  <2>1. StageOf(k) /\ ReviewOf(k) /\ UNCHANGED <<log, marker, acked, job, mem>>
    BY DEF vars, IInv, StageInv, ReviewInv
  <2> QED BY <2>1, StageKept, ReviewKept
<1> QED BY <1>1, <1>2 DEF IInv, StageInv, ReviewInv

-----------------------------------------------------------------------------
(* The theorems.                                                           *)

\* In every state the program can reach, the holder of the lock is where the disk says it
\* is, and what is fresh of a review is what the process shows (transaction.rs, project.rs).
THEOREM Inductive == Spec => []IInv
<1>1. IInv /\ [Next]_vars => IInv'
  <2> SUFFICES ASSUME IInv, [Next]_vars PROVE IInv'
    OBVIOUS
  <2>1. CASE UNCHANGED vars
    BY <2>1, Stutters
  <2>2. ASSUME NEW p \in Processes, Start(p) \/ BeginControl(p) \/ Die(p) PROVE IInv'
    BY <2>2, Starts, Begins, Dies
  <2>3. ASSUME NEW j \in Tools, BeginGrant(j) \/ BeginTool(j) PROVE IInv'
    BY <2>3, Begins
  <2>4. ASSUME NEW j \in Jobs, Step(j) PROVE IInv'
    BY <2>4, Opens, Publishes, Reviews, Authorizing, Creates, Appends, Acknowledges, Leaves DEF Step
  <2>5. CASE Edit \/ Delete
    BY <2>5, Outer
  <2> QED BY <2>1, <2>2, <2>3, <2>4, <2>5 DEF Next
<1> QED BY <1>1, Initial, PTL DEF Spec

\* The state keeps its type, and the file lock has at most one holder, who is in a
\* transaction (StoreLock of transaction.rs).
THEOREM TypeCorrect == Spec => [](TypeOK /\ LockHeld)
<1>1. IInv => TypeOK /\ LockHeld
  BY DEF IInv
<1> QED BY <1>1, Inductive, PTL

\* Every transaction finds what was ever acknowledged, for any number of processes, deaths and
\* deletions: read_locked refuses a log that lost it.
THEOREM AcknowledgedIsKept == Spec => []AckedKept
<1>1. IInv => AckedKept
  <2> SUFFICES ASSUME IInv, NEW j \in Jobs, job[j].at \in {"opened", "owned"}
               PROVE  job[j].view.seq >= acked
    BY DEF AckedKept
  <2>1. Readable /\ job[j].view = log.fold /\ log.fold \in Folds /\ acked \in 0..MaxRecords
    BY DEF IInv, StageInv, StageOf, TypeOK
  <2>2. log.fold.seq \in Nat /\ acked \in Nat
    BY <2>1, BoundsAssumption DEF Folds
  <2>3. CASE log.fold.present
    BY <2>1, <2>2, <2>3 DEF IInv, LogInv
  <2>4. CASE ~log.fold.present
    BY <2>1, <2>2, <2>4 DEF IInv, LogInv, Readable
  <2> QED BY <2>3, <2>4
<1> QED BY <1>1, Inductive, PTL

\* No change is written over anything but what its user reviewed (validate_remember and
\* apply_control under the lock).
THEOREM WrittenAsReviewed == Spec => []ReviewedOnly
<1>1. IInv => ReviewedOnly
  BY DEF IInv, ReviewInv, ReviewOf, ReviewedOnly
<1> QED BY <1>1, Inductive, PTL

\* What was offered to be remembered has room in the log (can_remember).
THEOREM OffersFit == Spec => []OfferedFits
<1>1. IInv => OfferedFits
  <2> SUFFICES ASSUME IInv, NEW j \in Jobs, job[j].at = "write", job[j].op = "grant"
               PROVE  Fits(j)
    BY DEF OfferedFits
  <2>1. job[j].reviewed = Ready(job[j].view, job[j].loaded) /\ CanRemember(job[j].reviewed.log)
    BY DEF IInv, ReviewInv, ReviewOf, Writing
  <2>2. CanRemember(job[j].view)
    BY <2>1 DEF Ready
  <2>3. CanRemember(Fresh)
    BY BoundsAssumption, FS_EmptySet DEF CanRemember, Fresh
  <2> QED BY <2>2, <2>3 DEF Fits, Base, CanRemember
<1> QED BY <1>1, Inductive, PTL

\* Nobody starts to run by what another one leaves or publishes.
LEMMA LeftAt ==
  ASSUME IInv, NEW j \in Jobs, Return(j) \/ SourceFailure(j), NEW k \in Jobs
  PROVE  job'[k].at = job[k].at \/ job'[k].at \in {"none", "waiting"}
<1>1. Dropped(j) \in [Jobs -> Work] /\ (Dropped(j)[k].at = job[k].at \/ Dropped(j)[k].at \in {"none", "waiting"})
  BY DroppedFacts DEF IInv
<1>2. CASE Return(j)
  BY <1>1, <1>2 DEF Return
<1>3. CASE SourceFailure(j)
  <2> DEFINE after == IF Running(j[1]) THEN Unavailable ELSE NoView("off")
  <2>1. after \in Views /\ j[1] \in Processes /\ Observe(Dropped(j), j[1], after)
    BY <1>3, Values, Workers DEF SourceFailure, Unavailable
  <2> HIDE DEF after
  <2>2. job'[k].at = Dropped(j)[k].at
    BY <1>1, <2>1, Observed DEF IInv
  <2> QED BY <1>1, <2>2
<1> QED BY <1>2, <1>3

\* Work begins with waiting for the lock and goes on inside of it. A worker starts to run by
\* Authorize only, and a write goes on by its own steps.
LEMMA Moves ==
  ASSUME IInv, Next, NEW i \in Jobs
  PROVE  \/ job'[i].at \in {job[i].at, "none", "waiting", "opened", "owned", "write"}
         \/ Authorize(i) /\ Permits(mem[i[1]], job[i].op, job[i].arg)
         \/ Mark(i) \/ Marked(i) \/ Rename(i) \/ Append(i) \/ Complete(i) \/ Sync(i)
<1> DEFINE Usual == job'[i].at \in {job[i].at, "none", "waiting", "opened", "owned", "write"}
<1>1. job \in [Jobs -> Work] /\ \A k \in Jobs : job[k] \in Work
  BY DEF IInv, TypeOK
<1>2. ASSUME NEW j \in Jobs, Return(j) \/ SourceFailure(j) PROVE Usual
  BY <1>2, LeftAt
<1>3. ASSUME NEW j \in Jobs, NEW op, NEW arg, Begin(j, op, arg) \/ BeginReviewed(j, op, arg) PROVE Usual
  <2> DEFINE plain == [Idle EXCEPT !.op = op, !.at = "waiting", !.arg = arg]
             known == [Idle EXCEPT !.op = op, !.at = "waiting", !.arg = arg,
                                   !.reviewed = mem[j[1]], !.fresh = TRUE]
  <2>1. plain.at = "waiting" /\ known.at = "waiting"
    BY DEF Idle
  <2>2. job' = [job EXCEPT ![j] = plain] \/ job' = [job EXCEPT ![j] = known]
    BY <1>3 DEF Begin, BeginReviewed
  <2> HIDE DEF plain, known
  <2> QED BY <1>1, <2>1, <2>2
<1>4. ASSUME NEW p \in Processes, Start(p) \/ BeginControl(p) \/ Die(p) PROVE Usual
  <2>1. CASE Start(p)
    BY <1>1, <2>1 DEF Start, Idle
  <2>2. CASE BeginControl(p)
    BY <1>3, <2>2, Workers DEF BeginControl
  <2>3. CASE Die(p)
    BY <1>1, <2>3 DEF Die, Idle
  <2> QED BY <1>4, <2>1, <2>2, <2>3
<1>5. ASSUME NEW j \in Tools, BeginGrant(j) \/ BeginTool(j) PROVE Usual
  BY <1>3, <1>5, Workers DEF BeginGrant, BeginTool
<1>6. ASSUME Edit \/ Delete PROVE Usual
  BY <1>6 DEF Edit, Delete
<1>7. ASSUME NEW j \in Jobs,
             GiveUp(j) \/ LoadFails(j) \/ Cancelled(j) \/ ToolEnds(j) \/ Refuse(j) \/ WriteFails(j)
      PROVE  Usual
  BY <1>2, <1>7 DEF GiveUp, LoadFails, Cancelled, ToolEnds, Refuse, WriteFails
<1>8. ASSUME NEW j \in Jobs,
             Mark(j) \/ Marked(j) \/ Rename(j) \/ Append(j) \/ Complete(j) \/ Sync(j)
      PROVE  j = i \/ Usual
  BY <1>1, <1>8 DEF Mark, Marked, Rename, Append, Complete, Sync
<1>9. ASSUME NEW j \in Jobs, Open(j) PROVE Usual
  <2>1. CASE job' = [job EXCEPT ![j].at = "opened", ![j].view = log.fold]
    BY <1>1, <2>1 DEF Work
  <2> QED BY <1>2, <1>9, <2>1 DEF Open
<1>10. ASSUME NEW j \in Jobs, Review(j) PROVE Usual
  <2>1. CASE job' = [job EXCEPT ![j].at = "write"]
    BY <1>1, <2>1 DEF Work
  <2> QED BY <1>2, <1>10, <2>1 DEF Review
<1>11. ASSUME NEW j \in Jobs, Publish(j) \/ Acknowledge(j) PROVE Usual
  <2>1. ASSUME NEW jobs \in [Jobs -> Work], NEW view \in Views, Observe(jobs, j[1], view),
               \A k \in Jobs : jobs[k].at \in {job[k].at, "none", "waiting", "owned"}
        PROVE  Usual
    BY <2>1, Observed, Workers DEF IInv
  <2>2. /\ Dropped(j) \in [Jobs -> Work]
        /\ \A k \in Jobs : Dropped(j)[k].at \in {job[k].at, "none", "waiting", "owned"}
    BY DroppedFacts DEF IInv
  <2>3. job[j].view \in Folds /\ mem[j[1]].config \in Configs
    <3>1. mem[j[1]] \in Views
      BY Workers DEF IInv, TypeOK
    <3> QED BY <1>1, <3>1 DEF Work, Views
  <2>4. CASE Acknowledge(j)
    BY <2>1, <2>2, <2>3, <2>4, Values DEF Acknowledge
  <2>5. CASE Publish(j)
    <3> DEFINE opened == [job EXCEPT ![j].at = "owned", ![j].loaded = config]
    <3>1. config \in Configs
      BY <2>5 DEF Publish, IInv, TypeOK
    <3>2. /\ opened \in [Jobs -> Work]
          /\ \A k \in Jobs : opened[k].at \in {job[k].at, "none", "waiting", "owned"}
      <4> DEFINE next == [job[j] EXCEPT !.at = "owned", !.loaded = config]
      <4>1. job[j] \in Work
        BY <1>1
      <4>2. next \in Work /\ next.at = "owned"
        BY <3>1, <4>1 DEF Work, Holding
      <4>3. opened = [job EXCEPT ![j] = next]
        OBVIOUS
      <4> HIDE DEF next, opened
      <4> QED BY <1>1, <4>2, <4>3
    <3>3. Observe(Dropped(j), j[1], Ready(job[j].view, config))
          \/ Observe(opened, j[1], Ready(job[j].view, config))
      BY <2>5 DEF Publish
    <3> HIDE DEF opened
    <3> QED BY <2>1, <2>2, <2>3, <3>1, <3>2, <3>3, Values
  <2> QED BY <1>11, <2>4, <2>5
<1>12. ASSUME NEW j \in Jobs, Authorize(j)
       PROVE  Usual \/ (j = i /\ Permits(mem[j[1]], job[j].op, job[j].arg))
  <2>1. CASE job' = [job EXCEPT ![j] = [Idle EXCEPT !.op = job[j].op, !.at = "running"]]
             /\ Permits(mem[j[1]], job[j].op, job[j].arg)
    BY <1>1, <2>1
  <2> QED BY <1>2, <1>12, <2>1 DEF Authorize
<1> HIDE DEF Usual
<1>13. ASSUME NEW j \in Jobs, Step(j)
       PROVE  \/ Usual
              \/ Authorize(i) /\ Permits(mem[i[1]], job[i].op, job[i].arg)
              \/ Mark(i) \/ Marked(i) \/ Rename(i) \/ Append(i) \/ Complete(i) \/ Sync(i)
  BY <1>7, <1>8, <1>9, <1>10, <1>11, <1>12, <1>13 DEF Step
<1>14. \/ Usual
       \/ Authorize(i) /\ Permits(mem[i[1]], job[i].op, job[i].arg)
       \/ Mark(i) \/ Marked(i) \/ Rename(i) \/ Append(i) \/ Complete(i) \/ Sync(i)
  BY <1>4, <1>5, <1>6, <1>13 DEF Next
<1> QED BY <1>14 DEF Usual

\* Authorize is the only way to run.
LEMMA OnlyAuthorized ==
  ASSUME IInv, Next, NEW i \in Jobs, job[i].at # "running", job'[i].at = "running"
  PROVE  Authorize(i) /\ Permits(mem[i[1]], job[i].op, job[i].arg)
<1>1. job \in [Jobs -> Work] /\ job[i] \in Work
  BY DEF IInv, TypeOK
<1>2. ~(Mark(i) \/ Marked(i) \/ Rename(i) \/ Append(i) \/ Complete(i) \/ Sync(i))
  BY <1>1 DEF Mark, Marked, Rename, Append, Complete, Sync, Work
<1> QED BY <1>2, Moves

\* No tool starts but on the log and the configuration of its own transaction (authorize, the
\* ordering point of an effect).
THEOREM ToolsStartAuthorized == Spec => StartsAuthorized
<1> DEFINE Allowed ==
      \A j \in Jobs : job[j].at # "running" /\ job'[j].at = "running" =>
        Readable /\ Permits(Ready(log.fold, job[j].loaded), job[j].op, job[j].arg)
<1>1. IInv /\ [Next]_vars => [Allowed]_vars
  <2> SUFFICES ASSUME IInv, Next, NEW i \in Jobs, job[i].at # "running", job'[i].at = "running"
               PROVE  Readable /\ Permits(Ready(log.fold, job[i].loaded), job[i].op, job[i].arg)
    OBVIOUS
  <2>1. Authorize(i) /\ Permits(mem[i[1]], job[i].op, job[i].arg)
    BY OnlyAuthorized
  <2>2. job[i].at = "owned" /\ StageOf(i) /\ ReviewOf(i)
    BY <2>1 DEF Authorize, IInv, StageInv, ReviewInv
  <2>3. mem[i[1]].kind = "ready"
    <3>1. job[i].op \in Authorizations
      BY <2>1 DEF Authorize
    <3>2. Decide(mem[i[1]]) # "unavailable"
      <4>1. CASE job[i].op = "once"
        BY <2>1, <4>1 DEF Permits
      <4>2. CASE job[i].op = "policy"
        BY <2>1, <4>2 DEF Permits
      <4>3. CASE job[i].op = "remembered"
        BY <2>1, <4>3 DEF Permits
      <4> QED BY <3>1, <4>1, <4>2, <4>3 DEF Authorizations
    <3> QED BY <3>2 DEF Decide
  <2>4. Readable /\ mem[i[1]] = Ready(log.fold, job[i].loaded)
    BY <2>2, <2>3 DEF StageOf, ReviewOf
  <2> QED BY <2>1, <2>4
<1> QED BY <1>1, Inductive, PTL DEF Spec, StartsAuthorized

-----------------------------------------------------------------------------
(* The store implements the abstract log.                                  *)

\* The log is gone, or its creation broke off: the marker tells, and nobody is creating it.
Lost ==
  /\ marker # "empty" /\ ~log.fold.present
  /\ \A j \in Jobs : job[j].at \notin {"mark", "rename"}

Store == INSTANCE PermissionLog WITH fold <- log.fold, lost <- Lost, acked <- acked

LEMMA StoreValues == Store!Absent = Absent /\ Store!Fresh = Fresh
BY DEF Store!Absent, Absent, Store!Fresh, Fresh

\* A creation begins over a marker that is empty, so a lost log stays lost.
LEMMA LostStays ==
  ASSUME IInv, Next, Lost, UNCHANGED log.fold
  PROVE  Lost'
<1>1. marker' # "empty"
  <2>1. CASE UNCHANGED marker
    BY <2>1 DEF Lost
  <2>2. CASE ~UNCHANGED marker
    <3>1. \E j \in Jobs : Mark(j) \/ Marked(j)
      BY <2>2 DEF Next, Step, Start, BeginControl, Die, BeginGrant, BeginTool, Edit, Delete, Open, GiveUp,
                  Publish, LoadFails, Cancelled, Review, Authorize, ToolEnds, Refuse, Rename,
                  Append, Complete, Sync, WriteFails, Acknowledge
    <3> QED BY <3>1 DEF Mark, Marked
  <2> QED BY <2>1, <2>2
<1>2. ASSUME NEW i \in Jobs PROVE job'[i].at \notin {"mark", "rename"}
  <2>1. job \in [Jobs -> Work] /\ job[i] \in Work /\ job[i].at \notin {"mark", "rename"} /\ StageOf(i)
    BY DEF IInv, TypeOK, StageInv, Lost
  <2>2. ~Mark(i)
    BY <2>1 DEF Mark, Lost, StageOf, Readable
  <2>3. ~Marked(i) /\ ~Rename(i)
    BY <2>1 DEF Marked, Rename
  <2>4. CASE Authorize(i) /\ Permits(mem[i[1]], job[i].op, job[i].arg)
    <3>1. CASE Return(i)
      BY <2>1, <3>1, LeftAt
    <3>2. CASE job' = [job EXCEPT ![i] = [Idle EXCEPT !.op = job[i].op, !.at = "running"]]
      BY <2>1, <3>2
    <3> QED BY <2>4, <3>1, <3>2 DEF Authorize
  <2>5. CASE Append(i) \/ Complete(i) \/ Sync(i)
    BY <2>1, <2>5 DEF Append, Complete, Sync, Work
  <2> QED BY <2>1, <2>2, <2>3, <2>4, <2>5, Moves
<1> QED BY <1>1, <1>2 DEF Lost

\* A record is made at one moment, on the log as it is then.
LEMMA Recorded ==
  ASSUME IInv, NEW j \in Jobs, Complete(j)
  PROVE  Store!Next
<1>1. /\ StageOf(j) /\ job[j] \in Work /\ job[j].at = "tail"
      /\ log' = [fold |-> Changed(j), torn |-> FALSE] /\ UNCHANGED <<marker, acked>>
  BY DEF Complete, IInv, TypeOK, StageInv
<1>2. log.fold = Base(j) /\ Fits(j) /\ job[j].op \in Changes \cup {"grant"}
  BY <1>1 DEF StageOf, Writing
<1>3. /\ Changed(j) \in Folds /\ Changed(j).present /\ Base(j) \in Folds /\ Base(j).present
  BY <1>2, ChangedFacts DEF IInv
<1>4. UNCHANGED <<Lost, acked>>
  <2>1. log.fold.present /\ log'.fold.present
    BY <1>1, <1>2, <1>3
  <2> QED BY <1>1, <2>1 DEF Lost
<1> DEFINE f == log.fold   n == f.seq + 1
           Row(grants, trust) == [present |-> TRUE, seq |-> n, grants |-> grants, trust |-> trust]
<1>5. /\ job[j].op = "grant" => Changed(j) = Row(f.grants \cup {n}, f.trust)
      /\ job[j].op = "revoke" => Changed(j) = Row(f.grants \ {job[j].arg}, f.trust)
      /\ job[j].op = "trust" => Changed(j) = Row(f.grants, job[j].reviewed.config)
      /\ job[j].op = "untrust" => Changed(j) = Row(f.grants, "none")
  <2> DEFINE next == [Base(j) EXCEPT !.seq = @ + 1]   g == Changed(j)
  <2>1. g = [present |-> g.present, seq |-> g.seq, grants |-> g.grants, trust |-> g.trust]
    <3> HIDE DEF g
    <3> QED BY <1>3 DEF g, Folds
  <2>2. /\ next.seq = n /\ next.grants = f.grants /\ next.trust = f.trust
        /\ next \in [present: BOOLEAN, seq: Nat, grants: SUBSET (1..MaxRecords), trust: Configs]
    BY <1>2, <1>3, BoundsAssumption DEF Folds
  <2>3. g.present = TRUE /\ g.seq = n
    BY <1>2, <1>3, ChangedFacts DEF IInv, Folds
  <2>4. /\ job[j].op = "grant" => g = [next EXCEPT !.grants = @ \cup {next.seq}]
        /\ job[j].op = "revoke" => g = [next EXCEPT !.grants = @ \ {job[j].arg}]
        /\ job[j].op = "trust" => g = [next EXCEPT !.trust = job[j].reviewed.config]
        /\ job[j].op = "untrust" => g = [next EXCEPT !.trust = "none"]
    BY DEF Changed
  <2> HIDE DEF next, g
  <2>5. /\ job[j].op = "grant" => g.grants = f.grants \cup {n} /\ g.trust = f.trust
        /\ job[j].op = "revoke" => g.grants = f.grants \ {job[j].arg} /\ g.trust = f.trust
        /\ job[j].op = "trust" => g.grants = f.grants /\ g.trust = job[j].reviewed.config
        /\ job[j].op = "untrust" => g.grants = f.grants /\ g.trust = "none"
    BY <2>2, <2>4
  <2> QED BY <2>1, <2>3, <2>5 DEF g
<1>6. /\ f.present /\ f.seq < MaxRecords
      /\ job[j].op = "grant" => Cardinality(f.grants) < MaxGrants
      /\ job[j].op = "revoke" => job[j].arg \in f.grants
      /\ job[j].reviewed.config \in Configs /\ "none" \in Configs
  BY <1>1, <1>2, <1>3, ConfigsAssumption DEF Fits, Work, Views
<1>7. ASSUME NEW grants, NEW trust, log'.fold = Row(grants, trust)
      PROVE  Store!Record(grants, trust)
  BY <1>4, <1>6, <1>7 DEF Store!Record
<1>8. log'.fold = Changed(j)
  BY <1>1
<1>9. CASE job[j].op = "grant"
  <2>1. Store!Record(f.grants \cup {n}, f.trust)
    BY <1>5, <1>7, <1>8, <1>9
  <2> QED BY <1>6, <1>9, <2>1 DEF Store!Next, Store!Grant, Store!Cardinality, Cardinality
<1>10. CASE job[j].op = "revoke"
  <2>1. Store!Record(f.grants \ {job[j].arg}, f.trust)
    BY <1>5, <1>7, <1>8, <1>10
  <2> QED BY <1>6, <1>10, <2>1 DEF Store!Next, Store!Revoke
<1>11. CASE job[j].op = "trust"
  <2>1. Store!Record(f.grants, job[j].reviewed.config)
    BY <1>5, <1>7, <1>8, <1>11
  <2> QED BY <1>6, <2>1 DEF Store!Next, Store!Trust
<1>12. CASE job[j].op = "untrust"
  <2>1. Store!Record(f.grants, "none")
    BY <1>5, <1>7, <1>8, <1>12
  <2> QED BY <1>6, <2>1 DEF Store!Next, Store!Trust
<1> QED BY <1>2, <1>9, <1>10, <1>11, <1>12 DEF Changes

\* Whatever else the log loses is lost for good, and what leaves it alone shows nothing.
LEMMA Unrecorded ==
  ASSUME IInv, Next, UNCHANGED <<log.fold, acked>>
  PROVE  [Store!Next]_Store!vars
<1>1. CASE Lost
  BY <1>1, LostStays DEF Store!vars, Lost
<1>2. CASE ~Lost /\ ~Lost'
  <2>1. UNCHANGED Lost
    BY <1>2 DEF Lost
  <2> QED BY <2>1 DEF Store!vars
<1>3. CASE ~Lost /\ Lost'
  <2>1. log'.fold = Absent
    BY <1>3 DEF Lost, IInv, LogInv
  <2> QED BY <1>3, <2>1, StoreValues DEF Store!Next, Store!Lose, Lost
<1> QED BY <1>1, <1>2, <1>3 DEF Lost

\* The log is begun only where there was none and none was lost.
LEMMA Created ==
  ASSUME IInv, NEW j \in Jobs, Rename(j)
  PROVE  Store!Create
<1>1. /\ StageOf(j) /\ job[j].at = "rename"
      /\ log' = [fold |-> Fresh, torn |-> FALSE] /\ UNCHANGED acked
  BY DEF Rename, IInv, StageInv
<1>2. ~log.fold.present /\ ~Lost
  BY <1>1 DEF StageOf, Lost
<1>3. log'.fold = Fresh /\ log'.fold.present
  BY <1>1 DEF Fresh
<1>4. UNCHANGED Lost
  BY <1>2, <1>3 DEF Lost
<1> QED BY <1>1, <1>2, <1>3, <1>4, StoreValues DEF Store!Create

\* What is acknowledged is the last record of the log.
LEMMA Acked ==
  ASSUME IInv, NEW j \in Jobs, Sync(j)
  PROVE  Store!Acknowledge
<1>1. /\ StageOf(j) /\ job[j].at = "sync" /\ job[j].op \in Changes \cup {"grant"} /\ Fits(j)
      /\ acked' = Changed(j).seq /\ UNCHANGED <<log, marker>>
  BY DEF Sync, IInv, StageInv, StageOf, Writing
<1>2. log.fold = Changed(j) /\ log.fold.present
  BY <1>1, ChangedFacts DEF StageOf, IInv
<1>3. UNCHANGED Lost
  BY <1>1, <1>2 DEF Lost
<1> QED BY <1>1, <1>2, <1>3 DEF Store!Acknowledge

\* Who removes the log leaves a marker that tells.
LEMMA Deleted ==
  ASSUME IInv, Delete
  PROVE  Store!Lose
<1>1. /\ log.fold.present /\ lock = Nobody /\ marker = "set"
      /\ log' = [fold |-> Absent, torn |-> FALSE] /\ UNCHANGED <<marker, job, acked>>
  BY DEF Delete, IInv, LogInv
<1>2. ASSUME NEW j \in Jobs PROVE job[j].at \notin {"mark", "rename"}
  BY <1>1, Workers DEF IInv, LockHeld, Holding, Writing
<1>3. log'.fold = Absent /\ ~log'.fold.present
  BY <1>1 DEF Absent
<1>4. ~Lost /\ Lost'
  BY <1>1, <1>2, <1>3 DEF Lost
<1> QED BY <1>1, <1>3, <1>4, StoreValues DEF Store!Lose

\* Whatever the processes, their workers, torn writes and deaths do, the log behaves as one
\* list of changes: each is made at one moment on the log as it is then, an acknowledgement
\* covers the log's last record, and a lost log is never begun again (OwnedStore::open,
\* append_with, publish_header; PGR-2 to PGR-4).
THEOREM StoreImplementsLog == Spec => Store!Spec
<1>1. Init => Store!Init
  BY StoreValues DEF Init, Store!Init, Lost
<1>2. IInv /\ [Next]_vars => [Store!Next]_Store!vars
  <2> SUFFICES ASSUME IInv, [Next]_vars PROVE [Store!Next]_Store!vars
    OBVIOUS
  <2>1. CASE UNCHANGED vars
    BY <2>1 DEF vars, Store!vars, Lost
  <2>2. ASSUME NEW j \in Jobs, Rename(j) \/ Complete(j) \/ Sync(j) PROVE Store!Next
    <3>1. Store!Create \/ Store!Acknowledge \/ Store!Next
      BY <2>2, Created, Recorded, Acked
    <3> QED BY <3>1 DEF Store!Next
  <2>3. CASE Delete
    BY <2>3, Deleted DEF Store!Next
  <2>4. CASE Next /\ ~Delete /\ \A j \in Jobs : ~(Rename(j) \/ Complete(j) \/ Sync(j))
    <3>1. UNCHANGED <<log, acked>> \/ \E j \in Jobs : Append(j)
      BY <2>4 DEF Next, Step, Start, BeginControl, Die, BeginGrant, BeginTool, Edit, Open, GiveUp,
                  Publish, LoadFails, Cancelled, Review, Authorize, ToolEnds, Refuse, Mark, Marked,
                  WriteFails, Acknowledge
    <3>2. UNCHANGED <<log.fold, acked>>
      BY <3>1 DEF Append, IInv, TypeOK
    <3> QED BY <2>4, <3>2, Unrecorded
  <2> QED BY <2>1, <2>2, <2>3, <2>4
<1> QED BY <1>1, <1>2, Inductive, PTL DEF Spec, Store!Spec
=============================================================================
