------------------------- MODULE ProjectPermissions -------------------------
(***************************************************************************)
(* The personal permissions of one project: a store that several processes  *)
(* share under a file lock (plexmaton-permission-store), the view of it that *)
(* each coding session publishes in memory (CodingSessionPermissions) and    *)
(* the workers that change it or start a tool under it.                      *)
(*                                                                         *)
(* Every transaction takes the lock, reads the whole log, loads the project  *)
(* configuration and publishes both before it does anything else; the mutex  *)
(* of the memory is never held across storage, so a worker that gives up on  *)
(* the lock can withdraw the view while another one writes. One kind of call *)
(* is decided; each rule and each grant covers it. A grant is named by the   *)
(* sequence of its record, which no other record of the log has. A revision  *)
(* of the memory is represented by whether it is still the current one.      *)
(***************************************************************************)
EXTENDS Naturals, FiniteSets

CONSTANTS
  Processes,   \* coding sessions on the project
  Tools,       \* workers that prepare a grant or run a tool, as <<process, name>>
  Configs,     \* project configurations, "none" for a project without one
  Rule,        \* what the rules of each say of the call
  MaxRecords,  \* MAX_STORE_RECORDS
  MaxGrants,   \* MAX_PERMISSION_ENTRIES
  MaxEdits,    \* bound: changes of the configuration file
  MaxDeaths,   \* bound: process deaths
  MaxDeletes   \* bound: deletions of the log by somebody else

ASSUME ConfigsAssumption ==
  /\ "none" \in Configs /\ "broken" \notin Configs
  /\ Rule \in [Configs -> {"none", "allow", "ask", "deny"}] /\ Rule["none"] = "none"
ASSUME ToolsAssumption == \A t \in Tools : t[1] \in Processes /\ t[2] # "control"
ASSUME BoundsAssumption ==
  /\ MaxRecords \in Nat \ {0} /\ MaxGrants \in Nat \ {0}
  /\ MaxEdits \in Nat /\ MaxDeaths \in Nat /\ MaxDeletes \in Nat

VARIABLES
  lock,    \* the worker that holds permissions.lock
  marker,  \* the initialization marker in it
  log,     \* permissions.jsonl, folded, and whether its last line is torn
  config,  \* the project configuration file
  mem,     \* SessionPermissions.snapshot.project of each process
  job,     \* what each worker does
  left,    \* events of the environment the instance may still make
  acked    \* sequence of the last acknowledged record (history)

vars == <<lock, marker, log, config, mem, job, left, acked>>

\* The control worker of each process, and its tool workers.
Jobs == {<<p, "control">> : p \in Processes} \cup Tools
Nobody == <<"nobody", "none">>
ASSUME NobodyAssumption == Nobody \notin Jobs

\* A validated log. No trust is represented by trust in "none".
Folds == [present: BOOLEAN, seq: 0..MaxRecords, grants: SUBSET (1..MaxRecords), trust: Configs]
Absent == [present |-> FALSE, seq |-> 0, grants |-> {}, trust |-> "none"]
Fresh == [present |-> TRUE, seq |-> 0, grants |-> {}, trust |-> "none"]

\* The view a process publishes. One that is off has none, one that starts is about to.
Views == [kind: {"off", "starting", "unavailable", "ready"}, log: Folds, config: Configs]
NoView(kind) == [kind |-> kind, log |-> Absent, config |-> "none"]
Unavailable == NoView("unavailable")
Ready(folded, rules) == [kind |-> "ready", log |-> folded, config |-> rules]

Changes == {"revoke", "trust", "untrust"}
Authorizations == {"policy", "once", "remembered"}

\* Places of a worker inside its transaction.
Writing == {"write", "mark", "rename", "append", "tail", "sync"}
Holding == {"opened", "owned", "observe"} \cup Writing

Work == [op: {"none", "refresh", "grant"} \cup Changes \cup Authorizations,
         at: {"none", "waiting", "running"} \cup Holding,
         arg: 0..MaxRecords, reviewed: Views, fresh: BOOLEAN, view: Folds, loaded: Configs]
Idle == [op |-> "none", at |-> "none", arg |-> 0, reviewed |-> NoView("off"), fresh |-> FALSE,
         view |-> Absent, loaded |-> "none"]

TypeOK ==
  /\ lock \in Jobs \cup {Nobody}
  /\ marker \in {"empty", "partial", "set"}
  /\ log \in [fold: Folds, torn: BOOLEAN]
  /\ config \in Configs \cup {"broken"}
  /\ mem \in [Processes -> Views]
  /\ job \in [Jobs -> Work]
  /\ left \in [edits: 0..MaxEdits, deaths: 0..MaxDeaths, deletes: 0..MaxDeletes]
  /\ acked \in 0..MaxRecords

\* permissions.lock is exclusive, also between two workers of a process.
LockHeld == \A j \in Jobs : job[j].at \in Holding <=> lock = j

Init ==
  /\ lock = Nobody /\ marker = "empty" /\ log = [fold |-> Absent, torn |-> FALSE]
  /\ config = "none"
  /\ mem = [p \in Processes |-> NoView("off")]
  /\ job = [j \in Jobs |-> Idle]
  /\ left = [edits |-> MaxEdits, deaths |-> MaxDeaths, deletes |-> MaxDeletes]
  /\ acked = 0

Running(p) == mem[p].kind \in {"unavailable", "ready"}

-----------------------------------------------------------------------------
(***************************************************************************)
(* Policy over one view (PermissionSnapshot::evaluate, for a call that asks  *)
(* unless a rule or a grant says otherwise).                                 *)
(***************************************************************************)
\* Project Allow needs personal trust in exactly this configuration.
Trusted(v) == v.log.trust = v.config

Decide(v) ==
  IF v.kind # "ready" THEN "unavailable"
  ELSE CASE Rule[v.config] = "deny"                  -> "forbidden"
         [] Rule[v.config] = "ask"                   -> "ask"
         [] Rule[v.config] = "allow" /\ Trusted(v)  -> "allow"
         [] OTHER                                    -> IF v.log.grants # {} THEN "allow" ELSE "ask"

PermitsRemembering(v) == v.kind = "ready" /\ Rule[v.config] \notin {"deny", "ask"}

\* Mutant: an offer for one record more than the log may hold.
CanRememberLast(folded) == folded.seq <= MaxRecords /\ Cardinality(folded.grants) < MaxGrants

\* can_remember: an absent log has room, a present one for another record and another grant.
CanRemember(folded) == folded.seq < MaxRecords /\ Cardinality(folded.grants) < MaxGrants

\* permits_authorization.
Permits(v, authorization, id) ==
  CASE authorization = "once"       -> Decide(v) \notin {"forbidden", "unavailable"}
    [] authorization = "policy"     -> Decide(v) = "allow"
    [] authorization = "remembered" -> Decide(v) = "allow" /\ id \in v.log.grants

-----------------------------------------------------------------------------
(***************************************************************************)
(* The memory of a process. SessionPermissions::observe_project: a view that *)
(* differs gets the next revision, so what was reviewed before is stale.     *)
(***************************************************************************)
\* Mutant: a view that differs in its configuration only keeps the revision.
ObserveGrants(jobs, p, view) ==
  /\ mem' = [mem EXCEPT ![p] = view]
  /\ job' = [j \in Jobs |-> IF j[1] = p /\ mem[p].log # view.log
                            THEN [jobs[j] EXCEPT !.fresh = FALSE] ELSE jobs[j]]

Observe(jobs, p, view) ==
  /\ mem' = [mem EXCEPT ![p] = view]
  /\ job' = [j \in Jobs |-> IF j[1] = p /\ mem[p] # view
                            THEN [jobs[j] EXCEPT !.fresh = FALSE] ELSE jobs[j]]

\* The worker returns; dropping its transaction releases the lock. The control worker
\* refreshes the view after a change, whatever became of it.
Dropped(j) == [job EXCEPT ![j] = IF job[j].op \in Changes
                                 THEN [Idle EXCEPT !.op = "refresh", !.at = "waiting"]
                                 ELSE Idle]
Unlock(j) == lock' = IF lock = j THEN Nobody ELSE lock

Return(j) == job' = Dropped(j) /\ Unlock(j) /\ UNCHANGED mem

\* source_failure, and store_failure for an error that says nothing certain: the process has
\* no view until a transaction succeeds. A process that is still starting gives up.
SourceFailure(j) ==
  /\ Observe(Dropped(j), j[1],
             IF Running(j[1]) THEN Unavailable ELSE NoView("off"))
  /\ Unlock(j)

-----------------------------------------------------------------------------
(***************************************************************************)
(* Work begins. What the user reviewed is the view of that moment.          *)
(***************************************************************************)
Begin(j, op, arg) ==
  /\ job[j] = Idle
  /\ job' = [job EXCEPT ![j] = [Idle EXCEPT !.op = op, !.at = "waiting", !.arg = arg]]

BeginReviewed(j, op, arg) ==
  /\ job[j] = Idle
  /\ job' = [job EXCEPT ![j] = [Idle EXCEPT !.op = op, !.at = "waiting", !.arg = arg,
                                            !.reviewed = mem[j[1]], !.fresh = TRUE]]

\* A new process attaches the store, and then the configuration, before anything else can
\* run in it; the two transactions are one here.
Start(p) ==
  /\ mem[p].kind = "off"
  /\ mem' = [mem EXCEPT ![p] = NoView("starting")]
  /\ job' = [job EXCEPT ![<<p, "control">>] = [Idle EXCEPT !.op = "refresh", !.at = "waiting"]]
  /\ UNCHANGED <<lock, marker, log, config, left, acked>>

\* The control worker of the permission page: a refresh or a reviewed change.
BeginControl(p) ==
  /\ Running(p)
  /\ \/ Begin(<<p, "control">>, "refresh", 0)
     \/ \E id \in mem[p].log.grants : BeginReviewed(<<p, "control">>, "revoke", id)
     \/ Rule[mem[p].config] = "allow" /\ BeginReviewed(<<p, "control">>, "trust", 0)
     \/ mem[p].log.trust # "none" /\ BeginReviewed(<<p, "control">>, "untrust", 0)
  /\ UNCHANGED <<lock, marker, log, config, mem, left, acked>>

\* The answer "remember for the project" to a question, offered only where there is room.
BeginGrant(j) ==
  /\ Running(j[1]) /\ Decide(mem[j[1]]) = "ask"
  /\ PermitsRemembering(mem[j[1]]) /\ CanRemember(mem[j[1]].log)
  /\ BeginReviewed(j, "grant", 0)
  /\ UNCHANGED <<lock, marker, log, config, mem, left, acked>>

\* start_authorized_tool: a first look at the memory, then a worker.
BeginTool(j) ==
  /\ Running(j[1])
  /\ \E authorization \in Authorizations :
     \E id \in IF authorization = "remembered" THEN mem[j[1]].log.grants ELSE {0} :
       /\ Permits(mem[j[1]], authorization, id)
       /\ Begin(j, authorization, id)
  /\ UNCHANGED <<lock, marker, log, config, mem, left, acked>>

-----------------------------------------------------------------------------
(***************************************************************************)
(* The transaction: lock, whole log, configuration, publication.            *)
(***************************************************************************)
\* Mutant: a log that is missing was never written.
ReadableAbsent ==
  IF log.fold.present THEN marker = "set" /\ ~log.torn ELSE TRUE

\* An initialized lock without a log, a log without the marker and a torn line are corruption.
Readable ==
  IF log.fold.present THEN marker = "set" /\ ~log.torn ELSE marker = "empty"

Open(j) ==
  /\ job[j].at = "waiting" /\ lock = Nobody
  /\ \/ /\ Readable
        /\ lock' = j
        /\ job' = [job EXCEPT ![j].at = "opened", ![j].view = log.fold]
        /\ UNCHANGED mem
     \/ /\ ~Readable
        /\ SourceFailure(j)
  /\ UNCHANGED <<marker, log, config, left, acked>>

\* The worker waited for two seconds or was cancelled.
GiveUp(j) ==
  /\ job[j].at = "waiting"
  /\ SourceFailure(j)
  /\ UNCHANGED <<marker, log, config, left, acked>>

\* project_transaction: the configuration is loaded and the view published under the lock.
Publish(j) ==
  /\ job[j].at = "opened" /\ config # "broken"
  /\ LET opened == [job EXCEPT ![j].at = "owned", ![j].loaded = config]
     IN IF job[j].op = "refresh"
        THEN Observe(Dropped(j), j[1], Ready(job[j].view, config)) /\ Unlock(j)
        ELSE Observe(opened, j[1], Ready(job[j].view, config)) /\ UNCHANGED lock
  /\ UNCHANGED <<marker, log, config, left, acked>>

\* The configuration cannot be read, or reading it was cancelled.
LoadFails(j) ==
  /\ job[j].at = "opened"
  /\ SourceFailure(j)
  /\ UNCHANGED <<marker, log, config, left, acked>>

\* A cancelled worker returns without an effect on the memory.
Cancelled(j) ==
  /\ job[j].at = "owned"
  /\ Return(j)
  /\ UNCHANGED <<marker, log, config, left, acked>>

-----------------------------------------------------------------------------
(***************************************************************************)
(* What a transaction is for, decided on the memory under its mutex.        *)
(***************************************************************************)
\* validate_remember, and the checks of apply_control. A trust names the reviewed bytes.
Agrees(j) ==
  LET view == mem[j[1]]
  IN /\ job[j].fresh
     /\ CASE job[j].op = "grant"   -> PermitsRemembering(view)
          [] job[j].op = "revoke"  -> job[j].arg \in view.log.grants
          [] job[j].op = "trust"   -> view.config = job[j].reviewed.config /\ Rule[view.config] = "allow"
          [] job[j].op = "untrust" -> view.log.trust # "none"
          [] OTHER                 -> FALSE

\* The mutex is dropped for the write; the lock is kept.
Review(j) ==
  /\ job[j].at = "owned" /\ job[j].op \in Changes \cup {"grant"}
  /\ \/ Agrees(j) /\ job' = [job EXCEPT ![j].at = "write"] /\ UNCHANGED <<lock, mem>>
     \/ ~Agrees(j) /\ Return(j)
  /\ UNCHANGED <<marker, log, config, left, acked>>

\* Mutant: the tool starts on what the process last saw.
AuthorizeFromMemory(j) ==
  /\ job[j].at = "waiting" /\ job[j].op \in Authorizations
  /\ Permits(mem[j[1]], job[j].op, job[j].arg)
  /\ job' = [job EXCEPT ![j].at = "running"]
  /\ UNCHANGED <<lock, marker, log, config, mem, left, acked>>

\* authorize: the ordering point of an effect, right before its executor is polled.
Authorize(j) ==
  /\ job[j].at = "owned" /\ job[j].op \in Authorizations
  /\ \/ /\ Permits(mem[j[1]], job[j].op, job[j].arg)
        /\ job' = [job EXCEPT ![j] = [Idle EXCEPT !.op = job[j].op, !.at = "running"]]
        /\ Unlock(j)
        /\ UNCHANGED mem
     \/ /\ ~Permits(mem[j[1]], job[j].op, job[j].arg)
        /\ Return(j)
  /\ UNCHANGED <<marker, log, config, left, acked>>

ToolEnds(j) ==
  /\ job[j].at = "running"
  /\ Return(j)
  /\ UNCHANGED <<marker, log, config, left, acked>>

-----------------------------------------------------------------------------
(***************************************************************************)
(* The write. A log is created through the marker and a rename; a record is  *)
(* appended, synced and only then acknowledged.                              *)
(***************************************************************************)
Base(j) == IF job[j].view.present THEN job[j].view ELSE Fresh

\* Folded::apply refuses a record or a grant too many, and a grant that is not there.
Fits(j) ==
  /\ Base(j).seq < MaxRecords
  /\ job[j].op = "grant" => Cardinality(Base(j).grants) < MaxGrants
  /\ job[j].op = "revoke" => job[j].arg \in Base(j).grants

\* The log with the change of this worker.
Changed(j) ==
  LET next == [Base(j) EXCEPT !.seq = @ + 1]
  IN CASE job[j].op = "grant"   -> [next EXCEPT !.grants = @ \cup {next.seq}]
       [] job[j].op = "revoke"  -> [next EXCEPT !.grants = @ \ {job[j].arg}]
       [] job[j].op = "trust"   -> [next EXCEPT !.trust = job[j].reviewed.config]
       [] job[j].op = "untrust" -> [next EXCEPT !.trust = "none"]

\* Capacity is certain: it leaves the view as it is.
Refuse(j) ==
  /\ job[j].at = "write" /\ ~Fits(j)
  /\ Return(j)
  /\ UNCHANGED <<marker, log, config, left, acked>>

\* publish_header, for the first record of a project: the marker is durable before the
\* staged header gets the name of the log.
Mark(j) ==
  /\ job[j].at = "write" /\ Fits(j) /\ ~job[j].view.present
  /\ marker' = "partial"
  /\ job' = [job EXCEPT ![j].at = "mark"]
  /\ UNCHANGED <<lock, log, config, mem, left, acked>>

Marked(j) ==
  /\ job[j].at = "mark"
  /\ marker' = "set"
  /\ job' = [job EXCEPT ![j].at = "rename"]
  /\ UNCHANGED <<lock, log, config, mem, left, acked>>

Rename(j) ==
  /\ job[j].at = "rename"
  /\ log' = [fold |-> Fresh, torn |-> FALSE]
  /\ job' = [job EXCEPT ![j].at = "append"]
  /\ UNCHANGED <<lock, marker, config, mem, left, acked>>

\* The first bytes of the record are in the file.
Append(j) ==
  /\ \/ job[j].at = "append"
     \/ job[j].at = "write" /\ Fits(j) /\ job[j].view.present
  /\ log' = [log EXCEPT !.torn = TRUE]
  /\ job' = [job EXCEPT ![j].at = "tail"]
  /\ UNCHANGED <<lock, marker, config, mem, left, acked>>

\* Its last byte is.
Complete(j) ==
  /\ job[j].at = "tail"
  /\ log' = [fold |-> Changed(j), torn |-> FALSE]
  /\ job' = [job EXCEPT ![j].at = "sync"]
  /\ UNCHANGED <<lock, marker, config, mem, left, acked>>

Sync(j) ==
  /\ job[j].at = "sync"
  /\ acked' = Changed(j).seq
  /\ job' = [job EXCEPT ![j].at = "observe", ![j].view = Changed(j)]
  /\ UNCHANGED <<lock, marker, log, config, mem, left>>

\* A write whose outcome is unknown, or a cancellation before its first byte.
WriteFails(j) ==
  /\ job[j].at \in Writing
  /\ SourceFailure(j)
  /\ UNCHANGED <<marker, log, config, left, acked>>

\* observe_project, with the configuration the memory has by then, and the lock dropped.
Acknowledge(j) ==
  /\ job[j].at = "observe"
  /\ Observe(Dropped(j), j[1], Ready(job[j].view, mem[j[1]].config))
  /\ Unlock(j)
  /\ UNCHANGED <<marker, log, config, left, acked>>

-----------------------------------------------------------------------------
(***************************************************************************)
(* The environment.                                                        *)
(***************************************************************************)
Edit ==
  /\ left.edits > 0
  /\ left' = [left EXCEPT !.edits = @ - 1]
  /\ config' \in (Configs \cup {"broken"}) \ {config}
  /\ UNCHANGED <<lock, marker, log, mem, job, acked>>

\* Somebody removes the log while nobody uses it.
Delete ==
  /\ left.deletes > 0 /\ log.fold.present /\ lock = Nobody
  /\ left' = [left EXCEPT !.deletes = @ - 1]
  /\ log' = [fold |-> Absent, torn |-> FALSE]
  /\ UNCHANGED <<lock, marker, config, mem, job, acked>>

\* The operating system releases the lock; the files stay as they are.
Die(p) ==
  /\ mem[p].kind # "off" /\ left.deaths > 0
  /\ left' = [left EXCEPT !.deaths = @ - 1]
  /\ mem' = [mem EXCEPT ![p] = NoView("off")]
  /\ job' = [j \in Jobs |-> IF j[1] = p THEN Idle ELSE job[j]]
  /\ lock' = IF lock[1] = p THEN Nobody ELSE lock
  /\ UNCHANGED <<marker, log, config, acked>>

Step(j) ==
  \/ Open(j) \/ GiveUp(j) \/ Publish(j) \/ LoadFails(j) \/ Cancelled(j)
  \/ Review(j) \/ Authorize(j) \/ ToolEnds(j)
  \/ Refuse(j) \/ Mark(j) \/ Marked(j) \/ Rename(j) \/ Append(j) \/ Complete(j) \/ Sync(j)
  \/ WriteFails(j) \/ Acknowledge(j)

Next ==
  \/ \E p \in Processes : Start(p) \/ BeginControl(p) \/ Die(p)
  \/ \E j \in Tools : BeginGrant(j) \/ BeginTool(j)
  \/ \E j \in Jobs : Step(j)
  \/ Edit \/ Delete

Spec == Init /\ [][Next]_vars

-----------------------------------------------------------------------------
(***************************************************************************)
(* Properties.                                                             *)
(***************************************************************************)
\* A tool starts only on authority that the log on disk and the configuration loaded in the
\* same transaction give at that moment: no grant revoked by any process, no rule that
\* came to deny, no view of a source that is torn, deleted or half created (PER-5, PER-6).
StartsAuthorized ==
  [][\A j \in Jobs : job[j].at # "running" /\ job'[j].at = "running" =>
       Readable /\ Permits(Ready(log.fold, job[j].loaded), job[j].op, job[j].arg)]_vars

\* Whoever opens the store finds everything that was ever acknowledged to anybody, however
\* writes, creations and processes ended meanwhile and whatever was deleted (PGR-3, PGR-4, PGR-5).
AckedKept == \A j \in Jobs : job[j].at \in {"opened", "owned"} => job[j].view.seq >= acked

\* A change is written only over the very grants, trust and configuration that its user
\* reviewed, in this process, before waiting for the lock (PGR-2, PER-8).
ReviewedOnly ==
  \A j \in Jobs : job[j].at \in Writing => job[j].reviewed = Ready(job[j].view, job[j].loaded)

\* A grant for the project that was offered, and is still current, is never refused for
\* capacity: the offer looks at the room the write needs.
OfferedFits == \A j \in Jobs : job[j].at = "write" /\ job[j].op = "grant" => Fits(j)
=============================================================================
