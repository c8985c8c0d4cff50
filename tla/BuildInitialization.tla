------------------------- MODULE BuildInitialization -------------------------
(***************************************************************************)
(* BuildInitializationCoordinator with its two journals: the recovery plan *)
(* of each brain (BuildInitializationPlanStore) and the index of selected  *)
(* resources all brains share (BuildResourceSelectionStore).  A Build      *)
(* writes the brain's document, its plan and its claims, has the worker    *)
(* construct the neural core, learns every selected resource in a runtime  *)
(* job, teaches the declared packs and only then unlocks the brain.  A     *)
(* call that fails records the failure for a retry; after a restart of the *)
(* application recoverAll takes up what was interrupted, one brain at a    *)
(* time.                                                                   *)
(*                                                                         *)
(* Every write of a journal or a document, every request to the worker and *)
(* every runtime job may fail; the application may restart and the worker  *)
(* may exit between any two steps.  MaxFaults bounds how often.  A brain   *)
(* has one call at a time: the renderer offers Retry on a failed card only *)
(* and not while a retry is under way.                                     *)
(***************************************************************************)
EXTENDS Integers, Sequences, FiniteSets, Functions

CONSTANTS
  Brains, Selections,  \* brains to build; entries of the selection index
  Resources,           \* the sequence of resources each Build starts from;
                       \* a resource that is not a selection is a web source
  NoBrain,
  MaxFaults, MaxRetries

ASSUME ResourcesAssumption ==
  /\ NoBrain \notin Brains
  /\ MaxFaults \in Nat /\ MaxRetries \in Nat
  /\ \A b \in Brains : /\ Len(Resources[b]) \in Nat
                        /\ DOMAIN Resources[b] = 1 .. Len(Resources[b])
                        /\ IsInjective(Resources[b])

VARIABLES
  doc,        \* readiness of the brain's document
  plan,       \* the recovery plan on disk, NoPlan when there is none
  selection, savedSelection, broken,  \* the index in memory, on disk; its write
                                      \* queue holds a rejected write
  built, resident,  \* brains with a committed neural core; held by the worker
  learned, taught,  \* resources a brain has learned to the end; brains taught
  call, pc, cursor, failure,  \* the coordinator's call for each brain
  job, orphans,     \* the job a call waits for; jobs no call waits for
  recovery,         \* brains recoverAll has still to take up
  faults, retries

index == <<selection, savedSelection, broken>>
disk == <<doc, plan, index>>
neural == <<built, resident, learned, taught>>
calls == <<call, pc, cursor, failure>>
jobs == <<job, orphans>>
bounds == <<faults, retries>>
buildVars == <<disk, neural, calls, jobs, recovery, bounds>>

Tasks(b) == Range(Resources[b])
Datasets(b) == Tasks(b) \cap Selections
NoPlan == [phase |-> "none", failure |-> "none", task |-> <<>>]
NewPlan(b) == [phase |-> "foundation", failure |-> "none",
               task |-> [t \in Tasks(b) |-> "pending"]]
Unfinished(p) == {t \in DOMAIN p.task : p.task[t] # "complete"}
NoJob == [task |-> NoBrain, stage |-> "none"]
NoFailure == [phase |-> "none", release |-> {}]
Unclaimed == [state |-> "selected", owner |-> NoBrain, manifest |-> FALSE]

BuildsInit ==
  /\ doc = [b \in Brains |-> "absent"] /\ plan = [b \in Brains |-> NoPlan]
  /\ selection = [s \in Selections |-> Unclaimed]
  /\ savedSelection = selection /\ broken = FALSE
  /\ built = {} /\ resident = {} /\ taught = {}
  /\ learned = [b \in Brains |-> {}]
  /\ call = [b \in Brains |-> "none"] /\ pc = [b \in Brains |-> "idle"]
  /\ cursor = [b \in Brains |-> 1] /\ failure = [b \in Brains |-> NoFailure]
  /\ job = [b \in Brains |-> NoJob] /\ orphans = {}
  /\ recovery = {} /\ faults = 0 /\ retries = 0

-----------------------------------------------------------------------------
(* Steps of one call.  A step that fails goes to recordFailure.            *)

At(b, label) == pc[b] = label
Goto(b, label) == pc' = [pc EXCEPT ![b] = label]
Fault == faults < MaxFaults /\ faults' = faults + 1
NoFault == UNCHANGED faults
OtherCalls == UNCHANGED <<call, failure, recovery, retries>>

\* BuildInitializationPlanStore.update: a plan must be there, the write may fail.
PlanUpdate(b, next) ==
  /\ plan[b] # NoPlan
  /\ plan' = [plan EXCEPT ![b] = next]
WithTask(p, t, state) == [p EXCEPT !.task[t] = state]

\* One step of a call that updates the plan, then goes on at label or fails.
PlanStep(b, next, label) ==
  \/ PlanUpdate(b, next) /\ Goto(b, label) /\ NoFault
  \/ plan[b] = NoPlan /\ Goto(b, "read failure") /\ NoFault /\ UNCHANGED plan
  \/ Fault /\ Goto(b, "read failure") /\ UNCHANGED plan

\* BuildResourceSelectionStore.persist: the memory has changed already when the
\* write fails, and the queue then rejects every later write as well.
Persisted(new) == ~broken /\ selection' = new /\ savedSelection' = new /\ UNCHANGED broken
Rejected(new) ==
  /\ selection' = new /\ broken' = TRUE /\ UNCHANGED savedSelection
  /\ IF broken THEN NoFault ELSE Fault

\* Variant for mutation: claim() forgets to look at the state and the owner.
ClaimableByAnyone(s, b) == selection[s].state # "deleted"

Claimable(s, b) ==
  selection[s].state = "selected" \/ (selection[s].state = "preparing" /\ selection[s].owner = b)
Claimed(s, b) == [selection EXCEPT ![s].state = "preparing", ![s].owner = b]
Releasable(s, b) ==
  selection[s].state \notin {"complete", "deleted"} /\ selection[s].owner \in {NoBrain, b}
Released(S, b) ==
  [s \in Selections |-> IF s \in S /\ Releasable(s, b)
                        THEN [selection[s] EXCEPT !.state = "retryable", !.owner = b]
                        ELSE selection[s]]

-----------------------------------------------------------------------------
(* create                                                                  *)

Create(b) ==
  /\ doc[b] = "absent" /\ At(b, "idle")
  /\ call' = [call EXCEPT ![b] = "create"] /\ Goto(b, "document")
  /\ UNCHANGED <<disk, neural, cursor, failure, jobs, recovery, bounds>>

\* service.create up to its callback.  Failing here the call has no brain id
\* yet: nothing is recorded, and a document already written stays.
WriteDocument(b) ==
  /\ At(b, "document")
  /\ \/ /\ doc' = [doc EXCEPT ![b] = "initializing"]
        /\ Goto(b, "plan") /\ NoFault /\ UNCHANGED call
     \/ /\ doc' \in {doc, [doc EXCEPT ![b] = "initializing"]} /\ Fault
        /\ Goto(b, "idle") /\ call' = [call EXCEPT ![b] = "none"]
  /\ UNCHANGED <<plan, index, neural, cursor, failure, jobs, recovery, retries>>

\* plans.create in the callback; ensurePlan in retry and recoverAll.
EnsurePlan(b) ==
  LET next == CASE call[b] = "create" -> "claim" [] call[b] = "retry" -> "reset"
                [] call[b] = "recover" -> "requeue"
  IN /\ At(b, "plan")
     /\ \/ plan[b] # NoPlan /\ Goto(b, next) /\ NoFault /\ UNCHANGED plan
        \/ /\ plan[b] = NoPlan /\ plan' = [plan EXCEPT ![b] = NewPlan(b)]
           /\ Goto(b, next) /\ NoFault
        \/ plan[b] = NoPlan /\ Fault /\ Goto(b, "read failure") /\ UNCHANGED plan
     /\ cursor' = [cursor EXCEPT ![b] = 1]
     /\ OtherCalls /\ UNCHANGED <<doc, index, neural, jobs>>

\* The claims of the callback, one after the other.
ClaimNext(b) ==
  LET s == Resources[b][cursor[b]]
      over == cursor[b] > Len(Resources[b])
  IN /\ At(b, "claim")
     /\ CASE over -> Goto(b, "build") /\ NoFault /\ UNCHANGED <<index, cursor>>
          [] ~over /\ s \notin Selections ->
               cursor' = [cursor EXCEPT ![b] = @ + 1] /\ NoFault /\ UNCHANGED <<index, pc>>
          [] ~over /\ s \in Selections ->
               \/ /\ Claimable(s, b) /\ Persisted(Claimed(s, b)) /\ NoFault
                  /\ cursor' = [cursor EXCEPT ![b] = @ + 1] /\ UNCHANGED pc
               \/ /\ Claimable(s, b) /\ Rejected(Claimed(s, b))
                  /\ Goto(b, "read failure") /\ UNCHANGED cursor
               \/ /\ ~Claimable(s, b) /\ Goto(b, "read failure") /\ NoFault
                  /\ UNCHANGED <<index, cursor>>
     /\ OtherCalls /\ UNCHANGED <<doc, plan, neural, jobs>>

\* The worker's "create": constructs the core and commits it, or loads the one
\* that is committed.  It may commit and the answer still be lost.
Build(b) ==
  /\ At(b, "build")
  /\ \/ /\ built' = built \cup {b} /\ resident' = resident \cup {b}
        /\ Goto(b, "foundation ready") /\ NoFault
     \/ /\ Fault /\ Goto(b, "read failure")
        /\ \/ UNCHANGED <<built, resident>>
           \/ built' = built \cup {b} /\ resident' = resident \cup {b}
  /\ OtherCalls /\ UNCHANGED <<disk, learned, taught, cursor, jobs>>

FoundationReady(b) ==
  /\ At(b, "foundation ready")
  /\ PlanStep(b, [plan[b] EXCEPT !.phase = "learning", !.failure = "none"], "run")
  /\ OtherCalls
  /\ UNCHANGED <<doc, index, neural, cursor, jobs>>

-----------------------------------------------------------------------------
(* retry and recoverAll                                                    *)

Retry(b) ==
  /\ doc[b] = "failed" /\ At(b, "idle") /\ retries < MaxRetries
  /\ retries' = retries + 1
  /\ call' = [call EXCEPT ![b] = "retry"] /\ Goto(b, "plan")
  /\ UNCHANGED <<disk, neural, cursor, failure, jobs, recovery, faults>>

RetriedPhase(p) ==
  IF p.failure # "none" THEN p.failure
  ELSE IF Unfinished(p) # {} THEN "learning" ELSE "foundation"

\* plans.retry
ResetPlan(b) ==
  /\ At(b, "reset")
  /\ PlanStep(b, [plan[b] EXCEPT !.phase = RetriedPhase(plan[b]), !.failure = "none",
                    !.task = [t \in DOMAIN @ |-> IF @[t] \in {"failed", "running"}
                                                 THEN "pending" ELSE @[t]]], "reopen")
  /\ OtherCalls /\ UNCHANGED <<doc, index, neural, cursor, jobs>>

\* repository.retryInitialization
Reopen(b) ==
  /\ At(b, "reopen")
  /\ \/ doc' = [doc EXCEPT ![b] = "initializing"] /\ Goto(b, "run") /\ NoFault
     \/ Fault /\ Goto(b, "read failure") /\ UNCHANGED doc
  /\ OtherCalls /\ UNCHANGED <<plan, index, neural, cursor, jobs>>

RecoverAll(b) ==
  /\ b \in recovery /\ \A o \in Brains : call[o] # "recover"
  /\ recovery' = recovery \ {b}
  /\ call' = [call EXCEPT ![b] = "recover"] /\ Goto(b, "plan")
  /\ UNCHANGED <<disk, neural, cursor, failure, jobs, bounds>>

Requeue(b) ==
  /\ At(b, "requeue")
  /\ PlanStep(b, [plan[b] EXCEPT !.task = [t \in DOMAIN @ |-> IF @[t] = "running"
                                                 THEN "pending" ELSE @[t]]], "run")
  /\ OtherCalls /\ UNCHANGED <<doc, index, neural, cursor, jobs>>

-----------------------------------------------------------------------------
(* runUnlocked and runTask                                                 *)

Task(b) == Resources[b][cursor[b]]

Run(b) ==
  /\ At(b, "run")
  /\ Goto(b, CASE plan[b].phase \in {"failed", "none"} -> "read failure"
               [] plan[b].phase = "foundation" -> "build"
               [] plan[b].phase = "learning" -> "next")
  /\ cursor' = [cursor EXCEPT ![b] = 1]
  /\ NoFault /\ OtherCalls /\ UNCHANGED <<disk, neural, jobs>>

NextTask(b) ==
  /\ At(b, "next")
  /\ IF cursor[b] > Len(Resources[b]) THEN Goto(b, "check") /\ UNCHANGED cursor
     ELSE IF plan[b].task[Task(b)] = "complete"
     THEN cursor' = [cursor EXCEPT ![b] = @ + 1] /\ UNCHANGED pc
     ELSE Goto(b, "mark") /\ UNCHANGED cursor
  /\ NoFault /\ OtherCalls /\ UNCHANGED <<disk, neural, jobs>>

MarkRunning(b) ==
  /\ At(b, "mark")
  /\ PlanStep(b, WithTask(plan[b], Task(b), "running"),
              IF Task(b) \in Selections THEN "select" ELSE "launch web")
  /\ OtherCalls /\ UNCHANGED <<doc, index, neural, cursor, jobs>>

\* A resource that has no owner yet is claimed; one with a committed manifest is
\* ingested, another scanned first.
Select(b) ==
  LET s == Task(b)
      free == selection[s].state # "deleted" /\ selection[s].owner \in {NoBrain, b}
      unclaimed == selection[s].state \in {"selected", "preparing"}
  IN /\ At(b, "select")
     /\ \/ ~free /\ Goto(b, "read failure") /\ NoFault /\ UNCHANGED index
        \/ free /\ unclaimed /\ Persisted(Claimed(s, b)) /\ NoFault /\ Goto(b, "launch scan")
        \/ free /\ unclaimed /\ Rejected(Claimed(s, b)) /\ Goto(b, "read failure")
        \/ /\ free /\ ~unclaimed /\ NoFault /\ UNCHANGED index
           /\ Goto(b, CASE selection[s].state = "complete" -> "learned before"
                        [] OTHER -> IF selection[s].manifest THEN "launch learn" ELSE "launch scan")
     /\ OtherCalls /\ UNCHANGED <<doc, plan, neural, cursor, jobs>>

\* The job is started before attachRuntimeJob has written the index: when that
\* write fails, or the entry is complete or gone, the call gives up and the job
\* goes on alone.
Attached(s) ==
  [selection EXCEPT ![s].state = IF selection[s].manifest THEN "training" ELSE "preparing"]
Launch(b) ==
  LET s == Task(b)
      stage == CASE At(b, "launch scan") -> "scan" [] At(b, "launch learn") -> "learn"
                 [] At(b, "launch web") -> "learn"
      started == [task |-> s, stage |-> stage]
      attachable == selection[s].state \notin {"complete", "deleted"}
  IN /\ pc[b] \in {"launch scan", "launch learn", "launch web"}
     /\ \/ /\ job' = [job EXCEPT ![b] = started] /\ Goto(b, "wait") /\ UNCHANGED orphans /\ NoFault
           /\ IF s \in Selections THEN attachable /\ Persisted(Attached(s)) ELSE UNCHANGED index
        \/ /\ s \in Selections /\ Goto(b, "read failure")
           /\ orphans' = orphans \cup {[brain |-> b, job |-> started]} /\ UNCHANGED job
           /\ \/ attachable /\ Rejected(Attached(s))
              \/ ~attachable /\ NoFault /\ UNCHANGED index
     /\ OtherCalls /\ UNCHANGED <<doc, plan, neural, cursor>>

\* Variant for mutation: only the manifest is looked at, not how the job ended.
FinishedSomehow(b) ==
  LET s == Task(b)
      new == [selection EXCEPT ![s].state = "complete"]
  IN /\ At(b, "wait") /\ job[b].stage \in {"done", "failed"} /\ s \in Selections
     /\ job' = [job EXCEPT ![b] = NoJob]
     /\ IF selection[s].manifest THEN Persisted(new) /\ Goto(b, "task done")
        ELSE UNCHANGED index /\ Goto(b, "task failed")
     /\ NoFault /\ OtherCalls /\ UNCHANGED <<doc, plan, neural, cursor, orphans>>

\* The answer of jobs.wait.
Finished(b) ==
  LET s == Task(b)
  IN /\ At(b, "wait") /\ job[b].stage \in {"done", "failed"}
     /\ job' = [job EXCEPT ![b] = NoJob]
     /\ \/ /\ job[b].stage = "failed" \/ (s \in Selections /\ ~selection[s].manifest)
           /\ Goto(b, "task failed") /\ NoFault /\ UNCHANGED index
        \/ /\ job[b].stage = "done" /\ (s \in Selections => selection[s].manifest)
           /\ IF s \in Selections => selection[s].state = "complete"
              THEN Goto(b, "task done") /\ NoFault /\ UNCHANGED index
              ELSE LET new == [selection EXCEPT ![s].state = "complete"]
                   IN \/ Persisted(new) /\ NoFault /\ Goto(b, "task done")
                      \/ Rejected(new) /\ Goto(b, "task failed")
     /\ OtherCalls /\ UNCHANGED <<doc, plan, neural, cursor, orphans>>

CompleteTask(b) ==
  /\ pc[b] \in {"task done", "learned before"}
  /\ LET failed == IF At(b, "task done") THEN "task failed" ELSE "read failure"
     IN \/ /\ PlanUpdate(b, WithTask(plan[b], Task(b), "complete"))
           /\ cursor' = [cursor EXCEPT ![b] = @ + 1] /\ Goto(b, "next") /\ NoFault
        \/ plan[b] = NoPlan /\ Goto(b, failed) /\ NoFault /\ UNCHANGED <<plan, cursor>>
        \/ Fault /\ Goto(b, failed) /\ UNCHANGED <<plan, cursor>>
  /\ OtherCalls /\ UNCHANGED <<doc, index, neural, jobs>>

FailTask(b) ==
  /\ At(b, "task failed")
  /\ PlanStep(b, WithTask(plan[b], Task(b), "failed"), "release task")
  /\ OtherCalls /\ UNCHANGED <<doc, index, neural, cursor, jobs>>

\* releaseForRetry: whether it succeeds is not looked at.  A complete entry is
\* written as it is.
Release(S, b) ==
  IF \E s \in S : selection[s].state = "complete" \/ Releasable(s, b)
  THEN (Persisted(Released(S, b)) /\ NoFault) \/ Rejected(Released(S, b))
  ELSE NoFault /\ UNCHANGED index

ReleaseTask(b) ==
  /\ At(b, "release task") /\ Goto(b, "read failure")
  /\ Release({Task(b)} \cap Selections, b)
  /\ OtherCalls /\ UNCHANGED <<doc, plan, neural, cursor, jobs>>

-----------------------------------------------------------------------------
(* complete                                                                *)

Owned(b) == plan[b].phase = "learning" /\ Unfinished(plan[b]) = {}

Check(b) ==
  /\ At(b, "check") /\ Goto(b, IF Owned(b) THEN "teach" ELSE "read failure")
  /\ NoFault /\ OtherCalls /\ UNCHANGED <<disk, neural, cursor, jobs>>

\* teachInitialDocumentation and teachInitialCapabilities.  Both look at the plan
\* and the document again and have the worker load the committed core first.
Teach(b) ==
  /\ At(b, "teach")
  /\ \/ /\ doc[b] = "initializing" /\ Owned(b)
        /\ built' = built \cup {b} /\ resident' = resident \cup {b} /\ taught' = taught \cup {b}
        /\ Goto(b, "commit") /\ NoFault
     \/ /\ ~(doc[b] = "initializing" /\ Owned(b)) /\ NoFault
        /\ Goto(b, "read failure") /\ UNCHANGED <<built, resident, taught>>
     \/ Fault /\ Goto(b, "read failure") /\ UNCHANGED <<built, resident, taught>>
  /\ OtherCalls /\ UNCHANGED <<disk, learned, cursor, jobs>>

\* repository.completeInitialization
Commit(b) ==
  /\ At(b, "commit")
  /\ \/ doc[b] # "failed" /\ doc' = [doc EXCEPT ![b] = "ready"] /\ Goto(b, "tidy") /\ NoFault
     \/ doc[b] = "failed" /\ NoFault /\ Goto(b, "read failure") /\ UNCHANGED doc
     \/ Fault /\ Goto(b, "read failure") /\ UNCHANGED doc
  /\ OtherCalls /\ UNCHANGED <<plan, index, neural, cursor, jobs>>

\* The selections and the plan are deleted; whether that succeeds is not looked
\* at, and the call returns.
Deleted(S) == [s \in Selections |-> IF s \in S THEN [Unclaimed EXCEPT !.state = "deleted"]
                                    ELSE selection[s]]
Tidy(b) ==
  LET left == {s \in Datasets(b) : selection[s].state # "deleted"}
  IN /\ At(b, "tidy") /\ Goto(b, "idle") /\ call' = [call EXCEPT ![b] = "none"]
     /\ \/ /\ plan' = [plan EXCEPT ![b] = NoPlan] /\ NoFault
           /\ IF left = {} THEN UNCHANGED index ELSE Persisted(Deleted(left))
        \/ /\ plan' \in {plan, [plan EXCEPT ![b] = NoPlan]} /\ left # {}
           /\ Rejected(Deleted(left))
     /\ UNCHANGED <<doc, neural, cursor, failure, jobs, recovery, retries>>

-----------------------------------------------------------------------------
(* recordFailure                                                           *)

\* The phase a failure is recorded under is read off the plan as it is now.
ReadFailure(b) ==
  /\ At(b, "read failure")
  /\ failure' = [failure EXCEPT ![b] =
       [phase |-> IF plan[b].phase = "foundation" THEN "foundation" ELSE "learning",
        release |-> Unfinished(plan[b]) \cap Selections]]
  /\ Goto(b, IF plan[b] = NoPlan THEN "fail document" ELSE "fail plan")
  /\ UNCHANGED <<disk, neural, call, cursor, jobs, recovery, bounds>>

FailPlan(b) ==
  /\ At(b, "fail plan") /\ Goto(b, "release all")
  /\ \/ PlanUpdate(b, [plan[b] EXCEPT !.phase = "failed", !.failure = failure[b].phase]) /\ NoFault
     \/ (Fault \/ (plan[b] = NoPlan /\ NoFault)) /\ UNCHANGED plan
  /\ OtherCalls /\ UNCHANGED <<doc, index, neural, cursor, jobs>>

ReleaseAll(b) ==
  /\ At(b, "release all") /\ Goto(b, "fail document")
  /\ Release(failure[b].release, b)
  /\ OtherCalls /\ UNCHANGED <<doc, plan, neural, cursor, jobs>>

FailDocument(b) ==
  /\ At(b, "fail document") /\ Goto(b, "idle") /\ call' = [call EXCEPT ![b] = "none"]
  /\ failure' = [failure EXCEPT ![b] = NoFailure]
  /\ \/ doc' = [doc EXCEPT ![b] = IF @ = "ready" THEN @ ELSE "failed"] /\ NoFault
     \/ Fault /\ UNCHANGED doc
  /\ UNCHANGED <<plan, index, neural, cursor, jobs, recovery, retries>>

-----------------------------------------------------------------------------
(* Runtime jobs: startBuildResource scans the paths, commits the manifest,  *)
(* learns it and reports; startIngestion and startCrawl only learn.  The    *)
(* worker learns for a brain it holds; a traversal that is complete already *)
(* needs no worker.                                                         *)

Running == orphans \cup {[brain |-> b, job |-> job[b]] : b \in Brains}
IsAt(r, stage) == r \in Running /\ r.job.stage = stage
Move(r, stage) ==
  LET next == [r.job EXCEPT !.stage = stage]
      live == IF stage \in {"done", "failed"} THEN {} ELSE {[r EXCEPT !.job = next]}
  IN \/ r \in orphans /\ orphans' = (orphans \ {r}) \cup live /\ UNCHANGED job
     \/ job[r.brain] = r.job /\ job' = [job EXCEPT ![r.brain] = next] /\ UNCHANGED orphans
JobRest == UNCHANGED <<doc, built, resident, taught, calls, recovery, retries>>

Scan(r) ==
  /\ IsAt(r, "scan")
  /\ (NoFault /\ Move(r, "commit")) \/ (Fault /\ Move(r, "failed"))
  /\ JobRest /\ UNCHANGED <<plan, index, learned>>

\* The index changes, or the update is refused and the job fails.
JobUpdate(r, allowed, new, next) ==
  \/ allowed /\ Persisted(new) /\ NoFault /\ Move(r, next)
  \/ allowed /\ Rejected(new) /\ Move(r, "failed")
  \/ ~allowed /\ NoFault /\ Move(r, "failed") /\ UNCHANGED index

CommitManifest(r) ==
  LET s == r.job.task
  IN /\ IsAt(r, "commit")
     /\ JobUpdate(r, selection[s].owner # NoBrain,
                  [selection EXCEPT ![s].state = "training", ![s].manifest = TRUE], "note")
     /\ JobRest /\ UNCHANGED <<plan, learned>>

JobPlan(r, state, next) ==
  LET b == r.brain
  IN \/ PlanUpdate(b, WithTask(plan[b], r.job.task, state)) /\ NoFault /\ Move(r, next)
     \/ plan[b] = NoPlan /\ NoFault /\ Move(r, "failed") /\ UNCHANGED plan
     \/ Fault /\ Move(r, "failed") /\ UNCHANGED plan

NoteManifest(r) ==
  /\ IsAt(r, "note") /\ JobPlan(r, "running", "learn, report")
  /\ JobRest /\ UNCHANGED <<index, learned>>

\* Variant for mutation: the job waits for an explicit Load, as a job of a brain
\* that is not initializing does.
LearnWhenLoaded(r) ==
  /\ (IsAt(r, "learn") \/ IsAt(r, "learn, report")) /\ r.brain \in resident /\ NoFault
  /\ learned' = [learned EXCEPT ![r.brain] = @ \cup {r.job.task}]
  /\ Move(r, IF r.job.stage = "learn" THEN "done" ELSE "report")
  /\ JobRest /\ UNCHANGED <<plan, index>>

Learn(r) ==
  LET able == r.brain \in resident \/ r.job.task \in learned[r.brain]
  IN /\ IsAt(r, "learn") \/ IsAt(r, "learn, report")
     /\ \/ /\ able /\ NoFault
           /\ learned' = [learned EXCEPT ![r.brain] = @ \cup {r.job.task}]
           /\ Move(r, IF r.job.stage = "learn" THEN "done" ELSE "report")
        \/ (Fault \/ (~able /\ NoFault)) /\ Move(r, "failed") /\ UNCHANGED learned
     /\ JobRest /\ UNCHANGED <<plan, index>>

Report(r) ==
  LET s == r.job.task
  IN /\ IsAt(r, "report")
     /\ JobUpdate(r, selection[s].manifest, [selection EXCEPT ![s].state = "complete"], "tick")
     /\ JobRest /\ UNCHANGED <<plan, learned>>

Tick(r) ==
  /\ IsAt(r, "tick") /\ JobPlan(r, "complete", "done")
  /\ JobRest /\ UNCHANGED <<index, learned>>

-----------------------------------------------------------------------------
(* The worker exits; the application restarts, and once its engine is up    *)
(* lists the brains recoverAll takes up.                                    *)

WorkerExits ==
  /\ resident # {} /\ resident' = {} /\ Fault
  /\ UNCHANGED <<disk, built, learned, taught, calls, jobs, recovery, retries>>

AppRestarts ==
  /\ Fault
  /\ selection' = savedSelection /\ broken' = FALSE /\ resident' = {}
  /\ call' = [b \in Brains |-> "none"] /\ pc' = [b \in Brains |-> "idle"]
  /\ cursor' = [b \in Brains |-> 1] /\ failure' = [b \in Brains |-> NoFailure]
  /\ job' = [b \in Brains |-> NoJob] /\ orphans' = {}
  /\ recovery' = {b \in Brains : doc[b] = "initializing"}
  /\ UNCHANGED <<doc, plan, savedSelection, built, learned, taught, retries>>

Request(b) == Create(b) \/ Retry(b)
CallStep(b) ==
  \/ WriteDocument(b) \/ EnsurePlan(b) \/ ClaimNext(b) \/ Build(b) \/ FoundationReady(b)
  \/ ResetPlan(b) \/ Reopen(b) \/ RecoverAll(b) \/ Requeue(b)
  \/ Run(b) \/ NextTask(b) \/ MarkRunning(b) \/ Select(b) \/ Launch(b) \/ Finished(b)
  \/ CompleteTask(b) \/ FailTask(b) \/ ReleaseTask(b)
  \/ Check(b) \/ Teach(b) \/ Commit(b) \/ Tidy(b)
  \/ ReadFailure(b) \/ FailPlan(b) \/ ReleaseAll(b) \/ FailDocument(b)
JobStep(b) ==
  \E r \in Running :
     /\ r.brain = b
     /\ Scan(r) \/ CommitManifest(r) \/ NoteManifest(r) \/ Learn(r) \/ Report(r) \/ Tick(r)

BuildsNext ==
  \/ \E b \in Brains : Request(b) \/ CallStep(b) \/ JobStep(b)
  \/ WorkerExits \/ AppRestarts
BuildsSpec == BuildsInit /\ [][BuildsNext]_buildVars

\* Writes, requests and jobs settle: nothing here has a deadline of its own, and
\* a call waits for its job with a timeout of zero, which is none.
Fairness == \A b \in Brains : WF_buildVars(CallStep(b)) /\ WF_buildVars(JobStep(b))
BuildsFairSpec == BuildsSpec /\ Fairness

-----------------------------------------------------------------------------
(* Properties                                                              *)

PlanStates == {"pending", "running", "complete", "failed"}
\* The types of the documents, the plans, the index and the calls.
BuildsTypeOK ==
  /\ doc \in [Brains -> {"absent", "initializing", "failed", "ready"}]
  /\ \A b \in Brains :
       /\ plan[b].phase \in {"none", "foundation", "learning", "failed"}
       /\ plan[b].failure \in {"none", "foundation", "learning"}
       /\ plan[b] # NoPlan => plan[b].task \in [Tasks(b) -> PlanStates]
       /\ learned[b] \subseteq Tasks(b) /\ cursor[b] \in 1 .. Len(Resources[b]) + 1
       /\ (call[b] = "none") <=> At(b, "idle")
  /\ selection \in [Selections -> [state: {"selected", "preparing", "training", "retryable",
                      "complete", "deleted"}, owner: Brains \cup {NoBrain}, manifest: BOOLEAN]]
  /\ built \cup resident \cup taught \subseteq Brains /\ recovery \subseteq Brains

\* A brain is unlocked only when its core is committed, everything selected for
\* it is learned to the end and the declared packs are taught, over any failed
\* writes, retries, abandoned jobs and restarts.
ReadyMeansLearned ==
  \A b \in Brains : doc[b] = "ready" =>
     b \in built /\ b \in taught /\ learned[b] = Tasks(b)

\* "The brain keeps exclusive ownership" of what was selected for it
\* (buildResourceSelections.ts:228): a selection has trained one brain.
SelectionLearnedOnce ==
  \A b, o \in Brains : b # o => learned[b] \cap learned[o] \cap Selections = {}

\* Two Builds that name a selection, retries, abandoned jobs and any one failed
\* write, failed request, worker exit or restart cannot hand it to a second
\* brain: that takes a rejected write of the index and a restart after it ...
OneFailureTrainsOnce == faults < 2 => SelectionLearnedOnce

\* ... and as long as the index is written, nothing hands it to a second brain.
IntactIndexTrainsOnce == [](~broken) => []SelectionLearnedOnce

\* Every create, retry and recovery returns, so isBusy does not keep idle
\* cognition out for ever.
BuildSettles == \A b \in Brains : ~At(b, "idle") ~> At(b, "idle")

\* A recovery that begins when nothing fails any more unlocks its brain, as the
\* tests of recoverAll have it for plans a restart interrupted while learning.
RecoverySucceeds ==
  \A b \in Brains :
    (call[b] = "recover" /\ At(b, "plan") /\ faults = MaxFaults) ~> doc[b] = "ready"

\* A learning job runs on a neural core that was constructed.
FoundationBeforeLearning ==
  \A b \in Brains : job[b].stage \in {"learn", "learn, report"} => b \in built

=============================================================================
