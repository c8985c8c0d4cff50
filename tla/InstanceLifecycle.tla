------------------------- MODULE InstanceLifecycle -------------------------
(***************************************************************************)
(* Load, Unload and the chat turns of one brain:                            *)
(* src/src/main/instanceLifecycleController.ts with the dependencies that   *)
(* brainService.ts wires into it, the loop of chatWithTurn there, the       *)
(* dispatch hold of engineSupervisor.ts and the worker's side of it,        *)
(* src/engine/worker_lifecycle.py.                                          *)
(*                                                                         *)
(* A turn may be suspended at a checkpoint boundary: the worker then keeps   *)
(* a saved frontier and the turn waits, outside every lock, for a Load.      *)
(* The brain's writer queue is the FIFO that BrainWriteCoordinator.tla       *)
(* details.                                                                 *)
(***************************************************************************)
EXTENDS Integers, SequencesExt

CONSTANTS ChatTurns,  \* chat turns of the brain
          None,       \* no frontier
          MaxDeaths   \* bound: unrequested exits and failed finishes

ASSUME NoneAssumption == None \notin ChatTurns
ASSUME NamesAssumption == ChatTurns \cap {"op", "status", "stopper"} = {}
ASSUME MaxDeathsAssumption == MaxDeaths \in Nat

VARIABLES
  phase,     \* states.get(brainId).phase
  admitted,  \* admitted.has(brainId)
  frontier,  \* states.get(brainId).resume
  op,        \* operations.get(brainId): its kind and how far it got
  query,     \* one call of status()
  hold,      \* instanceDispatchHolds.has(brainId)
  line,      \* requests waiting for the engine's one slot, in order
  writer,    \* queue of the brain's writers, the holder first
  turn,      \* control point of each chat turn
  retained,  \* turns whose loop holds a resume frontier
  resident,  \* the worker holds the learned runtime
  saved,     \* durable suspended frontier of the brain
  asked,     \* turns the worker was asked to suspend
  committed, \* turns the worker has committed
  replies,   \* what the worker wrote and the host has not read: for whom
  closing,   \* the worker died; its close event is not delivered yet
  deaths     \* worker deaths and failed finishes so far

host == <<phase, admitted, frontier, query>>
engine == <<hold, line>>
native == <<resident, saved, asked, committed>>
worker == <<replies, closing, deaths>>
lifecycleVars == <<host, op, engine, writer, turn, retained, native, worker>>

Phases == {"unloaded", "checking", "loading", "loaded", "suspending", "suspended", "error"}
Points == {"inspecting", "inspected", "lining", "loading", "verifying", "verified", "scanning",
           "boundary", "releasing", "released", "unreleased", "failed", "-"}
TurnPoints == {"idle", "parked", "lining", "preparing", "submitted", "running", "answering",
               "finished", "paused", "reconciling", "stopping", "stopped", "done"}

LifecycleTypeOK == /\ phase \in Phases
                   /\ admitted \in BOOLEAN
                   /\ frontier \in ChatTurns \cup {None}
                   /\ op \in [kind : {"none", "load", "unload"}, at : Points, saw : ChatTurns \cup {None}]
                   /\ query \in [at : {"idle", "asked", "replied"}, fresh : BOOLEAN,
                                 resident : BOOLEAN, saved : ChatTurns \cup {None}]
                   /\ hold \in BOOLEAN
                   /\ Range(line) \subseteq ChatTurns \cup {"op", "stopper"} /\ IsInjective(line)
                   /\ Range(writer) \subseteq ChatTurns \cup {"op", "stopper"} /\ IsInjective(writer)
                   /\ turn \in [ChatTurns -> TurnPoints]
                   /\ retained \subseteq ChatTurns
                   /\ resident \in BOOLEAN
                   /\ saved \in ChatTurns \cup {None}
                   /\ asked \subseteq ChatTurns
                   /\ committed \subseteq ChatTurns
                   /\ Range(replies) \subseteq ChatTurns \cup {"op", "status", "stopper"} /\ IsInjective(replies)
                   /\ closing \in BOOLEAN
                   /\ deaths \in 0..MaxDeaths

NoOp == [kind |-> "none", at |-> "-", saw |-> None]
NoQuery == [at |-> "idle", fresh |-> FALSE, resident |-> FALSE, saved |-> None]

(* A turn may have been saved by an earlier session. *)
LifecycleInit == /\ phase = "unloaded" /\ admitted = FALSE /\ frontier = None
                 /\ op = NoOp /\ query = NoQuery
                 /\ hold = FALSE /\ line = <<>> /\ writer = <<>>
                 /\ turn = [t \in ChatTurns |-> "idle"] /\ retained = {}
                 /\ resident = FALSE /\ saved \in ChatTurns \cup {None} /\ asked = {} /\ committed = {}
                 /\ replies = <<>> /\ closing = FALSE /\ deaths = 0
-----------------------------------------------------------------------------
(* canRun(): of a loaded brain with a saved turn, only that turn runs. *)
RunnableIn(p, a, f, t) == a /\ p = "loaded" /\ f \in {None, t}

IsLoaded == admitted /\ phase = "loaded"
CanRun(t) == RunnableIn(phase, admitted, frontier, t)
CanRunAny == IsLoaded /\ frontier = None

Holder(x) == writer # <<>> /\ Head(writer) = x
Left(x) == SelectSeq(writer, LAMBDA y : y # x)

(* instanceDispatchHeld(): of this module's requests only "chat" is not     *)
(* exempt; it gives up the slot while it is held.                            *)
Held(x) == hold /\ x \in ChatTurns \ retained /\ turn[x] = "submitted"

(* The serial engine serves x now. *)
Served(x) == /\ \E i \in DOMAIN line : /\ line[i] = x /\ ~Held(x)
                                       /\ \A j \in 1..i - 1 : Held(line[j])
             /\ \A t \in ChatTurns : turn[t] \notin {"running", "answering"}
             /\ ~closing
Enqueue(x) == line' = Append(line, x) /\ UNCHANGED hold
Dequeue(x) == line' = SelectSeq(line, LAMBDA y : y # x) /\ UNCHANGED hold

(* The worker writes its replies to one stream, which the host reads in order. *)
Reply(x) == /\ ~closing
            /\ replies' = Append(replies, x)
            /\ UNCHANGED <<closing, deaths>>
Read(x) == /\ replies # <<>> /\ Head(replies) = x
           /\ replies' = Tail(replies)
           /\ UNCHANGED <<closing, deaths>>

(* update(): every patch of the state raises its revision. *)
Update(p, a, f) == /\ phase' = p /\ admitted' = a /\ frontier' = f
                   /\ query' = [query EXCEPT !.fresh = FALSE]

(* The waiters that may run now join the writer queue. *)
Wake(p, a, f, points, queue) ==
  LET woken == {t \in ChatTurns : points[t] = "parked" /\ RunnableIn(p, a, f, t)}
  IN  /\ turn' = [t \in ChatTurns |-> IF t \in woken THEN "lining" ELSE points[t]]
      /\ \E s \in SetToSeqs(woken) : writer' = queue \o s

(* Variants for mutation: the hold outlives the saved turn; nobody is woken. *)
CompletedKeepsHold(points, queue) ==
  /\ Update(phase, admitted, None)
  /\ Wake(phase, admitted, None, points, queue)
  /\ UNCHANGED engine

CompletedSilently(points, queue) ==
  /\ Update(phase, admitted, None)
  /\ turn' = points /\ writer' = queue
  /\ hold' = (hold /\ ~IsLoaded) /\ UNCHANGED line

(* completed(): no saved turn any more; release the hold if work may run. *)
Completed(points, queue) == /\ Update(phase, admitted, None)
                            /\ Wake(phase, admitted, None, points, queue)
                            /\ hold' = (hold /\ ~IsLoaded) /\ UNCHANGED line

Goto(point) == op' = [op EXCEPT !.at = point]
At(kind, point) == op.kind = kind /\ op.at = point
-----------------------------------------------------------------------------
(* Chat turns *)

(* chat(): enter the loop, with a new turn or one that is sent again; a turn *)
(* that is saved comes with its frontier.                                    *)
Send(t) == /\ turn[t] \in {"idle", "done"}
           /\ retained' = IF saved = t THEN retained \cup {t} ELSE retained \ {t}
           /\ IF CanRun(t)
              THEN turn' = [turn EXCEPT ![t] = "lining"] /\ writer' = Append(writer, t)
              ELSE turn' = [turn EXCEPT ![t] = "parked"] /\ UNCHANGED writer
           /\ UNCHANGED <<host, op, engine, native, worker>>

(* The brain's writer is ours: prepare the request, or go back to waiting. *)
EnterWriter(t) == /\ turn[t] = "lining"
                  /\ Holder(t)
                  /\ IF IsLoaded
                     THEN turn' = [turn EXCEPT ![t] = "preparing"] /\ UNCHANGED writer
                     ELSE turn' = [turn EXCEPT ![t] = "parked"] /\ writer' = Left(t)
                  /\ UNCHANGED <<host, op, engine, retained, native, worker>>

(* The last await before requestStream. *)
Submit(t) == /\ turn[t] = "preparing"
             /\ turn' = [turn EXCEPT ![t] = "submitted"]
             /\ Enqueue(t)
             /\ UNCHANGED <<host, op, writer, retained, native, worker>>

(* Variant for mutation: no receipt is consulted. *)
EnteredAgain(t) == "running"

(* Where a turn enters the worker: one it has a receipt of is only answered. *)
Entered(t) == IF t \in committed THEN "answering" ELSE "running"

(* The engine reports "running" unless the brain's dispatch is held; only   *)
(* resume_chat is exempt.  A worker without the runtime refuses the chat.   *)
Dispatch(t) == /\ turn[t] = "submitted"
               /\ Served(t)
               /\ Dequeue(t)
               /\ IF resident /\ (t \in retained => saved = t)
                  THEN turn' = [turn EXCEPT ![t] = Entered(t)] /\ UNCHANGED writer
                  ELSE turn' = [turn EXCEPT ![t] = "reconciling"] /\ writer' = Left(t)
               /\ UNCHANGED <<host, op, retained, native, worker>>

(* The worker commits the turn with its receipt ... *)
NativeCommit(t) == /\ turn[t] = "running"
                   /\ turn' = [turn EXCEPT ![t] = "answering"]
                   /\ committed' = committed \cup {t}
                   /\ asked' = asked \ {t}
                   /\ UNCHANGED <<host, op, engine, writer, retained, resident, saved, worker>>

(* ... and then closes the checkpoint it resumed and answers; if it cannot  *)
(* close it, the request fails although the turn is committed ...            *)
NativeFinish(t) == /\ turn[t] = "answering"
                   /\ Reply(t)
                   /\ turn' = [turn EXCEPT ![t] = "finished"]
                   /\ saved' = IF t \in retained THEN None ELSE saved
                   /\ UNCHANGED <<host, op, engine, writer, retained, resident, asked, committed>>

FinishFaulted(t) == /\ turn[t] = "answering" /\ t \in retained
                    /\ ~closing
                    /\ deaths < MaxDeaths /\ deaths' = deaths + 1
                    /\ turn' = [turn EXCEPT ![t] = "reconciling"] /\ writer' = Left(t)
                    /\ UNCHANGED <<host, op, engine, retained, native, replies, closing>>

(* ... or, asked to, saves it at a boundary. *)
NativePause(t) == /\ turn[t] = "running"
                  /\ Reply(t)
                  /\ t \in asked
                  /\ turn' = [turn EXCEPT ![t] = "paused"]
                  /\ saved' = t
                  /\ asked' = asked \ {t}
                  /\ UNCHANGED <<host, op, engine, writer, retained, resident, committed>>

(* The reply reaches the host, which leaves the writer. *)
Finished(t) == /\ turn[t] = "finished"
               /\ Read(t)
               /\ Completed([turn EXCEPT ![t] = "done"], Left(t))
               /\ UNCHANGED <<op, retained, native>>

(* A suspended turn: noteFrontier(), then wait for the Load. *)
Paused(t) == /\ turn[t] = "paused"
             /\ Read(t)
             /\ retained' = retained \cup {t}
             /\ turn' = [turn EXCEPT ![t] = "parked"] /\ writer' = Left(t)
             /\ Update(phase, FALSE, t)
             /\ UNCHANGED <<op, engine, native>>

(* reconcileCommittedChat() after a failed request. *)
Reconcile(t) == /\ turn[t] = "reconciling"
                /\ IF t \in committed
                   THEN Completed([turn EXCEPT ![t] = "done"], writer)
                   ELSE /\ turn' = [turn EXCEPT ![t] = "done"]
                        /\ UNCHANGED <<host, engine, writer>>
                /\ UNCHANGED <<op, retained, native, worker>>

(* Stop aborts a turn that is not dispatched; one with a saved frontier     *)
(* must also bury that.                                                     *)
Stop(t) == /\ turn[t] \in {"parked", "lining", "preparing", "submitted"}
           /\ turn' = [turn EXCEPT ![t] = IF t \in retained THEN "stopping" ELSE "done"]
           /\ writer' = Left(t)
           /\ LET others == SelectSeq(line, LAMBDA y : y # t)
              IN  line' = IF t \in retained THEN Append(others, t) ELSE others
           /\ UNCHANGED <<host, op, hold, retained, native, worker>>

(* stop_suspended_chat: an exact tombstone, or a refusal. *)
NativeStop(t) == /\ turn[t] = "stopping"
                 /\ saved = t
                 /\ Served(t) /\ Dequeue(t)
                 /\ Reply(t)
                 /\ turn' = [turn EXCEPT ![t] = "stopped"]
                 /\ saved' = None
                 /\ UNCHANGED <<host, op, writer, retained, resident, asked, committed>>

StopRefused(t) == /\ turn[t] = "stopping"
                  /\ saved # t
                  /\ Served(t) /\ Dequeue(t)
                  /\ turn' = [turn EXCEPT ![t] = "done"]
                  /\ UNCHANGED <<host, op, writer, retained, native, worker>>

(* Variant for mutation: the tombstone is not told to the controller. *)
StoppedForgotten(t) == /\ turn[t] = "stopped"
                       /\ Read(t)
                       /\ turn' = [turn EXCEPT ![t] = "done"]
                       /\ UNCHANGED <<host, op, engine, writer, retained, native>>

Stopped(t) == /\ turn[t] = "stopped"
              /\ Read(t)
              /\ Completed([turn EXCEPT ![t] = "done"], writer)
              /\ UNCHANGED <<op, retained, native>>

(* stopSavedTurn(): the same for a turn no live chat owns, as a writer. *)
StopSavedCalled == /\ "stopper" \notin Range(writer)
                   /\ saved # None /\ turn[saved] \in {"idle", "done"}
                   /\ writer' = Append(writer, "stopper")
                   /\ UNCHANGED <<host, op, engine, turn, retained, native, worker>>

StopSavedTurn == /\ Holder("stopper")
                 /\ "stopper" \notin Range(line) \cup Range(replies)
                 /\ saved # None
                 /\ Enqueue("stopper")
                 /\ UNCHANGED <<host, op, writer, turn, retained, native, worker>>

NativeStopSaved == /\ saved # None
                   /\ Served("stopper") /\ Dequeue("stopper")
                   /\ Reply("stopper")
                   /\ saved' = None
                   /\ UNCHANGED <<host, op, writer, turn, retained, resident, asked, committed>>

StopSavedAcked == /\ Read("stopper")
                  /\ Completed(turn, Left("stopper"))
                  /\ UNCHANGED <<op, retained, native>>

(* The frontier has changed. *)
StopSavedRefused == /\ Holder("stopper")
                    /\ "stopper" \notin Range(replies)
                    /\ saved = None
                    /\ Dequeue("stopper")
                    /\ writer' = Left("stopper")
                    /\ UNCHANGED <<host, op, turn, retained, native, worker>>
-----------------------------------------------------------------------------
(* Load *)

Load == /\ op.kind = "none"
        /\ op' = [kind |-> "load", at |-> "inspecting", saw |-> None]
        /\ Update("checking", admitted, frontier)
        /\ UNCHANGED <<engine, writer, turn, retained, native, worker>>

NativeInspect == /\ At("load", "inspecting")
                 /\ Reply("op")
                 /\ op' = [op EXCEPT !.at = "inspected", !.saw = saved]
                 /\ UNCHANGED <<host, engine, writer, turn, retained, native>>

(* The saved shape fits: queue for the writer ... *)
LoadFits == /\ At("load", "inspected")
            /\ Read("op")
            /\ Goto("lining")
            /\ Update("loading", admitted, op.saw)
            /\ writer' = Append(writer, "op")
            /\ UNCHANGED <<engine, turn, retained, native>>

(* ... or it does not. *)
LoadRefused == /\ At("load", "inspected")
               /\ Read("op")
               /\ op' = NoOp
               /\ Update(IF op.saw # None THEN "suspended" ELSE "unloaded", admitted, op.saw)
               /\ UNCHANGED <<engine, writer, turn, retained, native>>

(* The writer is ours: preflight, then the load request. *)
LoadTurn == /\ At("load", "lining")
            /\ Holder("op")
            /\ Goto("loading")
            /\ Enqueue("op")
            /\ UNCHANGED <<host, writer, turn, retained, native, worker>>

NativeLoad == /\ At("load", "loading")
              /\ Served("op") /\ Dequeue("op")
              /\ Goto("verifying")
              /\ resident' = TRUE
              /\ writer' = Left("op")
              /\ UNCHANGED <<host, turn, retained, saved, asked, committed, worker>>

(* The second inspection; a runtime that is not resident fails the load. *)
NativeVerify == /\ At("load", "verifying")
                /\ resident
                /\ Reply("op")
                /\ op' = [op EXCEPT !.at = "verified", !.saw = saved]
                /\ UNCHANGED <<host, engine, writer, turn, retained, native>>

Loaded == /\ At("load", "verified")
          /\ Read("op")
          /\ op' = NoOp
          /\ Update("loaded", TRUE, op.saw)
          /\ Wake("loaded", TRUE, op.saw, turn, writer)
          /\ hold' = (hold /\ op.saw # None) /\ UNCHANGED line
          /\ UNCHANGED <<retained, native>>
-----------------------------------------------------------------------------
(* Unload *)

(* unload() and the first line of suspendInstanceRuntime, in one run. *)
Unload == /\ op.kind = "none"
          /\ op' = [kind |-> "unload", at |-> "scanning", saw |-> None]
          /\ Update("suspending", FALSE, frontier)
          /\ hold' = TRUE
          /\ UNCHANGED <<line, writer, turn, retained, native, worker>>

DispatchedTurns == {t \in ChatTurns : turn[t] \in {"running", "answering", "finished", "paused"}}

(* suspend_chat for the dispatched turn; wait for it if the worker agreed. *)
AskSuspension(t) == /\ At("unload", "scanning")
                    /\ t \in DispatchedTurns
                    /\ ~closing
                    /\ IF turn[t] = "running"
                       THEN asked' = asked \cup {t} /\ Goto("boundary") /\ UNCHANGED writer
                       ELSE Goto("lining") /\ writer' = Append(writer, "op") /\ UNCHANGED asked
                    /\ UNCHANGED <<host, engine, turn, retained, resident, saved, committed, worker>>

(* Variant for mutation: only a pause counts as the boundary. *)
BoundaryOnlyPaused == /\ op.kind = "unload"
                      /\ DispatchedTurns = {}
                      /\ \/ op.at = "scanning"
                         \/ op.at = "boundary" /\ saved # None
                      /\ Goto("lining")
                      /\ writer' = Append(writer, "op")
                      /\ UNCHANGED <<host, engine, turn, retained, native, worker>>

(* Nothing dispatched, or no longer: queue for the writer. *)
BoundaryReached == /\ op.kind = "unload" /\ op.at \in {"scanning", "boundary"}
                   /\ DispatchedTurns = {}
                   /\ Goto("lining")
                   /\ writer' = Append(writer, "op")
                   /\ UNCHANGED <<host, engine, turn, retained, native, worker>>

UnloadTurn == /\ At("unload", "lining")
              /\ Holder("op")
              /\ Goto("releasing")
              /\ Enqueue("op")
              /\ UNCHANGED <<host, writer, turn, retained, native, worker>>

(* suspend_instance releases the runtime, or reports what it waits for. *)
NativeRelease == /\ At("unload", "releasing")
                 /\ Served("op") /\ Dequeue("op")
                 /\ Reply("op")
                 /\ \/ op' = [op EXCEPT !.at = "released", !.saw = saved] /\ resident' = FALSE
                    \/ op' = [op EXCEPT !.at = "unreleased", !.saw = saved] /\ UNCHANGED resident
                 /\ UNCHANGED <<host, writer, turn, retained, saved, asked, committed>>

Unloaded == /\ At("unload", "released")
            /\ Read("op")
            /\ op' = NoOp
            /\ Update(IF op.saw # None THEN "suspended" ELSE "unloaded", admitted, op.saw)
            /\ writer' = Left("op")
            /\ UNCHANGED <<engine, turn, retained, native>>

NotUnloaded == /\ At("unload", "unreleased")
               /\ Read("op")
               /\ op' = NoOp
               /\ Update("suspending", admitted, op.saw)
               /\ writer' = Left("op")
               /\ UNCHANGED <<engine, turn, retained, native>>

(* A request of the operation fails by itself ... *)
OpFaulted == /\ op.at \in {"inspecting", "loading", "verifying", "scanning", "releasing"}
             /\ Goto("failed")
             /\ Dequeue("op")
             /\ UNCHANGED <<host, writer, turn, retained, native, worker>>

(* ... and its catch block; only load() withdraws the admission there. *)
OpFailed == /\ op.at = "failed"
            /\ op' = NoOp
            /\ Update("error", admitted /\ op.kind = "unload", frontier)
            /\ writer' = Left("op")
            /\ UNCHANGED <<engine, turn, retained, native, worker>>
-----------------------------------------------------------------------------
(* status(), and the death of the worker *)

StatusAsked == /\ query.at = "idle"
               /\ op.kind = "none"
               /\ query' = [query EXCEPT !.at = "asked", !.fresh = TRUE]
               /\ UNCHANGED <<phase, admitted, frontier, op, engine, writer, turn, retained,
                              native, worker>>

NativeStatus == /\ query.at = "asked"
                /\ Reply("status")
                /\ query' = [query EXCEPT !.at = "replied", !.resident = resident, !.saved = saved]
                /\ UNCHANGED <<phase, admitted, frontier, op, engine, writer, turn, retained, native>>

PhaseOf(q, a) == IF a /\ phase = "loaded" THEN "loaded"
                 ELSE IF q.resident /\ phase = "suspending" THEN "suspending"
                 ELSE IF q.saved # None /\ ~q.resident THEN "suspended" ELSE "unloaded"

(* The reply of an untouched state is applied ... *)
StatusApplied ==
  LET a == admitted /\ query.resident
      p == PhaseOf(query, a)
  IN  /\ query.at = "replied" /\ query.fresh /\ op.kind = "none" /\ Read("status")
      /\ phase' = p /\ admitted' = a /\ frontier' = query.saved
      /\ query' = NoQuery
      /\ Wake(p, a, query.saved, turn, writer)
      /\ hold' = (hold /\ ~(frontier # None /\ RunnableIn(p, a, query.saved, None)))
      /\ UNCHANGED line
      /\ UNCHANGED <<op, retained, native>>

(* ... and any other is dropped. *)
StatusStale == /\ query.at = "replied" /\ Read("status") /\ (~query.fresh \/ op.kind # "none")
               /\ query' = NoQuery
               /\ UNCHANGED <<phase, admitted, frontier, op, engine, writer, turn, retained,
                              native>>

(* The worker process exits; replies it has sent may still be read. *)
WorkerDies == /\ deaths < MaxDeaths
              /\ ~closing
              /\ closing' = TRUE /\ deaths' = deaths + 1
              /\ resident' = FALSE /\ asked' = {}
              /\ UNCHANGED <<host, op, engine, writer, turn, retained, saved, committed, replies>>

(* What the close event does to the requests in progress: those whose       *)
(* replies were pending, and the queued one if it was just being sent.       *)
InNative == {t \in ChatTurns : turn[t] \in {"running", "answering", "finished", "paused", "stopped"}}
                \cup (Range(replies) \ {"status"})
Rejected(lost) ==
  /\ turn' = [t \in ChatTurns |-> IF t \notin lost THEN turn[t]
                                  ELSE IF turn[t] \in {"stopping", "stopped"} THEN "done"
                                  ELSE "reconciling"]
  /\ writer' = SelectSeq(writer, LAMBDA x : x \notin lost \/ x = "op")
  /\ line' = SelectSeq(line, LAMBDA x : x \notin lost)
  /\ replies' = <<>>
  /\ op' = IF "op" \in lost \/ op.at \in {"inspecting", "verifying"}
           THEN [op EXCEPT !.at = "failed"] ELSE op
RequestsRejected ==
  \/ Rejected(InNative)
  \/ \E i \in DOMAIN line : /\ ~Held(line[i]) /\ \A j \in 1..i - 1 : Held(line[j])
                            /\ Rejected(InNative \cup {line[i]})

WorkerClosed == /\ closing
                /\ closing' = FALSE
                /\ RequestsRejected
                /\ phase' = "unloaded" /\ admitted' = FALSE /\ frontier' = frontier
                /\ query' = NoQuery
                /\ UNCHANGED <<hold, retained, native, deaths>>
-----------------------------------------------------------------------------
TurnStep(t) == \/ EnterWriter(t) \/ Submit(t) \/ Dispatch(t)
               \/ NativeCommit(t) \/ NativeFinish(t) \/ NativePause(t) \/ Finished(t) \/ Paused(t)
               \/ Reconcile(t) \/ NativeStop(t) \/ StopRefused(t) \/ Stopped(t)

OpStep == \/ NativeInspect \/ LoadFits \/ LoadRefused \/ LoadTurn \/ NativeLoad \/ NativeVerify \/ Loaded
          \/ \E t \in ChatTurns : AskSuspension(t)
          \/ BoundaryReached \/ UnloadTurn \/ NativeRelease \/ Unloaded \/ NotUnloaded
          \/ OpFailed

StopperStep == StopSavedTurn \/ NativeStopSaved \/ StopSavedAcked \/ StopSavedRefused

StatusStep == NativeStatus \/ StatusApplied \/ StatusStale

LifecycleNext == \/ \E t \in ChatTurns : Send(t) \/ TurnStep(t) \/ Stop(t) \/ FinishFaulted(t)
                 \/ StopSavedCalled \/ StopperStep
                 \/ Load \/ Unload \/ OpStep \/ OpFaulted
                 \/ StatusAsked \/ StatusStep
                 \/ WorkerDies \/ WorkerClosed

LifecycleSpec == LifecycleInit /\ [][LifecycleNext]_lifecycleVars

(* Promises, replies and events arrive; the worker finishes what it started. *)
(* Nobody has to send, stop, load, unload, ask or die.                       *)
FairSpec == /\ LifecycleSpec
            /\ \A t \in ChatTurns : WF_lifecycleVars(TurnStep(t))
            /\ WF_lifecycleVars(StopperStep) /\ WF_lifecycleVars(OpStep)
            /\ WF_lifecycleVars(StatusStep) /\ WF_lifecycleVars(WorkerClosed)
-----------------------------------------------------------------------------
(* A committed turn is neither executed nor suspended again, whatever Unload, *)
(* death or Stop it was caught in, whichever chat() sends it again, and       *)
(* although a death between the commit and the end of its checkpoint leaves a *)
(* saved frontier of it (worker_lifecycle.py:234-245, 265-268,                *)
(* brainService.ts:6605-6682).                                                *)
CommittedOnce == \A t \in committed : turn[t] \notin {"running", "paused"}

(* Nobody is left waiting for what has already happened: every change that    *)
(* lets a turn run tells its waiter, and the engine's hold never outlives its *)
(* reason (instanceLifecycleController.ts:140-145, 180-190, 204).            *)
NothingStranded == /\ \A t \in ChatTurns : turn[t] = "parked" => ~CanRun(t)
                   /\ CanRunAny => ~hold

(* No reply about the frontier is on its way to the host. *)
Settled == ~closing /\ Range(replies) \subseteq {"op", "status"}

(* What the host believes of a loaded brain is so in the worker, up to the    *)
(* close event of one that just died: the brain is in its memory, and no turn *)
(* is waited for that was completed or buried, whichever inspection is        *)
(* applied last (instanceLifecycleController.ts:87-100, 200-211).            *)
HostViewIsTrue == IsLoaded => /\ resident \/ closing
                              /\ Settled /\ frontier # None => frontier = saved

(* "Load gives the retained turn priority over other queued learning, which  *)
(* cannot invalidate its checkpoint" (docs/v2/instance-lifecycle.md:71-73):  *)
(* no other turn is executed while a suspended frontier is saved.            *)
RetainedTurnFirst == \A t \in ChatTurns : turn[t] = "running" => saved \in {None, t}

(* "suspend_instance must acknowledge release before the host reports        *)
(* unloaded" (docs/v2/instance-lifecycle.md:68-69).                          *)
ReportedUnloadedIsReleased == phase \in {"unloaded", "suspended"} => ~resident

(* A chat holds the brain's writer and stays in the engine's queue, held.     *)
ChatHeldBack == \E t \in ChatTurns : Holder(t) /\ Held(t)

(* Every Load and Unload returns, unless a chat is held back for ever with the *)
(* brain's writer, which only the user's Stop ends: nothing else of chats,     *)
(* Load, Unload, Stop and deaths makes them wait for each other                *)
(* (brainService.ts:4519-4548, instanceLifecycleController.ts:116-179).        *)
OperationsSettle == (op.kind # "none" ~> op.kind = "none") \/ <>[]ChatHeldBack

(* The same without the exception, which the code does not ensure: an Unload   *)
(* that begins between Submit and Dispatch of a chat waits for the writer that *)
(* the chat holds, and the chat for a Load that waits for the Unload.          *)
EveryOperationReturns == op.kind # "none" ~> op.kind = "none"
=============================================================================
