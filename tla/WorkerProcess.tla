--------------------------- MODULE WorkerProcess ---------------------------
(***************************************************************************)
(* src/src/main/engineSupervisor.ts, the child-process half: starting the   *)
(* supervised Python worker from a list of launch candidates, terminating   *)
(* it with escalation, and settling every pending RPC of a worker           *)
(* generation.                                                              *)
(*                                                                         *)
(* JavaScript runs to completion: a resolved await continues in a microtask *)
(* before the next process event, timer or outside call is delivered.  The  *)
(* events of the environment are therefore guarded by Calm.                 *)
(*                                                                         *)
(* The host's own computations in the worker's slot (start() waits for their *)
(* reservations, stop() aborts and awaits them) and the inspection worker    *)
(* that stop() also stops are left out; EngineRequests.tla has the former.   *)
(***************************************************************************)
EXTENDS Integers, FiniteSets

CONSTANTS Gens,        \* worker generations: the ChildProcess objects ever made
          Callers,     \* calls of start(), request() or interruptAndRestart()
          Candidates,  \* number of launch candidates workerCandidates finds
          None

ASSUME GensAssumption == Gens \subseteq Nat /\ None \notin Gens
ASSUME CandidatesAssumption == Candidates \in Nat \ {0}

Starter == "startCandidates"     \* the single flight behind this.starting
Stopper == "stop"                \* one call of stop()
Procs == Callers \cup {Starter, Stopper}
ASSUME CallersAssumption == Callers \cap {Starter, Stopper} = {}

VARIABLES os,        \* what is known of the generation's OS process
          bySignal,  \* it died from a signal: child.exitCode stays null
          killed,    \* child.killed: a signal was sent
          closed,    \* its lifecycle has settled (stdio closed or forced)
          term,      \* its terminateChild operation
          child,     \* this.child
          unack,     \* this.unacknowledgedChild
          left,      \* launch candidates startCandidates has not tried
          stopping,  \* this.stopping
          quiet,     \* history: no call was made since stop() was called
          pc, at     \* control point of each process, generation it waits on

vars == <<os, bySignal, killed, closed, term, child, unack, left, stopping, quiet, pc, at>>
gvars == <<os, bySignal, killed, closed, term, child, unack>>

OsState == {"unborn", "spawning", "alive", "exited"}
TermState == {"no", "soft", "hard", "ok", "failed"}
PcState == {"off", "term1", "closed", "term2", "starting", "ready", "pending", "rejected",
            "killing", "interrupting", "spawning", "cleanup", "ending",
            "replied", "unavailable", "cancelled", "unacknowledged", "stopped", "failed"}

TypeOK == /\ os \in [Gens -> OsState]
          /\ bySignal \in [Gens -> BOOLEAN]
          /\ killed \in [Gens -> BOOLEAN]
          /\ closed \in [Gens -> BOOLEAN]
          /\ term \in [Gens -> TermState]
          /\ child \in Gens \cup {None}
          /\ unack \in Gens \cup {None}
          /\ left \in 0..Candidates
          /\ stopping \in BOOLEAN
          /\ quiet \in BOOLEAN
          /\ pc \in [Procs -> PcState]
          /\ at \in [Procs -> Gens \cup {None}]

Init == /\ os = [g \in Gens |-> "unborn"]
        /\ bySignal = [g \in Gens |-> FALSE]
        /\ killed = [g \in Gens |-> FALSE]
        /\ closed = [g \in Gens |-> FALSE]
        /\ term = [g \in Gens |-> "no"]
        /\ child = None
        /\ unack = None
        /\ left = 0
        /\ stopping = FALSE
        /\ quiet = FALSE
        /\ pc = [p \in Procs |-> "off"]
        /\ at = [p \in Procs |-> None]
-----------------------------------------------------------------------------
(* this.terminating is the operation of the one generation being ended. *)
Ending == {g \in Gens : term[g] \in {"soft", "hard"}}
Terminating == Ending # {}

TerminationSettled(p) == at[p] # None => term[at[p]] \in {"ok", "failed"}
TerminationFailed(p) == at[p] # None /\ term[at[p]] = "failed"

(* !child.killed && child.exitCode === null, which start() takes for alive. *)
LooksAlive(g) == ~killed[g] /\ (os[g] = "exited" => bySignal[g])

(* A process with a continuation in the microtask queue. *)
Runnable(p) ==
  \/ pc[p] \in {"term1", "term2", "killing", "interrupting", "cleanup", "ending"} /\ TerminationSettled(p)
  \/ pc[p] = "closed" /\ closed[at[p]]
  \/ pc[p] = "ready"
  \/ pc[p] = "rejected" /\ p \in {Starter, Stopper}

Calm == \A p \in Procs : ~Runnable(p)

(* rejectPendingForChild: every RPC that generation g still owes fails. *)
Rejected(f, a, g) == [p \in Procs |-> IF f[p] = "pending" /\ a[p] = g THEN "rejected" ELSE f[p]]

(* What terminateChild() makes its caller wait for: the operation already in  *)
(* flight, a new one for this.child, or nothing.                              *)
TermTarget == IF Terminating THEN CHOOSE g \in Ending : TRUE ELSE child

(* terminateChild(), synchronous part, while the caller moves to f and a. *)
Terminate(f, a) ==
  /\ IF ~Terminating /\ child # None
     THEN /\ child' = None
          /\ term' = [term EXCEPT ![child] = "soft"]
          /\ killed' = [killed EXCEPT ![child] = @ \/ os[child] = "alive"]
          /\ pc' = Rejected(f, a, child)
     ELSE pc' = f /\ UNCHANGED <<child, term, killed>>
  /\ at' = a
  /\ UNCHANGED <<os, bySignal, closed, unack, left>>

Goto(p, label) == pc' = [pc EXCEPT ![p] = label]
Move(label, p) == [pc EXCEPT ![p] = label]
Await(g, p) == [at EXCEPT ![p] = g]
-----------------------------------------------------------------------------
(* spawnCandidate: a new ChildProcess, or none when spawning cannot succeed. *)
Unborn == {g \in Gens : os[g] = "unborn"}
NextGen == IF Unborn = {} THEN None ELSE CHOOSE g \in Unborn : \A h \in Unborn : g <= h

Spawn(f) == /\ pc' = [f EXCEPT ![Starter] = "spawning"]
            /\ at' = [at EXCEPT ![Starter] = NextGen]
            /\ os' = IF NextGen = None THEN os ELSE [os EXCEPT ![NextGen] = "spawning"]

(* start() from its second await on: join the single flight or begin it. *)
JoinStart(c) ==
  IF child # None /\ LooksAlive(child)
  THEN Goto(c, "ready") /\ UNCHANGED <<gvars, left, at>>
  ELSE IF pc[Starter] # "off"
  THEN Goto(c, "starting") /\ UNCHANGED <<gvars, left, at>>
  ELSE /\ Spawn(Move("starting", c))
       /\ left' = Candidates - 1
       /\ UNCHANGED <<bySignal, killed, closed, term, child, unack>>

AfterClosed(c) == IF Terminating
                  THEN Goto(c, "term2") /\ at' = Await(TermTarget, c) /\ UNCHANGED <<gvars, left>>
                  ELSE JoinStart(c)

(* Variant for mutation: start beside an unacknowledged process. *)
AfterTermUnchecked(c) ==
  IF child # None /\ LooksAlive(child)
  THEN Goto(c, "ready") /\ UNCHANGED <<gvars, left, at>>
  ELSE IF child # None
  THEN Goto(c, "closed") /\ at' = Await(child, c) /\ UNCHANGED <<gvars, left>>
  ELSE AfterClosed(c)

(* start() after the first wait: refuse to start beside a process that never  *)
(* acknowledged its termination, reuse a live child, wait out a dead one.     *)
AfterTerm(c) ==
  IF unack # None /\ os[unack] # "exited"
  THEN Goto(c, "unacknowledged") /\ UNCHANGED <<gvars, left, at>>
  ELSE IF child # None /\ LooksAlive(child)
  THEN Goto(c, "ready") /\ unack' = None
       /\ UNCHANGED <<os, bySignal, killed, closed, term, child, left, at>>
  ELSE IF child # None
  THEN Goto(c, "closed") /\ at' = Await(child, c) /\ unack' = None
       /\ UNCHANGED <<os, bySignal, killed, closed, term, child, left>>
  ELSE AfterClosed(c)

StartCall(c) == IF Terminating
                THEN Goto(c, "term1") /\ at' = Await(TermTarget, c) /\ UNCHANGED <<gvars, left>>
                ELSE AfterTerm(c)

(* request() or start() is called. *)
CallStart(c) == /\ Calm
                /\ pc[c] = "off"
                /\ StartCall(c)
                /\ quiet' = FALSE
                /\ UNCHANGED stopping

(* The continuations of start(). *)
ContinueStart(c) == /\ Runnable(c)
                    /\ \/ /\ pc[c] = "term1"
                          /\ IF TerminationFailed(c)
                             THEN Goto(c, "failed") /\ UNCHANGED <<gvars, left, at>>
                             ELSE AfterTerm(c)
                       \/ pc[c] = "closed" /\ AfterClosed(c)
                       \/ /\ pc[c] = "term2"
                          /\ IF TerminationFailed(c)
                             THEN Goto(c, "failed") /\ UNCHANGED <<gvars, left, at>>
                             ELSE JoinStart(c)
                    /\ UNCHANGED <<stopping, quiet>>

(* rawRequest: write to the child, or refuse when it is not writable. *)
Dispatch(c) == /\ pc[c] = "ready"
               /\ IF child # None /\ os[child] = "alive" /\ ~killed[child]
                  THEN Goto(c, "pending") /\ at' = Await(child, c)
                  ELSE Goto(c, "unavailable") /\ UNCHANGED at
               /\ UNCHANGED <<gvars, left, stopping, quiet>>
-----------------------------------------------------------------------------
(* startCandidates.  Everyone who joined this.starting gets its result.  *)
Settled(f, label) == [p \in Procs |-> IF p = Starter THEN "off"
                                      ELSE IF f[p] = "starting" THEN label ELSE f[p]]

(* The spawn event: supervise the child and send the health handshake. *)
SpawnOk == /\ Calm
           /\ pc[Starter] = "spawning"
           /\ at[Starter] # None
           /\ os' = [os EXCEPT ![at[Starter]] = "alive"]
           /\ child' = at[Starter]
           /\ Goto(Starter, "pending")
           /\ UNCHANGED <<bySignal, killed, closed, term, unack, left, stopping, quiet, at>>

(* The error event before spawn; the candidate is given up. *)
SpawnError == /\ Calm
              /\ pc[Starter] = "spawning"
              /\ os' = IF at[Starter] = None THEN os ELSE [os EXCEPT ![at[Starter]] = "exited"]
              /\ Goto(Starter, "rejected")
              /\ UNCHANGED <<bySignal, killed, closed, term, child, unack, left, stopping, quiet, at>>

HealthOk == /\ Calm
            /\ pc[Starter] = "pending"
            /\ pc' = Settled(pc, "ready")
            /\ UNCHANGED <<gvars, left, stopping, quiet, at>>

(* An error reply, or the 30 s deadline, which also terminates the child. *)
HealthFails == /\ Calm
               /\ pc[Starter] = "pending"
               /\ \/ Goto(Starter, "rejected") /\ UNCHANGED <<gvars, left, at>>
                  \/ Terminate(Move("rejected", Starter), at)
               /\ UNCHANGED <<stopping, quiet>>

(* The catch block: terminate what was launched and wait for it. *)
CandidateFails == /\ pc[Starter] = "rejected"
                  /\ Terminate(Move("cleanup", Starter), Await(TermTarget, Starter))
                  /\ UNCHANGED <<stopping, quiet>>

NextCandidate == /\ pc[Starter] = "cleanup"
                 /\ Runnable(Starter)
                 /\ IF TerminationFailed(Starter) \/ left = 0
                    THEN pc' = Settled(pc, "failed") /\ UNCHANGED <<os, at, left>>
                    ELSE Spawn(pc) /\ left' = left - 1
                 /\ UNCHANGED <<bySignal, killed, closed, term, child, unack, stopping, quiet>>
-----------------------------------------------------------------------------
(* The worker answers a request; only the current child is listened to. *)
Reply(c) == /\ Calm
            /\ pc[c] = "pending"
            /\ Goto(c, "replied")
            /\ UNCHANGED <<gvars, left, stopping, quiet, at>>

(* A request deadline, which ends the worker without waiting for it. *)
Deadline(c) == /\ Calm
               /\ pc[c] = "pending"
               /\ Terminate(Move("failed", c), at)
               /\ UNCHANGED <<stopping, quiet>>

(* Cancellation past its grace: settle only with the termination. *)
ForceCancel(c) == /\ Calm
                  /\ pc[c] = "pending"
                  /\ Terminate(Move("killing", c), Await(TermTarget, c))
                  /\ UNCHANGED <<stopping, quiet>>

CancelSettles(c) == /\ pc[c] = "killing"
                    /\ Runnable(c)
                    /\ Goto(c, IF TerminationFailed(c) THEN "unacknowledged" ELSE "cancelled")
                    /\ UNCHANGED <<gvars, left, stopping, quiet, at>>

(* An oversized protocol line ends the worker. *)
OversizedLine == /\ Calm
                 /\ child # None
                 /\ os[child] = "alive"
                 /\ Terminate(pc, at)
                 /\ UNCHANGED <<stopping, quiet>>

(* interruptAndRestart: foreground work takes the worker from background. *)
CallInterrupt(c) == /\ Calm
                    /\ pc[c] = "off"
                    /\ ~stopping
                    /\ stopping' = TRUE
                    /\ quiet' = FALSE
                    /\ Terminate(Move("interrupting", c), Await(TermTarget, c))

InterruptContinues(c) == /\ pc[c] = "interrupting"
                         /\ Runnable(c)
                         /\ stopping' = FALSE
                         /\ UNCHANGED quiet
                         /\ IF TerminationFailed(c)
                            THEN Goto(c, "failed") /\ UNCHANGED <<gvars, left, at>>
                            ELSE StartCall(c)

(* stop(): ask the worker to shut down, then terminate it. *)
CallStop == /\ Calm
            /\ pc[Stopper] = "off"
            /\ quiet' = TRUE
            /\ stopping' = TRUE
            /\ \/ /\ stopping
                  /\ Goto(Stopper, "stopped")
                  /\ UNCHANGED <<gvars, left, at>>
               \/ /\ ~stopping
                  /\ child # None /\ os[child] = "alive" /\ ~killed[child]
                  /\ Goto(Stopper, "pending")
                  /\ at' = Await(child, Stopper)
                  /\ UNCHANGED <<gvars, left>>
               \/ /\ ~stopping
                  /\ ~(child # None /\ os[child] = "alive" /\ ~killed[child])
                  /\ Goto(Stopper, "rejected")
                  /\ UNCHANGED <<gvars, left, at>>

ShutdownAnswered == /\ Calm
                    /\ pc[Stopper] = "pending"
                    /\ Goto(Stopper, "rejected")
                    /\ UNCHANGED <<gvars, left, stopping, quiet, at>>

StopTerminates == /\ pc[Stopper] = "rejected"
                  /\ Terminate(Move("ending", Stopper), Await(TermTarget, Stopper))
                  /\ UNCHANGED <<stopping, quiet>>

StopReturns == /\ pc[Stopper] = "ending"
               /\ Runnable(Stopper)
               /\ stopping' = FALSE
               /\ UNCHANGED quiet
               /\ Goto(Stopper, IF TerminationFailed(Stopper) THEN "failed" ELSE "stopped")
               /\ UNCHANGED <<gvars, left, at>>
-----------------------------------------------------------------------------
(* Variant for mutation: requests are rejected only when the streams close. *)
ExitKeepsPending(g) == /\ Calm
                       /\ os[g] = "alive"
                       /\ os' = [os EXCEPT ![g] = "exited"]
                       /\ \E s \in BOOLEAN : bySignal' = [bySignal EXCEPT ![g] = s]
                       /\ UNCHANGED <<killed, closed, term, child, unack, left, stopping, quiet, pc, at>>

(* The exit event: this generation's requests are rejected at once. *)
Exit(g) == /\ Calm
           /\ os[g] = "alive"
           /\ os' = [os EXCEPT ![g] = "exited"]
           /\ \E s \in BOOLEAN : bySignal' = [bySignal EXCEPT ![g] = s]
           /\ pc' = Rejected(pc, at, g)
           /\ UNCHANGED <<killed, closed, term, child, unack, left, stopping, quiet, at>>

(* handleClose, also run by the termination that was waiting for it. *)
HandleClose(g) == /\ closed' = [closed EXCEPT ![g] = TRUE]
                  /\ child' = IF child = g THEN None ELSE child
                  /\ pc' = Rejected(pc, at, g)
                  /\ term' = [term EXCEPT ![g] = IF @ \in {"soft", "hard"} THEN "ok" ELSE @]
                  /\ UNCHANGED <<os, bySignal, killed, unack, left, stopping, quiet, at>>

Supervised(g) == os[g] = "exited" /\ (child = g \/ term[g] # "no")

(* The stdio streams close some time after the exit, or never. *)
Close(g) == Calm /\ Supervised(g) /\ ~closed[g] /\ HandleClose(g)

(* Variant for mutation: the timer is armed only by terminateChild(). *)
ForcedCloseOfTerminated(g) ==
  Calm /\ Supervised(g) /\ term[g] # "no" /\ ~closed[g] /\ HandleClose(g)

(* The 3.1 s timer armed by the exit event stands in for a missing close. *)
ForcedClose(g) == Calm /\ Supervised(g) /\ ~closed[g] /\ HandleClose(g)

(* 2 s (250 ms when forced) without a close: SIGKILL. *)
GraceExpires(g) == /\ Calm
                   /\ term[g] = "soft"
                   /\ term' = [term EXCEPT ![g] = "hard"]
                   /\ UNCHANGED <<os, bySignal, killed, closed, child, unack, left, stopping, quiet, pc, at>>

(* Variants for mutation: SIGKILL is taken for an exit; it is waited for    *)
(* without end.                                                            *)
HardKillTrusted(g) == /\ Calm
                      /\ term[g] = "hard"
                      /\ HandleClose(g)

HardKillWaits(g) == /\ Calm
                    /\ term[g] = "hard"
                    /\ os[g] = "exited"
                    /\ HandleClose(g)

(* One more second: finish if the process is gone, give up otherwise. *)
HardKillExpires(g) ==
  /\ Calm
  /\ term[g] = "hard"
  /\ \/ os[g] = "exited" /\ HandleClose(g)
     \/ /\ os[g] # "exited"
        /\ term' = [term EXCEPT ![g] = "failed"]
        /\ unack' = g
        /\ UNCHANGED <<os, bySignal, killed, closed, child, left, stopping, quiet, pc, at>>
-----------------------------------------------------------------------------
Next == \/ \E c \in Callers : \/ CallStart(c) \/ ContinueStart(c) \/ Dispatch(c) \/ Reply(c)
                              \/ Deadline(c) \/ ForceCancel(c) \/ CancelSettles(c)
                              \/ CallInterrupt(c) \/ InterruptContinues(c)
        \/ SpawnOk \/ SpawnError \/ HealthOk \/ HealthFails \/ CandidateFails \/ NextCandidate
        \/ OversizedLine
        \/ CallStop \/ ShutdownAnswered \/ StopTerminates \/ StopReturns
        \/ \E g \in Gens : Exit(g) \/ Close(g) \/ ForcedClose(g) \/ GraceExpires(g) \/ HardKillExpires(g)

Spec == Init /\ [][Next]_vars

(* The continuations in the microtask queue: nothing else happens before them. *)
Microtask == \/ \E c \in Callers : \/ ContinueStart(c) \/ Dispatch(c)
                                   \/ CancelSettles(c) \/ InterruptContinues(c)
             \/ CandidateFails \/ NextCandidate \/ StopTerminates \/ StopReturns

(* Microtasks run, timers fire and a spawn reports back.  Neither the exit of *)
(* a process nor the close of its streams is assumed.                         *)
Fairness == /\ WF_vars(Microtask)
            /\ WF_vars(SpawnOk \/ SpawnError)
            /\ WF_vars(HealthOk \/ HealthFails)
            /\ WF_vars(ShutdownAnswered)
            /\ \A g \in Gens : /\ WF_vars(ForcedClose(g))
                               /\ WF_vars(GraceExpires(g) \/ HardKillExpires(g))

FairSpec == Spec /\ Fairness
-----------------------------------------------------------------------------
Running == {g \in Gens : os[g] \in {"spawning", "alive"}}

(* No replacement is launched beside a worker that has not exited, through   *)
(* every combination of deadline, cancellation, interrupt, stop and a kill   *)
(* nobody acknowledges (engineSupervisor.ts:635-645).                        *)
AtMostOneWorker == \A g, h \in Running : g = h

(* A request waits only on the current, live generation: it never hangs on a *)
(* dead process and never crosses into the replacement                       *)
(* (engineSupervisor.ts:651-655, 793-799).                                   *)
PendingOnCurrentWorker ==
  \A p \in Procs : pc[p] = "pending" => at[p] = child /\ child # None /\ os[child] = "alive"

(* A forced cancellation is reported as such only after the exact process it *)
(* was dispatched to has exited (engineSupervisor.ts:572-577).               *)
CancelledMeansExited == \A c \in Callers : pc[c] = "cancelled" =>
                          at[c] # None /\ os[at[c]] = "exited"

(* start() and stop() settle: neither a worker that ignores its handshake,   *)
(* nor streams that never close, nor a process that cannot be killed blocks   *)
(* a caller, or quitting the application, for ever (engineSupervisor.ts:796,  *)
(* 2123-2141).                                                               *)
InStart(c) == pc[c] \in {"term1", "closed", "term2", "starting", "killing", "interrupting"}
InStop == pc[Stopper] \in {"pending", "rejected", "ending"}
CallsSettle == /\ \A c \in Callers : InStart(c) ~> ~InStart(c)
               /\ InStop ~> pc[Stopper] \in {"stopped", "failed"}

(* A call of start() that reports success has a live worker to dispatch to:  *)
(* an exited one is waited out and replaced (engineSupervisor.ts:651-655,    *)
(* 1373-1377).                                                               *)
SuccessMeansLive == \A c \in Callers : pc[c] = "ready" => child # None /\ os[child] = "alive"

(* Quit "tears down the worker": once stop() has returned and nobody has     *)
(* called the supervisor since it began, no worker runs                      *)
(* (docs/v2/learning.md:66-67).                                              *)
StopTearsDown == pc[Stopper] = "stopped" /\ quiet => Running = {}
=============================================================================
