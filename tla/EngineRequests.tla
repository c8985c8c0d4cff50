--------------------------- MODULE EngineRequests ---------------------------
(***************************************************************************)
(* src/src/main/engineSupervisor.ts, the request half: reservations, the    *)
(* serial turn queue in front of the worker, foreground work taking the     *)
(* worker from background work, cancellation of queued and dispatched       *)
(* requests, holds on the dispatch of an unloaded instance and the main     *)
(* process computing for itself in the worker's slot (withHostCompute).     *)
(*                                                                         *)
(* The worker process is reduced to what a request can see of it;           *)
(* WorkerProcess has its details.  A process named by a call is executed up *)
(* to its next await in one step; continuations of different calls may      *)
(* interleave with everything else.                                         *)
(***************************************************************************)
EXTENDS Naturals, Sequences, SequencesExt

CONSTANTS Requests,    \* calls of request() and withHostCompute()
          Background,  \* those of background priority, which have no deadline
          Hosts,       \* those of withHostCompute()
          Graceful,    \* COOPERATIVE_CANCEL_METHODS: asked to stop first
          Draining,    \* never forced: the worker is left to answer
          Exempt,      \* not stopped by a hold: load, resume, other brains
          MaxHolds,    \* bound on the number of holds
          None

ASSUME KindsAssumption == /\ Background \subseteq Requests
                          /\ Hosts \subseteq Requests \ Background
                          /\ Graceful \subseteq Requests \ Hosts
                          /\ Draining \subseteq Graceful \ Background
                          /\ Exempt \subseteq Requests
                          /\ None \notin Requests
ASSUME MaxHoldsAssumption == MaxHolds \in Nat

VARIABLES pc,          \* control point of each request
          claims,      \* how often it has claimed the worker for foreground work
          state,       \* the activity state it last reported
          phase,       \* cancellationPhase
          asked,       \* phase cancelRequest() answered its first caller with
          dispatched, cancelled, aborted, \* sets of requests with these flags
          ackd,        \* workerTerminationAcknowledged
          waits,       \* requests whose settlement it awaits
          queue,       \* unreleased turns in the order they were reserved
          active,      \* this.activeRequest
          worker,      \* the worker process
          gone,        \* dispatched requests whose worker process has exited
          preempting,  \* this.backgroundPreemption: interruptAndRestart()
          held, holds, \* the instance is held; how often it has been
          overtaken    \* an exempt request was dispatched during this hold

flags == <<dispatched, cancelled, aborted, phase, asked>>
slot == <<queue, active>>
hold == <<held, holds, overtaken>>
vars == <<pc, claims, state, ackd, waits, flags, slot, worker, gone, preempting, hold>>

PcState == {"off", "hosts", "claim", "yielding", "preempting", "claimed", "start", "starting",
            "started", "parked", "woken", "turn", "before", "sent", "host", "killing",
            "answered", "refused", "stopped", "killed", "unacknowledged", "done"}
Activity == {"queued", "running", "cancelling", "complete", "cancelled", "failed"}
Phase == {"no", "queued", "running"}

TypeOK == /\ pc \in [Requests -> PcState]
          /\ claims \in [Requests -> 0..2]
          /\ state \in [Requests -> Activity]
          /\ phase \in [Requests -> Phase]
          /\ asked \in [Requests -> Phase]
          /\ dispatched \in SUBSET Requests
          /\ cancelled \in SUBSET Requests
          /\ aborted \in SUBSET cancelled
          /\ ackd \in SUBSET Requests
          /\ waits \in [Requests -> SUBSET Requests]
          /\ queue \in Seq(Requests)
          /\ IsInjective(queue)
          /\ active \in Requests \cup {None}
          /\ worker \in {"down", "starting", "up", "ending", "stuck"}
          /\ gone \in SUBSET dispatched
          /\ preempting \in {"no", "ending", "starting"}
          /\ held \in BOOLEAN
          /\ holds \in 0..MaxHolds
          /\ overtaken \in BOOLEAN

Init == /\ pc = [r \in Requests |-> "off"]
        /\ claims = [r \in Requests |-> 0]
        /\ state = [r \in Requests |-> "queued"]
        /\ phase = [r \in Requests |-> "no"]
        /\ asked = [r \in Requests |-> "no"]
        /\ dispatched = {} /\ cancelled = {} /\ aborted = {} /\ ackd = {} /\ gone = {}
        /\ waits = [r \in Requests |-> {}]
        /\ queue = <<>>
        /\ active = None
        /\ worker = "down"
        /\ preempting = "no"
        /\ held = FALSE /\ holds = 0 /\ overtaken = FALSE
-----------------------------------------------------------------------------
(* this.requestReservations, and what a waiter on settled promises sees. *)
Live == {r \in Requests : pc[r] \notin {"off", "done"}}
WaitsOver(r) == waits[r] \cap Live = {}

Foreground(r) == r \notin Background
HeldBack(r) == held /\ r \notin Exempt

(* Variant for mutation: an aborted waiter lets its successor pass at once. *)
OwnsTurnPastAborted(r) == \E i \in DOMAIN queue : queue[i] = r /\ \A j \in 1..(i - 1) : queue[j] \in aborted

OwnsTurn(r) == queue # <<>> /\ Head(queue) = r
InQueue(r) == r \in ToSet(queue)
Move(r, label) == [pc EXCEPT ![r] = label]

(* terminateChild() as the requests see it: the one that waits for an answer *)
(* fails at once, whoever asked for the termination.                         *)
Stopped(f) == [r \in Requests |-> IF f[r] = "sent" THEN "stopped" ELSE f[r]]
Terminated == IF worker = "up" THEN "ending" ELSE worker

(* Variant for mutation: the test for cooperative methods is inverted. *)
VictimsInverted(S) == {r \in S \ aborted : pc[r] = "sent" /\ r \in Graceful}

(* The abort event of rawRequest: a method that cannot be asked to stop has  *)
(* its worker killed, and waits for that.                                    *)
Victims(S) == {r \in S \ aborted : pc[r] = "sent" /\ r \notin Graceful}
Killing(S) == [r \in Requests |-> IF r \in Victims(S) THEN "killing" ELSE pc[r]]
Abort(S) == /\ cancelled' = cancelled \cup S
            /\ aborted' = aborted \cup S

(* The answer of a request that is over, as the catch and finally blocks of  *)
(* request() and withHostCompute() report it.                                *)
Stops(r, how) == r \in cancelled /\ phase[r] = "running" /\ r \in dispatched
                 /\ how \in {"killed", "stopped"} /\ Foreground(r)
Ended(r, how) ==
  IF r \in Hosts THEN IF how = "answered" THEN "complete"
                      ELSE IF r \in aborted THEN "cancelled" ELSE "failed"
  ELSE IF how = "answered" THEN IF state[r] = "running" THEN "complete" ELSE state[r]
  ELSE IF r \notin cancelled THEN "failed"
  ELSE IF how = "unacknowledged" /\ phase[r] = "running" /\ Foreground(r) THEN "failed" ELSE "cancelled"

(* Settle: report, give up the turn, leave the reservations and forget what  *)
(* only the request itself used.                                             *)
Finish(r, how) == /\ pc' = Move(r, "done")
                  /\ state' = [state EXCEPT ![r] = Ended(r, how)]
                  /\ ackd' = IF Stops(r, how) THEN ackd \cup {r} ELSE ackd
                  /\ queue' = RemoveFirst(queue, r)
                  /\ active' = IF active = r THEN None ELSE active
                  /\ claims' = [claims EXCEPT ![r] = 0]
                  /\ waits' = [waits EXCEPT ![r] = {}]
                  /\ phase' = [phase EXCEPT ![r] = "no"]
                  /\ cancelled' = cancelled \ {r}
                  /\ asked' = [asked EXCEPT ![r] = "no"]
                  /\ aborted' = aborted \ {r}
                  /\ dispatched' = dispatched \ {r}
                  /\ gone' = gone \ {r}
                  /\ UNCHANGED <<worker, preempting, hold>>

Goto(r, label) == /\ pc' = Move(r, label)
                  /\ UNCHANGED <<claims, state, ackd, waits, flags, slot, worker, gone, preempting, hold>>
-----------------------------------------------------------------------------
(* Variant for mutation: background work piles up behind other requests. *)
AdmitAlways(r) == TRUE

(* Background work is refused while anything that is not cancelled is live. *)
Admit(r) == r \in Background => Live \subseteq cancelled

(* Variant for mutation: requests do not look at host computations. *)
CallUnordered(r) == /\ pc[r] = "off"
                    /\ Admit(r)
                    /\ pc' = Move(r, "hosts")
                    /\ waits' = [waits EXCEPT ![r] = IF r \in Hosts THEN Live ELSE {}]
                    /\ UNCHANGED <<claims, state, ackd, flags, slot, worker, gone, preempting, hold>>

(* createRequestReservation, and the reservations it has to wait for: a host *)
(* computation waits for all before it, a request for the host ones.         *)
Call(r) == /\ pc[r] = "off"
           /\ Admit(r)
           /\ pc' = Move(r, "hosts")
           /\ waits' = [waits EXCEPT ![r] = IF r \in Hosts THEN Live ELSE Live \cap Hosts]
           /\ UNCHANGED <<claims, state, ackd, flags, slot, worker, gone, preempting, hold>>

AfterHosts(r) == /\ pc[r] = "hosts"
                 /\ r \notin Hosts
                 /\ \/ r \in aborted /\ Finish(r, "refused")
                    \/ /\ r \notin aborted /\ WaitsOver(r)
                       /\ Goto(r, IF Foreground(r) THEN "claim" ELSE "start")

(* Variant for mutation: wait for the background owner without aborting it. *)
ClaimPolitely(r) ==
  /\ pc[r] = "claim"
  /\ IF active \in Background
     THEN pc' = Move(r, "yielding") /\ waits' = [waits EXCEPT ![r] = {active}]
     ELSE pc' = Move(r, "claimed") /\ UNCHANGED waits
  /\ claims' = [claims EXCEPT ![r] = @ + 1]
  /\ UNCHANGED <<state, ackd, flags, slot, worker, gone, preempting, hold>>

(* claimForegroundWorker: abort every background request; if one owns the    *)
(* worker wait for it to stop, or restart the worker under it.               *)
Claim(r) ==
  /\ pc[r] = "claim"
  /\ LET B == Live \cap Background
     IN /\ Abort(B)
        /\ phase' = [s \in Requests |-> IF s \notin B THEN phase[s]
                                        ELSE IF s \in dispatched THEN "running" ELSE "queued"]
        /\ \/ /\ active \notin Background
              /\ pc' = [Killing(B) EXCEPT ![r] = "claimed"]
              /\ worker' = IF Victims(B) # {} THEN Terminated ELSE worker
              /\ UNCHANGED <<waits, preempting>>
           \/ /\ active \in Background \cap Graceful
              /\ pc' = [Killing(B) EXCEPT ![r] = "yielding"]
              /\ waits' = [waits EXCEPT ![r] = {active}]
              /\ worker' = IF Victims(B) # {} THEN Terminated ELSE worker
              /\ UNCHANGED preempting
           \/ /\ active \in Background \ Graceful
              /\ pc' = [IF preempting = "no" THEN Stopped(Killing(B)) ELSE Killing(B)
                        EXCEPT ![r] = "preempting"]
              /\ worker' = IF preempting = "no" \/ Victims(B) # {} THEN Terminated ELSE worker
              /\ preempting' = IF preempting = "no" THEN "ending" ELSE preempting
              /\ UNCHANGED waits
  /\ claims' = [claims EXCEPT ![r] = @ + 1]
  /\ UNCHANGED <<state, ackd, dispatched, asked, slot, gone, hold>>

Yielded(r) == pc[r] = "yielding" /\ WaitsOver(r) /\ Goto(r, "claimed")

(* interruptAndRestart goes on with start() when the old worker has ended. *)
Preempted(label) == [r \in Requests |-> IF pc[r] = "preempting" THEN label ELSE pc[r]]
PreemptionContinues ==
  /\ preempting = "ending"
  /\ worker # "ending"
  /\ CASE worker = "stuck" -> pc' = Preempted("refused") /\ preempting' = "no" /\ UNCHANGED worker
       [] worker = "up" -> pc' = Preempted("claimed") /\ preempting' = "no" /\ UNCHANGED worker
       [] OTHER -> worker' = "starting" /\ preempting' = "starting" /\ UNCHANGED pc
  /\ UNCHANGED <<claims, state, ackd, waits, flags, slot, gone, hold>>

(* start(), first before the queue is entered and again when the turn comes. *)
Start(r) == /\ pc[r] = "start"
            /\ worker # "ending"
            /\ CASE worker = "up" -> Goto(r, "started")
                 [] worker = "stuck" -> Finish(r, "refused")
                 [] OTHER -> /\ pc' = Move(r, "starting")
                             /\ worker' = "starting"
                             /\ UNCHANGED <<claims, state, ackd, waits, flags, slot, gone, preempting, hold>>
-----------------------------------------------------------------------------
(* reserveRequestTurn, unless the instance is held: then wait outside. *)
Reserve(r) == /\ pc' = Move(r, "turn")
              /\ queue' = Append(queue, r)
              /\ UNCHANGED <<claims, state, ackd, waits, flags, active, worker, gone, preempting, hold>>
Park(r) == /\ pc' = Move(r, "parked")
           /\ state' = [state EXCEPT ![r] = "queued"]
           /\ queue' = RemoveFirst(queue, r)
           /\ UNCHANGED <<claims, ackd, waits, flags, active, worker, gone, preempting, hold>>

(* Everything between the first start() and the first turn. *)
Enter(r) == /\ ~InQueue(r)
            /\ \/ pc[r] = "claimed" /\ claims[r] = 2
               \/ pc[r] = "started" /\ ~Foreground(r)
               \/ pc[r] = "woken"
            /\ IF r \in aborted THEN Finish(r, "refused")
               ELSE IF HeldBack(r) /\ pc[r] # "woken" THEN Park(r)
               ELSE Reserve(r)

Continue(r) == \/ pc[r] = "claimed" /\ claims[r] = 1 /\ Goto(r, "start")
               \/ pc[r] = "started" /\ ~InQueue(r) /\ Foreground(r) /\ Goto(r, "claim")

Unpark(r) == pc[r] = "parked" /\ r \in aborted /\ Finish(r, "refused")

(* Variant for mutation: the hold is not looked at again. *)
TurnReadyUnheld(r) == /\ pc[r] = "turn"
                      /\ r \notin Hosts
                      /\ \/ r \in aborted /\ Finish(r, "refused")
                         \/ r \notin aborted /\ OwnsTurn(r) /\ Goto(r, "start")

(* The turn has come, or the wait for it is aborted. *)
TurnReady(r) == /\ pc[r] = "turn"
                /\ r \notin Hosts
                /\ \/ r \in aborted /\ Finish(r, "refused")
                   \/ r \notin aborted /\ OwnsTurn(r) /\ HeldBack(r) /\ Park(r)
                   \/ r \notin aborted /\ OwnsTurn(r) /\ ~HeldBack(r) /\ Goto(r, "start")

Activate(r, label) == /\ pc' = Move(r, label)
                      /\ active' = r
                      /\ state' = [state EXCEPT ![r] = "running"]
                      /\ UNCHANGED <<claims, ackd, waits, cancelled, aborted, phase, asked, queue,
                                     worker, gone, preempting, hold>>

Run(r) == /\ pc[r] = "started"
          /\ InQueue(r)
          /\ \/ r \in aborted /\ Finish(r, "refused")
             \/ r \notin aborted /\ Activate(r, "before") /\ UNCHANGED dispatched

(* beforeDispatch settles; then rawRequest writes to the worker. *)
Dispatched(r) == /\ dispatched' = dispatched \cup {r}
                 /\ overtaken' = (overtaken \/ (held /\ r \in Exempt))
                 /\ pc' = Move(r, IF worker = "up" THEN "sent" ELSE "refused")
                 /\ UNCHANGED <<claims, state, ackd, waits, cancelled, aborted, phase, asked, slot,
                                worker, gone, preempting, held, holds>>

(* Variant for mutation: the signal is not looked at after the hook. *)
DispatchUnchecked(r) == pc[r] = "before" /\ (Finish(r, "refused") \/ Dispatched(r))

Dispatch(r) == /\ pc[r] = "before"
               /\ \/ Finish(r, "refused")
                  \/ r \notin aborted /\ Dispatched(r)

(* Everything a dispatched request can end with. *)
Reply(r) == pc[r] = "sent" /\ \E how \in {"answered", "refused"} : Goto(r, how)

(* The deadline of foreground work is dropped once it is being cancelled. *)
Deadline(r) == /\ pc[r] = "sent"
               /\ Foreground(r)
               /\ r \notin aborted
               /\ pc' = Move(r, "refused")
               /\ worker' = Terminated
               /\ UNCHANGED <<claims, state, ackd, waits, flags, slot, gone, preempting, hold>>

(* The grace of a cooperative cancellation is over. *)
ForceAfterGrace(r) == /\ pc[r] = "sent"
                      /\ r \in (aborted \cap Graceful) \ Draining
                      /\ pc' = Move(r, "killing")
                      /\ worker' = Terminated
                      /\ UNCHANGED <<claims, state, ackd, waits, flags, slot, gone, preempting, hold>>

End(r) == /\ pc[r] \in {"answered", "refused", "stopped", "killed", "unacknowledged"}
          /\ Finish(r, pc[r])

(* Variant for mutation: the wait for other requests cannot be aborted. *)
HostReserveDeaf(r) == r \in Hosts /\ pc[r] = "hosts" /\ WaitsOver(r) /\ Reserve(r)

(* withHostCompute takes its turn without a worker. *)
HostReserve(r) == /\ r \in Hosts
                  /\ pc[r] = "hosts"
                  /\ \/ r \in aborted /\ Finish(r, "refused")
                     \/ r \notin aborted /\ WaitsOver(r) /\ Reserve(r)
HostRun(r) == /\ r \in Hosts
              /\ pc[r] = "turn"
              /\ \/ r \in aborted /\ Finish(r, "refused")
                 \/ /\ r \notin aborted /\ OwnsTurn(r)
                    /\ Activate(r, "host")
                    /\ dispatched' = dispatched \cup {r}
HostReturns(r) == pc[r] = "host" /\ \E how \in {"answered", "refused"} : Finish(r, how)
-----------------------------------------------------------------------------
(* cancelRequest(): answers only when the reservation has settled. *)
CancelRequest(r) ==
  /\ r \in Live
  /\ asked[r] = "no"
  /\ LET p == IF r \in dispatched THEN "running" ELSE "queued"
     IN phase' = [phase EXCEPT ![r] = p] /\ asked' = [asked EXCEPT ![r] = p]
  /\ state' = [state EXCEPT ![r] = "cancelling"]
  /\ Abort({r})
  /\ pc' = Killing({r})
  /\ worker' = IF Victims({r}) # {} THEN Terminated ELSE worker
  /\ UNCHANGED <<claims, ackd, waits, dispatched, slot, gone, preempting, hold>>

(* The caller's own AbortSignal, or cancelBackgroundRequest(). *)
SignalAbort(r) ==
  /\ r \in Live \ cancelled
  /\ phase' = [phase EXCEPT ![r] =
       IF r \in (IF Foreground(r) THEN {s \in Requests : state[s] = "running"} ELSE dispatched)
       THEN "running" ELSE "queued"]
  /\ Abort({r})
  /\ pc' = Killing({r})
  /\ worker' = IF Victims({r}) # {} THEN Terminated ELSE worker
  /\ UNCHANGED <<claims, state, ackd, waits, dispatched, asked, slot, gone, preempting, hold>>
-----------------------------------------------------------------------------
(* holdInstanceDispatch and releaseInstanceDispatch. *)
Hold == /\ ~held /\ holds < MaxHolds
        /\ held' = TRUE /\ holds' = holds + 1 /\ overtaken' = FALSE
        /\ UNCHANGED <<pc, claims, state, ackd, waits, flags, slot, worker, gone, preempting>>
Release == /\ held
           /\ held' = FALSE
           /\ pc' = [r \in Requests |-> IF pc[r] = "parked" THEN "woken" ELSE pc[r]]
           /\ UNCHANGED <<claims, state, ackd, waits, flags, slot, worker, gone, preempting,
                          holds, overtaken>>
-----------------------------------------------------------------------------
(* What the requests see of the worker process.  Everybody in start() shares *)
(* one launch and its outcome.                                               *)
Launched(f, label) == [r \in Requests |-> IF f[r] = "starting" THEN label ELSE f[r]]
LaunchSettles(ok) ==
  /\ worker = "starting"
  /\ worker' = IF ok THEN "up" ELSE "down"
  /\ preempting' = IF preempting = "starting" THEN "no" ELSE preempting
  /\ pc' = Launched(IF preempting = "starting" THEN Preempted("claimed") ELSE pc,
                    IF ok THEN "started" ELSE "refused")
  /\ UNCHANGED <<claims, state, ackd, waits, flags, slot, gone, hold>>

(* A termination is waited for by the requests that were killed with it. *)
Exits == /\ worker \in {"ending", "stuck"}
         /\ worker' = "down"
         /\ gone' = dispatched \ Hosts
         /\ pc' = [r \in Requests |-> IF pc[r] = "killing" THEN "killed" ELSE pc[r]]
         /\ UNCHANGED <<claims, state, ackd, waits, flags, slot, preempting, hold>>
TerminationFails == /\ worker = "ending"
                    /\ worker' = "stuck"
                    /\ pc' = [r \in Requests |-> IF pc[r] = "killing" THEN "unacknowledged" ELSE pc[r]]
                    /\ UNCHANGED <<claims, state, ackd, waits, flags, slot, gone, preempting, hold>>

Crash == /\ worker = "up"
         /\ worker' = "down"
         /\ gone' = dispatched \ Hosts
         /\ pc' = [r \in Requests |-> IF pc[r] = "sent" THEN "refused" ELSE pc[r]]
         /\ UNCHANGED <<claims, state, ackd, waits, flags, slot, preempting, hold>>
(* stop(), or a protocol line that is too long. *)
Teardown == /\ worker = "up"
            /\ worker' = Terminated
            /\ pc' = Stopped(pc)
            /\ UNCHANGED <<claims, state, ackd, waits, flags, slot, gone, preempting, hold>>
-----------------------------------------------------------------------------
Step(r) == \/ AfterHosts(r) \/ Claim(r) \/ Yielded(r) \/ Start(r) \/ Enter(r) \/ Continue(r)
           \/ Unpark(r) \/ TurnReady(r) \/ Run(r) \/ Dispatch(r) \/ ForceAfterGrace(r)
           \/ End(r) \/ HostReserve(r) \/ HostRun(r) \/ HostReturns(r)

Next == \/ \E r \in Requests : \/ Call(r) \/ Step(r) \/ Reply(r) \/ Deadline(r)
                               \/ CancelRequest(r) \/ SignalAbort(r)
        \/ PreemptionContinues
        \/ Hold \/ Release
        \/ \E ok \in BOOLEAN : LaunchSettles(ok)
        \/ Exits \/ TerminationFails \/ Crash \/ Teardown

Spec == Init /\ [][Next]_vars

(* Continuations run, timers fire, launches and terminations settle, hooks and *)
(* host computations return.  The worker need never answer a background       *)
(* request, and nobody need release a hold.  A foreground request is answered, *)
(* as one with a deadline is at the latest then; of one that is called without *)
(* (NO_DEADLINE) it is a premise that the worker answers.                      *)
Fairness == /\ \A r \in Requests : WF_vars(Step(r))
            /\ \A r \in Requests \ Background : WF_vars(Deadline(r))
            /\ WF_vars(PreemptionContinues)
            /\ WF_vars(\E ok \in BOOLEAN : LaunchSettles(ok))
            /\ WF_vars(worker = "ending" /\ (Exits \/ TerminationFails))

FairSpec == Spec /\ Fairness
-----------------------------------------------------------------------------
InSlot == {r \in Requests : pc[r] \in {"before", "sent", "host", "killing"}
                            \/ (pc[r] \in {"start", "starting", "started"} /\ InQueue(r))}

(* One request executes at a time, and it is the one this.activeRequest names *)
(* to everybody who decides whether the worker may be interrupted, whatever   *)
(* was cancelled, parked or restarted in between (engineSupervisor.ts:1228).  *)
OneInSlot == /\ \A r, s \in InSlot : r = s
             /\ \A r \in InSlot : pc[r] \in {"before", "sent", "host", "killing"} => active = r

(* Once foreground work has claimed the worker, no background request that   *)
(* was not told to stop is left, not even one admitted while the claim       *)
(* awaited a cold start (engineSupervisor.ts:1337-1341, 1949-1956).          *)
BackgroundYields ==
  \A r \in Requests \ (Background \cup Hosts), b \in Background :
    /\ r \in Live \ cancelled
    /\ claims[r] = 2 \/ pc[r] \in {"parked", "woken", "turn"}
    /\ b \in Live
    => b \in cancelled

(* While the main process computes for itself no worker is launched and no   *)
(* request is executed: neither one that was called before and was already   *)
(* starting the worker nor one called since (engineSupervisor.ts:1518-1520). *)
HostComputesAlone == (\E h \in Hosts : pc[h] = "host") =>
                        worker # "starting" /\ \A r \in Requests : pc[r] # "sent"

(* A cancellation takes all of its request and nothing else: one answered    *)
(* with phase "queued" is never dispatched afterwards, wherever its          *)
(* continuation stands, and foreground work is never stopped on behalf of    *)
(* another request, neither by its cancellation nor by a claim               *)
(* (engineSupervisor.ts:572-577, 1236-1239).                                 *)
CancellationIsExact ==
  [][/\ \A r \in Requests : asked[r] = "queued" /\ r \notin dispatched => r \notin dispatched'
     /\ (\E s \in Requests : CancelRequest(s) \/ SignalAbort(s) \/ Claim(s) \/ ForceAfterGrace(s))
          => \A r \in Requests \ Background : pc[r] = "sent" => pc'[r] # "stopped"]_vars

(* Within one hold no ordinary request is dispatched after the load or the   *)
(* resumption the hold was made for (engineSupervisor.ts:1352-1354).         *)
HoldKeepsOrder == [][\A r \in Requests \ (Exempt \cup Hosts) :
                       held /\ overtaken /\ r \notin dispatched => r \notin dispatched']_vars

(* cancelRequest() answers, even when the worker never does and the request  *)
(* is anywhere in the queue (engineSupervisor.ts:572-606).                   *)
CancelSettles == \A r \in Requests \ Draining : asked[r] # "no" ~> pc[r] = "done"

(* No local teacher computes in the main process.  A foreground request that  *)
(* waits behind one may wait for ever (EngineHostInversion).                  *)
NoHost == [](\A h \in Hosts : pc[h] = "off")

(* Foreground work is served although the background request that owns the   *)
(* worker is never answered (engineSupervisor.ts:1388-1393, 1949-1956), as   *)
(* long as the foreground requests themselves are, ...                       *)
Served(r) == pc[r] = "hosts" ~> pc[r] \in {"done", "parked"}
Interactive == Requests \ (Background \cup Hosts \cup Draining)
ForegroundServed == NoHost => \A r \in Interactive : Served(r)

(* ... and although a local teacher waits in between: "foreground ownership  *)
(* explicitly preempts it" (engineSupervisor.ts:1381-1383).                  *)
ForegroundServedBesideHosts == \A r \in Interactive : Served(r)

(* A request that has settled has reported a terminal activity, so that what *)
(* was acquired for its work is given back                                   *)
(* (docs/v2/os-work-lease.md:6-11).                                          *)
SettledIsTerminal == \A r \in Requests : pc[r] = "done" => state[r] \in {"complete", "cancelled", "failed"}

(* The acknowledgement of a cancellation claims the end of the worker only   *)
(* when the process the request was dispatched to has exited                 *)
(* (engineSupervisor.ts:572-577, 1435-1438).                                 *)
AcknowledgedMeansExited == [][ackd' \ ackd \subseteq gone]_vars
=============================================================================
