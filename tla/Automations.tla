------------------------------ MODULE Automations ------------------------------
(***************************************************************************)
(* One run of an action file: AutomationService carries out the steps of a *)
(* program in order, each tool step through ToolExecutor, and keeps a      *)
(* receipt of every step in a database whose transactions are durable.     *)
(* The pump is the one loop that advances the run; the user pauses,        *)
(* resumes, stops, approves and reviews it meanwhile, its access may be    *)
(* withdrawn, Quit pauses it, and the process may end at any point.        *)
(*                                                                         *)
(* An action is what runs between two awaits; awaits after which nothing   *)
(* is read that another actor writes are joined.  Of the receipts of a     *)
(* step the latest attempt is kept.  The moment a wait is due, the value   *)
(* of a step's condition, what a permission asks for and which approvals   *)
(* the executor still has are any the code can see.                        *)
(***************************************************************************)
EXTENDS Integers, Sequences

CONSTANTS
  Program,       \* the kinds of the steps, "tool" or "wait"
  MaxAttempts,   \* bounds the model: attempts of one step
  MaxMishaps     \* bounds the model: crashes, failures, changed access, Quits

ASSUME AutomationsAssumption ==
  /\ Program \in Seq({"tool", "wait"})
  /\ MaxAttempts \in Nat \ {0} /\ MaxMishaps \in Nat

Steps == 1..Len(Program)

VARIABLES
  run,       \* the durable row: its state and next step
  step,      \* the latest receipt of each step
  pump,      \* the loop, "idle" when the run has no execution owner
  exec,      \* the tool call of the pump
  stop,      \* a Stop that has not returned: "waiting", "own" or "writing"
  current,   \* the run's activation is what the authority says now
  revoking,  \* revokeRuns has not written yet
  timer,
  quit,      \* how far a Quit is
  \* the model's own record
  started,   \* how often the effect of each step was started
  confirmed, \* how often the operator confirmed a new attempt of it
  held,      \* paused, stopped, withdrawn or restarted, and not resumed since
  mishaps

rows == <<run, step>>
world == <<current, revoking>>
record == <<started, confirmed>>
vars == <<rows, pump, exec, stop, world, timer, quit, record, held, mishaps>>

Active == {"queued", "running", "waiting", "approval-required", "stopping"}
Terminal == {"complete", "stopped"}
Passed == {"complete", "skipped", "reviewed-skip"}
Uncertain == {"intent", "unknown", "failed"}
NoPump == [pc |-> "idle", next |-> 1, by |-> "kick", to |-> "none"]
NoExec == [pc |-> "none", aborted |-> FALSE, result |-> "none"]
NoStep == [state |-> "none", attempt |-> 0, retry |-> FALSE]

(* validExecutionState                                                      *)
Executable(state, token) ==
  state \in {"queued", "running", "waiting"} \/ (token /\ state = "approval-required")

Mishap == mishaps < MaxMishaps /\ mishaps' = mishaps + 1

-----------------------------------------------------------------------------
(* The owner of the run.                                                   *)

Quitting == quit \in {"pausing", "settling"}

(* The head of the pump's loop, up to its next await.                       *)
Loop(p) == IF quit = "none" THEN [p EXCEPT !.pc = "opening"] ELSE NoPump

(* kick: a run that has an owner, or an application that quits, ignores it. *)
Kick ==
  IF pump.pc = "idle" /\ ~Quitting
  THEN pump' = Loop(NoPump) /\ timer' = FALSE
  ELSE UNCHANGED pump /\ timer' = FALSE

(* createRun has committed the row and kicked it.                           *)
Init ==
  /\ run = [state |-> "queued", next |-> 1]
  /\ step = [i \in Steps |-> NoStep]
  /\ pump = [NoPump EXCEPT !.pc = "opening"]
  /\ exec = NoExec /\ stop = "none"
  /\ current = TRUE /\ revoking = FALSE
  /\ timer = FALSE /\ quit = "none"
  /\ started = [i \in Steps |-> 0] /\ confirmed = [i \in Steps |-> 0]
  /\ held = FALSE
  /\ mishaps = 0

(* The pump leaves the loop to write the row, or has no more to do.         *)
Change(to) == pump' = [pump EXCEPT !.pc = "changing", !.to = to]
PumpEnds == pump' = NoPump

(* The row and the authority are read, validRun compares them.              *)
Opened ==
  /\ pump.pc = "opening"
  /\ IF ~Executable(run.state, pump.by = "token") THEN PumpEnds
     ELSE IF current THEN pump' = [pump EXCEPT !.pc = "deciding", !.next = run.next]
     ELSE Change("review-required")
  /\ UNCHANGED <<rows, exec, stop, world, timer, quit, record, held, mishaps>>

(* A receipt that is final is never written over: putStep throws.  The      *)
(* catch of kick asks for a review; approve's pump only reports the error.  *)
Throws == IF pump.by # "kick" THEN PumpEnds ELSE Change("review-required")

(* Variant for mutation: the retained receipts are not looked at.           *)
RetainedIgnored(i) == IF i > Len(Program) THEN "complete" ELSE "go"

(* The program is read; what was retained of the step decides.              *)
Retained(i) ==
  IF i > Len(Program) THEN "complete"
  ELSE IF step[i].state \in Passed THEN "advance"
  ELSE IF step[i].state \in Uncertain /\ ~step[i].retry THEN "review-required"
  ELSE "go"

Decide ==
  /\ pump.pc = "deciding" /\ Retained(pump.next) # "go"
  /\ Change(Retained(pump.next))
  /\ UNCHANGED <<rows, exec, stop, world, timer, quit, record, held, mishaps>>

Going == pump.pc = "deciding" /\ Retained(pump.next) = "go"
Receipt(i) == [step[i] EXCEPT !.attempt = IF @ = 0 THEN 1 ELSE @]

(* The row and the receipt in one transaction, and on to the next step.     *)
PassStep(state) ==
  LET i == pump.next IN
  /\ step' = [step EXCEPT ![i] = [Receipt(i) EXCEPT !.state = state]]
  /\ run' = [state |-> "running", next |-> i + 1]
  /\ pump' = Loop(pump)

(* The step's condition does not hold.                                      *)
SkipStep ==
  /\ Going
  /\ IF ~Executable(run.state, FALSE) THEN PumpEnds /\ UNCHANGED rows
     ELSE IF step[pump.next].state = "failed" THEN Throws /\ UNCHANGED rows
     ELSE PassStep("skipped")
  /\ UNCHANGED <<exec, stop, world, timer, quit, record, held, mishaps>>

(* A wait starts its timer, or, kicked again, is found due or not.          *)
WaitStep ==
  /\ Going /\ Program[pump.next] = "wait"
  /\ IF ~Executable(run.state, FALSE) THEN PumpEnds /\ UNCHANGED <<rows, timer>>
     ELSE \/ /\ step[pump.next].state = "waiting"
             /\ PassStep("complete") /\ UNCHANGED timer
          \/ /\ step' = [step EXCEPT ![pump.next] = [Receipt(pump.next) EXCEPT !.state = "waiting"]]
             /\ run' = [run EXCEPT !.state = "waiting"]
             /\ timer' = TRUE /\ PumpEnds
  /\ UNCHANGED <<exec, stop, world, quit, record, held, mishaps>>

TimerFires ==
  /\ timer /\ Kick
  /\ UNCHANGED <<rows, exec, stop, world, quit, record, held, mishaps>>

(* The intent is committed before the tool is called, in one step with it.  *)
Begin ==
  LET i == pump.next IN
  /\ Going /\ Program[i] = "tool"
  /\ IF ~Executable(run.state, pump.by = "token") \/ Quitting THEN PumpEnds /\ UNCHANGED <<rows, exec>>
     ELSE IF step[i].state = "failed" THEN Throws /\ UNCHANGED <<rows, exec>>
     ELSE /\ step' = [step EXCEPT ![i] = [Receipt(i) EXCEPT !.state = "intent"]]
          /\ run' = [run EXCEPT !.state = "running"]
          /\ exec' = [NoExec EXCEPT !.pc = "checking"]
          /\ pump' = [pump EXCEPT !.pc = "executing"]
  /\ UNCHANGED <<stop, world, timer, quit, record, held, mishaps>>

(* A read, a checksum or a resource check fails.                            *)
PumpThrows ==
  /\ pump.pc \in {"opening", "deciding"} /\ Mishap
  /\ Throws
  /\ UNCHANGED <<rows, exec, stop, world, timer, quit, record, held>>

(* changeRun: a terminal row stays.                                         *)
ChangeRun(state, next) ==
  run' = IF run.state \in Terminal THEN run ELSE [state |-> state, next |-> next]

Changed ==
  /\ pump.pc = "changing"
  /\ IF pump.to = "advance"
     THEN ChangeRun("running", pump.next + 1) /\ pump' = Loop(pump)
     ELSE ChangeRun(pump.to, run.next) /\ PumpEnds
  /\ UNCHANGED <<step, exec, stop, world, timer, quit, record, held, mishaps>>

-----------------------------------------------------------------------------
(* The tool call.                                                          *)

(* The call returns, and with it a stop's wait for it.                      *)
Return(result) ==
  /\ exec' = [NoExec EXCEPT !.pc = "returned", !.result = result]
  /\ stop' = IF stop = "waiting" THEN "writing" ELSE stop

(* Cancelled, refused or denied before anything was done.                   *)
Denied ==
  /\ exec.pc = "checking" /\ Return("failed")
  /\ UNCHANGED <<rows, pump, world, timer, quit, record, held, mishaps>>

Asks ==
  /\ exec.pc = "checking" /\ ~exec.aborted /\ quit = "none"
  /\ Return("approval-required")
  /\ UNCHANGED <<rows, pump, world, timer, quit, record, held, mishaps>>

Dispatch ==
  /\ exec.pc = "checking" /\ ~exec.aborted /\ quit = "none"
  /\ exec' = [exec EXCEPT !.pc = "running"]
  /\ started' = [started EXCEPT ![pump.next] = @ + 1]
  /\ UNCHANGED <<rows, pump, stop, world, timer, quit, confirmed, held, mishaps>>

(* The effect ends; one that stops its own run ends after that call.        *)
EffectEnds ==
  /\ exec.pc = "running" /\ stop \notin {"own", "own call"}
  /\ \E result \in {"complete", "failed"} : exec' = [exec EXCEPT !.pc = "ended", !.result = result]
  /\ UNCHANGED <<rows, pump, stop, world, timer, quit, record, held, mishaps>>

(* A stop or a pause asked for during the call stands.                      *)
StateAfter ==
  IF run.state \in {"stopping", "stopped"} THEN "stopped"
  ELSE IF run.state \in {"paused", "review-required"} THEN run.state
  ELSE IF exec.result = "complete" THEN "running" ELSE exec.result

(* Variant for mutation: the outcome is written whatever the row says.      *)
RetainBlindly ==
  LET i == pump.next IN
  IF step[i].state \in {"complete", "failed"} THEN UNCHANGED rows
  ELSE /\ step' = [step EXCEPT ![i].state = exec.result]
       /\ run' = [next |-> IF exec.result = "complete" /\ i + 1 > run.next THEN i + 1 ELSE run.next,
                  state |-> IF exec.result = "complete" THEN "running" ELSE exec.result]

(* Variant for mutation: the row advances without the receipt.              *)
RetainRow ==
  LET i == pump.next IN
  IF step[i].state \in {"complete", "failed"} THEN UNCHANGED rows
  ELSE /\ UNCHANGED step
       /\ run' = [next |-> IF exec.result = "complete" /\ i + 1 > run.next THEN i + 1 ELSE run.next,
                  state |-> StateAfter]

(* retainOutcome: the receipt of what happened, and the row, in one         *)
(* transaction.                                                             *)
RetainOutcome ==
  LET i == pump.next IN
  IF step[i].state \in {"complete", "failed"} THEN UNCHANGED rows
  ELSE /\ step' = [step EXCEPT ![i].state = exec.result]
       /\ run' = [next |-> IF exec.result = "complete" /\ i + 1 > run.next THEN i + 1 ELSE run.next,
                  state |-> StateAfter]

(* The executor's callback, before the call returns.                        *)
Callback ==
  /\ exec.pc = "ended" /\ RetainOutcome /\ Return(exec.result)
  /\ UNCHANGED <<pump, world, timer, quit, record, held, mishaps>>

CallbackFails ==
  /\ exec.pc = "ended" /\ Mishap /\ Return(exec.result)
  /\ UNCHANGED <<rows, pump, world, timer, quit, record, held>>

(* The pump retains the result again, and goes on after a completed step.   *)
Returned ==
  /\ exec.pc = "returned" /\ RetainOutcome
  /\ exec' = NoExec
  /\ IF exec.result = "complete" THEN pump' = Loop([pump EXCEPT !.by = IF @ = "kick" THEN @ ELSE "approval"]) ELSE PumpEnds
  /\ UNCHANGED <<stop, world, timer, quit, record, held, mishaps>>

ReturnFails ==
  /\ exec.pc = "returned" /\ Mishap /\ exec' = NoExec
  /\ Change("review-required")
  /\ UNCHANGED <<rows, stop, world, timer, quit, record, held>>

-----------------------------------------------------------------------------
(* The user.                                                               *)

Calling(i) == exec.pc \in {"checking", "running", "ended"} /\ pump.next = i

(* cancel: the signal of the step's call is aborted.                        *)
Cancel(i) == exec' = IF Calling(i) THEN [exec EXCEPT !.aborted = TRUE] ELSE exec

(* control "pause".                                                         *)
Pause ==
  /\ run.state \notin Terminal
  /\ run' = [run EXCEPT !.state = "paused"]
  /\ timer' = FALSE /\ held' = TRUE
  /\ UNCHANGED <<step, pump, exec, stop, world, quit, record, mishaps>>

(* control "resume": not of a run that waits for a review or an approval.   *)
Resume ==
  /\ run.state \notin Terminal \cup {"review-required", "failed", "approval-required"}
  /\ run' = [run EXCEPT !.state = "queued"]
  /\ Kick /\ held' = FALSE
  /\ UNCHANGED <<step, exec, stop, world, quit, record, mishaps>>

(* Variant for mutation: a step that stops its own run is waited for.       *)
StopWaitAlways(own) == IF ~Calling(run.next) THEN "writing" ELSE IF own THEN "own call" ELSE "waiting"

(* control "stop": asked for in the row first, then the call of the step is *)
(* cancelled and waited for.  A step that stops its own run ends after the  *)
(* stop, which does not wait for it.                                        *)
StopWait(own) == IF ~Calling(run.next) THEN "writing" ELSE IF own THEN "own" ELSE "waiting"

Stop(own) ==
  /\ run.state \notin Terminal /\ stop = "none"
  /\ own => exec.pc = "running" /\ Calling(run.next)
  /\ run' = [run EXCEPT !.state = "stopping"] /\ stop' = StopWait(own)
  /\ Cancel(run.next)
  /\ timer' = FALSE /\ held' = TRUE
  /\ UNCHANGED <<step, pump, world, quit, record, mishaps>>

StopWrites ==
  /\ stop \in {"own", "writing"}
  /\ ChangeRun("stopped", run.next) /\ stop' = "none"
  /\ UNCHANGED <<step, pump, exec, world, timer, quit, record, held, mishaps>>

Approve ==
  /\ run.state = "approval-required" /\ step[run.next].state = "approval-required"
  /\ pump.pc = "idle"
  /\ pump' = Loop([NoPump EXCEPT !.by = "token"]) /\ held' = FALSE
  /\ UNCHANGED <<rows, exec, stop, world, timer, quit, record, mishaps>>

(* review: the operator skips the step, or confirms a new attempt of it.    *)
(* A row written since it was read refuses it; here it is one step.         *)
Review(retry) ==
  LET i == run.next IN
  /\ run.state \in {"review-required", "failed"} /\ pump.pc = "idle" /\ quit = "none"
  /\ i \in Steps /\ step[i].attempt < MaxAttempts
  /\ step' = [step EXCEPT ![i] = [state |-> IF retry THEN "unknown" ELSE "reviewed-skip",
                                  attempt |-> @.attempt + 1, retry |-> retry]]
  /\ run' = [state |-> "paused", next |-> IF retry THEN i ELSE i + 1]
  /\ confirmed' = IF retry THEN [confirmed EXCEPT ![i] = @ + 1] ELSE confirmed
  /\ current' = TRUE /\ held' = TRUE
  /\ UNCHANGED <<pump, exec, stop, revoking, timer, quit, started, mishaps>>

-----------------------------------------------------------------------------
(* Access, Quit and restarts.                                              *)

(* The access of action files changes: what runs is cancelled at once, the  *)
(* row is written later.                                                    *)
Revoke ==
  /\ Mishap
  /\ current' = FALSE /\ revoking' = TRUE
  /\ exec' = IF exec.pc # "none" THEN [exec EXCEPT !.aborted = TRUE] ELSE exec
  /\ UNCHANGED <<rows, pump, stop, timer, quit, record, held>>

RevokeWrites ==
  /\ revoking /\ revoking' = FALSE
  /\ IF run.state \in Active
     THEN /\ run' = [run EXCEPT !.state = "review-required"]
          /\ timer' = FALSE /\ held' = TRUE
          /\ Cancel(run.next)
     ELSE UNCHANGED <<run, timer, held, exec>>
  /\ UNCHANGED <<step, pump, stop, current, quit, record, mishaps>>

(* Quit closes the admission, saves the clocks, then pauses the runs.       *)
BeginQuit ==
  /\ quit = "none" /\ Mishap /\ quit' = "closing"
  /\ UNCHANGED <<rows, pump, exec, stop, world, timer, record, held>>

CheckpointBeforeQuit ==
  /\ quit = "closing" /\ quit' = "pausing" /\ timer' = FALSE
  /\ UNCHANGED <<rows, pump, exec, stop, world, record, held, mishaps>>

PauseBeforeQuit ==
  /\ quit = "pausing" /\ quit' = "settling"
  /\ IF run.state \in {"queued", "running", "waiting"}
     THEN run' = [run EXCEPT !.state = "paused"] /\ held' = TRUE
     ELSE UNCHANGED <<run, held>>
  /\ UNCHANGED <<step, pump, exec, stop, world, timer, record, mishaps>>

(* Something did not reach its saved boundary in time: the application      *)
(* stays open.                                                              *)
QuitRefused ==
  /\ quit # "none" /\ quit' = "none"
  /\ UNCHANGED <<rows, pump, exec, stop, world, timer, record, held, mishaps>>

(* Variant for mutation: an uncertain step does not make the run wait.      *)
RecoverTrusting ==
  LET i == run.next IN
  /\ step' = IF i \in Steps /\ step[i].state = "intent" THEN [step EXCEPT ![i] = NoStep] ELSE step
  /\ run' = IF run.state \in {"queued", "running", "waiting", "stopping"} THEN [run EXCEPT !.state = "paused"] ELSE run

(* The process ends and is started again; recover settles what the rows say.*)
Recover ==
  LET i == run.next
      left == run.state \in {"queued", "running", "waiting", "stopping"}
      uncertain == i \in Steps /\ step[i].state \in {"intent", "unknown"}
  IN /\ step' = IF left /\ uncertain THEN [step EXCEPT ![i].state = "unknown"] ELSE step
     /\ run' = IF left THEN [run EXCEPT !.state = IF uncertain \/ @ = "stopping" THEN "review-required" ELSE "paused"]
               ELSE run

Restart ==
  /\ Recover
  /\ pump' = NoPump /\ exec' = NoExec /\ stop' = "none"
  /\ revoking' = FALSE /\ timer' = FALSE /\ quit' = "none"
  /\ held' = TRUE
  /\ UNCHANGED <<current, record>>

Crash == Mishap /\ Restart
Quit == quit = "settling" /\ pump.pc = "idle" /\ Restart /\ UNCHANGED mishaps

PumpStep ==
  \/ Opened \/ Decide \/ SkipStep \/ WaitStep \/ Begin \/ Changed \/ Returned
ExecStep == Denied \/ Asks \/ Dispatch \/ EffectEnds \/ Callback
UserStep ==
  Pause \/ Resume \/ (\E own \in BOOLEAN : Stop(own)) \/ Approve \/ (\E retry \in BOOLEAN : Review(retry)) \/ BeginQuit
SystemStep == CheckpointBeforeQuit \/ PauseBeforeQuit \/ Quit \/ RevokeWrites \/ TimerFires
MishapStep == PumpThrows \/ CallbackFails \/ ReturnFails \/ Revoke \/ QuitRefused \/ Crash

Next == PumpStep \/ ExecStep \/ StopWrites \/ UserStep \/ SystemStep \/ MishapStep

Spec == Init /\ [][Next]_vars

(* Reads, writes and an aborted tool call end; nothing else is assumed.     *)
FairSpec == Spec /\ WF_vars(PumpStep) /\ WF_vars(ExecStep) /\ WF_vars(StopWrites)

-----------------------------------------------------------------------------
(* Properties.                                                             *)

(* Types.                                                                   *)
StepState == {"none", "intent", "waiting", "approval-required", "complete", "failed", "skipped", "unknown", "reviewed-skip"}
TypeOK ==
  /\ run \in [state : Active \cup Terminal \cup {"paused", "review-required", "failed"}, next : 1..(Len(Program) + 1)]
  /\ step \in [Steps -> [state : StepState, attempt : 0..MaxAttempts, retry : BOOLEAN]]
  /\ pump.pc \in {"idle", "opening", "deciding", "executing", "changing"}
  /\ exec.pc \in {"none", "checking", "running", "ended", "returned"} /\ (exec.pc # "none" <=> pump.pc = "executing")
  /\ quit \in {"none", "closing", "pausing", "settling"}

(* "It will never be replayed automatically": an effect whose new attempt   *)
(* the operator did not confirm is started at most once, whatever is        *)
(* paused, resumed, withdrawn, lost in a crash or recovered in between.     *)
NeverReplayed == \A i \in Steps : confirmed[i] = 0 => started[i] <= 1

(* Every step the run has passed has a receipt that says so, "an actual     *)
(* receipt or explicit skip", and a run is complete when they all have.     *)
PassedHaveReceipts ==
  /\ \A i \in Steps : i < run.next => step[i].state \in Passed
  /\ run.state = "complete" => run.next > Len(Program)

(* Once a pause, a stop, a withdrawal or a restart is in the row, no tool   *)
(* is called until the user resumes or approves: "its terminal callback must not admit  *)
(* another step first".                                                     *)
HeldStaysHeld == [][held => ~(exec.pc = "none" /\ exec'.pc = "checking")]_vars

(* A stop returns, even one that a step asks for of its own run.            *)
StopReturns == stop # "none" ~> stop = "none"

(* An operator's confirmation is one new attempt.  The code violates it.    *)
OneEffectPerConfirmation == \A i \in Steps : started[i] <= 1 + confirmed[i]

(* A run that is to go on has an owner or a timer.  The code violates it.   *)
ActiveHasOwner ==
  run.state \in {"queued", "running", "waiting"} /\ quit = "none" => pump.pc # "idle" \/ timer
=============================================================================
