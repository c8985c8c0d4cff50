--------------------------- MODULE AutomationsProofs ---------------------------
(***************************************************************************)
(* Proofs about Automations, for a program of any length, any number of    *)
(* attempts and any number of mishaps.  The inductive invariant says where *)
(* the pump, the tool call, the row and the receipts stand relative to     *)
(* each other: the receipts passed are exactly those before the next step, *)
(* a call under way belongs to the next step and has its intent written,   *)
(* a step without an uncertain receipt has had no effect, and a row that   *)
(* is held is in a state from which no pump, however old, goes on.         *)
(* The last part is about Builds, which like a run go through their steps  *)
(* one by one over failures and restarts (BuildInitialization).            *)
(***************************************************************************)
EXTENDS Automations, BuildInitialization, TLAPS

Runs == [state : Active \cup Terminal \cup {"paused", "review-required", "failed"}, next : 1..(Len(Program) + 1)]
Receipts == [state : StepState, attempt : 0..MaxAttempts, retry : BOOLEAN]
Pumps == [pc : {"idle", "opening", "deciding", "executing", "changing"}, next : 1..(Len(Program) + 1),
          by : {"kick", "token", "approval"}, to : {"none", "complete", "review-required", "advance"}]
Execs == [pc : {"none", "checking", "running", "ended", "returned"}, aborted : BOOLEAN,
          result : {"none", "complete", "failed", "approval-required"}]
RowTypes == run \in Runs /\ step \in [Steps -> Receipts]
PumpTypes == pump \in Pumps /\ exec \in Execs /\ (exec.pc # "none" <=> pump.pc = "executing")
CountTypes == started \in [Steps -> Nat] /\ confirmed \in [Steps -> Nat]
              /\ quit \in {"none", "closing", "pausing", "settling"}
Types == RowTypes /\ PumpTypes /\ CountTypes

\* The row is where its receipts say, and a run is complete at the end only.
RowFollowsReceipts ==
  /\ \A i \in Steps : step[i].state \in Passed <=> i < run.next
  /\ run.state = "complete" => run.next > Len(Program)

\* What the pump read is still so when it uses it.
PumpFollowsRow ==
  /\ pump.pc = "deciding" => pump.next = run.next
  /\ pump.pc = "changing" => \/ pump.to = "review-required"
                             \/ pump.to = "complete" /\ run.next > Len(Program)
  /\ exec.pc # "none" => pump.next \in Steps
  /\ exec.pc # "none" /\ step[pump.next].state = "intent" => pump.next = run.next

\* A call has its intent in the receipt until an outcome is.
IntentBeforeCall ==
  /\ exec.pc \in {"checking", "running", "ended"} => step[pump.next].state = "intent"
  /\ exec.pc = "ended" => exec.result \in {"complete", "failed"}
  /\ exec.pc = "returned" =>
       /\ exec.result # "none"
       /\ \/ step[pump.next].state = "intent"
          \/ step[pump.next].state = exec.result /\ exec.result \in {"complete", "failed"}

\* A step that may still be called without asking the operator had no effect.
Untried(i) == confirmed[i] = 0 => started[i] = 0
EffectsRecorded ==
  /\ \A i \in Steps : step[i].retry => confirmed[i] > 0
  /\ \A i \in Steps : step[i].state \in {"none", "waiting", "approval-required"} => Untried(i)
  /\ exec.pc = "checking" => Untried(pump.next)
  /\ exec.pc = "returned" /\ exec.result = "approval-required" => Untried(pump.next)

\* A held row lets no pump go on, and an outcome leaves it held.
HeldRow ==
  held => /\ run.state \notin {"queued", "running", "waiting"}
          /\ run.state = "approval-required" => pump.by # "token"
          /\ exec.pc # "none" => run.state \in {"stopping", "stopped", "paused", "review-required"}

IInv ==
  /\ Types /\ RowFollowsReceipts /\ PumpFollowsRow /\ IntentBeforeCall
  /\ EffectsRecorded /\ HeldRow /\ NeverReplayed

-----------------------------------------------------------------------------
(* The number of steps.                                                    *)
LEMMA LenNat == Len(Program) \in Nat
BY AutomationsAssumption

(* The head of the loop opens the run anew, or ends when Quit has begun.   *)
LEMMA LoopEffect ==
  ASSUME NEW p \in Pumps
  PROVE  /\ Loop(p) \in Pumps /\ Loop(p).pc \in {"idle", "opening"}
         /\ Loop(p).by \in {p.by, "kick"}
BY LenNat DEF Pumps, Loop, NoPump

(* The pump leaves what it is at without having touched a row.             *)
Leaves ==
  /\ pump' \in Pumps /\ pump'.by \in {pump.by, "kick"}
  /\ pump'.pc \in {"idle", "opening", "changing"}
  /\ pump'.pc = "changing" => \/ pump'.to = "review-required"
                              \/ pump'.to = "complete" /\ run.next > Len(Program)

(* Whatever the pump leaves for, it ends, asks for a review or completes.  *)
LEMMA LeavesCases ==
  ASSUME pump \in Pumps,
         PumpEnds \/ Throws \/ Change("review-required") \/ (Change("complete") /\ run.next > Len(Program))
  PROVE  Leaves
<1>1. CASE PumpEnds
  BY <1>1, LenNat DEF Pumps, Leaves, PumpEnds, NoPump
<1>2. ASSUME NEW to \in {"review-required", "complete"}, Change(to)
      PROVE  pump' \in Pumps /\ pump'.by = pump.by /\ pump'.pc = "changing" /\ pump'.to = to
  BY <1>2 DEF Pumps, Change
<1> QED
  BY <1>1, <1>2 DEF Leaves, Throws

(* A pump that leaves preserves the invariant.                             *)
LEMMA LeavesInvariant ==
  ASSUME IInv, exec.pc = "none", Leaves, UNCHANGED <<rows, exec, quit, record, held>>
  PROVE  IInv'
<1> USE DEF IInv, Types, Leaves, rows, record
<1>1. Types'
  BY DEF RowTypes, PumpTypes, CountTypes, Execs
<1>2. RowFollowsReceipts' /\ PumpFollowsRow' /\ IntentBeforeCall'
  BY DEF RowFollowsReceipts, PumpFollowsRow, IntentBeforeCall
<1>3. EffectsRecorded' /\ HeldRow' /\ NeverReplayed'
  BY DEF EffectsRecorded, Untried, HeldRow, NeverReplayed
<1> QED
  BY <1>1, <1>2, <1>3

(* What the pump is about to carry out is the next step of the row, whose  *)
(* receipt is neither final nor uncertain, unless the operator confirmed it.*)
LEMMA GoingNext ==
  ASSUME IInv, Going
  PROVE  /\ pump.next = run.next /\ pump.next \in Steps /\ exec.pc = "none"
         /\ step[pump.next].state \notin Passed /\ Untried(pump.next)
<1>1. pump.next = run.next /\ pump.next \in Steps /\ exec.pc = "none"
  BY LenNat DEF IInv, Types, PumpTypes, Pumps, PumpFollowsRow, Going, Retained, Steps
<1>2. /\ step[pump.next].state \notin Passed
      /\ step[pump.next].state \notin Uncertain \/ step[pump.next].retry
  BY <1>1, LenNat DEF Going, Retained, Steps
<1>3. step[pump.next].state \in StepState
  BY <1>1 DEF IInv, Types, RowTypes, Receipts
<1>4. Untried(pump.next)
  BY <1>1, <1>2, <1>3 DEF IInv, EffectsRecorded, Untried, StepState, Passed, Uncertain, Types,
       CountTypes
<1> QED
  BY <1>1, <1>2, <1>4

(* A first attempt is numbered; a receipt keeps its confirmation.          *)
LEMMA ReceiptType ==
  ASSUME RowTypes, NEW i \in Steps, NEW s \in StepState
  PROVE  /\ [Receipt(i) EXCEPT !.state = s] \in Receipts
         /\ [Receipt(i) EXCEPT !.state = s].state = s
         /\ [Receipt(i) EXCEPT !.state = s].retry = step[i].retry
<1>1. step[i] \in Receipts
  BY DEF RowTypes
<1>2. CASE step[i].attempt = 0
  <2>1. Receipt(i) = [step[i] EXCEPT !.attempt = 1] /\ 1 \in 0..MaxAttempts
    BY <1>2, AutomationsAssumption DEF Receipt
  <2> QED
    BY <1>1, <2>1 DEF Receipts
<1>3. CASE step[i].attempt # 0
  <2>1. Receipt(i) = step[i]
    BY <1>1, <1>3 DEF Receipt, Receipts
  <2> QED
    BY <1>1, <2>1 DEF Receipts
<1> QED
  BY <1>2, <1>3

(* A step that is passed has a final receipt, and the row is at the next.  *)
LEMMA PassStepInvariant ==
  ASSUME IInv, Going, NEW s \in {"skipped", "complete"}, Executable(run.state, FALSE), PassStep(s),
         UNCHANGED <<exec, quit, record, held>>
  PROVE  IInv'
<1> DEFINE i == pump.next
           new == [Receipt(i) EXCEPT !.state = s]
<1>1. /\ i = run.next /\ i \in Steps /\ exec.pc = "none"
      /\ step[i].state \notin Passed /\ Untried(i)
  BY GoingNext
<1>2. new \in Receipts /\ new.state = s /\ new.retry = step[i].retry
  <2>1. RowTypes /\ i \in Steps /\ s \in StepState
    BY <1>1 DEF IInv, Types, StepState
  <2> QED
    BY <2>1, ReceiptType
<1>3. /\ step' = [step EXCEPT ![i] = new]
      /\ run' = [state |-> "running", next |-> i + 1]
      /\ pump' = Loop(pump)
  BY DEF PassStep
<1> HIDE DEF i, new
<1>4. pump' \in Pumps /\ pump'.pc \in {"idle", "opening"}
  BY <1>3, LoopEffect DEF IInv, Types, PumpTypes
<1>5. ~held
  BY DEF IInv, HeldRow, Executable
<1>6. Types'
  <2>1. step' \in [Steps -> Receipts]
    BY <1>1, <1>2, <1>3 DEF IInv, Types, RowTypes
  <2>2. run' \in Runs
    BY <1>1, <1>3, LenNat DEF Runs, Steps, Active
  <2> QED
    BY <1>1, <1>4, <2>1, <2>2 DEF IInv, Types, RowTypes, PumpTypes, CountTypes, record
<1>7. \A j \in Steps : step'[j] = IF j = i THEN new ELSE step[j]
  BY <1>1, <1>3 DEF IInv, Types, RowTypes
<1>8. RowFollowsReceipts'
  BY <1>1, <1>2, <1>3, <1>7, LenNat DEF IInv, RowFollowsReceipts, Passed, Steps
<1>9. PumpFollowsRow' /\ IntentBeforeCall'
  BY <1>1, <1>4 DEF PumpFollowsRow, IntentBeforeCall
<1>10. EffectsRecorded'
  BY <1>1, <1>2, <1>7 DEF IInv, EffectsRecorded, Untried, record
<1>11. HeldRow' /\ NeverReplayed'
  BY <1>5 DEF IInv, HeldRow, NeverReplayed, record
<1> QED
  BY <1>6, <1>8, <1>9, <1>10, <1>11 DEF IInv

(* An outcome is kept once, in the receipt of the call and in the row,     *)
(* which goes on only if nobody asked it to hold.                          *)
Kept(i) ==
  /\ \A j \in Steps : step'[j] = IF j = i THEN [step[i] EXCEPT !.state = exec.result] ELSE step[j]
  /\ run'.next = IF exec.result = "complete" THEN i + 1 ELSE run.next
  /\ run'.state = StateAfter
  /\ step[i].state = "intent" /\ i = run.next

LEMMA RetainEffect ==
  ASSUME IInv, exec.pc \in {"ended", "returned"}, RetainOutcome
  PROVE  /\ RowTypes' /\ pump.next \in Steps
         /\ \/ UNCHANGED rows /\ step[pump.next].state \in {"complete", "failed"}
            \/ Kept(pump.next)
<1> DEFINE i == pump.next
<1>1. i \in Steps /\ exec.result \in {"complete", "failed", "approval-required"}
  BY DEF IInv, PumpFollowsRow, IntentBeforeCall, Types, PumpTypes, Execs
<1>2. CASE step[i].state \in {"complete", "failed"}
  BY <1>1, <1>2 DEF RetainOutcome, rows, IInv, Types, RowTypes
<1>3. CASE step[i].state \notin {"complete", "failed"}
  <2>1. step[i].state = "intent" /\ i = run.next
    BY <1>1, <1>3 DEF IInv, PumpFollowsRow, IntentBeforeCall
  <2>2. /\ step' = [step EXCEPT ![i].state = exec.result]
        /\ run' = [next |-> IF exec.result = "complete" /\ i + 1 > run.next THEN i + 1 ELSE run.next,
                   state |-> StateAfter]
    BY <1>3 DEF RetainOutcome
  <2>3. i + 1 > run.next /\ i + 1 \in 1..(Len(Program) + 1)
    BY <1>1, <2>1, LenNat DEF Steps
  <2>4. step[i] \in Receipts /\ [step[i] EXCEPT !.state = exec.result] \in Receipts
    BY <1>1 DEF IInv, Types, RowTypes, Receipts, StepState
  <2>5. \A j \in Steps : step'[j] = IF j = i THEN [step[i] EXCEPT !.state = exec.result] ELSE step[j]
    BY <1>1, <2>2 DEF IInv, Types, RowTypes
  <2>6. run'.next = (IF exec.result = "complete" THEN i + 1 ELSE run.next)
    BY <2>2, <2>3
  <2>7. run'.state = StateAfter
    BY <2>2
  <2>8. step' \in [Steps -> Receipts]
    BY <1>1, <2>2, <2>4 DEF IInv, Types, RowTypes
  <2>9. run' \in Runs
    <3>1. run'.next \in 1..(Len(Program) + 1)
      BY <2>3, <2>6 DEF IInv, Types, RowTypes, Runs
    <3>2. run'.state \in Active \cup Terminal \cup {"paused", "review-required", "failed"}
      BY <1>1, <2>7 DEF IInv, Types, RowTypes, Runs, Active, Terminal, StateAfter
    <3>3. run' = [next |-> run'.next, state |-> run'.state]
      BY <2>2
    <3> QED
      BY <3>1, <3>2, <3>3 DEF Runs
  <2> QED
    BY <1>1, <2>1, <2>5, <2>6, <2>7, <2>8, <2>9 DEF Kept, RowTypes
<1> QED
  BY <1>2, <1>3

(* After an outcome is kept the receipts passed are again those before the *)
(* next step, nothing is forgotten of an effect, and what was held is held.*)
LEMMA KeptInvariant ==
  ASSUME IInv, exec.pc \in {"ended", "returned"}, Kept(pump.next), pump.next \in Steps, UNCHANGED <<record, held>>
  PROVE  /\ RowFollowsReceipts'
         /\ \A j \in Steps : step'[j].retry => confirmed'[j] > 0
         /\ \A j \in Steps : step'[j].state \in {"none", "waiting", "approval-required"} => Untried(j)'
         /\ held' => run'.state \in {"stopping", "stopped", "paused", "review-required"}
         /\ step'[pump.next].state = exec.result
<1> DEFINE i == pump.next
<1>1. step[i] \in Receipts /\ exec.result \in {"complete", "failed", "approval-required"}
  BY DEF IInv, Types, RowTypes, PumpTypes, Execs, IntentBeforeCall
<1>2. /\ [step[i] EXCEPT !.state = exec.result].state = exec.result
      /\ [step[i] EXCEPT !.state = exec.result].retry = step[i].retry
  BY <1>1 DEF Receipts
<1>3. \A j \in Steps : /\ step'[j].state = IF j = i THEN exec.result ELSE step[j].state
                       /\ step'[j].retry = step[j].retry
  BY <1>2 DEF Kept
<1>4. i = run.next /\ step[i].state = "intent" /\ i \in Steps /\ i \in Int
  BY LenNat DEF Kept, Steps
<1>5. run'.state # "complete"
  BY <1>1 DEF Kept, StateAfter
<1>6. RowFollowsReceipts'
  BY <1>1, <1>3, <1>4, <1>5, LenNat DEF IInv, RowFollowsReceipts, Kept, Passed, Steps
<1>7. exec.result = "approval-required" => exec.pc = "returned"
  BY <1>1 DEF IInv, IntentBeforeCall
<1>8. \A j \in Steps : step'[j].state \in {"none", "waiting", "approval-required"} => Untried(j)'
  BY <1>1, <1>3, <1>4, <1>7 DEF IInv, EffectsRecorded, Untried, record
<1>9. \A j \in Steps : step'[j].retry => confirmed'[j] > 0
  BY <1>3 DEF IInv, EffectsRecorded, record
<1>10. held' => run'.state \in {"stopping", "stopped", "paused", "review-required"}
  <2>1. held => run.state \in {"stopping", "stopped", "paused", "review-required"}
    BY DEF IInv, HeldRow
  <2>2. run.state \in {"stopping", "stopped", "paused", "review-required"}
          => run'.state \in {"stopping", "stopped", "paused", "review-required"}
    BY DEF Kept, StateAfter
  <2> QED
    BY <2>1, <2>2
<1> QED
  BY <1>3, <1>4, <1>6, <1>8, <1>9, <1>10

-----------------------------------------------------------------------------
(* The initial state satisfies the invariant.                              *)
LEMMA InitInvariant == Init => IInv
<1> SUFFICES ASSUME Init PROVE IInv
  OBVIOUS
<1> USE LenNat, AutomationsAssumption DEF Init, Steps, NoStep, NoPump, NoExec, Passed
<1>1. RowTypes
  BY DEF RowTypes, Runs, Receipts, StepState, Active
<1>2. PumpTypes /\ CountTypes
  <2>1. NoPump \in Pumps /\ exec \in Execs /\ exec.pc = "none"
    BY DEF Pumps, Execs
  <2>2. pump \in Pumps /\ pump.pc = "opening"
    BY <2>1 DEF Pumps
  <2> QED
    BY <2>1, <2>2 DEF PumpTypes, CountTypes
<1>3. RowFollowsReceipts /\ PumpFollowsRow /\ IntentBeforeCall
  BY DEF RowFollowsReceipts, PumpFollowsRow, IntentBeforeCall
<1>4. EffectsRecorded /\ HeldRow /\ NeverReplayed
  BY DEF EffectsRecorded, HeldRow, NeverReplayed, Untried
<1> QED
  BY <1>1, <1>2, <1>3, <1>4 DEF IInv, Types

(* The steps of the pump preserve the invariant.                           *)
LEMMA PumpInvariant ==
  ASSUME IInv, PumpStep
  PROVE  IInv'
<1> DEFINE i == pump.next
<1>0. /\ pump \in Pumps /\ exec \in Execs /\ (exec.pc # "none" <=> pump.pc = "executing")
      /\ run \in Runs /\ step \in [Steps -> Receipts]
  BY DEF IInv, Types, PumpTypes, RowTypes
<1>1. CASE Opened
  <2>1. exec.pc = "none" /\ UNCHANGED <<rows, exec, quit, record, held>>
    BY <1>0, <1>1 DEF Opened
  <2>2. CASE PumpEnds \/ Change("review-required")
    BY <1>0, <2>1, <2>2, LeavesCases, LeavesInvariant
  <2>3. CASE pump' = [pump EXCEPT !.pc = "deciding", !.next = run.next]
    <3>1. pump' \in Pumps /\ pump'.pc = "deciding" /\ pump'.next = run.next /\ pump'.by = pump.by
      BY <1>0, <2>3 DEF Pumps, Runs
    <3>2. Types' /\ RowFollowsReceipts' /\ NeverReplayed'
      BY <2>1, <3>1 DEF IInv, Types, RowTypes, PumpTypes, CountTypes, RowFollowsReceipts,
           NeverReplayed, rows, record
    <3>3. PumpFollowsRow' /\ IntentBeforeCall' /\ EffectsRecorded' /\ HeldRow'
      BY <2>1, <3>1 DEF IInv, PumpFollowsRow, IntentBeforeCall, EffectsRecorded, Untried,
           HeldRow, rows, record
    <3> QED
      BY <3>2, <3>3 DEF IInv
  <2> QED
    BY <1>1, <2>2, <2>3 DEF Opened
<1>2. CASE Decide
  <2>1. exec.pc = "none" /\ UNCHANGED <<rows, exec, quit, record, held>> /\ i = run.next
    BY <1>0, <1>2 DEF Decide, IInv, PumpFollowsRow
  <2>2. i \in Steps => step[i].state \notin Passed
    BY <2>1, LenNat DEF IInv, RowFollowsReceipts, Steps
  <2>3. Change("review-required") \/ (Change("complete") /\ run.next > Len(Program))
    BY <1>0, <1>2, <2>1, <2>2, LenNat DEF Decide, Retained, Pumps, Steps
  <2> QED
    BY <1>0, <2>1, <2>3, LeavesCases, LeavesInvariant
<1>3. CASE SkipStep
  <2>1. exec.pc = "none" /\ UNCHANGED <<exec, quit, record, held>>
    BY <1>3, GoingNext DEF SkipStep
  <2>2. CASE (PumpEnds \/ Throws) /\ UNCHANGED rows
    BY <1>0, <2>1, <2>2, LeavesCases, LeavesInvariant
  <2>3. CASE Executable(run.state, FALSE) /\ PassStep("skipped")
    BY <1>3, <2>1, <2>3, PassStepInvariant DEF SkipStep
  <2> QED
    BY <1>3, <2>2, <2>3 DEF SkipStep
<1>4. CASE WaitStep
  <2>1. exec.pc = "none" /\ UNCHANGED <<exec, quit, record, held>>
    BY <1>4, GoingNext DEF WaitStep
  <2>2. CASE PumpEnds /\ UNCHANGED rows
    BY <1>0, <2>1, <2>2, LeavesCases, LeavesInvariant
  <2>3. CASE Executable(run.state, FALSE) /\ PassStep("complete")
    BY <1>4, <2>1, <2>3, PassStepInvariant DEF WaitStep
  <2>4. CASE /\ Executable(run.state, FALSE)
             /\ step' = [step EXCEPT ![i] = [Receipt(i) EXCEPT !.state = "waiting"]]
             /\ run' = [run EXCEPT !.state = "waiting"]
             /\ PumpEnds
    <3> DEFINE new == [Receipt(i) EXCEPT !.state = "waiting"]
    <3>1. /\ i = run.next /\ i \in Steps /\ step[i].state \notin Passed /\ Untried(i)
          /\ ~held
      BY <1>4, <2>4, GoingNext DEF WaitStep, IInv, HeldRow, Executable
    <3>2. new \in Receipts /\ new.state = "waiting" /\ new.retry = step[i].retry
      <4>1. RowTypes /\ "waiting" \in StepState
        BY <1>0 DEF RowTypes, StepState
      <4> QED
        BY <3>1, <4>1, ReceiptType
    <3>3. step' = [step EXCEPT ![i] = new]
      BY <2>4
    <3> HIDE DEF new
    <3>4. \A j \in Steps : step'[j] = IF j = i THEN new ELSE step[j]
      BY <1>0, <3>1, <3>3
    <3>5. run' \in Runs /\ run'.next = run.next /\ run'.state = "waiting" /\ step' \in [Steps -> Receipts]
      BY <1>0, <2>4, <3>1, <3>2, <3>3 DEF Runs, Active
    <3>6. pump' \in Pumps /\ pump'.pc = "idle"
      BY <1>0, <2>4, LeavesCases, LenNat DEF PumpEnds, NoPump, Pumps
    <3>7. Types'
      BY <1>0, <2>1, <3>5, <3>6 DEF IInv, Types, RowTypes, PumpTypes, CountTypes, record
    <3>8. RowFollowsReceipts' /\ PumpFollowsRow' /\ IntentBeforeCall'
      BY <2>1, <3>1, <3>2, <3>4, <3>5, <3>6 DEF IInv, RowFollowsReceipts, PumpFollowsRow,
           IntentBeforeCall, Passed
    <3>9. EffectsRecorded' /\ HeldRow' /\ NeverReplayed'
      BY <2>1, <3>1, <3>2, <3>4 DEF IInv, EffectsRecorded, Untried, HeldRow, NeverReplayed,
           record
    <3> QED
      BY <3>7, <3>8, <3>9 DEF IInv
  <2> QED
    BY <1>4, <2>2, <2>3, <2>4 DEF WaitStep
<1>5. CASE Begin
  <2>1. exec.pc = "none" /\ UNCHANGED <<quit, record, held>>
    BY <1>5, GoingNext DEF Begin
  <2>2. CASE (PumpEnds \/ Throws) /\ UNCHANGED <<rows, exec>>
    BY <1>0, <2>1, <2>2, LeavesCases, LeavesInvariant
  <2>3. CASE /\ Executable(run.state, pump.by = "token")
             /\ step' = [step EXCEPT ![i] = [Receipt(i) EXCEPT !.state = "intent"]]
             /\ run' = [run EXCEPT !.state = "running"]
             /\ exec' = [NoExec EXCEPT !.pc = "checking"]
             /\ pump' = [pump EXCEPT !.pc = "executing"]
    <3> DEFINE new == [Receipt(i) EXCEPT !.state = "intent"]
    <3>1. i = run.next /\ i \in Steps /\ step[i].state \notin Passed /\ Untried(i)
      BY <1>5, GoingNext DEF Begin
    <3>2. new \in Receipts /\ new.state = "intent" /\ new.retry = step[i].retry
      <4>1. RowTypes /\ "intent" \in StepState
        BY <1>0 DEF RowTypes, StepState
      <4> QED
        BY <3>1, <4>1, ReceiptType
    <3>3. step' = [step EXCEPT ![i] = new]
      BY <2>3
    <3> HIDE DEF new
    <3>4. \A j \in Steps : step'[j] = IF j = i THEN new ELSE step[j]
      BY <1>0, <3>1, <3>3
    <3>5. run' \in Runs /\ run'.next = run.next /\ run'.state = "running" /\ step' \in [Steps -> Receipts]
      BY <1>0, <2>3, <3>1, <3>2, <3>3 DEF Runs, Active
    <3>6. pump' \in Pumps /\ pump'.pc = "executing" /\ pump'.next = i
      BY <1>0, <2>3 DEF Pumps
    <3>7. exec' \in Execs /\ exec'.pc = "checking"
      BY <2>3 DEF NoExec, Execs
    <3>8. ~held
      BY <2>3 DEF IInv, HeldRow, Executable
    <3>9. Types'
      BY <2>1, <3>5, <3>6, <3>7 DEF IInv, Types, RowTypes, PumpTypes, CountTypes, record
    <3>10. RowFollowsReceipts' /\ PumpFollowsRow' /\ IntentBeforeCall'
      BY <3>1, <3>2, <3>4, <3>5, <3>6, <3>7 DEF IInv, RowFollowsReceipts, PumpFollowsRow,
           IntentBeforeCall, Passed
    <3>11. EffectsRecorded' /\ HeldRow' /\ NeverReplayed'
      BY <2>1, <3>1, <3>2, <3>4, <3>6, <3>7, <3>8 DEF IInv, EffectsRecorded, Untried, HeldRow,
           NeverReplayed, record
    <3> QED
      BY <3>9, <3>10, <3>11 DEF IInv
  <2> QED
    BY <1>5, <2>2, <2>3 DEF Begin
<1>6. CASE Changed
  <2>1. /\ exec.pc = "none" /\ UNCHANGED <<step, exec, quit, record, held>>
        /\ pump.to \in {"review-required", "complete"}
        /\ pump.to = "complete" => run.next > Len(Program)
    BY <1>0, <1>6 DEF Changed, IInv, PumpFollowsRow
  <2>2. ChangeRun(pump.to, run.next) /\ PumpEnds
    BY <1>6, <2>1 DEF Changed
  <2>3. pump' \in Pumps /\ pump'.pc = "idle"
    BY <2>2, LenNat DEF PumpEnds, NoPump, Pumps
  <2>4. /\ run' \in Runs /\ run'.next = run.next
        /\ run'.state \in {run.state, "review-required", "complete"}
        /\ run'.state = "complete" => run.next > Len(Program)
    BY <1>0, <2>1, <2>2 DEF ChangeRun, Runs, Terminal, IInv, RowFollowsReceipts
  <2>5. held => run'.state # "approval-required"
    BY <2>1, <2>2 DEF ChangeRun, Terminal
  <2>6. Types'
    BY <1>0, <2>1, <2>3, <2>4 DEF IInv, Types, RowTypes, PumpTypes, CountTypes, record
  <2>7. RowFollowsReceipts' /\ PumpFollowsRow' /\ IntentBeforeCall'
    BY <2>1, <2>3, <2>4 DEF IInv, RowFollowsReceipts, PumpFollowsRow, IntentBeforeCall
  <2>8. EffectsRecorded' /\ HeldRow' /\ NeverReplayed'
    BY <2>1, <2>4, <2>5 DEF IInv, EffectsRecorded, Untried, HeldRow, NeverReplayed, record
  <2> QED
    BY <2>6, <2>7, <2>8 DEF IInv
<1>7. CASE Returned
  <2>1. /\ exec.pc = "returned" /\ RetainOutcome /\ exec' = NoExec
        /\ UNCHANGED <<quit, record, held>>
    BY <1>7 DEF Returned
  <2>2. /\ RowTypes' /\ i \in Steps
        /\ \/ UNCHANGED rows /\ step[i].state \in {"complete", "failed"}
           \/ Kept(i)
    BY <2>1, RetainEffect
  <2>3. pump' \in Pumps /\ pump'.pc \in {"idle", "opening"}
    <3>1. CASE PumpEnds
      BY <3>1, LenNat DEF PumpEnds, NoPump, Pumps
    <3>2. CASE pump' = Loop([pump EXCEPT !.by = IF @ = "kick" THEN @ ELSE "approval"])
      <4>1. [pump EXCEPT !.by = IF @ = "kick" THEN @ ELSE "approval"] \in Pumps
        BY <1>0 DEF Pumps
      <4> QED
        BY <3>2, <4>1, LoopEffect
    <3> QED
      BY <1>7, <3>1, <3>2 DEF Returned
  <2>4. exec' \in Execs /\ exec'.pc = "none"
    BY <2>1 DEF NoExec, Execs
  <2>5. Types'
    BY <2>1, <2>2, <2>3, <2>4 DEF IInv, Types, PumpTypes, CountTypes, record
  <2>6. PumpFollowsRow' /\ IntentBeforeCall'
    BY <2>3, <2>4 DEF PumpFollowsRow, IntentBeforeCall
  <2>7. CASE UNCHANGED rows
    BY <2>1, <2>4, <2>5, <2>6, <2>7 DEF IInv, RowFollowsReceipts, EffectsRecorded, Untried,
         HeldRow, NeverReplayed, rows, record
  <2>8. CASE Kept(i)
    <3>1. /\ RowFollowsReceipts'
          /\ \A j \in Steps : step'[j].retry => confirmed'[j] > 0
          /\ \A j \in Steps : step'[j].state \in {"none", "waiting", "approval-required"} => Untried(j)'
          /\ held' => run'.state \in {"stopping", "stopped", "paused", "review-required"}
      BY <2>1, <2>2, <2>8, KeptInvariant
    <3> QED
      BY <2>1, <2>4, <2>5, <2>6, <3>1 DEF IInv, EffectsRecorded, HeldRow, NeverReplayed, record
  <2> QED
    BY <2>2, <2>7, <2>8
<1> QED
  BY <1>1, <1>2, <1>3, <1>4, <1>5, <1>6, <1>7 DEF PumpStep

(* The steps of the tool call preserve the invariant.                      *)
LEMMA ExecInvariant ==
  ASSUME IInv, ExecStep \/ CallbackFails
  PROVE  IInv'
<1> DEFINE i == pump.next
<1>0. /\ pump \in Pumps /\ exec \in Execs /\ (exec.pc # "none" <=> pump.pc = "executing")
      /\ run \in Runs /\ step \in [Steps -> Receipts]
  BY DEF IInv, Types, PumpTypes, RowTypes
<1>1. ASSUME NEW result \in {"failed", "approval-required"}, exec.pc = "checking", Return(result),
             UNCHANGED <<rows, pump, quit, record, held>>
      PROVE  IInv'
  <2>1. exec' \in Execs /\ exec'.pc = "returned" /\ exec'.result = result
    BY <1>1 DEF Return, NoExec, Execs
  <2>2. Types'
    BY <1>0, <1>1, <2>1 DEF IInv, Types, RowTypes, PumpTypes, CountTypes, rows, record
  <2>3. RowFollowsReceipts' /\ PumpFollowsRow' /\ IntentBeforeCall'
    BY <1>0, <1>1, <2>1 DEF IInv, RowFollowsReceipts, PumpFollowsRow, IntentBeforeCall, rows
  <2>4. EffectsRecorded' /\ HeldRow' /\ NeverReplayed'
    BY <1>1, <2>1 DEF IInv, EffectsRecorded, Untried, HeldRow, NeverReplayed, rows, record
  <2> QED
    BY <2>2, <2>3, <2>4 DEF IInv
<1>2. CASE Denied \/ Asks
  BY <1>1, <1>2 DEF Denied, Asks
<1>3. CASE Dispatch
  <2>1. exec.pc = "checking" /\ i \in Steps /\ UNCHANGED <<rows, pump, quit, confirmed, held>>
    BY <1>3 DEF Dispatch, IInv, PumpFollowsRow
  <2>2. exec' \in Execs /\ exec'.pc = "running"
    BY <1>0, <1>3 DEF Dispatch, Execs
  <2>3. \A j \in Steps : started'[j] = IF j = i THEN started[i] + 1 ELSE started[j]
    BY <1>3 DEF Dispatch, IInv, Types, CountTypes
  <2>4. started' \in [Steps -> Nat]
    <3>1. started \in [Steps -> Nat] /\ started[i] + 1 \in Nat
      BY <2>1 DEF IInv, Types, CountTypes
    <3>2. started' = [started EXCEPT ![i] = started[i] + 1]
      BY <1>3 DEF Dispatch
    <3> QED
      BY ONLY <3>1, <3>2
  <2>5. Types'
    BY <1>0, <2>1, <2>2, <2>4 DEF IInv, Types, RowTypes, PumpTypes, CountTypes, rows
  <2>6. RowFollowsReceipts' /\ PumpFollowsRow' /\ IntentBeforeCall'
    BY <2>1, <2>2 DEF IInv, RowFollowsReceipts, PumpFollowsRow, IntentBeforeCall, rows
  <2>7. step[i].state = "intent" /\ Untried(i)
    BY <2>1 DEF IInv, IntentBeforeCall, EffectsRecorded
  <2>8. EffectsRecorded' /\ HeldRow'
    BY <2>1, <2>2, <2>3, <2>7 DEF IInv, EffectsRecorded, Untried, HeldRow, rows
  <2>9. NeverReplayed'
    BY <2>1, <2>3, <2>7 DEF IInv, NeverReplayed, Untried
  <2> QED
    BY <2>5, <2>6, <2>8, <2>9 DEF IInv
<1>4. CASE EffectEnds
  <2>1. /\ exec.pc = "running" /\ UNCHANGED <<rows, pump, quit, record, held>>
        /\ exec' \in Execs /\ exec'.pc = "ended" /\ exec'.result \in {"complete", "failed"}
    BY <1>0, <1>4 DEF EffectEnds, Execs
  <2>2. Types'
    BY <1>0, <2>1 DEF IInv, Types, RowTypes, PumpTypes, CountTypes, rows, record
  <2>3. RowFollowsReceipts' /\ PumpFollowsRow' /\ IntentBeforeCall'
    BY <2>1 DEF IInv, RowFollowsReceipts, PumpFollowsRow, IntentBeforeCall, rows
  <2>4. EffectsRecorded' /\ HeldRow' /\ NeverReplayed'
    BY <2>1 DEF IInv, EffectsRecorded, Untried, HeldRow, NeverReplayed, rows, record
  <2> QED
    BY <2>2, <2>3, <2>4 DEF IInv
<1>5. ASSUME exec.pc = "ended", Return(exec.result), RetainOutcome \/ UNCHANGED rows,
             UNCHANGED <<pump, quit, record, held>>
      PROVE  IInv'
  <2>1. /\ exec' \in Execs /\ exec'.pc = "returned" /\ exec'.result = exec.result
        /\ exec.result \in {"complete", "failed"}
    BY <1>0, <1>5 DEF Return, NoExec, Execs, IInv, IntentBeforeCall
  <2>2. i \in Steps /\ step[i].state = "intent"
    BY <1>5 DEF IInv, PumpFollowsRow, IntentBeforeCall
  <2>3. CASE UNCHANGED rows
    <3>1. Types'
      BY <1>0, <1>5, <2>1, <2>3 DEF IInv, Types, RowTypes, PumpTypes, CountTypes, rows, record
    <3>2. RowFollowsReceipts' /\ PumpFollowsRow' /\ IntentBeforeCall'
      BY <1>5, <2>1, <2>2, <2>3 DEF IInv, RowFollowsReceipts, PumpFollowsRow, IntentBeforeCall,
           rows
    <3>3. EffectsRecorded' /\ HeldRow' /\ NeverReplayed'
      BY <1>5, <2>1, <2>3 DEF IInv, EffectsRecorded, Untried, HeldRow, NeverReplayed, rows,
           record
    <3> QED
      BY <3>1, <3>2, <3>3 DEF IInv
  <2>4. CASE RetainOutcome
    <3>1. RowTypes' /\ Kept(i)
      BY <1>5, <2>2, <2>4, RetainEffect
    <3>2. /\ RowFollowsReceipts'
          /\ \A j \in Steps : step'[j].retry => confirmed'[j] > 0
          /\ \A j \in Steps : step'[j].state \in {"none", "waiting", "approval-required"} => Untried(j)'
          /\ held' => run'.state \in {"stopping", "stopped", "paused", "review-required"}
          /\ step'[i].state = exec.result
      BY <1>5, <2>2, <3>1, KeptInvariant
    <3>3. Types'
      BY <1>0, <1>5, <2>1, <3>1 DEF IInv, Types, PumpTypes, CountTypes, record
    <3>4. PumpFollowsRow' /\ IntentBeforeCall'
      BY <1>0, <1>5, <2>1, <2>2, <3>2 DEF PumpFollowsRow, IntentBeforeCall
    <3>5. EffectsRecorded' /\ HeldRow' /\ NeverReplayed'
      BY <1>5, <2>1, <3>2 DEF IInv, EffectsRecorded, HeldRow, NeverReplayed, record
    <3> QED
      BY <3>2, <3>3, <3>4, <3>5 DEF IInv
  <2> QED
    BY <1>5, <2>3, <2>4
<1>6. CASE Callback \/ CallbackFails
  BY <1>5, <1>6 DEF Callback, CallbackFails
<1> QED
  BY <1>2, <1>3, <1>4, <1>6 DEF ExecStep

(* A change of the row's state alone, as the user and the system ask for,  *)
(* and with it at most an abort of the call and a new pump for an idle one,*)
(* preserves the invariant.                                                *)
LEMMA RowStateInvariant ==
  ASSUME IInv,
         NEW s \in {run.state, "paused", "stopping", "stopped", "review-required", "queued"},
         run' = [run EXCEPT !.state = s], UNCHANGED <<step, record>>,
         quit' \in {"none", "closing", "pausing", "settling"},
         \/ pump' = pump
         \/ /\ pump.pc = "idle" /\ pump' \in Pumps /\ pump'.pc \in {"idle", "opening"}
            /\ pump'.by = "kick" \/ ~held',
         exec' = exec \/ exec' = [exec EXCEPT !.aborted = TRUE],
         \/ held' = TRUE /\ s \in {"paused", "stopping", "review-required"}
         \/ held' = FALSE
         \/ held' = held /\ s \in {run.state, "stopped"}
  PROVE  IInv'
<1>0. /\ pump \in Pumps /\ exec \in Execs /\ (exec.pc # "none" <=> pump.pc = "executing")
      /\ run \in Runs /\ step \in [Steps -> Receipts]
  BY DEF IInv, Types, PumpTypes, RowTypes
<1>1. /\ run' \in Runs /\ run'.next = run.next /\ run'.state = s
      /\ s = "complete" => run.state = "complete"
  BY <1>0 DEF Runs, Active, Terminal
<1>2. exec' \in Execs /\ exec'.pc = exec.pc /\ exec'.result = exec.result
  BY <1>0 DEF Execs
<1>3. /\ pump' \in Pumps
      /\ pump' = pump \/ (exec.pc = "none" /\ pump'.pc \in {"idle", "opening"} /\ (pump'.by = "kick" \/ ~held'))
  BY <1>0
<1>4. Types'
  BY <1>0, <1>1, <1>2, <1>3 DEF IInv, Types, RowTypes, PumpTypes, CountTypes, record
<1>5. RowFollowsReceipts' /\ PumpFollowsRow' /\ IntentBeforeCall'
  BY <1>1, <1>2, <1>3 DEF IInv, RowFollowsReceipts, PumpFollowsRow, IntentBeforeCall
<1>6. EffectsRecorded' /\ NeverReplayed'
  BY <1>0, <1>2, <1>3 DEF IInv, EffectsRecorded, Untried, NeverReplayed, record
<1>7. HeldRow'
  BY <1>1, <1>2, <1>3 DEF IInv, HeldRow
<1> QED
  BY <1>4, <1>5, <1>6, <1>7 DEF IInv

(* The process ends and the next one recovers the row: the invariant holds,*)
(* an intent without an outcome having become uncertain.                   *)
LEMMA RestartInvariant ==
  ASSUME IInv, Restart
  PROVE  IInv'
<1>0. run \in Runs /\ step \in [Steps -> Receipts]
  BY DEF IInv, Types, RowTypes
<1> DEFINE i == run.next
<1>1. /\ pump' = NoPump /\ exec' = NoExec /\ quit' = "none" /\ held' = TRUE /\ UNCHANGED record
  BY DEF Restart
<1>2. pump' \in Pumps /\ pump'.pc = "idle" /\ pump'.by = "kick" /\ exec' \in Execs /\ exec'.pc = "none"
  BY <1>1, LenNat DEF NoPump, NoExec, Pumps, Execs
<1>3. /\ run' \in Runs /\ run'.next = run.next
      /\ run'.state = "complete" => run.state = "complete"
      /\ run'.state \notin {"queued", "running", "waiting"}
  <2>1. \/ run' = run /\ run.state \notin {"queued", "running", "waiting", "stopping"}
        \/ run' = [run EXCEPT !.state = "review-required"]
        \/ run' = [run EXCEPT !.state = "paused"]
    BY DEF Restart, Recover
  <2> QED
    BY <1>0, <2>1 DEF Runs, Active, Terminal
<1>4. \/ step' = step
      \/ i \in Steps /\ step[i].state \in {"intent", "unknown"} /\ step' = [step EXCEPT ![i].state = "unknown"]
  BY DEF Restart, Recover
<1>5. /\ step' \in [Steps -> Receipts]
      /\ \A j \in Steps : /\ step'[j].retry = step[j].retry
                          /\ \/ step'[j].state = step[j].state
                             \/ step'[j].state = "unknown" /\ step[j].state \in {"intent", "unknown"}
  <2>1. CASE step' = step
    BY <1>0, <2>1
  <2>2. CASE i \in Steps /\ step[i].state \in {"intent", "unknown"} /\ step' = [step EXCEPT ![i].state = "unknown"]
    <3>1. [step[i] EXCEPT !.state = "unknown"] \in Receipts /\ step[i] \in Receipts
      BY <1>0, <2>2 DEF Receipts, StepState
    <3>2. \A j \in Steps : step'[j] = IF j = i THEN [step[i] EXCEPT !.state = "unknown"] ELSE step[j]
      BY <1>0, <2>2
    <3>3. step' \in [Steps -> Receipts]
      BY <1>0, <2>2, <3>1
    <3> QED
      BY <2>2, <3>1, <3>2, <3>3 DEF Receipts
  <2> QED
    BY <1>4, <2>1, <2>2
<1>6. Types'
  BY <1>1, <1>2, <1>3, <1>5 DEF IInv, Types, RowTypes, PumpTypes, CountTypes, record
<1>7. RowFollowsReceipts' /\ PumpFollowsRow' /\ IntentBeforeCall'
  BY <1>2, <1>3, <1>5 DEF IInv, RowFollowsReceipts, PumpFollowsRow, IntentBeforeCall, Passed
<1>8. EffectsRecorded' /\ HeldRow' /\ NeverReplayed'
  BY <1>1, <1>2, <1>3, <1>5 DEF IInv, EffectsRecorded, Untried, HeldRow, NeverReplayed, record
<1> QED
  BY <1>6, <1>7, <1>8 DEF IInv

(* The review of a step, which skips it or confirms a new attempt of it,   *)
(* preserves the invariant.                                                *)
LEMMA ReviewInvariant ==
  ASSUME IInv, NEW retry \in BOOLEAN, Review(retry)
  PROVE  IInv'
<1> DEFINE i == run.next
           new == [state |-> IF retry THEN "unknown" ELSE "reviewed-skip",
                   attempt |-> step[i].attempt + 1, retry |-> retry]
<1>0. /\ pump \in Pumps /\ exec \in Execs /\ (exec.pc # "none" <=> pump.pc = "executing")
      /\ run \in Runs /\ step \in [Steps -> Receipts]
  BY DEF IInv, Types, PumpTypes, RowTypes
<1>1. /\ i \in Steps /\ step[i].attempt < MaxAttempts /\ exec.pc = "none" /\ pump.pc = "idle"
      /\ step' = [step EXCEPT ![i] = new]
      /\ run' = [state |-> "paused", next |-> IF retry THEN i ELSE i + 1]
      /\ confirmed' = IF retry THEN [confirmed EXCEPT ![i] = @ + 1] ELSE confirmed
      /\ UNCHANGED <<pump, exec, quit, started>>
  BY <1>0 DEF Review
<1>2. new \in Receipts
  <2>1. step[i].attempt \in 0..MaxAttempts
    BY <1>0, <1>1 DEF Receipts
  <2>2. step[i].attempt + 1 \in 0..MaxAttempts
    BY <1>1, <2>1, AutomationsAssumption
  <2> QED
    BY <2>2 DEF Receipts, StepState
<1>3. new.state = (IF retry THEN "unknown" ELSE "reviewed-skip") /\ new.retry = retry
  OBVIOUS
<1> HIDE DEF new
<1>4. \A j \in Steps : step'[j] = IF j = i THEN new ELSE step[j]
  BY <1>0, <1>1
<1>5. run' \in Runs /\ run'.state = "paused" /\ run'.next = IF retry THEN i ELSE i + 1
  BY <1>0, <1>1, LenNat DEF Runs, Steps
<1>6. /\ confirmed' \in [Steps -> Nat]
      /\ \A j \in Steps : confirmed'[j] = IF retry /\ j = i THEN confirmed[i] + 1 ELSE confirmed[j]
  BY <1>1 DEF IInv, Types, CountTypes
<1>7. confirmed \in [Steps -> Nat] /\ started \in [Steps -> Nat]
  BY DEF IInv, Types, CountTypes
<1>8. Types'
  BY <1>0, <1>1, <1>2, <1>5, <1>6 DEF IInv, Types, RowTypes, PumpTypes, CountTypes
<1>9. RowFollowsReceipts'
  BY <1>1, <1>3, <1>4, <1>5, LenNat DEF IInv, RowFollowsReceipts, Passed, Steps
<1>10. PumpFollowsRow' /\ IntentBeforeCall' /\ HeldRow'
  BY <1>1, <1>5 DEF PumpFollowsRow, IntentBeforeCall, HeldRow
<1>11. EffectsRecorded'
  BY <1>1, <1>3, <1>4, <1>6, <1>7 DEF IInv, EffectsRecorded, Untried
<1>12. NeverReplayed'
  BY <1>1, <1>6, <1>7 DEF IInv, NeverReplayed
<1> QED
  BY <1>8, <1>9, <1>10, <1>11, <1>12 DEF IInv

(* The user, a Stop that returns, and the system preserve the invariant.   *)
LEMMA UserInvariant ==
  ASSUME IInv, StopWrites \/ UserStep \/ SystemStep
  PROVE  IInv'
<1>0. /\ pump \in Pumps /\ exec \in Execs /\ run \in Runs /\ run = [run EXCEPT !.state = run.state]
      /\ quit \in {"none", "closing", "pausing", "settling"}
  BY DEF IInv, Types, PumpTypes, RowTypes, CountTypes, Runs
<1>1. NoPump \in Pumps /\ [NoPump EXCEPT !.by = "token"] \in Pumps
  BY LenNat DEF NoPump, Pumps
<1>2. ASSUME Kick
      PROVE  \/ pump' = pump
             \/ /\ pump.pc = "idle" /\ pump' \in Pumps /\ pump'.pc \in {"idle", "opening"}
                /\ pump'.by = "kick"
  BY <1>1, <1>2, LoopEffect DEF Kick, NoPump
<1>3. ASSUME NEW j, Cancel(j)
      PROVE  exec' = exec \/ exec' = [exec EXCEPT !.aborted = TRUE]
  BY <1>3 DEF Cancel
<1>4. CASE StopWrites
  <2>1. run' = [run EXCEPT !.state = run.state] \/ run' = [run EXCEPT !.state = "stopped"]
    BY <1>0, <1>4 DEF StopWrites, ChangeRun, Runs
  <2> QED
    BY <1>0, <1>4, <2>1, RowStateInvariant DEF StopWrites
<1>5. CASE Pause
  BY <1>0, <1>5, RowStateInvariant DEF Pause
<1>6. CASE Resume
  BY <1>0, <1>2, <1>6, RowStateInvariant DEF Resume
<1>7. ASSUME NEW own \in BOOLEAN, Stop(own) PROVE IInv'
  BY <1>0, <1>3, <1>7, RowStateInvariant DEF Stop
<1>8. CASE Approve
  <2>1. pump' \in Pumps /\ pump'.pc \in {"idle", "opening"}
    BY <1>1, <1>8, LoopEffect DEF Approve
  <2> QED
    BY <1>0, <1>8, <2>1, RowStateInvariant DEF Approve, rows
<1>9. CASE \E retry \in BOOLEAN : Review(retry)
  BY <1>9, ReviewInvariant
<1>10. CASE BeginQuit \/ CheckpointBeforeQuit
  BY <1>0, <1>10, RowStateInvariant DEF BeginQuit, CheckpointBeforeQuit, rows
<1>11. CASE PauseBeforeQuit
  BY <1>0, <1>11, RowStateInvariant DEF PauseBeforeQuit
<1>12. CASE Quit
  BY <1>12, RestartInvariant DEF Quit
<1>13. CASE RevokeWrites
  BY <1>0, <1>3, <1>13, RowStateInvariant DEF RevokeWrites
<1>14. CASE TimerFires
  BY <1>0, <1>2, <1>14, RowStateInvariant DEF TimerFires, rows
<1> QED
  BY <1>4, <1>5, <1>6, <1>7, <1>8, <1>9, <1>10, <1>11, <1>12, <1>13, <1>14 DEF UserStep,
       SystemStep

(* What goes wrong preserves the invariant.                                *)
LEMMA MishapInvariant ==
  ASSUME IInv, MishapStep
  PROVE  IInv'
<1>0. /\ pump \in Pumps /\ exec \in Execs /\ run \in Runs /\ run = [run EXCEPT !.state = run.state]
      /\ exec.pc # "none" <=> pump.pc = "executing"
      /\ quit \in {"none", "closing", "pausing", "settling"}
  BY DEF IInv, Types, PumpTypes, RowTypes, CountTypes, Runs
<1>1. CASE PumpThrows
  BY <1>0, <1>1, LeavesCases, LeavesInvariant DEF PumpThrows
<1>2. CASE CallbackFails
  BY <1>2, ExecInvariant
<1>3. CASE ReturnFails
  <2>1. /\ exec.pc = "returned" /\ UNCHANGED <<rows, quit, record, held>>
        /\ exec' \in Execs /\ exec'.pc = "none"
    BY <1>3 DEF ReturnFails, NoExec, Execs
  <2>2. /\ pump' \in Pumps /\ pump'.pc = "changing" /\ pump'.to = "review-required" /\ pump'.by = pump.by
    BY <1>0, <1>3 DEF ReturnFails, Change, Pumps
  <2>3. Types' /\ RowFollowsReceipts' /\ PumpFollowsRow' /\ IntentBeforeCall'
    BY <2>1, <2>2 DEF IInv, Types, RowTypes, PumpTypes, CountTypes, RowFollowsReceipts,
         PumpFollowsRow, IntentBeforeCall, rows, record
  <2>4. EffectsRecorded' /\ HeldRow' /\ NeverReplayed'
    BY <2>1, <2>2 DEF IInv, EffectsRecorded, Untried, HeldRow, NeverReplayed, rows, record
  <2> QED
    BY <2>3, <2>4 DEF IInv
<1>4. CASE Revoke
  BY <1>0, <1>4, RowStateInvariant DEF Revoke, rows
<1>5. CASE QuitRefused
  BY <1>0, <1>5, RowStateInvariant DEF QuitRefused, rows
<1>6. CASE Crash
  BY <1>6, RestartInvariant DEF Crash
<1> QED
  BY <1>1, <1>2, <1>3, <1>4, <1>5, <1>6 DEF MishapStep

(* Every step preserves the invariant.                                     *)
LEMMA StepInvariant == IInv /\ [Next]_vars => IInv'
<1>1. ASSUME IInv, UNCHANGED vars PROVE IInv'
  BY <1>1 DEF vars, rows, world, record, IInv, Types, RowTypes, PumpTypes, CountTypes,
       RowFollowsReceipts, PumpFollowsRow, IntentBeforeCall, EffectsRecorded, Untried, HeldRow,
       NeverReplayed
<1> QED
  BY <1>1, PumpInvariant, ExecInvariant, UserInvariant, MishapInvariant DEF Next

-----------------------------------------------------------------------------
(* The inductive invariant holds for every program.                        *)
THEOREM InvariantHolds == Spec => []IInv
BY InitInvariant, StepInvariant, PTL DEF Spec

(* Types, of the rows and of whoever advances them.                        *)
THEOREM Typing == Spec => []TypeOK
<1>1. IInv => TypeOK
  BY DEF IInv, Types, RowTypes, PumpTypes, CountTypes, Runs, Receipts, Pumps, Execs, TypeOK
<1> QED
  BY <1>1, InvariantHolds, PTL

(* "It will never be replayed automatically": whatever is paused, resumed, *)
(* withdrawn, lost in a crash or recovered, an effect is started at most   *)
(* once unless the operator has confirmed a new attempt of it.             *)
THEOREM UnconfirmedOnce == Spec => []NeverReplayed
<1>1. IInv => NeverReplayed
  BY DEF IInv
<1> QED
  BY <1>1, InvariantHolds, PTL

(* No step is passed without its receipt, and a run is complete only behind*)
(* its last step, though the row and its pump are written and read apart.  *)
THEOREM ReceiptsBeforeNext == Spec => []PassedHaveReceipts
<1>1. IInv => PassedHaveReceipts
  BY DEF IInv, RowFollowsReceipts, PassedHaveReceipts
<1> QED
  BY <1>1, InvariantHolds, PTL

(* Once a pause, a stop, a withdrawal or a restart is in the row, no tool  *)
(* is called until the user resumes or approves, whatever pump is still on *)
(* its way and whatever a call brings back meanwhile.                      *)
THEOREM HoldIsRespected == Spec => HeldStaysHeld
<1>1. IInv /\ [Next]_vars => [held => ~(exec.pc = "none" /\ exec'.pc = "checking")]_vars
  <2> SUFFICES ASSUME IInv, Next, held, exec.pc = "none", exec'.pc = "checking" PROVE FALSE
    OBVIOUS
  <2> USE DEF Return, NoExec
  <2>1. exec \in Execs
    BY DEF IInv, Types, PumpTypes
  <2>2. CASE PumpStep
    <3>1. CASE Begin
      <4>1. Executable(run.state, pump.by = "token")
        BY <3>1 DEF Begin
      <4> QED
        BY <4>1 DEF IInv, HeldRow, Executable
    <3> QED
      BY <2>2, <3>1 DEF PumpStep, Opened, Decide, SkipStep, WaitStep, Changed, Returned
  <2>3. CASE ExecStep \/ StopWrites
    BY <2>1, <2>3 DEF ExecStep, Denied, Asks, Dispatch, EffectEnds, Callback, StopWrites
  <2>4. CASE UserStep
    BY <2>1, <2>4 DEF UserStep, Pause, Resume, Stop, Approve, Review, BeginQuit, Cancel, Calling
  <2>5. CASE SystemStep
    <3>1. CASE RevokeWrites
      <4>1. exec' = exec
        BY <3>1 DEF RevokeWrites, Cancel, Calling
      <4> QED
        BY <4>1
    <3>2. CASE Quit
      BY <3>2 DEF Quit, Restart
    <3> QED
      BY <2>5, <3>1, <3>2 DEF SystemStep, CheckpointBeforeQuit, PauseBeforeQuit, TimerFires
  <2>6. CASE MishapStep
    <3>1. CASE Crash
      BY <3>1 DEF Crash, Restart
    <3> QED
      BY <2>6, <3>1 DEF MishapStep, PumpThrows, CallbackFails, ReturnFails, Revoke, QuitRefused
  <2> QED
    BY <2>2, <2>3, <2>4, <2>5, <2>6 DEF Next
<1> QED
  BY <1>1, InvariantHolds, PTL DEF Spec, HeldStaysHeld

-----------------------------------------------------------------------------
(***************************************************************************)
(* Builds, for any number of brains that name the same selections, any      *)
(* resources, and any failed writes, failed requests, abandoned jobs,       *)
(* worker exits and restarts.  The first invariant relates the plans, the   *)
(* index, the calls and the jobs to what the brains have learned, and shows *)
(* that a brain is unlocked behind its learning.  The second keeps a        *)
(* selection with one brain; the step that breaks it is the restart that    *)
(* loses a rejected write of the index, so it is stated apart.              *)
(***************************************************************************)
\* The stages of a job that runs, and the steps a call has a task at.
Stages == {"scan", "commit", "note", "learn", "learn, report", "report", "tick", "done", "failed"}
TaskSteps == {"mark", "select", "launch scan", "launch learn", "launch web", "wait",
              "task done", "learned before", "task failed", "release task"}
States == {"selected", "preparing", "training", "retryable", "complete", "deleted"}

(***************************************************************************)
(* The invariant, in parts: the plans, the calls, the index in memory and   *)
(* on disk, the jobs, and who works on a selection.                         *)
(***************************************************************************)
PlanTyped(p, b) ==
  \/ p = NoPlan
  \/ p \in [phase : {"foundation", "learning", "failed"},
            failure : {"none", "foundation", "learning"}, task : [Tasks(b) -> PlanStates]]
PlansTyped == DOMAIN plan = Brains /\ \A b \in Brains : PlanTyped(plan[b], b)
\* A task ticked off in the plan is learned.
PlanTrue(p, b) == p # NoPlan => \A t \in Tasks(b) : p.task[t] = "complete" => t \in learned[b]
PlansTrue == \A b \in Brains : PlanTrue(plan[b], b)

\* Every call has the cursor, the resource and the plan its next step reads.
DocStates == {"absent", "initializing", "failed", "ready"}
CallKinds == {"none", "create", "retry", "recover"}
CallTyped(b) ==
  /\ doc[b] \in DocStates /\ call[b] \in CallKinds
  /\ cursor[b] \in 1 .. Len(Resources[b]) + 1
  /\ pc[b] \in TaskSteps => cursor[b] <= Len(Resources[b])
  /\ pc[b] \in {"select", "launch scan", "launch learn"} => Task(b) \in Selections
  /\ At(b, "launch web") => Task(b) \notin Selections
  /\ (call[b] = "none") <=> At(b, "idle")
  /\ failure[b].phase \in {"none", "foundation", "learning"}
  /\ b \in recovery => At(b, "idle") /\ doc[b] = "initializing"
CallsTyped ==
  /\ doc \in [Brains -> DocStates]
  /\ DOMAIN call = Brains /\ DOMAIN pc = Brains /\ DOMAIN cursor = Brains
  /\ DOMAIN failure = Brains /\ recovery \subseteq Brains
  /\ \A b \in Brains : CallTyped(b)
\* What a call is about to write down has happened.
CallTrue(b) ==
  /\ pc[b] \in {"task done", "learned before"} => Task(b) \in learned[b]
  /\ At(b, "commit") => b \in built /\ b \in taught
  /\ pc[b] \in {"commit", "tidy"} => learned[b] = Tasks(b)
CallsTrue == \A b \in Brains : CallTrue(b)
\* A brain learns what was selected for it.
NeuralTyped ==
  /\ built \cup resident \cup taught \subseteq Brains
  /\ DOMAIN learned = Brains /\ \A b \in Brains : learned[b] \subseteq Tasks(b)

\* An entry, in memory or on disk, is owned from its claim to its deletion, and
\* it is complete only when its owner has learned it.
IndexTyped(m) ==
  m \in [Selections -> [state : States, owner : Brains \cup {NoBrain}, manifest : BOOLEAN]]
IndexSound(m) ==
  \A s \in Selections :
     /\ m[s].state \in {"selected", "deleted"} => m[s].owner = NoBrain /\ ~m[s].manifest
     /\ m[s].state \notin {"selected", "deleted"} => m[s].owner \in Brains
     /\ m[s].state = "complete" => s \in learned[m[s].owner]
IndexesTyped == IndexTyped(selection) /\ IndexTyped(savedSelection)
IndexesSound == IndexSound(selection) /\ IndexSound(savedSelection)

\* A job runs for a task of its brain; the one a call waits for is for the task
\* the call is at.  A job that reports has learned.
JobTyped(j, b) ==
  /\ j \in [task : Tasks(b), stage : Stages]
  /\ j.stage \notin {"learn", "done", "failed"} => j.task \in Selections
JobTrue(j, b) == j.stage \in {"report", "tick", "done"} => j.task \in learned[b]
AwaitedTyped(b) ==
  job[b] # NoJob => JobTyped(job[b], b) /\ At(b, "wait") /\ job[b].task = Task(b)
JobsTyped ==
  /\ DOMAIN job = Brains /\ \A b \in Brains : AwaitedTyped(b)
  /\ \A r \in orphans : /\ r.brain \in Brains /\ JobTyped(r.job, r.brain)
                        /\ r = [brain |-> r.brain, job |-> r.job]
JobsTrue ==
  /\ \A b \in Brains : JobTrue(job[b], b)
  /\ \A r \in orphans : JobTrue(r.job, r.brain)

\* Whoever works on a selection owns it, or it is gone: a job outlives the call
\* that started it, and no other brain can claim what it works on.
Works(b, s) ==
  \/ job[b].stage # "none" /\ job[b].task = s
  \/ \E r \in orphans : r.brain = b /\ r.job.task = s
Holds(b, s) == selection[s].owner = b \/ selection[s].state = "deleted"
Launching(b) == pc[b] \in {"launch scan", "launch learn"}
WorkersHold ==
  \A b \in Brains :
     /\ Launching(b) => Holds(b, Task(b))
     /\ \A s \in Selections : Works(b, s) => Holds(b, s)

\* The index in memory is the one on disk unless a write of it was rejected.
Journalled ==
  /\ faults \in Nat /\ broken \in BOOLEAN
  /\ broken => faults >= 1
  /\ ~broken => selection = savedSelection

\* The inductive invariant.
BuildInv ==
  /\ PlansTyped /\ PlansTrue /\ CallsTyped /\ CallsTrue /\ NeuralTyped
  /\ IndexesTyped /\ IndexesSound /\ JobsTyped /\ JobsTrue /\ WorkersHold
  /\ Journalled /\ ReadyMeansLearned

\* What keeps a selection with one brain: a brain that has learned it owns it, or
\* it is gone, and it is gone only when whoever still works on it has learned it.
LearnersHold == \A b \in Brains : \A s \in learned[b] \cap Selections : Holds(b, s)
LaunchersOwn == \A b \in Brains : Launching(b) => selection[Task(b)].owner = b
DeletedIsLearned ==
  \A b \in Brains : \A s \in Selections :
     Works(b, s) /\ selection[s].state = "deleted" => s \in learned[b]
Exclusive == LearnersHold /\ LaunchersOwn /\ DeletedIsLearned /\ SelectionLearnedOnce

\* A call works on what is its own, and nothing is learned or put up for recovery.
Alone(b) ==
  /\ DOMAIN plan' = Brains /\ DOMAIN call' = Brains /\ DOMAIN pc' = Brains
  /\ DOMAIN cursor' = Brains /\ DOMAIN failure' = Brains /\ DOMAIN job' = Brains
  /\ doc' \in [Brains -> DocStates]
  /\ \A c \in Brains \ {b} :
       /\ doc'[c] = doc[c] /\ plan'[c] = plan[c] /\ call'[c] = call[c] /\ pc'[c] = pc[c]
       /\ cursor'[c] = cursor[c] /\ failure'[c] = failure[c] /\ job'[c] = job[c]
  /\ learned' = learned /\ recovery' \subseteq recovery

\* A change of the index that deletes gone and leaves who owns the other entries.
Edit(new, gone) ==
  /\ IndexTyped(new) /\ IndexSound(new) /\ gone \subseteq Selections
  /\ \A s \in Selections :
       /\ (new[s].state = "deleted") <=> (selection[s].state = "deleted" \/ s \in gone)
       /\ selection[s].owner \in Brains /\ s \notin gone => new[s].owner = selection[s].owner
Edited(gone) == Edit(selection', gone) /\ savedSelection' \in {savedSelection, selection'}

JobMoves(r) ==
  Scan(r) \/ CommitManifest(r) \/ NoteManifest(r) \/ Learn(r) \/ Report(r) \/ Tick(r)

\* What a step does to the journal of the index and to the count of failures.
Recorded ==
  \/ UNCHANGED index /\ faults' \in {faults, faults + 1}
  \/ selection' = savedSelection' /\ ~broken /\ broken' = FALSE /\ faults' \in {faults, faults + 1}
  \/ broken /\ broken' = TRUE /\ UNCHANGED <<savedSelection, faults>>
  \/ broken' = TRUE /\ faults' = faults + 1 /\ UNCHANGED savedSelection

\* The resource at the cursor was selected for the brain.
LEMMA TaskIsTask ==
    ASSUME NEW b \in Brains, cursor[b] \in 1 .. Len(Resources[b])
    PROVE  Task(b) \in Tasks(b)
BY ResourcesAssumption DEF Task, Tasks, Range

\* What a running job is.
LEMMA RunningIs ==
    ASSUME JobsTyped, JobsTrue, NEW r \in Running, r.job.stage # "none"
    PROVE  /\ r.brain \in Brains /\ JobTyped(r.job, r.brain) /\ JobTrue(r.job, r.brain)
           /\ r = [brain |-> r.brain, job |-> r.job]
           /\ r \in orphans \/ job[r.brain] = r.job
           /\ Works(r.brain, r.job.task)
<1>1. CASE r \in orphans
  BY <1>1 DEF JobsTyped, AwaitedTyped, JobsTrue, Works
<1>2. ASSUME NEW b \in Brains, r = [brain |-> b, job |-> job[b]]
      PROVE  r.brain = b /\ r.job = job[b] /\ job[b] # NoJob
  BY <1>2 DEF NoJob
<1>3. ASSUME NEW b \in Brains, r = [brain |-> b, job |-> job[b]]
      PROVE  JobTyped(r.job, r.brain) /\ JobTrue(r.job, r.brain)
         /\ Works(r.brain, r.job.task)
  BY <1>2, <1>3 DEF JobsTyped, AwaitedTyped, JobsTrue, Works
<1> QED BY <1>1, <1>2, <1>3 DEF Running

\* A job that goes on keeps its task, and no job appears.
LEMMA Moves ==
    ASSUME JobsTyped, JobsTrue, NEW r \in Running, r.job.stage # "none",
           NEW stage \in Stages, stage \notin {"learn", "done", "failed"} => r.job.task \in Selections,
           stage \in {"report", "tick", "done"} => r.job.task \in learned'[r.brain],
           \A b \in Brains : learned[b] \subseteq learned'[b],
           Move(r, stage), UNCHANGED <<pc, cursor>>
    PROVE  /\ JobsTyped' /\ JobsTrue'
           /\ \A b \in Brains : \A s \in Selections : Works(b, s)' => Works(b, s)
<1> DEFINE next == [r.job EXCEPT !.stage = stage]
           goes == [r EXCEPT !.job = next]
<1>1. /\ r.brain \in Brains /\ JobTyped(r.job, r.brain) /\ JobTrue(r.job, r.brain)
      /\ r = [brain |-> r.brain, job |-> r.job] /\ Works(r.brain, r.job.task)
  BY RunningIs
<1>2. /\ next = [task |-> r.job.task, stage |-> stage] /\ goes = [brain |-> r.brain, job |-> next]
      /\ JobTyped(next, r.brain) /\ JobTrue(next, r.brain)'
  BY <1>1 DEF JobTyped, JobTrue
<1>3. \A b \in Brains : \A j : JobTrue(j, b) => JobTrue(j, b)'
  BY DEF JobTrue
<1> HIDE DEF next
<1>4. CASE r \in orphans /\ UNCHANGED job /\ orphans' \subseteq orphans \cup {goes}
  <2>1. \A q \in orphans' : q \in orphans \/ (q = goes /\ q.brain = r.brain /\ q.job = next)
    BY <1>2, <1>4
  <2>2. JobsTyped'
    BY <1>1, <1>2, <1>4, <2>1 DEF JobsTyped, AwaitedTyped, At, Task, JobTyped
  <2>3. JobsTrue'
    BY <1>1, <1>2, <1>3, <1>4, <2>1 DEF JobsTyped, JobsTrue
  <2>4. \A b \in Brains : \A s \in Selections : Works(b, s)' => Works(b, s)
    BY <1>1, <1>2, <1>4, <2>1 DEF Works
  <2> QED BY <2>2, <2>3, <2>4
<1>5. CASE job[r.brain] = r.job /\ job' = [job EXCEPT ![r.brain] = next] /\ UNCHANGED orphans
  <2>1. r.job # NoJob
    BY DEF NoJob
  <2>2. JobsTyped'
    BY <1>1, <1>2, <1>5, <2>1 DEF JobsTyped, AwaitedTyped, At, Task, JobTyped
  <2>3. JobsTrue'
    BY <1>1, <1>2, <1>3, <1>5 DEF JobsTyped, JobsTrue
  <2>4. \A b \in Brains : \A s \in Selections : Works(b, s)' => Works(b, s)
    BY <1>1, <1>2, <1>5 DEF Works, JobsTyped, AwaitedTyped
  <2> QED BY <2>2, <2>3, <2>4
<1> QED BY <1>4, <1>5 DEF Move, next

\* Each step of a call, one after the other.
LEMMA CallIsAlone ==
    ASSUME BuildInv, NEW b \in Brains, Request(b) \/ CallStep(b)
    PROVE  Alone(b)
<1> USE DEF index, disk, neural, calls, jobs, bounds, OtherCalls, NoFault, Fault, At, Goto,
      BuildInv, Alone, DocStates, CallsTyped, PlansTyped, JobsTyped
<1>1. CASE Create(b)
  BY <1>1 DEF Create
<1>2. CASE Retry(b)
  BY <1>2 DEF Retry
<1>3. CASE WriteDocument(b)
  BY <1>3 DEF WriteDocument
<1>4. CASE EnsurePlan(b)
  BY <1>4 DEF EnsurePlan, NewPlan
<1>5. CASE ClaimNext(b)
  BY <1>5 DEF ClaimNext, Persisted, Rejected, Claimable, Claimed
<1>6. CASE Build(b)
  BY <1>6 DEF Build
<1>7. CASE FoundationReady(b)
  BY <1>7 DEF FoundationReady, PlanStep, PlanUpdate
<1>8. CASE ResetPlan(b)
  BY <1>8 DEF ResetPlan, PlanStep, PlanUpdate, RetriedPhase
<1>9. CASE Reopen(b)
  BY <1>9 DEF Reopen
<1>10. CASE RecoverAll(b)
  BY <1>10 DEF RecoverAll
<1>11. CASE Requeue(b)
  BY <1>11 DEF Requeue, PlanStep, PlanUpdate
<1>12. CASE Run(b)
  BY <1>12 DEF Run
<1>13. CASE NextTask(b)
  BY <1>13 DEF NextTask
<1>14. CASE MarkRunning(b)
  BY <1>14 DEF MarkRunning, PlanStep, PlanUpdate, WithTask
<1>15. CASE Select(b)
  BY <1>15 DEF Select, Persisted, Rejected, Claimed
<1>16. CASE Launch(b)
  BY <1>16 DEF Launch, Persisted, Rejected, Attached
<1>17. CASE Finished(b)
  BY <1>17 DEF Finished, Persisted, Rejected
<1>18. CASE CompleteTask(b)
  BY <1>18 DEF CompleteTask, PlanUpdate, WithTask
<1>19. CASE FailTask(b)
  BY <1>19 DEF FailTask, PlanStep, PlanUpdate, WithTask
<1>20. CASE ReleaseTask(b)
  BY <1>20 DEF ReleaseTask, Release, Released, Releasable, Persisted, Rejected
<1>21. CASE Check(b)
  BY <1>21 DEF Check
<1>22. CASE Teach(b)
  BY <1>22 DEF Teach
<1>23. CASE Commit(b)
  BY <1>23 DEF Commit
<1>24. CASE Tidy(b)
  BY <1>24 DEF Tidy, Deleted, Unclaimed, Persisted, Rejected
<1>25. CASE ReadFailure(b)
  BY <1>25 DEF ReadFailure
<1>26. CASE FailPlan(b)
  BY <1>26 DEF FailPlan, PlanUpdate
<1>27. CASE ReleaseAll(b)
  BY <1>27 DEF ReleaseAll, Release, Released, Releasable, Persisted, Rejected
<1>28. CASE FailDocument(b)
  BY <1>28 DEF FailDocument, NoFailure
<1> QED BY <1>1, <1>2, <1>3, <1>4, <1>5, <1>6, <1>7, <1>8, <1>9, <1>10, <1>11, <1>12, <1>13,
      <1>14, <1>15, <1>16, <1>17, <1>18, <1>19, <1>20, <1>21, <1>22, <1>23, <1>24, <1>25, <1>26,
      <1>27, <1>28 DEF Request, CallStep

\* What the types say where they are used.
LEMMA PlanPhase ==
    ASSUME PlansTyped, NEW b \in Brains
    PROVE  plan[b].phase \in {"none", "foundation", "learning", "failed"}
<1>1. CASE plan[b] = NoPlan
  BY <1>1 DEF NoPlan
<1>2. CASE plan[b] # NoPlan
  BY <1>2 DEF PlansTyped, PlanTyped
<1> QED BY <1>1, <1>2

LEMMA CallKind ==
    ASSUME CallsTyped, NEW b \in Brains, pc[b] # "idle"
    PROVE  call[b] \in {"create", "retry", "recover"}
BY DEF CallsTyped, CallTyped, CallKinds, At

LEMMA Bounds ==
    ASSUME CallsTyped, NEW b \in Brains
    PROVE  \E n \in Nat : /\ n = Len(Resources[b]) /\ cursor[b] \in 1 .. n + 1
                          /\ pc[b] \in TaskSteps => ~(cursor[b] > n)
<1>1. PICK n \in Nat : n = Len(Resources[b])
  BY ResourcesAssumption
<1>2. cursor[b] \in 1 .. n + 1 /\ (pc[b] \in TaskSteps => cursor[b] <= n)
  BY <1>1 DEF CallsTyped, CallTyped
<1> QED BY <1>1, <1>2

LEMMA TaskHere ==
    ASSUME CallsTyped, NEW b \in Brains, pc[b] \in TaskSteps
    PROVE  Task(b) \in Tasks(b)
<1>1. PICK n \in Nat : /\ n = Len(Resources[b]) /\ cursor[b] \in 1 .. n + 1 /\ ~(cursor[b] > n)
  BY Bounds
<1>2. cursor[b] \in 1 .. Len(Resources[b])
  BY <1>1
<1> QED BY <1>2, TaskIsTask

\* A cursor that starts anew, advances below the end or stays is in range.
LEMMA Counting ==
    ASSUME NEW n \in Nat, NEW c \in 1 .. n + 1, NEW d,
           d = 1 \/ (d = c + 1 /\ ~(c > n)) \/ d = c
    PROVE  d \in 1 .. n + 1 /\ (d = c /\ ~(c > n) => d <= n)
OBVIOUS

\* The call itself stays typed.
LEMMA CallLocal ==
    ASSUME BuildInv, NEW b \in Brains, Request(b) \/ CallStep(b)
    PROVE  CallTyped(b)'
<1> USE DEF index, disk, neural, calls, jobs, bounds, OtherCalls, NoFault, Fault, At, Goto,
      BuildInv, CallsTyped, CallTyped, TaskSteps, DocStates, CallKinds, Task
<1>1. CASE Create(b)
  BY <1>1, ResourcesAssumption DEF Create
<1>2. CASE Retry(b)
  BY <1>2, ResourcesAssumption DEF Retry
<1>3. CASE WriteDocument(b)
  <2>1. /\ cursor'[b] = cursor[b] /\ failure'[b] = failure[b] /\ recovery' = recovery
        /\ doc'[b] \in {doc[b], "initializing"} /\ pc[b] = "document"
    BY <1>3 DEF WriteDocument
  <2>2. \/ pc'[b] = "plan" /\ call'[b] = call[b]
        \/ pc'[b] = "idle" /\ call'[b] = "none"
    BY <1>3 DEF WriteDocument
  <2> QED BY <2>1, <2>2
<1>4. CASE EnsurePlan(b)
  <2>1. PICK n \in Nat : /\ n = Len(Resources[b]) /\ cursor[b] \in 1 .. n + 1
                         /\ pc[b] \in TaskSteps => ~(cursor[b] > n)
    BY Bounds
  <2>2. doc'[b] = doc[b] /\ call'[b] = call[b] /\ failure'[b] = failure[b] /\ recovery' \subseteq recovery
    BY <1>4 DEF EnsurePlan
  <2>3. pc'[b] \in {"claim", "reset", "requeue", "read failure"} /\ pc[b] # "idle"
    BY <1>4, PlanPhase DEF EnsurePlan
  <2>5. \/ cursor'[b] = 1 /\ pc'[b] \notin TaskSteps
        \/ cursor'[b] = cursor[b] + 1 /\ pc'[b] \notin TaskSteps /\ ~(cursor[b] > n)
        \/ cursor'[b] = cursor[b] /\ (pc'[b] \in TaskSteps => ~(cursor[b] > n))
    BY <1>4, <2>1, <2>3 DEF EnsurePlan
  <2>6. /\ cursor'[b] \in 1 .. n + 1
        /\ pc'[b] \in TaskSteps => cursor'[b] <= n
    BY <2>1, <2>5, Counting
  <2> QED BY <2>1, <2>2, <2>3, <2>6
<1>5. CASE ClaimNext(b)
  <2>1. PICK n \in Nat : /\ n = Len(Resources[b]) /\ cursor[b] \in 1 .. n + 1
                         /\ pc[b] \in TaskSteps => ~(cursor[b] > n)
    BY Bounds
  <2>2. doc'[b] = doc[b] /\ call'[b] = call[b] /\ failure'[b] = failure[b] /\ recovery' \subseteq recovery
    BY <1>5 DEF ClaimNext
  <2>3. pc'[b] \in {"claim", "build", "read failure"} /\ pc[b] # "idle"
    BY <1>5, PlanPhase DEF ClaimNext
  <2>5. \/ cursor'[b] = 1 /\ pc'[b] \notin TaskSteps
        \/ cursor'[b] = cursor[b] + 1 /\ pc'[b] \notin TaskSteps /\ ~(cursor[b] > n)
        \/ cursor'[b] = cursor[b] /\ (pc'[b] \in TaskSteps => ~(cursor[b] > n))
    BY <1>5, <2>1, <2>3 DEF ClaimNext
  <2>6. /\ cursor'[b] \in 1 .. n + 1
        /\ pc'[b] \in TaskSteps => cursor'[b] <= n
    BY <2>1, <2>5, Counting
  <2> QED BY <2>1, <2>2, <2>3, <2>6
<1>6. CASE Build(b)
  BY <1>6, ResourcesAssumption DEF Build
<1>7. CASE FoundationReady(b)
  BY <1>7, ResourcesAssumption DEF FoundationReady, PlanStep, PlanUpdate
<1>8. CASE ResetPlan(b)
  BY <1>8, ResourcesAssumption DEF ResetPlan, PlanStep, PlanUpdate, RetriedPhase
<1>9. CASE Reopen(b)
  BY <1>9, ResourcesAssumption DEF Reopen
<1>10. CASE RecoverAll(b)
  BY <1>10, ResourcesAssumption DEF RecoverAll
<1>11. CASE Requeue(b)
  BY <1>11, ResourcesAssumption DEF Requeue, PlanStep, PlanUpdate
<1>12. CASE Run(b)
  <2>1. PICK n \in Nat : /\ n = Len(Resources[b]) /\ cursor[b] \in 1 .. n + 1
                         /\ pc[b] \in TaskSteps => ~(cursor[b] > n)
    BY Bounds
  <2>2. doc'[b] = doc[b] /\ call'[b] = call[b] /\ failure'[b] = failure[b] /\ recovery' \subseteq recovery
    BY <1>12 DEF Run
  <2>3. pc'[b] \in {"read failure", "build", "next"} /\ pc[b] # "idle"
    BY <1>12, PlanPhase DEF Run
  <2>5. \/ cursor'[b] = 1 /\ pc'[b] \notin TaskSteps
        \/ cursor'[b] = cursor[b] + 1 /\ pc'[b] \notin TaskSteps /\ ~(cursor[b] > n)
        \/ cursor'[b] = cursor[b] /\ (pc'[b] \in TaskSteps => ~(cursor[b] > n))
    BY <1>12, <2>1, <2>3 DEF Run
  <2>6. /\ cursor'[b] \in 1 .. n + 1
        /\ pc'[b] \in TaskSteps => cursor'[b] <= n
    BY <2>1, <2>5, Counting
  <2> QED BY <2>1, <2>2, <2>3, <2>6
<1>13. CASE NextTask(b)
  <2>1. PICK n \in Nat : /\ n = Len(Resources[b]) /\ cursor[b] \in 1 .. n + 1
                         /\ pc[b] \in TaskSteps => ~(cursor[b] > n)
    BY Bounds
  <2>2. doc'[b] = doc[b] /\ call'[b] = call[b] /\ failure'[b] = failure[b] /\ recovery' \subseteq recovery
    BY <1>13 DEF NextTask
  <2>3. pc'[b] \in {"check", "next", "mark"} /\ pc[b] # "idle"
    BY <1>13, PlanPhase DEF NextTask
  <2>5. \/ cursor'[b] = 1 /\ pc'[b] \notin TaskSteps
        \/ cursor'[b] = cursor[b] + 1 /\ pc'[b] \notin TaskSteps /\ ~(cursor[b] > n)
        \/ cursor'[b] = cursor[b] /\ (pc'[b] \in TaskSteps => ~(cursor[b] > n))
    BY <1>13, <2>1, <2>3 DEF NextTask
  <2>6. /\ cursor'[b] \in 1 .. n + 1
        /\ pc'[b] \in TaskSteps => cursor'[b] <= n
    BY <2>1, <2>5, Counting
  <2> QED BY <2>1, <2>2, <2>3, <2>6
<1>14. CASE MarkRunning(b)
  BY <1>14, ResourcesAssumption DEF MarkRunning, PlanStep, PlanUpdate, WithTask
<1>15. CASE Select(b)
  BY <1>15, ResourcesAssumption DEF Select, Persisted, Rejected, Claimed
<1>16. CASE Launch(b)
  BY <1>16, ResourcesAssumption DEF Launch, Persisted, Rejected, Attached
<1>17. CASE Finished(b)
  BY <1>17, ResourcesAssumption DEF Finished, Persisted, Rejected
<1>18. CASE CompleteTask(b)
  <2>1. PICK n \in Nat : /\ n = Len(Resources[b]) /\ cursor[b] \in 1 .. n + 1
                         /\ pc[b] \in TaskSteps => ~(cursor[b] > n)
    BY Bounds
  <2>2. doc'[b] = doc[b] /\ call'[b] = call[b] /\ failure'[b] = failure[b] /\ recovery' \subseteq recovery
    BY <1>18 DEF CompleteTask
  <2>3. pc'[b] \in {"task failed", "next", "read failure"} /\ pc[b] # "idle"
    BY <1>18, PlanPhase DEF CompleteTask
  <2>5. \/ cursor'[b] = 1 /\ pc'[b] \notin TaskSteps
        \/ cursor'[b] = cursor[b] + 1 /\ pc'[b] \notin TaskSteps /\ ~(cursor[b] > n)
        \/ cursor'[b] = cursor[b] /\ (pc'[b] \in TaskSteps => ~(cursor[b] > n))
    BY <1>18, <2>1, <2>3 DEF CompleteTask
  <2>6. /\ cursor'[b] \in 1 .. n + 1
        /\ pc'[b] \in TaskSteps => cursor'[b] <= n
    BY <2>1, <2>5, Counting
  <2> QED BY <2>1, <2>2, <2>3, <2>6
<1>19. CASE FailTask(b)
  BY <1>19, ResourcesAssumption DEF FailTask, PlanStep, PlanUpdate, WithTask
<1>20. CASE ReleaseTask(b)
  BY <1>20, ResourcesAssumption DEF ReleaseTask, Release, Released, Releasable, Persisted,
       Rejected
<1>21. CASE Check(b)
  BY <1>21, ResourcesAssumption DEF Check
<1>22. CASE Teach(b)
  BY <1>22, ResourcesAssumption DEF Teach
<1>23. CASE Commit(b)
  BY <1>23, ResourcesAssumption DEF Commit
<1>24. CASE Tidy(b)
  BY <1>24, ResourcesAssumption DEF Tidy, Deleted, Unclaimed, Persisted, Rejected
<1>25. CASE ReadFailure(b)
  BY <1>25, ResourcesAssumption DEF ReadFailure
<1>26. CASE FailPlan(b)
  BY <1>26, ResourcesAssumption DEF FailPlan, PlanUpdate
<1>27. CASE ReleaseAll(b)
  BY <1>27, ResourcesAssumption DEF ReleaseAll, Release, Released, Releasable, Persisted,
       Rejected
<1>28. CASE FailDocument(b)
  BY <1>28, ResourcesAssumption DEF FailDocument, NoFailure
<1> QED BY <1>1, <1>2, <1>3, <1>4, <1>5, <1>6, <1>7, <1>8, <1>9, <1>10, <1>11, <1>12, <1>13,
      <1>14, <1>15, <1>16, <1>17, <1>18, <1>19, <1>20, <1>21, <1>22, <1>23, <1>24, <1>25, <1>26,
      <1>27, <1>28 DEF Request, CallStep

\* What the writes of a plan keep.
LEMMA PhaseEdit ==
    ASSUME NEW b \in Brains, NEW p, p # NoPlan, PlanTyped(p, b), PlanTrue(p, b),
           NEW phase \in {"foundation", "learning", "failed"},
           NEW failed \in {"none", "foundation", "learning"}
    PROVE  /\ PlanTyped([p EXCEPT !.phase = phase, !.failure = failed], b)
           /\ PlanTrue([p EXCEPT !.phase = phase, !.failure = failed], b)
BY DEF PlanTyped, PlanTrue

LEMMA TasksEdit ==
    ASSUME NEW b \in Brains, NEW p, p # NoPlan, PlanTyped(p, b), PlanTrue(p, b),
           NEW f \in [Tasks(b) -> PlanStates],
           \A t \in Tasks(b) : f[t] = "complete" => p.task[t] = "complete" \/ t \in learned[b]
    PROVE  PlanTyped([p EXCEPT !.task = f], b) /\ PlanTrue([p EXCEPT !.task = f], b)
BY DEF PlanTyped, PlanTrue

LEMMA TaskEdit ==
    ASSUME NEW b \in Brains, NEW p, p # NoPlan, PlanTyped(p, b), PlanTrue(p, b),
           NEW t \in Tasks(b), NEW state \in PlanStates, state = "complete" => t \in learned[b]
    PROVE  PlanTyped(WithTask(p, t, state), b) /\ PlanTrue(WithTask(p, t, state), b)
<1>1. p \in [phase : {"foundation", "learning", "failed"},
             failure : {"none", "foundation", "learning"}, task : [Tasks(b) -> PlanStates]]
  BY DEF PlanTyped
<1> QED BY <1>1 DEF PlanTyped, PlanTrue, WithTask, PlanStates

\* A step that writes the plan writes it or leaves it.
LEMMA PlanStepped ==
    ASSUME DOMAIN plan = Brains, NEW b \in Brains, NEW next, NEW label, PlanStep(b, next, label)
    PROVE  plan'[b] = plan[b] \/ (plan[b] # NoPlan /\ plan'[b] = next)
BY DEF PlanStep, PlanUpdate

\* The plan a call writes.
LEMMA PlanLocal ==
    ASSUME BuildInv, NEW b \in Brains, Request(b) \/ CallStep(b)
    PROVE  PlanTyped(plan[b], b)' /\ PlanTrue(plan[b], b)'
<1> USE DEF index, disk, neural, calls, jobs, bounds, OtherCalls, NoFault, Fault, At, Goto,
      BuildInv, PlansTyped, PlansTrue
<1>1. CASE EnsurePlan(b)
  <2>1. PlanTyped(NewPlan(b), b) /\ PlanTrue(NewPlan(b), b) /\ UNCHANGED learned
    BY <1>1 DEF EnsurePlan, NewPlan, PlanTyped, PlanTrue, PlanStates
  <2>2. plan'[b] \in {plan[b], NewPlan(b)}
    BY <1>1 DEF EnsurePlan
  <2> QED BY <2>1, <2>2 DEF PlanTrue
<1>2. CASE FoundationReady(b)
  <2> DEFINE p == plan[b]
             next == [p EXCEPT !.phase = "learning", !.failure = "none"]
  <2>1. UNCHANGED learned /\ PlanTyped(p, b) /\ PlanTrue(p, b)
    BY <1>2 DEF FoundationReady
  <2>2. ASSUME p # NoPlan PROVE PlanTyped(next, b) /\ PlanTrue(next, b)
    BY <1>2, <2>1, <2>2, PhaseEdit, TaskHere DEF FoundationReady, TaskSteps, PlanStates
  <2>3. plan'[b] = p \/ (p # NoPlan /\ plan'[b] = next)
    BY <1>2, PlanStepped DEF FoundationReady
  <2> QED BY <2>1, <2>2, <2>3 DEF PlanTrue
<1>3. CASE ResetPlan(b)
  <2> DEFINE p == plan[b]
             first == [p EXCEPT !.phase = RetriedPhase(p), !.failure = "none"]
             next == [p EXCEPT !.phase = RetriedPhase(p), !.failure = "none",
                               !.task = [t \in DOMAIN @ |-> IF @[t] \in {"failed", "running"}
                                                            THEN "pending" ELSE @[t]]]
             f == [t \in Tasks(b) |-> IF first.task[t] \in {"failed", "running"}
                                      THEN "pending" ELSE first.task[t]]
  <2>1. UNCHANGED learned /\ PlanTyped(p, b) /\ PlanTrue(p, b)
    BY <1>3 DEF ResetPlan
  <2>2. PlanStep(b, next, "reopen")
    BY <1>3 DEF ResetPlan
  <2>4. ASSUME p # NoPlan
        PROVE  PlanTyped(first, b) /\ PlanTrue(first, b) /\ first # NoPlan /\ first.task = p.task
    <3>1. RetriedPhase(p) \in {"foundation", "learning", "failed"}
      BY <2>1, <2>4 DEF RetriedPhase, PlanTyped
    <3>2. PlanTyped(first, b) /\ PlanTrue(first, b)
      BY <2>1, <2>4, <3>1, PhaseEdit
    <3>3. first # NoPlan /\ first.task = p.task
      BY <2>1, <2>4, <3>1 DEF PlanTyped, NoPlan
    <3> QED BY <3>2, <3>3
  <2>5. next = [first EXCEPT !.task = [t \in DOMAIN @ |-> IF @[t] \in {"failed", "running"}
                                                          THEN "pending" ELSE @[t]]]
    OBVIOUS
  <2> HIDE DEF first, next
  <2>6. ASSUME p # NoPlan
        PROVE /\ f \in [Tasks(b) -> PlanStates] /\ next = [first EXCEPT !.task = f]
              /\ \A t \in Tasks(b) : f[t] = "complete" => first.task[t] = "complete"
    <3>1. first \in [phase : {"foundation", "learning", "failed"},
                    failure : {"none", "foundation", "learning"}, task : [Tasks(b) -> PlanStates]]
      BY <2>4, <2>6 DEF PlanTyped
    <3>2. DOMAIN first.task = Tasks(b) /\ \A t \in Tasks(b) : first.task[t] \in PlanStates
      BY <3>1
    <3> QED BY <2>5, <3>1, <3>2 DEF PlanStates
  <2> HIDE DEF f
  <2>7. ASSUME p # NoPlan PROVE PlanTyped(next, b) /\ PlanTrue(next, b)
    BY <2>4, <2>6, <2>7, TasksEdit
  <2>8. plan'[b] = p \/ (p # NoPlan /\ plan'[b] = next)
    BY <2>2, PlanStepped
  <2> QED BY <2>1, <2>7, <2>8 DEF PlanTrue
<1>4. CASE Requeue(b)
  <2> DEFINE p == plan[b]
             first == p
             next == [p EXCEPT !.task = [t \in DOMAIN @ |-> IF @[t] = "running" THEN "pending" ELSE @[t]]]
             f == [t \in Tasks(b) |-> IF first.task[t] \in {"running"} THEN "pending" ELSE first.task[t]]
  <2>1. UNCHANGED learned /\ PlanTyped(p, b) /\ PlanTrue(p, b)
    BY <1>4 DEF Requeue
  <2>2. PlanStep(b, next, "run")
    BY <1>4 DEF Requeue
  <2>4. ASSUME p # NoPlan
        PROVE  PlanTyped(first, b) /\ PlanTrue(first, b) /\ first # NoPlan /\ first.task = p.task
    BY <2>1, <2>4
  <2>5. next = [first EXCEPT !.task = [t \in DOMAIN @ |-> IF @[t] \in {"running"}
                                                          THEN "pending" ELSE @[t]]]
    OBVIOUS
  <2> HIDE DEF first, next
  <2>6. ASSUME p # NoPlan
        PROVE /\ f \in [Tasks(b) -> PlanStates] /\ next = [first EXCEPT !.task = f]
              /\ \A t \in Tasks(b) : f[t] = "complete" => first.task[t] = "complete"
    <3>1. first \in [phase : {"foundation", "learning", "failed"},
                    failure : {"none", "foundation", "learning"}, task : [Tasks(b) -> PlanStates]]
      BY <2>4, <2>6 DEF PlanTyped
    <3>2. DOMAIN first.task = Tasks(b) /\ \A t \in Tasks(b) : first.task[t] \in PlanStates
      BY <3>1
    <3> QED BY <2>5, <3>1, <3>2 DEF PlanStates
  <2> HIDE DEF f
  <2>7. ASSUME p # NoPlan PROVE PlanTyped(next, b) /\ PlanTrue(next, b)
    BY <2>4, <2>6, <2>7, TasksEdit
  <2>8. plan'[b] = p \/ (p # NoPlan /\ plan'[b] = next)
    BY <2>2, PlanStepped
  <2> QED BY <2>1, <2>7, <2>8 DEF PlanTrue
<1>5. CASE MarkRunning(b)
  <2> DEFINE p == plan[b]
             next == WithTask(p, Task(b), "running")
  <2>1. UNCHANGED learned /\ PlanTyped(p, b) /\ PlanTrue(p, b)
    BY <1>5 DEF MarkRunning
  <2>2. ASSUME p # NoPlan PROVE PlanTyped(next, b) /\ PlanTrue(next, b)
    BY <1>5, <2>1, <2>2, TaskEdit, TaskHere DEF MarkRunning, TaskSteps, PlanStates
  <2>3. plan'[b] = p \/ (p # NoPlan /\ plan'[b] = next)
    BY <1>5, PlanStepped DEF MarkRunning
  <2> QED BY <2>1, <2>2, <2>3 DEF PlanTrue
<1>6. CASE CompleteTask(b)
  <2> DEFINE p == plan[b]
             next == WithTask(p, Task(b), "complete")
  <2>1. UNCHANGED learned /\ PlanTyped(p, b) /\ PlanTrue(p, b)
    BY <1>6 DEF CompleteTask
  <2>2. ASSUME p # NoPlan PROVE PlanTyped(next, b) /\ PlanTrue(next, b)
    BY <1>6, <2>1, <2>2, TaskEdit, TaskHere DEF CompleteTask, TaskSteps, PlanStates, CallsTrue,
         CallTrue
  <2>3. plan'[b] = p \/ (p # NoPlan /\ plan'[b] = next)
    BY <1>6, PlanStepped DEF CompleteTask, PlanUpdate
  <2> QED BY <2>1, <2>2, <2>3 DEF PlanTrue
<1>7. CASE FailTask(b)
  <2> DEFINE p == plan[b]
             next == WithTask(p, Task(b), "failed")
  <2>1. UNCHANGED learned /\ PlanTyped(p, b) /\ PlanTrue(p, b)
    BY <1>7 DEF FailTask
  <2>2. ASSUME p # NoPlan PROVE PlanTyped(next, b) /\ PlanTrue(next, b)
    BY <1>7, <2>1, <2>2, TaskEdit, TaskHere DEF FailTask, TaskSteps, PlanStates
  <2>3. plan'[b] = p \/ (p # NoPlan /\ plan'[b] = next)
    BY <1>7, PlanStepped DEF FailTask
  <2> QED BY <2>1, <2>2, <2>3 DEF PlanTrue
<1>8. CASE Tidy(b)
  <2>1. plan'[b] \in {plan[b], NoPlan} /\ UNCHANGED learned
    BY <1>8 DEF Tidy
  <2> QED BY <2>1 DEF PlanTrue, PlanTyped
<1>9. CASE FailPlan(b)
  <2> DEFINE p == plan[b]
             next == [p EXCEPT !.phase = "failed", !.failure = failure[b].phase]
  <2>1. UNCHANGED learned /\ PlanTyped(p, b) /\ PlanTrue(p, b)
    BY <1>9 DEF FailPlan
  <2>2. ASSUME p # NoPlan PROVE PlanTyped(next, b) /\ PlanTrue(next, b)
    BY <1>9, <2>1, <2>2, PhaseEdit, TaskHere DEF FailPlan, TaskSteps, PlanStates, CallsTyped,
         CallTyped
  <2>3. plan'[b] = p \/ (p # NoPlan /\ plan'[b] = next)
    BY <1>9, PlanStepped DEF FailPlan, PlanUpdate
  <2> QED BY <2>1, <2>2, <2>3 DEF PlanTrue
<1>10. CASE Create(b) \/ Retry(b) \/ WriteDocument(b) \/
            ClaimNext(b) \/ Build(b) \/ Reopen(b) \/ RecoverAll(b) \/
            Run(b) \/ NextTask(b) \/ Select(b) \/ Launch(b) \/
            Finished(b) \/ ReleaseTask(b) \/ Check(b) \/ Teach(b) \/
            Commit(b) \/ ReadFailure(b) \/ ReleaseAll(b) \/
            FailDocument(b)
  <2>1. UNCHANGED <<plan, learned>>
    BY <1>10 DEF Create, Retry, WriteDocument, ClaimNext, Persisted, Rejected, Claimable,
         Claimed, Build, Reopen, RecoverAll, Run, NextTask, Select, Launch, Attached, Finished,
         ReleaseTask, Release, Released, Releasable, Check, Teach, Commit, ReadFailure,
         ReleaseAll, FailDocument, NoFailure
  <2> QED BY <2>1 DEF PlanTrue
<1> QED BY <1>1, <1>2, <1>3, <1>4, <1>5, <1>6, <1>7, <1>8, <1>9, <1>10 DEF Request, CallStep

\* What the writes of the index keep.
LEMMA NoEdit ==
    ASSUME IndexesTyped, IndexesSound
    PROVE  Edit(selection, {})
BY DEF Edit, IndexesTyped, IndexesSound

LEMMA EntriesEdit ==
    ASSUME IndexesTyped, IndexesSound, NEW S \in SUBSET Selections,
           NEW e, \A s \in S : /\ e[s] \in [state : States \ {"selected", "deleted"}, owner : Brains, manifest : BOOLEAN]
                               /\ e[s].state = "complete" => s \in learned[e[s].owner]
                               /\ selection[s].state # "deleted"
                               /\ selection[s].owner \in Brains => e[s].owner = selection[s].owner
    PROVE  Edit([s \in Selections |-> IF s \in S THEN e[s] ELSE selection[s]], {})
<1> DEFINE new == [s \in Selections |-> IF s \in S THEN e[s] ELSE selection[s]]
<1>1. \A s \in Selections : new[s] = IF s \in S THEN e[s] ELSE selection[s]
  OBVIOUS
<1>2. IndexTyped(new)
  BY <1>1 DEF IndexesTyped, IndexTyped, States
<1> HIDE DEF new
<1>3. \A s \in Selections \ S : new[s] = selection[s]
  BY <1>1
<1>4. \A s \in S : new[s] = e[s] /\ s \in Selections
  BY <1>1
<1>5. IndexSound(new)
  BY <1>3, <1>4 DEF IndexesSound, IndexSound, States
<1>6. \A s \in Selections :
         /\ (new[s].state = "deleted") <=> (selection[s].state = "deleted")
         /\ selection[s].owner \in Brains => new[s].owner = selection[s].owner
  BY <1>3, <1>4 DEF States
<1> QED BY <1>2, <1>5, <1>6 DEF Edit, new

LEMMA EntryEdit ==
    ASSUME IndexesTyped, IndexesSound, NEW s \in Selections, NEW e,
           e \in [state : States \ {"selected", "deleted"}, owner : Brains, manifest : BOOLEAN],
           e.state = "complete" => s \in learned[e.owner], selection[s].state # "deleted",
           selection[s].owner \in Brains => e.owner = selection[s].owner
    PROVE  Edit([selection EXCEPT ![s] = e], {})
<1> DEFINE es == [t \in {s} |-> e]
<1>1. /\ {s} \in SUBSET Selections
      /\ \A t \in {s} : es[t] = e /\ t = s
  OBVIOUS
<1>2. [selection EXCEPT ![s] = e] = [t \in Selections |-> IF t \in {s} THEN es[t] ELSE selection[t]]
  BY <1>1 DEF IndexesTyped, IndexTyped
<1>3. \A t \in {s} :
         /\ es[t] \in [state : States \ {"selected", "deleted"}, owner : Brains, manifest : BOOLEAN]
         /\ es[t].state = "complete" => t \in learned[es[t].owner]
         /\ selection[t].state # "deleted"
         /\ selection[t].owner \in Brains => es[t].owner = selection[t].owner
  BY <1>1
<1> HIDE DEF es
<1>4. Edit([t \in Selections |-> IF t \in {s} THEN es[t] ELSE selection[t]], {})
  BY <1>1, <1>3, EntriesEdit
<1> QED BY <1>2, <1>4

LEMMA ClaimEdit ==
    ASSUME IndexesTyped, IndexesSound, NEW b \in Brains, NEW s \in Selections,
           selection[s].state # "deleted", selection[s].owner \in {NoBrain, b}
    PROVE  Edit(Claimed(s, b), {})
<1> DEFINE e == [selection[s] EXCEPT !.state = "preparing", !.owner = b]
<1>1. selection[s] \in [state : States, owner : Brains \cup {NoBrain}, manifest : BOOLEAN]
  BY DEF IndexesTyped, IndexTyped
<1>2. /\ e \in [state : States \ {"selected", "deleted"}, owner : Brains, manifest : BOOLEAN]
      /\ e.state = "preparing" /\ e.owner = b
  BY <1>1 DEF States
<1>3. Claimed(s, b) = [selection EXCEPT ![s] = e]
  BY DEF Claimed
<1>4. /\ e.state = "complete" => s \in learned[e.owner]
      /\ selection[s].owner \in Brains => e.owner = selection[s].owner
  BY ResourcesAssumption, <1>2
<1> HIDE DEF e
<1>5. Edit([selection EXCEPT ![s] = e], {})
  BY <1>2, <1>4, EntryEdit
<1> QED BY <1>3, <1>5

LEMMA StateEdit ==
    ASSUME IndexesTyped, IndexesSound, NEW s \in Selections,
           selection[s].owner \in Brains, NEW state \in {"preparing", "training", "complete"},
           state = "complete" => s \in learned[selection[s].owner]
    PROVE  Edit([selection EXCEPT ![s].state = state], {})
<1> DEFINE e == [selection[s] EXCEPT !.state = state]
<1>1. selection[s] \in [state : States, owner : Brains \cup {NoBrain}, manifest : BOOLEAN]
  BY DEF IndexesTyped, IndexTyped
<1>2. /\ e \in [state : States \ {"selected", "deleted"}, owner : Brains, manifest : BOOLEAN]
      /\ e.state = state /\ e.owner = selection[s].owner
  BY <1>1 DEF States
<1>3. [selection EXCEPT ![s].state = state] = [selection EXCEPT ![s] = e]
  OBVIOUS
<1>4. selection[s].state # "deleted"
  BY ResourcesAssumption DEF IndexesSound, IndexSound
<1> HIDE DEF e
<1> QED BY <1>2, <1>3, <1>4, EntryEdit

LEMMA ManifestEdit ==
    ASSUME IndexesTyped, IndexesSound, NEW s \in Selections,
           selection[s].owner \in Brains
    PROVE  Edit([selection EXCEPT ![s].state = "training", ![s].manifest = TRUE], {})
<1> DEFINE e == [selection[s] EXCEPT !.state = "training", !.manifest = TRUE]
<1>1. selection[s] \in [state : States, owner : Brains \cup {NoBrain}, manifest : BOOLEAN]
  BY DEF IndexesTyped, IndexTyped
<1>2. /\ e \in [state : States \ {"selected", "deleted"}, owner : Brains, manifest : BOOLEAN]
      /\ e.state = "training" /\ e.owner = selection[s].owner
  BY <1>1 DEF States
<1>3. [selection EXCEPT ![s].state = "training", ![s].manifest = TRUE] = [selection EXCEPT ![s] = e]
  BY DEF IndexesTyped, IndexTyped
<1>4. selection[s].state # "deleted"
  BY ResourcesAssumption DEF IndexesSound, IndexSound
<1> HIDE DEF e
<1> QED BY <1>2, <1>3, <1>4, EntryEdit

LEMMA ReleaseEdit ==
    ASSUME IndexesTyped, IndexesSound, NEW b \in Brains, NEW S
    PROVE  Edit(Released(S, b), {})
<1> DEFINE R == {s \in Selections : s \in S /\ Releasable(s, b)}
           e == [s \in R |-> [selection[s] EXCEPT !.state = "retryable", !.owner = b]]
<1>1. ASSUME NEW s \in R
      PROVE  /\ e[s] \in [state : States \ {"selected", "deleted"}, owner : Brains, manifest : BOOLEAN]
             /\ e[s].state = "retryable" /\ e[s].owner = b
             /\ selection[s].state # "deleted" /\ selection[s].owner \in {NoBrain, b}
  BY DEF IndexesTyped, IndexTyped, States, Releasable
<1>2. Released(S, b) = [s \in Selections |-> IF s \in R THEN e[s] ELSE selection[s]]
  BY DEF Released
<1>3. R \in SUBSET Selections
  OBVIOUS
<1> HIDE DEF e, R
<1>4. \A s \in R :
         /\ e[s] \in [state : States \ {"selected", "deleted"}, owner : Brains, manifest : BOOLEAN]
         /\ e[s].state = "complete" => s \in learned[e[s].owner]
         /\ selection[s].state # "deleted"
         /\ selection[s].owner \in Brains => e[s].owner = selection[s].owner
  BY ResourcesAssumption, <1>1
<1>5. Edit([s \in Selections |-> IF s \in R THEN e[s] ELSE selection[s]], {})
  BY <1>3, <1>4, EntriesEdit
<1> QED BY <1>2, <1>5

LEMMA DeleteEdit ==
    ASSUME IndexesTyped, IndexesSound, NEW S \in SUBSET Selections
    PROVE  Edit(Deleted(S), S)
BY ResourcesAssumption DEF Edit, IndexesTyped, IndexTyped, IndexesSound, IndexSound, Deleted,
     Unclaimed, States

\* Whether the write reaches the disk or not, the entries were edited.
LEMMA Writes ==
    ASSUME IndexesTyped, IndexesSound, NEW new, NEW gone, Edit(new, gone), Persisted(new) \/ Rejected(new)
    PROVE  Edited(gone)
BY DEF Edited, Persisted, Rejected

LEMMA NoWrite ==
    ASSUME IndexesTyped, IndexesSound, UNCHANGED index
    PROVE  Edited({})
BY NoEdit DEF Edited, index

\* A job that has a selection, and an owner that keeps it.
LEMMA HeldOwner ==
    ASSUME IndexesTyped, IndexesSound, NEW b \in Brains, NEW s \in Selections, Holds(b, s),
           selection[s].state # "deleted" \/ selection[s].manifest
    PROVE  selection[s].owner = b
BY DEF Holds, IndexesSound, IndexSound

\* A call edits the index as one of the above, and deletes only at its end.
LEMMA CallEdits ==
    ASSUME BuildInv, NEW b \in Brains, Request(b) \/ CallStep(b)
    PROVE  \E gone \in SUBSET Selections :
              Edited(gone) /\ (gone # {} => At(b, "tidy") /\ gone \subseteq Datasets(b))
<1> USE DEF index, disk, neural, calls, jobs, bounds, OtherCalls, NoFault, Fault, At, Goto,
      BuildInv
<1>1. CASE ClaimNext(b)
  <2>1. \/ UNCHANGED index
        \/ \E s \in Selections : Claimable(s, b) /\ (Persisted(Claimed(s, b)) \/ Rejected(Claimed(s, b)))
    BY <1>1 DEF ClaimNext
  <2>2. \A s \in Selections : Claimable(s, b) => /\ selection[s].state # "deleted"
                                                 /\ selection[s].owner \in {NoBrain, b}
    BY DEF Claimable, IndexesSound, IndexSound
  <2> QED BY <2>1, <2>2, NoWrite, ClaimEdit, Writes
<1>2. CASE Select(b)
  <2>1. Task(b) \in Selections
    BY <1>2 DEF Select, CallsTyped, CallTyped
  <2>2. \/ UNCHANGED index
        \/ /\ selection[Task(b)].state # "deleted" /\ selection[Task(b)].owner \in {NoBrain, b}
           /\ Persisted(Claimed(Task(b), b)) \/ Rejected(Claimed(Task(b), b))
    BY <1>2 DEF Select
  <2> QED BY <2>1, <2>2, NoWrite, ClaimEdit, Writes
<1>3. CASE Launch(b)
  <2>1. \/ UNCHANGED index
        \/ /\ Task(b) \in Selections /\ selection[Task(b)].state # "deleted"
           /\ Persisted(Attached(Task(b))) \/ Rejected(Attached(Task(b)))
    BY <1>3 DEF Launch
  <2>2. Task(b) \in Selections => Holds(b, Task(b))
    BY <1>3 DEF Launch, CallsTyped, CallTyped, WorkersHold, Launching
  <2>3. ASSUME Task(b) \in Selections, selection[Task(b)].state # "deleted"
        PROVE  Edit(Attached(Task(b)), {})
    BY <2>2, <2>3, HeldOwner, StateEdit DEF Attached
  <2> QED BY <2>1, <2>3, NoWrite, Writes
<1>4. CASE Finished(b)
  <2> DEFINE s == Task(b)
             new == [selection EXCEPT ![s].state = "complete"]
  <2>1. \/ UNCHANGED index
        \/ /\ s \in Selections /\ selection[s].manifest /\ job[b].stage = "done"
           /\ Persisted(new) \/ Rejected(new)
    BY <1>4 DEF Finished
  <2>2. ASSUME s \in Selections, selection[s].manifest, job[b].stage = "done"
        PROVE  Edit(new, {})
    <3>1. job[b].task = s /\ s \in learned[b] /\ Works(b, s)
      BY <2>2 DEF JobsTyped, AwaitedTyped, NoJob, JobsTrue, JobTrue, Works
    <3>2. selection[s].owner = b
      BY <2>2, <3>1, HeldOwner DEF WorkersHold
    <3> QED BY <2>2, <3>1, <3>2, StateEdit
  <2> QED BY <2>1, <2>2, NoWrite, Writes
<1>5. CASE ReleaseTask(b)
  <2>1. UNCHANGED index \/ \E S : Persisted(Released(S, b)) \/ Rejected(Released(S, b))
    BY <1>5 DEF ReleaseTask, Release
  <2> QED BY <2>1, NoWrite, ReleaseEdit, Writes
<1>6. CASE Tidy(b)
  <2> DEFINE left == {s \in Datasets(b) : selection[s].state # "deleted"}
  <2>1. left \in SUBSET Selections
    BY DEF Datasets
  <2>2. UNCHANGED index \/ Persisted(Deleted(left)) \/ Rejected(Deleted(left))
    BY <1>6 DEF Tidy
  <2>3. Edited({}) \/ Edited(left)
    BY <2>1, <2>2, NoWrite, DeleteEdit, Writes
  <2> QED BY <1>6, <2>1, <2>3 DEF Tidy
<1>7. CASE ReleaseAll(b)
  <2>1. UNCHANGED index \/ \E S : Persisted(Released(S, b)) \/ Rejected(Released(S, b))
    BY <1>7 DEF ReleaseAll, Release
  <2> QED BY <2>1, NoWrite, ReleaseEdit, Writes
<1>8. CASE Create(b) \/ Retry(b) \/ WriteDocument(b) \/
           EnsurePlan(b) \/ Build(b) \/ FoundationReady(b) \/
           ResetPlan(b) \/ Reopen(b) \/ RecoverAll(b) \/ Requeue(b) \/
           Run(b) \/ NextTask(b) \/ MarkRunning(b) \/
           CompleteTask(b) \/ FailTask(b) \/ Check(b) \/ Teach(b) \/
           Commit(b) \/ ReadFailure(b) \/ FailPlan(b) \/
           FailDocument(b)
  <2>1. UNCHANGED <<selection, savedSelection, broken>>
    BY <1>8 DEF Create, Retry, WriteDocument, EnsurePlan, NewPlan, Build, FoundationReady,
         PlanStep, PlanUpdate, ResetPlan, RetriedPhase, Reopen, RecoverAll, Requeue, Run,
         NextTask, MarkRunning, WithTask, CompleteTask, FailTask, Check, Teach, Commit,
         ReadFailure, FailPlan, FailDocument, NoFailure
  <2> QED BY <2>1, NoWrite
<1> QED BY <1>1, <1>2, <1>3, <1>4, <1>5, <1>6, <1>7, <1>8 DEF Request, CallStep

\* The job of a call whose attachRuntimeJob failed.
LEMMA Orphaned ==
    ASSUME NEW b, NEW j, orphans' = orphans \cup {[brain |-> b, job |-> j]}
    PROVE  \A r \in orphans' :
              r \in orphans \/ (r.brain = b /\ r.job = j /\ r = [brain |-> b, job |-> r.job])
OBVIOUS

LEMMA LaunchJobs ==
    ASSUME BuildInv, NEW b \in Brains, Launch(b)
    PROVE  /\ AwaitedTyped(b)' /\ JobTrue(job[b], b)'
           /\ \A r \in orphans' : r \in orphans \/ (/\ r.brain = b /\ JobTyped(r.job, b) /\ r.job.stage \in {"scan", "learn"}
                                                /\ r = [brain |-> b, job |-> r.job])
<1> DEFINE begun == [task |-> Task(b), stage |-> IF At(b, "launch scan") THEN "scan" ELSE "learn"]
<1>1. /\ pc[b] \in {"launch scan", "launch learn", "launch web"} /\ UNCHANGED <<cursor, learned>>
      /\ \/ /\ job' = [job EXCEPT ![b] = begun] /\ pc' = [pc EXCEPT ![b] = "wait"] /\ UNCHANGED orphans
         \/ UNCHANGED job /\ orphans' = orphans \cup {[brain |-> b, job |-> begun]}
  BY DEF Launch, OtherCalls, neural, At, Goto
<1>2. Task(b) \in Tasks(b)
  BY <1>1, TaskHere DEF BuildInv, TaskSteps
<1>3. At(b, "launch scan") => Task(b) \in Selections
  BY DEF BuildInv, CallsTyped, CallTyped, At
<1>4. JobTyped(begun, b) /\ begun.stage \in {"scan", "learn"} /\ begun.task = Task(b)
  BY <1>2, <1>3 DEF JobTyped, Stages
<1>5. job[b] = NoJob /\ DOMAIN job = Brains /\ DOMAIN pc = Brains
  BY <1>1 DEF BuildInv, JobsTyped, AwaitedTyped, CallsTyped, At
<1>6. Task(b)' = Task(b)
  BY <1>1 DEF Task
<1> HIDE DEF begun
<1>7. CASE job' = [job EXCEPT ![b] = begun] /\ pc' = [pc EXCEPT ![b] = "wait"] /\ UNCHANGED orphans
  <2>1. job'[b] = begun /\ pc'[b] = "wait"
    BY <1>5, <1>7
  <2> QED BY <1>4, <1>6, <1>7, <2>1 DEF AwaitedTyped, JobTrue, At
<1>8. CASE UNCHANGED job /\ orphans' = orphans \cup {[brain |-> b, job |-> begun]}
  <2>1. \A r \in orphans' : r \in orphans \/ (r.brain = b /\ r.job = begun /\ r = [brain |-> b, job |-> r.job])
    BY <1>8, Orphaned
  <2>2. AwaitedTyped(b)' /\ JobTrue(job[b], b)'
    BY <1>5, <1>8 DEF AwaitedTyped, JobTrue, NoJob
  <2> QED BY <1>4, <2>1, <2>2
<1> QED BY <1>1, <1>7, <1>8

\* The jobs a call starts and ends ...
LEMMA CallJobs ==
    ASSUME BuildInv, NEW b \in Brains, Request(b) \/ CallStep(b)
    PROVE  /\ AwaitedTyped(b)' /\ JobTrue(job[b], b)'
           /\ \A r \in orphans' : r \in orphans \/ (/\ r.brain = b /\ JobTyped(r.job, b) /\ r.job.stage \in {"scan", "learn"}
                                                /\ r = [brain |-> b, job |-> r.job])
<1> USE DEF index, disk, neural, calls, jobs, bounds, OtherCalls, NoFault, Fault, At, Goto,
      BuildInv, CallsTyped, CallTyped, JobsTyped, AwaitedTyped, JobsTrue, JobTrue, TaskSteps,
      NoJob
<1>1. CASE Create(b)
  BY <1>1 DEF Create, Task
<1>2. CASE Retry(b)
  BY <1>2 DEF Retry, Task
<1>3. CASE WriteDocument(b)
  BY <1>3 DEF WriteDocument, Task
<1>4. CASE EnsurePlan(b)
  BY <1>4 DEF EnsurePlan, NewPlan, Task
<1>5. CASE ClaimNext(b)
  BY <1>5 DEF ClaimNext, Persisted, Rejected, Claimable, Claimed, Task
<1>6. CASE Build(b)
  BY <1>6 DEF Build, Task
<1>7. CASE FoundationReady(b)
  BY <1>7 DEF FoundationReady, PlanStep, PlanUpdate, Task
<1>8. CASE ResetPlan(b)
  BY <1>8 DEF ResetPlan, PlanStep, PlanUpdate, RetriedPhase, Task
<1>9. CASE Reopen(b)
  BY <1>9 DEF Reopen, Task
<1>10. CASE RecoverAll(b)
  BY <1>10 DEF RecoverAll, Task
<1>11. CASE Requeue(b)
  BY <1>11 DEF Requeue, PlanStep, PlanUpdate, Task
<1>12. CASE Run(b)
  BY <1>12 DEF Run, Task
<1>13. CASE NextTask(b)
  BY <1>13 DEF NextTask, Task
<1>14. CASE MarkRunning(b)
  BY <1>14 DEF MarkRunning, PlanStep, PlanUpdate, WithTask, Task
<1>15. CASE Select(b)
  BY <1>15 DEF Select, Persisted, Rejected, Claimed, Task
<1>16. CASE Launch(b)
  BY <1>16, LaunchJobs
<1>17. CASE Finished(b)
  BY <1>17 DEF Finished, Persisted, Rejected, Task
<1>18. CASE CompleteTask(b)
  BY <1>18 DEF CompleteTask, PlanUpdate, WithTask, Task
<1>19. CASE FailTask(b)
  BY <1>19 DEF FailTask, PlanStep, PlanUpdate, WithTask, Task
<1>20. CASE ReleaseTask(b)
  BY <1>20 DEF ReleaseTask, Release, Released, Releasable, Persisted, Rejected, Task
<1>21. CASE Check(b)
  BY <1>21 DEF Check, Task
<1>22. CASE Teach(b)
  BY <1>22 DEF Teach, Task
<1>23. CASE Commit(b)
  BY <1>23 DEF Commit, Task
<1>24. CASE Tidy(b)
  BY <1>24 DEF Tidy, Deleted, Unclaimed, Persisted, Rejected, Task
<1>25. CASE ReadFailure(b)
  BY <1>25 DEF ReadFailure, Task
<1>26. CASE FailPlan(b)
  BY <1>26 DEF FailPlan, PlanUpdate, Task
<1>27. CASE ReleaseAll(b)
  BY <1>27 DEF ReleaseAll, Release, Released, Releasable, Persisted, Rejected, Task
<1>28. CASE FailDocument(b)
  BY <1>28 DEF FailDocument, NoFailure, Task
<1> QED BY <1>1, <1>2, <1>3, <1>4, <1>5, <1>6, <1>7, <1>8, <1>9, <1>10, <1>11, <1>12, <1>13,
      <1>14, <1>15, <1>16, <1>17, <1>18, <1>19, <1>20, <1>21, <1>22, <1>23, <1>24, <1>25, <1>26,
      <1>27, <1>28 DEF Request, CallStep

\* ... are for selections it was launching.
LEMMA CallWorks ==
    ASSUME BuildInv, NEW b \in Brains, Request(b) \/ CallStep(b)
    PROVE  \A c \in Brains, s \in Selections :
              Works(c, s)' => Works(c, s) \/ (c = b /\ Launching(b) /\ s = Task(b))
<1> USE DEF index, disk, neural, calls, jobs, bounds, OtherCalls, NoFault, Fault, At, Goto,
      BuildInv
<1>1. CASE Launch(b)
  <2> DEFINE begun == [task |-> Task(b), stage |-> IF At(b, "launch scan") THEN "scan" ELSE "learn"]
  <2>1. \/ job' = [job EXCEPT ![b] = begun] /\ UNCHANGED orphans
        \/ UNCHANGED job /\ orphans' = orphans \cup {[brain |-> b, job |-> begun]}
    BY <1>1 DEF Launch
  <2>2. Task(b) \in Selections => Launching(b)
    BY <1>1 DEF Launch, CallsTyped, CallTyped, Launching
  <2>3. \A c \in Brains : job'[c] = job[c] \/ (c = b /\ job'[c] = begun)
    BY <2>1 DEF JobsTyped
  <2>4. \A q \in orphans' : q \in orphans \/ q = [brain |-> b, job |-> begun]
    BY <2>1
  <2>5. begun.task = Task(b)
    OBVIOUS
  <2> HIDE DEF begun
  <2> QED BY <2>2, <2>3, <2>4, <2>5 DEF Works
<1>2. CASE Finished(b)
  <2>1. \A c \in Brains : job'[c] \in {job[c], NoJob}
    BY <1>2 DEF Finished, JobsTyped
  <2>2. UNCHANGED orphans
    BY <1>2 DEF Finished
  <2>3. NoJob.stage = "none"
    BY DEF NoJob
  <2> QED BY <2>1, <2>2, <2>3 DEF Works
<1>3. CASE Create(b) \/ Retry(b) \/ WriteDocument(b) \/
           EnsurePlan(b) \/ ClaimNext(b) \/ Build(b) \/
           FoundationReady(b) \/ ResetPlan(b) \/ Reopen(b) \/
           RecoverAll(b) \/ Requeue(b) \/ Run(b) \/ NextTask(b) \/
           MarkRunning(b) \/ Select(b) \/ CompleteTask(b) \/
           FailTask(b) \/ ReleaseTask(b) \/ Check(b) \/ Teach(b) \/
           Commit(b) \/ Tidy(b) \/ ReadFailure(b) \/ FailPlan(b) \/
           ReleaseAll(b) \/ FailDocument(b)
  <2>1. UNCHANGED <<job, orphans>>
    BY <1>3 DEF Create, Retry, WriteDocument, EnsurePlan, NewPlan, ClaimNext, Persisted,
         Rejected, Claimable, Claimed, Build, FoundationReady, PlanStep, PlanUpdate, ResetPlan,
         RetriedPhase, Reopen, RecoverAll, Requeue, Run, NextTask, MarkRunning, WithTask,
         Select, CompleteTask, FailTask, ReleaseTask, Release, Released, Releasable, Check,
         Teach, Commit, Tidy, Deleted, Unclaimed, ReadFailure, FailPlan, ReleaseAll,
         FailDocument, NoFailure
  <2> QED BY <2>1 DEF Works
<1> QED BY <1>1, <1>2, <1>3 DEF Request, CallStep

\* A call goes to launch a job only when it owns the selection.
LEMMA CallLaunches ==
    ASSUME BuildInv, NEW b \in Brains, Request(b) \/ CallStep(b)
    PROVE  Launching(b)' => /\ Task(b)' = Task(b) /\ Task(b) \in Selections
                            /\ selection'[Task(b)].owner = b
<1> USE DEF index, disk, neural, calls, jobs, bounds, OtherCalls, NoFault, Fault, At, Goto,
      BuildInv, Launching, CallsTyped
<1>1. CASE Create(b)
  BY <1>1 DEF Create, Task
<1>2. CASE Retry(b)
  BY <1>2 DEF Retry, Task
<1>3. CASE WriteDocument(b)
  BY <1>3 DEF WriteDocument, Task
<1>4. CASE EnsurePlan(b)
  BY <1>4, CallKind DEF EnsurePlan, NewPlan, Task
<1>5. CASE ClaimNext(b)
  BY <1>5 DEF ClaimNext, Persisted, Rejected, Claimable, Claimed, Task
<1>6. CASE Build(b)
  BY <1>6 DEF Build, Task
<1>7. CASE FoundationReady(b)
  BY <1>7 DEF FoundationReady, PlanStep, PlanUpdate, Task
<1>8. CASE ResetPlan(b)
  BY <1>8 DEF ResetPlan, PlanStep, PlanUpdate, RetriedPhase, Task
<1>9. CASE Reopen(b)
  BY <1>9 DEF Reopen, Task
<1>10. CASE RecoverAll(b)
  BY <1>10 DEF RecoverAll, Task
<1>11. CASE Requeue(b)
  BY <1>11 DEF Requeue, PlanStep, PlanUpdate, Task
<1>12. CASE Run(b)
  BY <1>12, PlanPhase DEF Run, Task
<1>13. CASE NextTask(b)
  BY <1>13 DEF NextTask, Task
<1>14. CASE MarkRunning(b)
  BY <1>14 DEF MarkRunning, PlanStep, PlanUpdate, WithTask, Task
<1>15. CASE Select(b)
  <2>1. Task(b)' = Task(b) /\ Task(b) \in Selections
    BY <1>15 DEF Select, CallsTyped, CallTyped, Task
  <2>2. ASSUME Launching(b)'
        PROVE  \/ selection' = Claimed(Task(b), b)
               \/ /\ UNCHANGED selection /\ selection[Task(b)].owner \in {NoBrain, b}
                  /\ selection[Task(b)].state \notin {"selected", "deleted"}
    BY <1>15, <2>2 DEF Select, Persisted, Rejected
  <2>3. Claimed(Task(b), b)[Task(b)].owner = b
    BY <2>1 DEF Claimed, IndexesTyped, IndexTyped
  <2> QED BY ResourcesAssumption, <2>1, <2>2, <2>3 DEF IndexesSound, IndexSound
<1>16. CASE Launch(b)
  BY <1>16 DEF Launch, Persisted, Rejected, Attached, Task
<1>17. CASE Finished(b)
  BY <1>17 DEF Finished, Persisted, Rejected, Task
<1>18. CASE CompleteTask(b)
  BY <1>18 DEF CompleteTask, PlanUpdate, WithTask, Task
<1>19. CASE FailTask(b)
  BY <1>19 DEF FailTask, PlanStep, PlanUpdate, WithTask, Task
<1>20. CASE ReleaseTask(b)
  BY <1>20 DEF ReleaseTask, Release, Released, Releasable, Persisted, Rejected, Task
<1>21. CASE Check(b)
  BY <1>21 DEF Check, Task
<1>22. CASE Teach(b)
  BY <1>22 DEF Teach, Task
<1>23. CASE Commit(b)
  BY <1>23 DEF Commit, Task
<1>24. CASE Tidy(b)
  BY <1>24 DEF Tidy, Deleted, Unclaimed, Persisted, Rejected, Task
<1>25. CASE ReadFailure(b)
  BY <1>25 DEF ReadFailure, Task
<1>26. CASE FailPlan(b)
  BY <1>26 DEF FailPlan, PlanUpdate, Task
<1>27. CASE ReleaseAll(b)
  BY <1>27 DEF ReleaseAll, Release, Released, Releasable, Persisted, Rejected, Task
<1>28. CASE FailDocument(b)
  BY <1>28 DEF FailDocument, NoFailure, Task
<1> QED BY <1>1, <1>2, <1>3, <1>4, <1>5, <1>6, <1>7, <1>8, <1>9, <1>10, <1>11, <1>12, <1>13,
      <1>14, <1>15, <1>16, <1>17, <1>18, <1>19, <1>20, <1>21, <1>22, <1>23, <1>24, <1>25, <1>26,
      <1>27, <1>28 DEF Request, CallStep

\* The job that ended well has learned, and so has the plan that is ticked off.
LEMMA DoneLearned ==
    ASSUME JobsTyped, JobsTrue, NEW b \in Brains, job[b].stage = "done"
    PROVE  job[b].task = Task(b) /\ Task(b) \in learned[b]
<1>1. job[b] # NoJob
  BY DEF NoJob
<1> QED BY <1>1 DEF JobsTyped, AwaitedTyped, JobsTrue, JobTrue

LEMMA OwnedLearned ==
    ASSUME PlansTyped, PlansTrue, NeuralTyped, NEW b \in Brains, Owned(b)
    PROVE  learned[b] = Tasks(b)
<1>1. plan[b] # NoPlan
  BY DEF Owned, NoPlan
<1>2. DOMAIN plan[b].task = Tasks(b)
  BY <1>1 DEF PlansTyped, PlanTyped
<1> QED BY <1>1, <1>2 DEF Owned, Unfinished, PlansTrue, PlanTrue, NeuralTyped

\* What the call then writes down has happened.
LEMMA CallTruth ==
    ASSUME BuildInv, NEW b \in Brains, Request(b) \/ CallStep(b)
    PROVE  CallTrue(b)'
<1> USE DEF index, disk, neural, calls, jobs, bounds, OtherCalls, NoFault, Fault, At, Goto,
      BuildInv, CallTrue, CallsTyped, CallsTrue
<1>1. CASE Create(b)
  BY <1>1 DEF Create, Task
<1>2. CASE Retry(b)
  BY <1>2 DEF Retry, Task
<1>3. CASE WriteDocument(b)
  BY <1>3 DEF WriteDocument, Task
<1>4. CASE EnsurePlan(b)
  BY <1>4, CallKind DEF EnsurePlan, NewPlan, Task
<1>5. CASE ClaimNext(b)
  BY <1>5 DEF ClaimNext, Persisted, Rejected, Claimable, Claimed, Task
<1>6. CASE Build(b)
  BY <1>6 DEF Build, Task
<1>7. CASE FoundationReady(b)
  BY <1>7 DEF FoundationReady, PlanStep, PlanUpdate, Task
<1>8. CASE ResetPlan(b)
  BY <1>8 DEF ResetPlan, PlanStep, PlanUpdate, RetriedPhase, Task
<1>9. CASE Reopen(b)
  BY <1>9 DEF Reopen, Task
<1>10. CASE RecoverAll(b)
  BY <1>10 DEF RecoverAll, Task
<1>11. CASE Requeue(b)
  BY <1>11 DEF Requeue, PlanStep, PlanUpdate, Task
<1>12. CASE Run(b)
  BY <1>12, PlanPhase DEF Run, Task
<1>13. CASE NextTask(b)
  BY <1>13 DEF NextTask, Task
<1>14. CASE MarkRunning(b)
  BY <1>14 DEF MarkRunning, PlanStep, PlanUpdate, WithTask, Task
<1>15. CASE Select(b)
  <2>1. Task(b)' = Task(b) /\ UNCHANGED learned
    BY <1>15 DEF Select, Task
  <2>2. pc'[b] \in {"read failure", "launch scan", "learned before", "launch learn"}
    BY <1>15 DEF Select
  <2>3. ASSUME At(b, "learned before")' PROVE Task(b) \in learned[b]
    <3>1. /\ Task(b) \in Selections /\ selection[Task(b)].state = "complete"
          /\ selection[Task(b)].owner \in {NoBrain, b}
      BY <1>15, <2>3 DEF Select, CallTyped
    <3> QED BY ResourcesAssumption, <3>1 DEF IndexesSound, IndexSound
  <2> QED BY <2>1, <2>2, <2>3
<1>16. CASE Launch(b)
  BY <1>16 DEF Launch, Persisted, Rejected, Attached, Task
<1>17. CASE Finished(b)
  <2>1. Task(b)' = Task(b) /\ UNCHANGED learned
    BY <1>17 DEF Finished, Task
  <2>2. pc'[b] = "task failed" \/ (pc'[b] = "task done" /\ job[b].stage = "done")
    BY <1>17 DEF Finished
  <2>3. job[b].stage = "done" => Task(b) \in learned[b]
    BY DoneLearned
  <2> QED BY <2>1, <2>2, <2>3
<1>18. CASE CompleteTask(b)
  BY <1>18 DEF CompleteTask, PlanUpdate, WithTask, Task
<1>19. CASE FailTask(b)
  BY <1>19 DEF FailTask, PlanStep, PlanUpdate, WithTask, Task
<1>20. CASE ReleaseTask(b)
  BY <1>20 DEF ReleaseTask, Release, Released, Releasable, Persisted, Rejected, Task
<1>21. CASE Check(b)
  BY <1>21 DEF Check, Task
<1>22. CASE Teach(b)
  <2>1. UNCHANGED learned
    BY <1>22 DEF Teach
  <2>2. pc'[b] = "read failure" \/ (pc'[b] = "commit" /\ Owned(b) /\ b \in built' /\ b \in taught')
    BY <1>22 DEF Teach
  <2>3. Owned(b) => learned[b] = Tasks(b)
    BY OwnedLearned
  <2> QED BY <2>1, <2>2, <2>3
<1>23. CASE Commit(b)
  BY <1>23 DEF Commit, Task
<1>24. CASE Tidy(b)
  BY <1>24 DEF Tidy, Deleted, Unclaimed, Persisted, Rejected, Task
<1>25. CASE ReadFailure(b)
  BY <1>25 DEF ReadFailure, Task
<1>26. CASE FailPlan(b)
  BY <1>26 DEF FailPlan, PlanUpdate, Task
<1>27. CASE ReleaseAll(b)
  BY <1>27 DEF ReleaseAll, Release, Released, Releasable, Persisted, Rejected, Task
<1>28. CASE FailDocument(b)
  BY <1>28 DEF FailDocument, NoFailure, Task
<1> QED BY <1>1, <1>2, <1>3, <1>4, <1>5, <1>6, <1>7, <1>8, <1>9, <1>10, <1>11, <1>12, <1>13,
      <1>14, <1>15, <1>16, <1>17, <1>18, <1>19, <1>20, <1>21, <1>22, <1>23, <1>24, <1>25, <1>26,
      <1>27, <1>28 DEF Request, CallStep

\* A document becomes ready behind the learning, the teaching and the core.
LEMMA CallReady ==
    ASSUME BuildInv, NEW b \in Brains, Request(b) \/ CallStep(b)
    PROVE  doc'[b] = "ready" => b \in built' /\ b \in taught' /\ learned'[b] = Tasks(b)
<1> USE DEF index, disk, neural, calls, jobs, bounds, OtherCalls, NoFault, Fault, At, Goto,
      BuildInv, ReadyMeansLearned, CallsTyped, CallsTrue, CallTrue
<1>1. CASE WriteDocument(b)
  BY <1>1 DEF WriteDocument
<1>2. CASE Build(b)
  BY <1>2 DEF Build
<1>3. CASE Reopen(b)
  BY <1>3 DEF Reopen
<1>4. CASE Teach(b)
  BY <1>4 DEF Teach
<1>5. CASE Commit(b)
  BY <1>5 DEF Commit
<1>6. CASE FailDocument(b)
  BY <1>6 DEF FailDocument, NoFailure
<1>7. CASE Create(b) \/ Retry(b) \/ EnsurePlan(b) \/ ClaimNext(b) \/
           FoundationReady(b) \/ ResetPlan(b) \/ RecoverAll(b) \/
           Requeue(b) \/ Run(b) \/ NextTask(b) \/ MarkRunning(b) \/
           Select(b) \/ Launch(b) \/ Finished(b) \/
           CompleteTask(b) \/ FailTask(b) \/ ReleaseTask(b) \/
           Check(b) \/ Tidy(b) \/ ReadFailure(b) \/ FailPlan(b) \/
           ReleaseAll(b)
  <2>1. UNCHANGED <<doc, built, taught, learned>>
    BY <1>7 DEF Create, Retry, EnsurePlan, NewPlan, ClaimNext, Persisted, Rejected, Claimable,
         Claimed, FoundationReady, PlanStep, PlanUpdate, ResetPlan, RetriedPhase, RecoverAll,
         Requeue, Run, NextTask, MarkRunning, WithTask, Select, Launch, Attached, Finished,
         CompleteTask, FailTask, ReleaseTask, Release, Released, Releasable, Check, Tidy,
         Deleted, Unclaimed, ReadFailure, FailPlan, ReleaseAll
  <2> QED BY <2>1
<1> QED BY <1>1, <1>2, <1>3, <1>4, <1>5, <1>6, <1>7 DEF Request, CallStep

\* A write that is rejected is a failure, and only a restart forgets it.
LEMMA Journals ==
    ASSUME Journalled, Recorded
    PROVE  Journalled'
<1>1. faults' \in Nat /\ faults' >= faults
  BY DEF Journalled, Recorded
<1>2. CASE UNCHANGED index
  BY <1>1, <1>2 DEF Journalled, index
<1>3. CASE selection' = savedSelection' /\ broken' = FALSE
  BY <1>1, <1>3 DEF Journalled
<1>4. CASE broken' = TRUE /\ faults' >= 1
  BY <1>1, <1>4 DEF Journalled
<1>5. broken => faults >= 1
  BY DEF Journalled
<1>6. faults' = faults + 1 => faults' >= 1
  BY DEF Journalled
<1> QED BY <1>1, <1>2, <1>3, <1>4, <1>5, <1>6 DEF Recorded

\* A step that writes the index: not at all, perhaps behind another failure, or
\* as BuildResourceSelectionStore.update has it.
IndexSaved ==
  \/ UNCHANGED index /\ faults' \in {faults, faults + 1}
  \/ \E new : (Persisted(new) /\ UNCHANGED faults) \/ Rejected(new)

\* How a call's step counts.
LEMMA CallRecords ==
    ASSUME BuildInv, NEW b \in Brains, Request(b) \/ CallStep(b)
    PROVE  Recorded
<1> USE DEF index, disk, neural, calls, jobs, bounds, OtherCalls, NoFault, Fault, At, Goto,
      BuildInv, Journalled, Recorded
<1>1. CASE WriteDocument(b)
  BY <1>1 DEF WriteDocument
<1>2. CASE EnsurePlan(b)
  BY <1>2 DEF EnsurePlan, NewPlan
<1>3. CASE ClaimNext(b)
  <2>1. IndexSaved
    BY <1>3 DEF IndexSaved, ClaimNext, Release
  <2> QED BY <2>1 DEF IndexSaved, Persisted, Rejected
<1>4. CASE Build(b)
  BY <1>4 DEF Build
<1>5. CASE FoundationReady(b)
  BY <1>5 DEF FoundationReady, PlanStep, PlanUpdate
<1>6. CASE ResetPlan(b)
  BY <1>6 DEF ResetPlan, PlanStep, PlanUpdate, RetriedPhase
<1>7. CASE Reopen(b)
  BY <1>7 DEF Reopen
<1>8. CASE Requeue(b)
  BY <1>8 DEF Requeue, PlanStep, PlanUpdate
<1>9. CASE MarkRunning(b)
  BY <1>9 DEF MarkRunning, PlanStep, PlanUpdate, WithTask
<1>10. CASE Select(b)
  <2>1. IndexSaved
    BY <1>10 DEF IndexSaved, Select, Release
  <2> QED BY <2>1 DEF IndexSaved, Persisted, Rejected
<1>11. CASE Launch(b)
  <2>1. IndexSaved
    BY <1>11 DEF IndexSaved, Launch, Release
  <2> QED BY <2>1 DEF IndexSaved, Persisted, Rejected
<1>12. CASE Finished(b)
  <2>1. IndexSaved
    BY <1>12 DEF IndexSaved, Finished, Release
  <2> QED BY <2>1 DEF IndexSaved, Persisted, Rejected
<1>13. CASE CompleteTask(b)
  BY <1>13 DEF CompleteTask, PlanUpdate, WithTask
<1>14. CASE FailTask(b)
  BY <1>14 DEF FailTask, PlanStep, PlanUpdate, WithTask
<1>15. CASE ReleaseTask(b)
  <2>1. IndexSaved
    BY <1>15 DEF IndexSaved, ReleaseTask, Release
  <2> QED BY <2>1 DEF IndexSaved, Persisted, Rejected
<1>16. CASE Teach(b)
  BY <1>16 DEF Teach
<1>17. CASE Commit(b)
  BY <1>17 DEF Commit
<1>18. CASE Tidy(b)
  <2>1. IndexSaved
    BY <1>18 DEF IndexSaved, Tidy, Release
  <2> QED BY <2>1 DEF IndexSaved, Persisted, Rejected
<1>19. CASE FailPlan(b)
  BY <1>19 DEF FailPlan, PlanUpdate
<1>20. CASE ReleaseAll(b)
  <2>1. IndexSaved
    BY <1>20 DEF IndexSaved, ReleaseAll, Release
  <2> QED BY <2>1 DEF IndexSaved, Persisted, Rejected
<1>21. CASE FailDocument(b)
  BY <1>21 DEF FailDocument, NoFailure
<1>22. CASE Create(b) \/ Retry(b) \/ RecoverAll(b) \/ Run(b) \/
            NextTask(b) \/ Check(b) \/ ReadFailure(b)
  <2>1. UNCHANGED <<selection, savedSelection, broken, faults>>
    BY <1>22 DEF Create, Retry, RecoverAll, Run, NextTask, Check, ReadFailure
  <2> QED BY <2>1
<1> QED BY <1>1, <1>2, <1>3, <1>4, <1>5, <1>6, <1>7, <1>8, <1>9, <1>10, <1>11, <1>12, <1>13,
      <1>14, <1>15, <1>16, <1>17, <1>18, <1>19, <1>20, <1>21, <1>22 DEF Request, CallStep

\* The core, the teaching and the learning of the brains.
LEMMA CallNeural ==
    ASSUME BuildInv, NEW b \in Brains, Request(b) \/ CallStep(b)
    PROVE  NeuralTyped'
<1> USE DEF index, disk, neural, calls, jobs, bounds, OtherCalls, NoFault, Fault, At, Goto,
      BuildInv, NeuralTyped
<1>1. CASE Build(b)
  BY <1>1 DEF Build
<1>2. CASE Teach(b)
  BY <1>2 DEF Teach
<1>3. CASE Create(b) \/ Retry(b) \/ WriteDocument(b) \/
           EnsurePlan(b) \/ ClaimNext(b) \/ FoundationReady(b) \/
           ResetPlan(b) \/ Reopen(b) \/ RecoverAll(b) \/ Requeue(b) \/
           Run(b) \/ NextTask(b) \/ MarkRunning(b) \/ Select(b) \/
           Launch(b) \/ Finished(b) \/ CompleteTask(b) \/
           FailTask(b) \/ ReleaseTask(b) \/ Check(b) \/ Commit(b) \/
           Tidy(b) \/ ReadFailure(b) \/ FailPlan(b) \/
           ReleaseAll(b) \/ FailDocument(b)
  <2>1. UNCHANGED <<built, resident, taught, learned>>
    BY <1>3 DEF Create, Retry, WriteDocument, EnsurePlan, NewPlan, ClaimNext, Persisted,
         Rejected, Claimable, Claimed, FoundationReady, PlanStep, PlanUpdate, ResetPlan,
         RetriedPhase, Reopen, RecoverAll, Requeue, Run, NextTask, MarkRunning, WithTask,
         Select, Launch, Attached, Finished, CompleteTask, FailTask, ReleaseTask, Release,
         Released, Releasable, Check, Commit, Tidy, Deleted, Unclaimed, ReadFailure, FailPlan,
         ReleaseAll, FailDocument, NoFailure
  <2> QED BY <2>1
<1> QED BY <1>1, <1>2, <1>3 DEF Request, CallStep

\* What the stage of a running job says of it.
LEMMA RunningAt ==
    ASSUME BuildInv, NEW r \in Running, NEW stage \in Stages, IsAt(r, stage)
    PROVE  /\ r.brain \in Brains /\ r.job.task \in Tasks(r.brain) /\ r.job.stage = stage
           /\ stage \notin {"learn", "done", "failed"} => r.job.task \in Selections
           /\ stage \in {"report", "tick", "done"} => r.job.task \in learned[r.brain]
           /\ r.job.task \in Selections => Holds(r.brain, r.job.task)
<1>1. r.job.stage # "none"
  BY DEF IsAt, Stages
<1> QED BY <1>1, RunningIs DEF BuildInv, IsAt, JobTyped, JobTrue, WorkersHold

\* A job learns its own task for its own brain and leaves the calls alone.
LEMMA JobFrame ==
    ASSUME BuildInv, NEW r \in Running, JobMoves(r)
    PROVE  /\ UNCHANGED <<doc, built, resident, taught, call, pc, cursor, failure, recovery>>
           /\ NeuralTyped' /\ \A b \in Brains : learned[b] \subseteq learned'[b]
           /\ \A b \in Brains : \A s \in learned'[b] : s \in learned[b] \/ (b = r.brain /\ s = r.job.task)
<1> USE DEF index, disk, neural, calls, jobs, bounds, OtherCalls, NoFault, Fault, At, Goto,
      JobRest
<1>1. CASE Scan(r)
  <2>1. UNCHANGED <<doc, built, resident, taught, call, pc, cursor, failure, recovery, learned>>
    BY <1>1 DEF Scan
  <2> QED BY <2>1 DEF BuildInv, NeuralTyped
<1>2. CASE CommitManifest(r)
  <2>1. UNCHANGED <<doc, built, resident, taught, call, pc, cursor, failure, recovery, learned>>
    BY <1>2 DEF CommitManifest
  <2> QED BY <2>1 DEF BuildInv, NeuralTyped
<1>3. CASE NoteManifest(r)
  <2>1. UNCHANGED <<doc, built, resident, taught, call, pc, cursor, failure, recovery, learned>>
    BY <1>3 DEF NoteManifest
  <2> QED BY <2>1 DEF BuildInv, NeuralTyped
<1>4. CASE Learn(r)
  <2>1. /\ UNCHANGED <<doc, built, resident, taught, call, pc, cursor, failure, recovery>>
        /\ UNCHANGED learned \/ learned' = [learned EXCEPT ![r.brain] = @ \cup {r.job.task}]
    BY <1>4 DEF Learn
  <2>2. r.brain \in Brains /\ r.job.task \in Tasks(r.brain)
    BY <1>4, RunningAt DEF Learn, Stages
  <2> QED BY <2>1, <2>2 DEF BuildInv, NeuralTyped
<1>5. CASE Report(r)
  <2>1. UNCHANGED <<doc, built, resident, taught, call, pc, cursor, failure, recovery, learned>>
    BY <1>5 DEF Report
  <2> QED BY <2>1 DEF BuildInv, NeuralTyped
<1>6. CASE Tick(r)
  <2>1. UNCHANGED <<doc, built, resident, taught, call, pc, cursor, failure, recovery, learned>>
    BY <1>6 DEF Tick
  <2> QED BY <2>1 DEF BuildInv, NeuralTyped
<1> QED BY <1>1, <1>2, <1>3, <1>4, <1>5, <1>6 DEF JobMoves

\* How a job's step counts.
LEMMA JobRecords ==
    ASSUME BuildInv, NEW r \in Running, JobMoves(r)
    PROVE  Recorded
<1> USE DEF index, disk, neural, calls, jobs, bounds, OtherCalls, NoFault, Fault, At, Goto,
      JobRest, Recorded
<1>1. CASE Scan(r)
  BY <1>1 DEF Scan, IsAt
<1>2. CASE CommitManifest(r)
  <2>1. IndexSaved
    BY <1>2 DEF IndexSaved, CommitManifest, JobUpdate
  <2> QED BY <2>1 DEF IndexSaved, Persisted, Rejected
<1>3. CASE NoteManifest(r)
  BY <1>3 DEF NoteManifest, IsAt, JobPlan, PlanUpdate, WithTask
<1>4. CASE Learn(r)
  BY <1>4 DEF Learn, IsAt
<1>5. CASE Report(r)
  <2>1. IndexSaved
    BY <1>5 DEF IndexSaved, Report, JobUpdate
  <2> QED BY <2>1 DEF IndexSaved, Persisted, Rejected
<1>6. CASE Tick(r)
  BY <1>6 DEF Tick, IsAt, JobPlan, PlanUpdate, WithTask
<1> QED BY <1>1, <1>2, <1>3, <1>4, <1>5, <1>6 DEF JobMoves

\* A job edits the entry of its task only.
LEMMA JobEdits ==
    ASSUME BuildInv, NEW r \in Running, JobMoves(r)
    PROVE  Edited({})
<1> USE DEF BuildInv
<1>1. CASE Scan(r)
  <2>1. UNCHANGED index
    BY <1>1 DEF Scan, JobRest, IsAt, index
  <2> QED BY <2>1, NoWrite
<1>2. CASE CommitManifest(r)
  <2> DEFINE s == r.job.task
             new == [selection EXCEPT ![s].state = "training", ![s].manifest = TRUE]
  <2>1. UNCHANGED index \/ (selection[s].owner # NoBrain /\ (Persisted(new) \/ Rejected(new)))
    BY <1>2 DEF CommitManifest, JobUpdate
  <2>2. s \in Selections
    BY <1>2, RunningAt DEF CommitManifest, Stages
  <2>3. selection[s].owner # NoBrain => selection[s].owner \in Brains
    BY <2>2 DEF IndexesTyped, IndexTyped
  <2> QED BY <2>1, <2>2, <2>3, NoWrite, ManifestEdit, Writes
<1>3. CASE NoteManifest(r)
  <2>1. UNCHANGED index
    BY <1>3 DEF NoteManifest, JobRest, IsAt, JobPlan, PlanUpdate, WithTask, index
  <2> QED BY <2>1, NoWrite
<1>4. CASE Learn(r)
  <2>1. UNCHANGED index
    BY <1>4 DEF Learn, JobRest, IsAt, index
  <2> QED BY <2>1, NoWrite
<1>5. CASE Report(r)
  <2> DEFINE s == r.job.task
             new == [selection EXCEPT ![s].state = "complete"]
  <2>1. UNCHANGED index \/ (selection[s].manifest /\ (Persisted(new) \/ Rejected(new)))
    BY <1>5 DEF Report, JobUpdate
  <2>2. r.brain \in Brains /\ s \in Selections /\ s \in learned[r.brain] /\ Holds(r.brain, s)
    BY <1>5, RunningAt DEF Report, Stages
  <2>3. selection[s].manifest => selection[s].owner = r.brain
    BY <2>2, HeldOwner
  <2> QED BY <2>1, <2>2, <2>3, NoWrite, StateEdit, Writes
<1>6. CASE Tick(r)
  <2>1. UNCHANGED index
    BY <1>6 DEF Tick, JobRest, IsAt, JobPlan, PlanUpdate, WithTask, index
  <2> QED BY <2>1, NoWrite
<1> QED BY <1>1, <1>2, <1>3, <1>4, <1>5, <1>6 DEF JobMoves

\* A job notes its task as running, and ticks it off once it is learned.
LEMMA JobPlans ==
    ASSUME BuildInv, NEW r \in Running, JobMoves(r)
    PROVE  PlansTyped' /\ PlansTrue'
<1> USE DEF BuildInv
<1>1. CASE Scan(r)
  <2>1. UNCHANGED plan
    BY <1>1 DEF Scan, JobRest, IsAt, disk
  <2>2. \A b \in Brains : learned[b] \subseteq learned'[b]
    BY <1>1, JobFrame DEF JobMoves
  <2> QED BY <2>1, <2>2 DEF PlansTyped, PlansTrue, PlanTrue
<1>2. CASE CommitManifest(r)
  <2>1. UNCHANGED plan
    BY <1>2 DEF CommitManifest, JobRest, IsAt, JobUpdate, Persisted, Rejected, disk
  <2>2. \A b \in Brains : learned[b] \subseteq learned'[b]
    BY <1>2, JobFrame DEF JobMoves
  <2> QED BY <2>1, <2>2 DEF PlansTyped, PlansTrue, PlanTrue
<1>3. CASE NoteManifest(r)
  <2> DEFINE b == r.brain
             next == WithTask(plan[b], r.job.task, "running")
  <2>1. b \in Brains /\ r.job.task \in Tasks(b) /\ ("running" = "complete" => r.job.task \in learned[b])
    BY <1>3, RunningAt DEF NoteManifest, Stages
  <2>2. UNCHANGED learned /\ (UNCHANGED plan \/ (plan[b] # NoPlan /\ plan' = [plan EXCEPT ![b] = next]))
    BY <1>3 DEF NoteManifest, JobPlan, PlanUpdate
  <2>3. plan[b] # NoPlan => PlanTyped(next, b) /\ PlanTrue(next, b)
    BY <2>1, TaskEdit DEF PlansTyped, PlansTrue, PlanStates
  <2> HIDE DEF next
  <2> QED BY <2>1, <2>2, <2>3 DEF PlansTyped, PlansTrue, PlanTrue
<1>4. CASE Learn(r)
  <2>1. UNCHANGED plan
    BY <1>4 DEF Learn, JobRest, IsAt, disk
  <2>2. \A b \in Brains : learned[b] \subseteq learned'[b]
    BY <1>4, JobFrame DEF JobMoves
  <2> QED BY <2>1, <2>2 DEF PlansTyped, PlansTrue, PlanTrue
<1>5. CASE Report(r)
  <2>1. UNCHANGED plan
    BY <1>5 DEF Report, JobRest, IsAt, JobUpdate, Persisted, Rejected, disk
  <2>2. \A b \in Brains : learned[b] \subseteq learned'[b]
    BY <1>5, JobFrame DEF JobMoves
  <2> QED BY <2>1, <2>2 DEF PlansTyped, PlansTrue, PlanTrue
<1>6. CASE Tick(r)
  <2> DEFINE b == r.brain
             next == WithTask(plan[b], r.job.task, "complete")
  <2>1. b \in Brains /\ r.job.task \in Tasks(b) /\ r.job.task \in learned[b]
    BY <1>6, RunningAt DEF Tick, Stages
  <2>2. UNCHANGED learned /\ (UNCHANGED plan \/ (plan[b] # NoPlan /\ plan' = [plan EXCEPT ![b] = next]))
    BY <1>6 DEF Tick, JobPlan, PlanUpdate
  <2>3. plan[b] # NoPlan => PlanTyped(next, b) /\ PlanTrue(next, b)
    BY <2>1, TaskEdit DEF PlansTyped, PlansTrue, PlanStates
  <2> HIDE DEF next
  <2> QED BY <2>1, <2>2, <2>3 DEF PlansTyped, PlansTrue, PlanTrue
<1> QED BY <1>1, <1>2, <1>3, <1>4, <1>5, <1>6 DEF JobMoves

\* A job goes through its stages.
LEMMA JobJobs ==
    ASSUME BuildInv, NEW r \in Running, JobMoves(r)
    PROVE  /\ JobsTyped' /\ JobsTrue'
           /\ \A b \in Brains : \A s \in Selections : Works(b, s)' => Works(b, s)
<1>1. CASE Scan(r)
  <2>1. Move(r, "commit") \/ Move(r, "failed")
    BY <1>1 DEF Scan
  <2>2. \E stage \in Stages : IsAt(r, stage) /\ stage \in {"scan"}
    BY <1>1 DEF Scan, Stages
  <2>3. /\ UNCHANGED <<pc, cursor>> /\ \A b \in Brains : learned[b] \subseteq learned'[b]
        /\ r.brain \in Brains /\ r.job.stage # "none"
    BY <1>1, <2>2, JobFrame, RunningAt DEF JobMoves
  <2> QED BY <2>1, <2>2, <2>3, Moves, RunningAt DEF Stages, BuildInv
<1>2. CASE CommitManifest(r)
  <2>1. Move(r, "note") \/ Move(r, "failed")
    BY <1>2 DEF CommitManifest, JobUpdate
  <2>2. \E stage \in Stages : IsAt(r, stage) /\ stage \in {"commit"}
    BY <1>2 DEF CommitManifest, Stages
  <2>3. /\ UNCHANGED <<pc, cursor>> /\ \A b \in Brains : learned[b] \subseteq learned'[b]
        /\ r.brain \in Brains /\ r.job.stage # "none"
    BY <1>2, <2>2, JobFrame, RunningAt DEF JobMoves
  <2> QED BY <2>1, <2>2, <2>3, Moves, RunningAt DEF Stages, BuildInv
<1>3. CASE NoteManifest(r)
  <2>1. Move(r, "learn, report") \/ Move(r, "failed")
    BY <1>3 DEF NoteManifest, JobPlan
  <2>2. \E stage \in Stages : IsAt(r, stage) /\ stage \in {"note"}
    BY <1>3 DEF NoteManifest, Stages
  <2>3. /\ UNCHANGED <<pc, cursor>> /\ \A b \in Brains : learned[b] \subseteq learned'[b]
        /\ r.brain \in Brains /\ r.job.stage # "none"
    BY <1>3, <2>2, JobFrame, RunningAt DEF JobMoves
  <2> QED BY <2>1, <2>2, <2>3, Moves, RunningAt DEF Stages, BuildInv
<1>4. CASE Learn(r)
  <2>1. PICK stage \in {"learn", "learn, report"} : IsAt(r, stage)
    BY <1>4 DEF Learn
  <2>2. /\ UNCHANGED <<pc, cursor>> /\ \A b \in Brains : learned[b] \subseteq learned'[b]
        /\ r.brain \in Brains /\ r.job.stage = stage
        /\ stage = "learn, report" => r.job.task \in Selections
    BY <1>4, <2>1, JobFrame, RunningAt DEF JobMoves, Stages
  <2>3. \/ Move(r, "failed")
        \/ /\ learned' = [learned EXCEPT ![r.brain] = @ \cup {r.job.task}]
           /\ Move(r, IF r.job.stage = "learn" THEN "done" ELSE "report")
    BY <1>4 DEF Learn
  <2>4. DOMAIN learned = Brains
    BY DEF BuildInv, NeuralTyped
  <2>5. CASE Move(r, "failed")
    BY <2>1, <2>2, <2>5, Moves DEF Stages, BuildInv
  <2>6. CASE /\ learned' = [learned EXCEPT ![r.brain] = @ \cup {r.job.task}]
             /\ Move(r, IF r.job.stage = "learn" THEN "done" ELSE "report")
    <3>1. r.job.task \in learned'[r.brain]
      BY <2>2, <2>4, <2>6
    <3>2. CASE stage = "learn"
      BY <2>2, <2>6, <3>1, <3>2, Moves DEF Stages, BuildInv
    <3>3. CASE stage = "learn, report"
      BY <2>2, <2>6, <3>1, <3>3, Moves DEF Stages, BuildInv
    <3> QED BY <2>1, <3>2, <3>3
  <2> QED BY <2>3, <2>5, <2>6
<1>5. CASE Report(r)
  <2>1. Move(r, "tick") \/ Move(r, "failed")
    BY <1>5 DEF Report, JobUpdate
  <2>2. \E stage \in Stages : IsAt(r, stage) /\ stage \in {"report"}
    BY <1>5 DEF Report, Stages
  <2>3. /\ UNCHANGED <<pc, cursor>> /\ \A b \in Brains : learned[b] \subseteq learned'[b]
        /\ r.brain \in Brains /\ r.job.stage # "none"
    BY <1>5, <2>2, JobFrame, RunningAt DEF JobMoves
  <2> QED BY <2>1, <2>2, <2>3, Moves, RunningAt DEF Stages, BuildInv
<1>6. CASE Tick(r)
  <2>1. Move(r, "done") \/ Move(r, "failed")
    BY <1>6 DEF Tick, JobPlan
  <2>2. \E stage \in Stages : IsAt(r, stage) /\ stage \in {"tick"}
    BY <1>6 DEF Tick, Stages
  <2>3. /\ UNCHANGED <<pc, cursor>> /\ \A b \in Brains : learned[b] \subseteq learned'[b]
        /\ r.brain \in Brains /\ r.job.stage # "none"
    BY <1>6, <2>2, JobFrame, RunningAt DEF JobMoves
  <2> QED BY <2>1, <2>2, <2>3, Moves, RunningAt DEF Stages, BuildInv
<1> QED BY <1>1, <1>2, <1>3, <1>4, <1>5, <1>6 DEF JobMoves

LEMMA CallNeuralGrows ==
    ASSUME BuildInv, NEW b \in Brains, Request(b) \/ CallStep(b)
    PROVE  built \subseteq built' /\ taught \subseteq taught'
<1> USE DEF index, disk, neural, calls, jobs, bounds, OtherCalls, NoFault, Fault, At, Goto
<1>1. CASE Build(b)
  BY <1>1 DEF Build
<1>2. CASE Teach(b)
  BY <1>2 DEF Teach
<1>3. CASE Create(b) \/ Retry(b) \/ WriteDocument(b) \/
           EnsurePlan(b) \/ ClaimNext(b) \/ FoundationReady(b) \/
           ResetPlan(b) \/ Reopen(b) \/ RecoverAll(b) \/ Requeue(b) \/
           Run(b) \/ NextTask(b) \/ MarkRunning(b) \/ Select(b) \/
           Launch(b) \/ Finished(b) \/ CompleteTask(b) \/
           FailTask(b) \/ ReleaseTask(b) \/ Check(b) \/ Commit(b) \/
           Tidy(b) \/ ReadFailure(b) \/ FailPlan(b) \/
           ReleaseAll(b) \/ FailDocument(b)
  <2>1. UNCHANGED <<built, taught>>
    BY <1>3 DEF Create, Retry, WriteDocument, EnsurePlan, NewPlan, ClaimNext, Persisted,
         Rejected, Claimable, Claimed, FoundationReady, PlanStep, PlanUpdate, ResetPlan,
         RetriedPhase, Reopen, RecoverAll, Requeue, Run, NextTask, MarkRunning, WithTask,
         Select, Launch, Attached, Finished, CompleteTask, FailTask, ReleaseTask, Release,
         Released, Releasable, Check, Commit, Tidy, Deleted, Unclaimed, ReadFailure, FailPlan,
         ReleaseAll, FailDocument, NoFailure
  <2> QED BY <2>1
<1> QED BY <1>1, <1>2, <1>3 DEF Request, CallStep

\* The parts of the invariant about the index follow from the edit.
LEMMA EditedIndexes ==
    ASSUME IndexesTyped, IndexesSound, NEW gone, Edited(gone),
           \A b \in Brains : learned[b] \subseteq learned'[b]
    PROVE  IndexesTyped' /\ IndexesSound'
<1>1. IndexTyped(selection') /\ IndexTyped(savedSelection')
  BY DEF IndexesTyped, Edited, Edit
<1>2. IndexSound(selection') /\ IndexSound(savedSelection')
  BY DEF IndexesSound, Edited, Edit
<1>3. IndexSound(selection)' /\ IndexSound(savedSelection)'
  BY <1>2 DEF IndexSound
<1> QED BY <1>1, <1>3 DEF IndexesTyped, IndexesSound, IndexTyped

LEMMA HoldsLater ==
    ASSUME NEW gone, Edited(gone), NEW b \in Brains, NEW s \in Selections, Holds(b, s)
    PROVE  Holds(b, s)'
BY DEF Edited, Edit, Holds

\* A call keeps the invariant ...
LEMMA CallKeeps ==
    ASSUME BuildInv, NEW b \in Brains, Request(b) \/ CallStep(b)
    PROVE  BuildInv'
<1>1. Alone(b)
  BY CallIsAlone
<1>2. PICK gone \in SUBSET Selections : Edited(gone)
  BY CallEdits
<1>3. PlansTyped' /\ PlansTrue'
  BY <1>1, PlanLocal DEF BuildInv, Alone, PlansTyped, PlansTrue, PlanTrue
<1>4. CallsTyped'
  <2>1. ASSUME NEW c \in Brains \ {b} PROVE CallTyped(c)'
    BY <1>1, <2>1 DEF BuildInv, Alone, CallsTyped, CallTyped, At, Task
  <2> QED BY <1>1, <2>1, CallLocal DEF BuildInv, Alone, CallsTyped
<1>5. NeuralTyped'
  BY CallNeural
<1>6. CallsTrue' /\ ReadyMeansLearned'
  <2>1. ASSUME NEW c \in Brains \ {b}
        PROVE  c \in built /\ c \in taught => c \in built' /\ c \in taught'
    BY <2>1, CallNeuralGrows
  <2>2. ASSUME NEW c \in Brains \ {b} PROVE CallTrue(c)'
    BY <1>1, <2>1, <2>2 DEF BuildInv, Alone, CallsTrue, CallTrue, At, Task
  <2>3. ReadyMeansLearned'
    BY <1>1, <2>1, CallReady DEF BuildInv, Alone, ReadyMeansLearned
  <2> QED BY <2>2, <2>3, CallTruth DEF CallsTrue
<1>7. IndexesTyped' /\ IndexesSound'
  BY <1>1, <1>2, EditedIndexes DEF BuildInv, Alone
<1>8. JobsTyped' /\ JobsTrue'
  <2>1. ASSUME NEW c \in Brains \ {b} PROVE AwaitedTyped(c)' /\ JobTrue(job[c], c)'
    BY <1>1, <2>1 DEF BuildInv, Alone, JobsTyped, AwaitedTyped, JobsTrue, JobTrue, At, Task
  <2>2. \A r \in orphans' : JobTrue(r.job, r.brain)'
    BY <1>1, CallJobs DEF BuildInv, Alone, JobsTrue, JobTrue
  <2>3. \A r \in orphans' : /\ r.brain \in Brains /\ JobTyped(r.job, r.brain)
                            /\ r = [brain |-> r.brain, job |-> r.job]
    BY CallJobs DEF BuildInv, JobsTyped
  <2> QED BY <1>1, <2>1, <2>2, <2>3, CallJobs DEF Alone, JobsTyped, JobsTrue
<1>9. WorkersHold'
  <2>1. ASSUME NEW c \in Brains, NEW s \in Selections, Works(c, s)' PROVE Holds(c, s)'
    BY <1>2, <2>1, CallWorks, HoldsLater DEF BuildInv, WorkersHold
  <2>2. ASSUME NEW c \in Brains, Launching(c)' PROVE Holds(c, Task(c))'
    <3>1. CASE c = b
      BY <2>2, <3>1, CallLaunches DEF Holds
    <3>2. CASE c # b
      <4>1. Launching(c) /\ Task(c)' = Task(c)
        BY <1>1, <2>2, <3>2 DEF Alone, Launching, Task
      <4>2. Task(c) \in Selections /\ Holds(c, Task(c))
        BY <4>1 DEF BuildInv, CallsTyped, CallTyped, WorkersHold, Launching
      <4>3. \A s \in Selections : Holds(c, s) => Holds(c, s)'
        BY <1>2, HoldsLater
      <4> QED BY <4>1, <4>2, <4>3 DEF Holds
    <3> QED BY <3>1, <3>2
  <2> QED BY <2>1, <2>2 DEF WorkersHold
<1>10. Journalled'
  BY CallRecords, Journals DEF BuildInv
<1> QED BY <1>3, <1>4, <1>5, <1>6, <1>7, <1>8, <1>9, <1>10 DEF BuildInv

\* ... and so does a job.
LEMMA JobKeeps ==
    ASSUME BuildInv, NEW r \in Running, JobMoves(r)
    PROVE  BuildInv'
<1>1. /\ UNCHANGED <<doc, built, resident, taught, call, pc, cursor, failure, recovery>>
      /\ NeuralTyped' /\ \A b \in Brains : learned[b] \subseteq learned'[b]
  BY JobFrame
<1>2. Edited({})
  BY JobEdits
<1>3. PlansTyped' /\ PlansTrue'
  BY JobPlans
<1>4. CallsTyped'
  BY <1>1 DEF BuildInv, CallsTyped, CallTyped, At, Task
<1>5. CallsTrue' /\ ReadyMeansLearned'
  <2>1. \A b \in Brains : learned[b] = Tasks(b) => learned'[b] = Tasks(b)
    BY <1>1 DEF NeuralTyped
  <2>2. CallsTrue'
    BY <1>1, <2>1 DEF BuildInv, CallsTrue, CallTrue, At, Task
  <2>3. ReadyMeansLearned'
    BY <1>1, <2>1 DEF BuildInv, ReadyMeansLearned
  <2> QED BY <2>2, <2>3
<1>6. IndexesTyped' /\ IndexesSound'
  BY <1>1, <1>2, EditedIndexes DEF BuildInv
<1>7. JobsTyped' /\ JobsTrue'
  BY JobJobs
<1>8. WorkersHold'
  <2>1. ASSUME NEW c \in Brains, NEW s \in Selections, Works(c, s)' PROVE Holds(c, s)'
    BY <1>2, <2>1, JobJobs, HoldsLater DEF BuildInv, WorkersHold
  <2>2. ASSUME NEW c \in Brains, Launching(c)' PROVE Holds(c, Task(c))'
    <3>1. Launching(c) /\ Task(c)' = Task(c)
      BY <1>1, <2>2 DEF Launching, Task
    <3>2. Task(c) \in Selections /\ Holds(c, Task(c))
      BY <3>1 DEF BuildInv, CallsTyped, CallTyped, WorkersHold, Launching
    <3>3. \A s \in Selections : Holds(c, s) => Holds(c, s)'
      BY <1>2, HoldsLater
    <3> QED BY <3>1, <3>2, <3>3 DEF Holds
  <2> QED BY <2>1, <2>2 DEF WorkersHold
<1>9. Journalled'
  BY JobRecords, Journals DEF BuildInv
<1> QED BY <1>1, <1>3, <1>4, <1>5, <1>6, <1>7, <1>8, <1>9 DEF BuildInv

\* A restart forgets the calls, the jobs and what was not written.
LEMMA RestartKeeps ==
    ASSUME BuildInv, AppRestarts
    PROVE  BuildInv'
<1> USE DEF AppRestarts, BuildInv
<1>1. PlansTyped' /\ PlansTrue' /\ NeuralTyped' /\ ReadyMeansLearned'
  BY DEF PlansTyped, PlansTrue, PlanTrue, NeuralTyped, ReadyMeansLearned
<1>2. CallsTyped'
  <2>1. ASSUME NEW b \in Brains PROVE CallTyped(b)'
    <3>1. PICK n \in Nat : n = Len(Resources[b])
      BY ResourcesAssumption
    <3>2. 1 \in 1 .. Len(Resources[b]) + 1
      BY <3>1
    <3>3. /\ doc'[b] = doc[b] /\ pc'[b] = "idle" /\ call'[b] = "none" /\ cursor'[b] = 1
          /\ failure'[b].phase = "none" /\ (b \in recovery' => doc[b] = "initializing")
      BY DEF NoFailure
    <3> QED BY <3>2, <3>3 DEF CallsTyped, CallTyped, CallKinds, TaskSteps, At
  <2> QED BY <2>1 DEF CallsTyped
<1>3. CallsTrue'
  BY DEF CallsTrue, CallTrue, At
<1>4. IndexesTyped' /\ IndexesSound'
  BY DEF IndexesTyped, IndexTyped, IndexesSound, IndexSound
<1>5. JobsTyped' /\ JobsTrue'
  BY DEF JobsTyped, AwaitedTyped, JobsTrue, JobTrue, NoJob
<1>6. WorkersHold'
  BY DEF WorkersHold, Works, Launching, NoJob
<1>7. Journalled'
  <2>1. faults' \in Nat
    BY DEF Journalled, Fault
  <2>2. broken' = FALSE /\ selection' = savedSelection'
    OBVIOUS
  <2> QED BY <2>1, <2>2 DEF Journalled
<1> QED BY <1>1, <1>2, <1>3, <1>4, <1>5, <1>6, <1>7

\* The worker holds no brain any more.
LEMMA RestKeeps ==
    ASSUME BuildInv, WorkerExits \/ UNCHANGED buildVars
    PROVE  BuildInv'
<1>1. /\ UNCHANGED <<disk, built, learned, taught, calls, jobs, recovery>>
      /\ resident' \subseteq Brains /\ (UNCHANGED faults \/ Fault)
  BY DEF BuildInv, NeuralTyped, WorkerExits, buildVars, neural, bounds
<1> USE <1>1 DEF BuildInv, disk, index, calls, jobs
<1>2. PlansTyped' /\ PlansTrue' /\ NeuralTyped' /\ ReadyMeansLearned'
  BY DEF PlansTyped, PlansTrue, PlanTrue, NeuralTyped, ReadyMeansLearned
<1>3. CallsTyped' /\ CallsTrue'
  BY DEF CallsTyped, CallTyped, CallsTrue, CallTrue, At, Task
<1>4. IndexesTyped' /\ IndexesSound'
  BY DEF IndexesTyped, IndexTyped, IndexesSound, IndexSound
<1>5. JobsTyped' /\ JobsTrue'
  BY DEF JobsTyped, AwaitedTyped, JobsTrue, JobTrue, At, Task
<1>6. WorkersHold'
  BY DEF WorkersHold, Works, Launching, Holds, Task
<1>7. Journalled'
  BY Journals DEF Recorded, Fault
<1> QED BY <1>2, <1>3, <1>4, <1>5, <1>6, <1>7

\* Together.
LEMMA BuildSteps ==
    ASSUME BuildInv, [BuildsNext]_buildVars
    PROVE  BuildInv'
<1>1. ASSUME NEW b \in Brains, JobStep(b) PROVE BuildInv'
  <2>1. PICK r \in Running : JobMoves(r)
    BY <1>1 DEF JobStep, JobMoves
  <2> QED BY <2>1, JobKeeps
<1> QED BY <1>1, CallKeeps, RestartKeeps, RestKeeps DEF BuildsNext

LEMMA BuildInit ==
    ASSUME BuildsInit
    PROVE  BuildInv /\ Exclusive
<1> USE DEF BuildsInit
<1>1. PlansTyped /\ PlansTrue /\ NeuralTyped /\ ReadyMeansLearned
  BY DEF PlansTyped, PlanTyped, PlansTrue, PlanTrue, NeuralTyped, ReadyMeansLearned
<1>2. CallsTyped
  <2>1. ASSUME NEW b \in Brains PROVE CallTyped(b)
    <3>1. PICK n \in Nat : n = Len(Resources[b])
      BY ResourcesAssumption
    <3>2. 1 \in 1 .. Len(Resources[b]) + 1
      BY <3>1
    <3> QED BY <3>2 DEF CallTyped, CallKinds, DocStates, TaskSteps, At, NoFailure
  <2> QED BY <2>1 DEF CallsTyped, DocStates
<1>3. CallsTrue
  BY DEF CallsTrue, CallTrue, At
<1>4. IndexesTyped /\ IndexesSound
  BY DEF IndexesTyped, IndexTyped, IndexesSound, IndexSound, Unclaimed, States
<1>5. JobsTyped /\ JobsTrue
  BY DEF JobsTyped, AwaitedTyped, JobsTrue, JobTrue, NoJob
<1>6. WorkersHold
  BY DEF WorkersHold, Works, Launching, NoJob
<1>7. Journalled
  BY DEF Journalled
<1>8. Exclusive
  BY DEF Exclusive, LearnersHold, LaunchersOwn, DeletedIsLearned, SelectionLearnedOnce,
       Launching, Unclaimed
<1> QED BY <1>1, <1>2, <1>3, <1>4, <1>5, <1>6, <1>7, <1>8 DEF BuildInv

\* Failures are counted up, and a restart is one.
LEMMA FaultsGrow ==
    ASSUME BuildInv, [BuildsNext]_buildVars
    PROVE  faults' >= faults /\ (AppRestarts => faults' = faults + 1)
<1>1. faults \in Nat /\ \A f : f \in {faults, faults + 1} => f >= faults
  BY DEF BuildInv, Journalled
<1>2. Recorded => faults' \in {faults, faults + 1}
  BY DEF Recorded, index
<1>3. ASSUME NEW b \in Brains, JobStep(b) PROVE Recorded
  <2>1. PICK r \in Running : JobMoves(r)
    BY <1>3 DEF JobStep, JobMoves
  <2> QED BY <2>1, JobRecords
<1>4. ASSUME NEW b \in Brains, Request(b) \/ CallStep(b) PROVE Recorded
  BY <1>4, CallRecords
<1>5. WorkerExits \/ AppRestarts \/ UNCHANGED buildVars => faults' \in {faults, faults + 1}
  BY DEF WorkerExits, AppRestarts, buildVars, bounds, Fault
<1>6. AppRestarts => faults' = faults + 1
  BY DEF AppRestarts, Fault
<1> QED BY <1>1, <1>2, <1>3, <1>4, <1>5, <1>6 DEF BuildsNext

\* The exclusive part: only a restart that loses a rejected write breaks it.
LEMMA CallExclusive ==
    ASSUME BuildInv, Exclusive, NEW b \in Brains, Request(b) \/ CallStep(b)
    PROVE  Exclusive'
<1>1. Alone(b)
  BY CallIsAlone
<1>2. PICK gone \in SUBSET Selections :
         Edited(gone) /\ (gone # {} => At(b, "tidy") /\ gone \subseteq Datasets(b))
  BY CallEdits
<1>3. learned' = learned
  BY <1>1 DEF Alone
<1>4. LearnersHold'
  BY <1>2, <1>3, HoldsLater DEF Exclusive, LearnersHold
\* What the end of a Build deletes, its brain has learned.
<1>5. ASSUME NEW s \in gone PROVE ~Launching(b) /\ s \in learned[b] /\ Holds(b, s)
  <2>1. At(b, "tidy") /\ s \in Tasks(b) /\ s \in Selections
    BY <1>2, <1>5 DEF Datasets
  <2>2. s \in learned[b]
    BY <2>1 DEF BuildInv, CallsTrue, CallTrue, At
  <2> QED BY <2>1, <2>2 DEF Exclusive, LearnersHold, Launching, At
<1>6. ASSUME NEW c \in Brains, NEW s \in Selections, selection[s].owner = c
      PROVE  selection[s].state # "deleted"
  BY ResourcesAssumption, <1>6 DEF BuildInv, IndexesSound, IndexSound
<1>7. LaunchersOwn'
  <2>1. SUFFICES ASSUME NEW c \in Brains, Launching(c)' PROVE selection'[Task(c)'].owner = c
    BY DEF LaunchersOwn
  <2>2. CASE c = b
    BY <2>1, <2>2, CallLaunches
  <2>3. CASE c # b
    <3>1. Launching(c) /\ Task(c)' = Task(c)
      BY <1>1, <2>1, <2>3 DEF Alone, Launching, Task
    <3>2. Task(c) \in Selections /\ selection[Task(c)].owner = c
      BY <3>1 DEF BuildInv, CallsTyped, CallTyped, Exclusive, LaunchersOwn, Launching
    <3>3. Task(c) \notin gone
      BY <1>5, <1>6, <2>3, <3>2 DEF Holds
    <3> QED BY <1>2, <3>1, <3>2, <3>3 DEF Edited, Edit
  <2> QED BY <2>2, <2>3
<1>8. DeletedIsLearned'
  <2>1. SUFFICES ASSUME NEW c \in Brains, NEW s \in Selections, Works(c, s)', selection'[s].state = "deleted"
                 PROVE  s \in learned[c]
    BY <1>3 DEF DeletedIsLearned
  <2>2. Works(c, s) \/ (c = b /\ Launching(b) /\ s = Task(b))
    BY <2>1, CallWorks
  <2>3. selection[s].state = "deleted" \/ s \in gone
    BY <1>2, <2>1 DEF Edited, Edit
  <2>4. CASE Works(c, s)
    <3>1. Holds(c, s)
      BY <2>4 DEF BuildInv, WorkersHold
    <3> QED BY <1>5, <2>3, <2>4, <3>1 DEF Holds, Exclusive, DeletedIsLearned
  <2>5. CASE c = b /\ Launching(b) /\ s = Task(b)
    BY <1>5, <1>6, <2>3, <2>5 DEF Exclusive, LaunchersOwn
  <2> QED BY <2>2, <2>4, <2>5
<1>9. SelectionLearnedOnce'
  BY <1>3 DEF Exclusive, SelectionLearnedOnce
<1> QED BY <1>4, <1>7, <1>8, <1>9 DEF Exclusive

\* A job that learns a selection owned it when it was started, so nobody else has
\* learned it.
LEMMA JobExclusive ==
    ASSUME BuildInv, Exclusive, NEW r \in Running, JobMoves(r)
    PROVE  Exclusive'
<1>1. /\ UNCHANGED <<pc, cursor>> /\ \A b \in Brains : learned[b] \subseteq learned'[b]
      /\ \A b \in Brains : \A s \in learned'[b] : s \in learned[b] \/ (b = r.brain /\ s = r.job.task)
  BY JobFrame
<1>2. Edited({})
  BY JobEdits
<1>3. \A b \in Brains : \A s \in Selections : Works(b, s)' => Works(b, s)
  BY JobJobs
<1>4. r.brain \in Brains /\ Works(r.brain, r.job.task)
  <2>1. r.job.stage # "none"
    BY DEF JobMoves, Scan, CommitManifest, NoteManifest, Learn, Report, Tick, IsAt
  <2> QED BY <2>1, RunningIs DEF BuildInv
<1>5. r.job.task \in Selections => Holds(r.brain, r.job.task)
  BY <1>4 DEF BuildInv, WorkersHold
<1>6. LearnersHold'
  <2>1. ASSUME NEW b \in Brains, NEW s \in learned'[b] \cap Selections PROVE Holds(b, s)
    BY <1>1, <1>5 DEF Exclusive, LearnersHold
  <2> QED BY <1>2, <2>1, HoldsLater DEF LearnersHold
<1>7. LaunchersOwn'
  <2>1. \A b \in Brains : Launching(b)' => Launching(b) /\ Task(b)' = Task(b) /\ Task(b) \in Selections
    BY <1>1 DEF BuildInv, CallsTyped, CallTyped, Launching, Task
  <2> QED BY <1>2, <2>1 DEF Exclusive, LaunchersOwn, Edited, Edit
<1>8. DeletedIsLearned'
  BY <1>1, <1>2, <1>3 DEF Exclusive, DeletedIsLearned, Edited, Edit
<1>9. SelectionLearnedOnce'
  <2>1. SUFFICES ASSUME NEW b \in Brains, NEW o \in Brains, b # o, NEW s \in Selections,
                        s \in learned'[b], s \in learned'[o]
                 PROVE  FALSE
    BY DEF SelectionLearnedOnce
  <2>2. ASSUME NEW c \in Brains, s \in learned'[c]
        PROVE  Holds(c, s) /\ (selection[s].state = "deleted" => s \in learned[c])
    BY <1>1, <1>4, <1>5, <2>2 DEF Exclusive, LearnersHold, DeletedIsLearned
  <2>3. CASE selection[s].state = "deleted"
    BY <2>1, <2>2, <2>3 DEF Exclusive, SelectionLearnedOnce
  <2>4. CASE selection[s].state # "deleted"
    BY <2>1, <2>2, <2>4 DEF Holds
  <2> QED BY <2>3, <2>4
<1> QED BY <1>6, <1>7, <1>8, <1>9 DEF Exclusive

\* Only a restart while a write of the index is lost can break it.
LEMMA ExclusiveSteps ==
    ASSUME BuildInv, Exclusive, [BuildsNext]_buildVars, AppRestarts => ~broken
    PROVE  Exclusive'
<1> USE DEF Exclusive, LearnersHold, LaunchersOwn, DeletedIsLearned, SelectionLearnedOnce
<1>1. ASSUME NEW b \in Brains, JobStep(b) PROVE Exclusive'
  <2>1. PICK r \in Running : JobMoves(r)
    BY <1>1 DEF JobStep, JobMoves
  <2> HIDE DEF Exclusive
  <2> QED BY <2>1, JobExclusive
<1>2. ASSUME NEW b \in Brains, Request(b) \/ CallStep(b) PROVE Exclusive'
  <2> HIDE DEF Exclusive
  <2> QED BY <1>2, CallExclusive
<1>3. CASE AppRestarts
  <2>1. UNCHANGED <<selection, learned>>
    BY <1>3 DEF AppRestarts, BuildInv, Journalled
  <2>2. \A b \in Brains : ~Launching(b)' /\ \A s : ~Works(b, s)'
    BY <1>3 DEF AppRestarts, Launching, Works, NoJob
  <2> QED BY <2>1, <2>2 DEF Holds
<1>4. CASE WorkerExits \/ UNCHANGED buildVars
  <2>1. UNCHANGED <<selection, learned, pc, cursor, job, orphans>>
    BY <1>4 DEF WorkerExits, buildVars, disk, index, neural, calls, jobs
  <2> QED BY <2>1 DEF Holds, Launching, Works, Task
<1> QED BY <1>1, <1>2, <1>3, <1>4 DEF BuildsNext

\* For any brains and resources, any failed writes, requests and jobs, and any
\* restarts: the plans, the index, the calls and the jobs agree with what the
\* brains have learned.
THEOREM BuildInvariant == BuildsSpec => []BuildInv
<1>1. BuildsInit => BuildInv
  BY BuildInit
<1>2. BuildInv /\ [BuildsNext]_buildVars => BuildInv'
  BY BuildSteps
<1> QED BY <1>1, <1>2, PTL DEF BuildsSpec

\* The types of the documents, the plans, the index and the calls
\* (BuildInitializationPlanStore, BuildResourceSelectionStore).
THEOREM BuildTyping == BuildsSpec => []BuildsTypeOK
<1>1. ASSUME BuildInv PROVE BuildsTypeOK
  <2>1. ASSUME NEW b \in Brains
        PROVE  /\ plan[b].failure \in {"none", "foundation", "learning"}
               /\ plan[b] # NoPlan => plan[b].task \in [Tasks(b) -> PlanStates]
    <3>1. CASE plan[b] = NoPlan
      BY <3>1 DEF NoPlan
    <3>2. CASE plan[b] # NoPlan
      BY <1>1, <3>2 DEF BuildInv, PlansTyped, PlanTyped
    <3> QED BY <3>1, <3>2
  <2>2. \A b \in Brains : plan[b].phase \in {"none", "foundation", "learning", "failed"}
    BY <1>1, PlanPhase DEF BuildInv
  <2>3. doc \in [Brains -> DocStates] /\ recovery \subseteq Brains
        /\ \A b \in Brains : /\ cursor[b] \in 1 .. Len(Resources[b]) + 1
                             /\ (call[b] = "none") <=> At(b, "idle")
    BY <1>1 DEF BuildInv, CallsTyped, CallTyped
  <2>4. /\ \A b \in Brains : learned[b] \subseteq Tasks(b)
        /\ built \cup resident \cup taught \subseteq Brains
    BY <1>1 DEF BuildInv, NeuralTyped
  <2>5. selection \in [Selections -> [state : States, owner : Brains \cup {NoBrain}, manifest : BOOLEAN]]
    BY <1>1 DEF BuildInv, IndexesTyped, IndexTyped
  <2>6. \A b \in Brains :
           /\ plan[b].phase \in {"none", "foundation", "learning", "failed"}
           /\ plan[b].failure \in {"none", "foundation", "learning"}
           /\ plan[b] # NoPlan => plan[b].task \in [Tasks(b) -> PlanStates]
           /\ learned[b] \subseteq Tasks(b) /\ cursor[b] \in 1 .. Len(Resources[b]) + 1
           /\ (call[b] = "none") <=> At(b, "idle")
    BY <2>1, <2>2, <2>3, <2>4
  <2>7. doc \in [Brains -> {"absent", "initializing", "failed", "ready"}]
    BY <2>3 DEF DocStates
  <2>8. selection \in [Selections -> [state : {"selected", "preparing", "training", "retryable",
                         "complete", "deleted"}, owner : Brains \cup {NoBrain}, manifest : BOOLEAN]]
    BY <2>5 DEF States
  <2> QED BY <2>3, <2>4, <2>6, <2>7, <2>8 DEF BuildsTypeOK
<1> QED BY <1>1, BuildInvariant, PTL

\* BuildInitializationCoordinator.complete: a brain is unlocked only behind its
\* core, all of its learning and the declared packs, whatever fails on the way.
THEOREM ReadyMeansLearnedHolds == BuildsSpec => []ReadyMeansLearned
<1>1. BuildInv => ReadyMeansLearned
  BY DEF BuildInv
<1> QED BY <1>1, BuildInvariant, PTL

\* BuildResourceSelectionStore.claim: no single failed write, failed request,
\* worker exit or restart lets a selection train two brains.
THEOREM OneFailureTrainsOnceHolds == BuildsSpec => []OneFailureTrainsOnce
<1> DEFINE Inv == BuildInv /\ (faults < 2 => Exclusive)
<1>1. BuildsInit => Inv
  BY BuildInit
<1>2. ASSUME Inv, [BuildsNext]_buildVars PROVE Inv'
  <2>1. BuildInv'
    BY <1>2, BuildSteps
  <2>2. faults' >= faults /\ (AppRestarts => faults' = faults + 1)
    BY <1>2, FaultsGrow
  <2>3. ASSUME faults' < 2 PROVE Exclusive'
    <3>1. faults \in Nat /\ faults' \in Nat
      BY <1>2, <2>1 DEF BuildInv, Journalled
    <3>2. faults < 2 /\ (AppRestarts => faults = 0)
      BY <2>2, <2>3, <3>1
    <3>3. AppRestarts => ~broken
      BY <1>2, <3>1, <3>2 DEF BuildInv, Journalled
    <3> QED BY <1>2, <3>2, <3>3, ExclusiveSteps
  <2> QED BY <2>1, <2>3
<1>3. Inv => OneFailureTrainsOnce
  BY DEF OneFailureTrainsOnce, Exclusive
<1> QED BY <1>1, <1>2, <1>3, PTL DEF BuildsSpec

\* And none of them, however many, does as long as no write of the index itself is
\* rejected (BuildResourceSelectionStore.persist).
THEOREM IntactIndexTrainsOnceHolds == BuildsSpec => IntactIndexTrainsOnce
<1>1. BuildsInit => Exclusive
  BY BuildInit
<1>2. BuildInv /\ Exclusive /\ ~broken /\ [BuildsNext]_buildVars => Exclusive'
  BY ExclusiveSteps
<1>3. Exclusive => SelectionLearnedOnce
  BY DEF Exclusive
<1>4. BuildsInit => BuildInv
  BY BuildInit
<1>5. BuildInv /\ [BuildsNext]_buildVars => BuildInv'
  BY BuildSteps
<1> QED BY <1>1, <1>2, <1>3, <1>4, <1>5, PTL DEF BuildsSpec, IntactIndexTrainsOnce
=============================================================================
