------------------------------ MODULE ActiveMode ------------------------------
(***************************************************************************)
(* Which brain may think by itself, and when.  The owner of Active Mode is *)
(* a flag in each brain's document; BrainRepository.setActiveMode moves it *)
(* under the write locks of the brains it has listed, a Build creates its  *)
(* document with the flag set, reconcileActiveModeLease collapses what a   *)
(* crash left.  A Build, and one that is taken up again, saves a document  *)
(* it read minutes before, without a lock.  IdleCognitionScheduler reads    *)
(* the documents at each tick, admits at most one cycle, for the newest     *)
(* owner, and runs it through BrainService.idleCycle, which takes the       *)
(* brain's write lock, asks the shared worker and saves the document.       *)
(*                                                                         *)
(* A write lock is held from one step to a later one; waiting in line is   *)
(* BrainWriteCoordinator's, so a section starts here when every lock it    *)
(* wants is free.  Moments are kept as the time left until them, so that   *)
(* time never runs out.  The status shown to the user is left out.         *)
(***************************************************************************)
EXTENDS Integers, Sequences, FiniteSets, SequencesExt

CONSTANTS
  Saved,         \* brains on disk at the start
  Fresh,         \* brains a Build creates
  Switches,      \* Active Mode switches of the user
  Boot,          \* reconcileActiveModeLease, run once by each start
  None,
  Cooldown,      \* quiet time after a cancel
  Rest,          \* quiet time after a cycle, and between two ticks
  Settle,        \* quiet time after learning
  MaxBackoff,    \* the longest backoff after failures
  MaxMishaps     \* bounds the model: cancels, crashes, deletions, failures, Builds taken up again

Doc == [active : BOOLEAN, ready : BOOLEAN]
Brains == Saved \cup Fresh
Callers == Switches \cup Fresh \cup {Boot}

ASSUME ActiveModeAssumption ==
  /\ IsFiniteSet(Brains) /\ Saved \cap Fresh = {}
  /\ Switches \cap Brains = {} /\ Boot \notin Switches \cup Brains
  /\ None \notin Callers \cup Brains \cup {"cycle"} \cup Doc /\ "cycle" \notin Callers
  /\ {Cooldown, Rest, Settle, MaxBackoff} \subseteq Nat \ {0}
  /\ MaxMishaps \in Nat

VARIABLES
  doc,      \* each brain's document: its flag and whether it is ready
  newest,   \* the brains on disk, latest saved first
  writer,   \* who holds each brain's write lock
  app,      \* "booting", "up", or "dead" after a failed start
  call,     \* the setActiveMode calls
  build,    \* each brain's Build, with the copy of the document it holds
  tick,     \* the scheduler's tick
  quiet,    \* nextEligibleAt of each brain, as time left
  backoff,  \* failureBackoffUntil, as time left
  \* the model's own record
  due,      \* time left of a cancel's quiet window
  written,  \* brains whose document a Build has written since the last start
  mishaps

disk == <<doc, newest>>
timers == <<quiet, backoff, due>>
vars == <<disk, writer, app, call, build, tick, timers, written, mishaps>>

Exists(b) == doc[b] # None
Owners == {b \in Brains : Exists(b) /\ doc[b].active}
NoCall == [pc |-> "none", target |-> None, enabled |-> FALSE, ids |-> {}, left |-> {}, active |-> FALSE]
NoBuild == [pc |-> "none", copy |-> FALSE]
EndedBuild == [NoBuild EXCEPT !.pc = "over"]
NoTick == [pc |-> "idle", brain |-> None, ids |-> <<>>, seen |-> <<>>, copy |-> FALSE, preempted |-> FALSE]
Larger(x, y) == IF x >= y THEN x ELSE y

Init ==
  /\ doc \in {d \in [Brains -> Doc \cup {None}] :
                /\ \A b \in Saved : d[b] # None
                /\ \A b \in Fresh : d[b] = None}
  /\ newest \in SetToSeqs(Saved)
  /\ writer = [b \in Brains |-> None]
  /\ app = "booting"
  /\ call = [c \in Callers |-> NoCall]
  /\ build = [b \in Brains |-> IF b \in Saved THEN EndedBuild ELSE NoBuild]
  /\ tick = NoTick
  /\ quiet = [b \in Brains |-> 0] /\ backoff = 0
  /\ due = [b \in Brains |-> 0]
  /\ written = {}
  /\ mishaps = 0

-----------------------------------------------------------------------------
(* Documents.                                                              *)

Free(S) == \A b \in S : writer[b] = None
Release(who) == writer' = [b \in Brains |-> IF writer[b] = who THEN None ELSE writer[b]]
ToFront(b) == <<b>> \o RemoveFirst(newest, b)

(* save: the whole document is written from the caller's copy, and becomes  *)
(* the newest.                                                              *)
Save(b, document) ==
  /\ doc' = [doc EXCEPT ![b] = document]
  /\ newest' = ToFront(b)

Mishap == mishaps < MaxMishaps /\ mishaps' = mishaps + 1

-----------------------------------------------------------------------------
(* setActiveMode.                                                          *)

(* Ask lists the brains; the locks are asked for next.                      *)
Ask(c, target, enabled) ==
  call' = [call EXCEPT ![c] = [pc |-> "locking", target |-> target, enabled |-> enabled,
                               ids |-> {target} \cup {b \in Brains : Exists(b)},
                               left |-> {}, active |-> FALSE]]

Settled(c, outcome) == call' = [call EXCEPT ![c] = [NoCall EXCEPT !.pc = outcome]]

(* With every lock held the documents are read.  One that is gone fails the *)
(* call, whichever brain it was.                                            *)
EnterSection(c) ==
  /\ call[c].pc = "locking" /\ Free(call[c].ids)
  /\ IF \A b \in call[c].ids : Exists(b)
     THEN /\ writer' = [b \in Brains |-> IF b \in call[c].ids THEN c ELSE writer[b]]
          /\ call' = [call EXCEPT ![c].pc = "section", ![c].active = doc[call[c].target].active,
                ![c].left = IF call[c].enabled THEN (Owners \cap call[c].ids) \ {call[c].target} ELSE {}]
     ELSE Settled(c, "failed") /\ UNCHANGED writer
  /\ UNCHANGED <<disk, app, build, tick, timers, written, mishaps>>

(* Every prior owner is disabled before the target is enabled.              *)
DisablePrior(c) ==
  /\ call[c].pc = "section"
  /\ \E b \in call[c].left :
       /\ Save(b, [doc[b] EXCEPT !.active = FALSE])
       /\ call' = [call EXCEPT ![c].left = @ \ {b}]
  /\ UNCHANGED <<writer, app, build, tick, timers, written, mishaps>>

(* Variant for mutation: the target is enabled before the prior owners are  *)
(* disabled.                                                                *)
EnableTargetFirst(c) ==
  LET t == call[c].target IN
  /\ call[c].pc = "section" /\ call[c].active # call[c].enabled
  /\ Save(t, [doc[t] EXCEPT !.active = call[c].enabled])
  /\ call' = [call EXCEPT ![c].active = call[c].enabled]
  /\ UNCHANGED <<writer, app, build, tick, timers, written, mishaps>>

(* The target is saved when the flag read differs; the locks are released.  *)
EnableTarget(c) ==
  LET t == call[c].target IN
  /\ call[c].pc = "section" /\ call[c].left = {}
  /\ IF call[c].active # call[c].enabled
     THEN Save(t, [doc[t] EXCEPT !.active = call[c].enabled])
     ELSE UNCHANGED disk
  /\ Settled(c, "done") /\ Release(c)
  /\ UNCHANGED <<app, build, tick, timers, written, mishaps>>

(* A save may fail: the disk is full, a read or a rename is refused.        *)
SectionFails(c) ==
  /\ call[c].pc = "section" /\ Mishap
  /\ Settled(c, "failed") /\ Release(c)
  /\ UNCHANGED <<disk, app, build, tick, timers, written>>

SetActiveMode(c) == EnterSection(c) \/ DisablePrior(c) \/ EnableTarget(c) \/ SectionFails(c)

-----------------------------------------------------------------------------
(* Start of the application.  Nothing else runs until the lease is settled. *)

First(order, S) == order[CHOOSE i \in DOMAIN order : order[i] \in S /\ \A j \in 1 .. i - 1 : order[j] \notin S]
Newest(S) == First(newest, S)

Reconcile ==
  /\ app = "booting" /\ call[Boot].pc = "none"
  /\ IF Cardinality(Owners) <= 1
     THEN app' = "up" /\ UNCHANGED call
     ELSE Ask(Boot, Newest(Owners), TRUE) /\ UNCHANGED app
  /\ UNCHANGED <<disk, writer, build, tick, timers, written, mishaps>>

Reconciled ==
  /\ app = "booting" /\ call[Boot].pc \in {"done", "failed"}
  /\ app' = IF call[Boot].pc = "done" THEN "up" ELSE "dead"
  /\ UNCHANGED <<disk, writer, call, build, tick, timers, written, mishaps>>

(* The process ends at any point and is started again: only the documents   *)
(* are left.                                                                *)
Restart ==
  /\ Mishap
  /\ app' = "booting"
  /\ writer' = [b \in Brains |-> None]
  /\ call' = [c \in Callers |-> IF call[c].pc # "none" /\ c # Boot THEN [NoCall EXCEPT !.pc = "failed"] ELSE NoCall]
  /\ build' = [b \in Brains |-> IF build[b].pc = "none" THEN NoBuild ELSE EndedBuild]
  /\ tick' = NoTick
  /\ quiet' = [b \in Brains |-> 0] /\ backoff' = 0
  /\ due' = [b \in Brains |-> 0]
  /\ written' = {}
  /\ UNCHANGED disk

-----------------------------------------------------------------------------
(* Builds and deletions.                                                   *)

InitializationBusy == \E b \in Brains : build[b].pc \in {"activating", "copied", "building", "resuming"}

(* BrainRepository.create writes the document with the flag already set,    *)
(* then asks for it.                                                        *)
Create(b) ==
  /\ app = "up" /\ build[b].pc = "none"
  /\ Save(b, [active |-> TRUE, ready |-> FALSE])
  /\ build' = [build EXCEPT ![b].pc = "activating"]
  /\ written' = written \cup {b}
  /\ UNCHANGED <<writer, app, call, tick, timers, mishaps>>

ActivateCreated(b) ==
  /\ build[b].pc = "activating" /\ call[b].pc = "none"
  /\ Ask(b, b, TRUE)
  /\ UNCHANGED <<disk, writer, app, build, tick, timers, written, mishaps>>

(* The Build goes on with the document the call returned, or, when it has   *)
(* permissions to set, with one read again.  A failed call ends the Build.  *)
Activated(b) ==
  /\ build[b].pc = "activating" /\ call[b].pc \in {"done", "failed"}
  /\ \E reread \in BOOLEAN :
       build' = [build EXCEPT ![b] =
         IF call[b].pc = "failed" \/ (reread /\ ~Exists(b)) THEN EndedBuild
         ELSE [pc |-> "copied", copy |-> IF reread THEN doc[b].active ELSE TRUE]]
  /\ UNCHANGED <<disk, writer, app, call, tick, timers, written, mishaps>>

(* The copy is saved with its journal, before the worker constructs the     *)
(* core and again after it, each time without the brain's lock.  A save     *)
(* makes the directory it writes to: one deleted meanwhile is back.         *)
SaveBuilt(b) ==
  /\ build[b].pc \in {"copied", "building"}
  /\ build' = [build EXCEPT ![b] = IF @.pc = "copied" THEN [@ EXCEPT !.pc = "building"] ELSE EndedBuild]
  /\ Save(b, [active |-> build[b].copy, ready |-> FALSE])
  /\ written' = written \cup {b}
  /\ UNCHANGED <<writer, app, call, tick, timers, mishaps>>

(* resumeFoundation: a Build that a restart or a failure interrupted is     *)
(* taken up again, by the start or by the user, and so is the foundation    *)
(* under the teaching that ends a Build.  The document is read first.       *)
Resume(b) ==
  /\ app = "up" /\ build[b].pc = "over" /\ Exists(b) /\ ~doc[b].ready
  /\ Mishap
  /\ build' = [build EXCEPT ![b] = [pc |-> "resuming", copy |-> doc[b].active]]
  /\ UNCHANGED <<disk, writer, app, call, tick, timers, written>>

(* Minutes later, after the worker answered, that copy is saved, again      *)
(* without the brain's lock.                                                *)
SaveResumed(b) ==
  /\ build[b].pc = "resuming"
  /\ build' = [build EXCEPT ![b] = EndedBuild]
  /\ Save(b, [active |-> build[b].copy, ready |-> FALSE])
  /\ written' = written \cup {b}
  /\ UNCHANGED <<writer, app, call, tick, timers, mishaps>>

(* The worker failed, or had nothing to report.                             *)
BuildEnds(b) ==
  /\ build[b].pc \in {"building", "resuming"}
  /\ build' = [build EXCEPT ![b] = EndedBuild]
  /\ UNCHANGED <<disk, writer, app, call, tick, timers, written, mishaps>>

(* Initial learning has unlocked the brain.                                 *)
BecomeReady(b) ==
  /\ app = "up" /\ build[b].pc = "over" /\ Exists(b) /\ ~doc[b].ready /\ Free({b})
  /\ Save(b, [doc[b] EXCEPT !.ready = TRUE])
  /\ UNCHANGED <<writer, app, call, build, tick, timers, written, mishaps>>

(* remove, permanentlyDeleteInstance: under the brain's lock.               *)
Delete(b) ==
  /\ app = "up" /\ Exists(b) /\ Free({b})
  /\ Mishap
  /\ doc' = [doc EXCEPT ![b] = None]
  /\ newest' = RemoveFirst(newest, b)
  /\ UNCHANGED <<writer, app, call, build, tick, timers, written>>

-----------------------------------------------------------------------------
(* Cancelling a cycle.                                                     *)

(* reserveForegroundAfterCancel.                                            *)
Reserve(b) ==
  /\ quiet' = [quiet EXCEPT ![b] = Larger(@, Cooldown)]
  /\ due' = [due EXCEPT ![b] = Cooldown]
  /\ UNCHANGED backoff

InFlight == tick.pc \in {"admitted", "worker", "acting"}

(* cancelActive: nothing to cancel until a brain was admitted.  The request *)
(* on the worker is preempted; the caller waits for it to settle.           *)
CancelActive ==
  IF InFlight
  THEN Reserve(tick.brain) /\ tick' = [tick EXCEPT !.preempted = (tick.pc = "worker")]
  ELSE UNCHANGED <<timers, tick>>

(* The switch of the renderer: cancelActive first when the flag will change.*)
Switch(c, target, enabled) ==
  /\ app = "up" /\ call[c].pc = "none" /\ Exists(target)
  /\ call' = [call EXCEPT ![c] = [NoCall EXCEPT !.pc = "cancelling", !.target = target, !.enabled = enabled]]
  /\ IF doc[target].active # enabled THEN CancelActive ELSE UNCHANGED <<timers, tick>>
  /\ UNCHANGED <<disk, writer, app, build, written, mishaps>>

SwitchAsks(c) ==
  /\ call[c].pc = "cancelling" /\ ~(tick.pc = "worker" /\ tick.preempted)
  /\ Ask(c, call[c].target, call[c].enabled)
  /\ UNCHANGED <<disk, writer, app, build, tick, timers, written, mishaps>>

(* The user cancels background cognition, or a chat of the brain.           *)
UserCancels ==
  /\ app = "up" /\ InFlight /\ CancelActive
  /\ Mishap
  /\ UNCHANGED <<disk, writer, app, call, build, written>>

ChatCancelled(b) ==
  /\ app = "up" /\ Exists(b) /\ Reserve(b)
  /\ Mishap
  /\ UNCHANGED <<disk, writer, app, call, build, tick, written>>

-----------------------------------------------------------------------------
(* The scheduler's tick.                                                   *)

(* tick: a tick under way, a backoff or an initialization make it return.   *)
Begin ==
  /\ app = "up" /\ tick.pc = "idle" /\ backoff = 0 /\ ~InitializationBusy
  /\ tick' = [NoTick EXCEPT !.pc = "listing"]
  /\ UNCHANGED <<disk, writer, app, call, build, timers, written, mishaps>>

List ==
  /\ tick.pc = "listing"
  /\ tick' = IF newest = <<>> THEN NoTick
             ELSE [tick EXCEPT !.pc = "reading", !.ids = newest]
  /\ UNCHANGED <<disk, writer, app, call, build, timers, written, mishaps>>

(* Variant for mutation: the failed tick is never over.                     *)
TickFailsOpen ==
  /\ backoff' \in Rest..MaxBackoff
  /\ tick' = [NoTick EXCEPT !.pc = "failed"]
  /\ UNCHANGED <<quiet, due>>

(* The catch of tick, whatever failed.  The backoff doubles with each       *)
(* failure in a row; here it has any length it can have.                    *)
TickFails ==
  /\ backoff' \in Rest..MaxBackoff
  /\ tick' = NoTick
  /\ UNCHANGED <<quiet, due>>

(* get of one listed brain; one that was deleted since fails the tick.      *)
Read(b) ==
  /\ tick.pc = "reading" /\ b \in ToSet(tick.ids) \ DOMAIN tick.seen
  /\ IF Exists(b)
     THEN tick' = [tick EXCEPT !.seen = [x \in DOMAIN @ \cup {b} |-> IF x = b THEN doc[b] ELSE @[x]]] /\ UNCHANGED timers
     ELSE TickFails
  /\ UNCHANGED <<disk, writer, app, call, build, written, mishaps>>

(* The newest listed owner is the one candidate.                            *)
Leased == {b \in ToSet(tick.ids) : tick.seen[b].active}

(* Learning, and initial learning, restart the brain's quiet time.          *)
Pause(b) ==
  /\ quiet' = [quiet EXCEPT ![b] = Settle]
  /\ due' = [due EXCEPT ![b] = 0]
  /\ tick' = NoTick /\ UNCHANGED backoff

(* work is what else the candidate is doing now: nothing, learning, a chat. *)
Admit(work) ==
  /\ tick.pc = "reading" /\ DOMAIN tick.seen = ToSet(tick.ids)
  /\ IF Leased = {} THEN tick' = NoTick /\ UNCHANGED timers
     ELSE LET b == First(tick.ids, Leased) IN
          IF ~tick.seen[b].ready \/ work = "learning" THEN Pause(b)
          ELSE /\ tick' = IF work = "chat" \/ quiet[b] > 0 THEN NoTick
                          ELSE [NoTick EXCEPT !.pc = "admitted", !.brain = b]
               /\ UNCHANGED timers
  /\ UNCHANGED <<disk, writer, app, call, build, written, mishaps>>

(* Variant for mutation: the completion erases a newer quiet window.        *)
FinishForgets ==
  /\ quiet' = [quiet EXCEPT ![tick.brain] = Rest]
  /\ backoff' = 0 /\ tick' = NoTick
  /\ UNCHANGED due

(* The cycle is over: the next one waits, and no longer quiet time is lost. *)
Finish ==
  /\ quiet' = [quiet EXCEPT ![tick.brain] = Larger(@, Rest)]
  /\ backoff' = 0 /\ tick' = NoTick
  /\ UNCHANGED due

(* Variant for mutation: the cycle does not take the lock of its brain.     *)
EnterCycleUnlocked ==
  /\ tick.pc = "admitted" /\ Exists(tick.brain) /\ doc[tick.brain].ready
  /\ tick' = [tick EXCEPT !.pc = "worker", !.copy = doc[tick.brain].active]
  /\ UNCHANGED <<disk, writer, app, call, build, timers, written, mishaps>>

(* idleCycle, with the brain's lock: the document is read again.  Not ready *)
(* or not loaded, the cycle does not run.                                   *)
EnterCycle ==
  LET b == tick.brain IN
  /\ tick.pc = "admitted" /\ Free({b})
  /\ IF ~Exists(b) THEN TickFails /\ UNCHANGED writer
     ELSE \/ Finish /\ UNCHANGED writer
          \/ /\ doc[b].ready
             /\ tick' = [tick EXCEPT !.pc = "worker", !.copy = doc[b].active]
             /\ writer' = [writer EXCEPT ![b] = "cycle"]
             /\ UNCHANGED timers
  /\ UNCHANGED <<disk, app, call, build, written, mishaps>>

(* The worker answered, even a request preempted a moment before: the copy  *)
(* is saved with what the cycle said.                                       *)
CycleSaves ==
  LET b == tick.brain IN
  /\ tick.pc = "worker"
  /\ Save(b, [active |-> tick.copy, ready |-> TRUE]) /\ Release("cycle")
  /\ tick' = [tick EXCEPT !.pc = "acting", !.preempted = FALSE]
  /\ UNCHANGED <<app, call, build, timers, written, mishaps>>

(* Deferred: foreground work has the worker.                                *)
CycleDeferred ==
  /\ tick.pc = "worker" /\ Finish /\ Release("cycle")
  /\ UNCHANGED <<disk, app, call, build, written, mishaps>>

CycleFails ==
  /\ tick.pc = "worker" /\ TickFails /\ Release("cycle") /\ Mishap
  /\ UNCHANGED <<disk, app, call, build, written>>

(* The actions the cycle chose have run.                                    *)
CycleEnds ==
  /\ tick.pc = "acting" /\ Finish
  /\ UNCHANGED <<disk, writer, app, call, build, written, mishaps>>

Tick == Begin \/ List \/ (\E b \in Brains : Read(b))
  \/ (\E work \in {"none", "learning", "chat"} : Admit(work))
  \/ EnterCycle \/ CycleSaves \/ CycleDeferred \/ CycleFails \/ CycleEnds

-----------------------------------------------------------------------------
(* Time and the user.                                                      *)

Less(n) == IF n = 0 THEN 0 ELSE n - 1
Elapse ==
  /\ backoff > 0 \/ \E b \in Brains : quiet[b] > 0
  /\ quiet' = [b \in Brains |-> Less(quiet[b])] /\ backoff' = Less(backoff)
  /\ due' = [b \in Brains |-> Less(due[b])]
  /\ UNCHANGED <<disk, writer, app, call, build, tick, written, mishaps>>

UserStep ==
  \/ \E c \in Switches, t \in Brains, e \in BOOLEAN : Switch(c, t, e)
  \/ \E b \in Fresh : Create(b)
  \/ \E b \in Brains : Resume(b)
  \/ \E b \in Brains : Delete(b) \/ ChatCancelled(b)
  \/ UserCancels

BuildStep(b) ==
  \/ b \in Fresh /\ (ActivateCreated(b) \/ Activated(b))
  \/ SaveBuilt(b) \/ SaveResumed(b) \/ BuildEnds(b) \/ BecomeReady(b)

Next ==
  \/ Reconcile \/ Reconciled \/ Restart
  \/ \E c \in Callers : SetActiveMode(c)
  \/ \E c \in Switches : SwitchAsks(c)
  \/ \E b \in Brains : BuildStep(b)
  \/ Tick \/ Elapse \/ UserStep

Spec == Init /\ [][Next]_vars

-----------------------------------------------------------------------------
(* Properties.                                                             *)

(* Types.                                                                   *)
TypeOK ==
  /\ doc \in [Brains -> Doc \cup {None}]
  /\ writer \in [Brains -> Callers \cup {"cycle", None}]
  /\ app \in {"booting", "up", "dead"}
  /\ \A b \in Brains : quiet[b] \in Nat /\ due[b] \in 0..quiet[b]
  /\ tick.pc \in {"idle", "listing", "reading", "admitted", "worker", "acting"}

(* "A failed write can therefore leave no owner, but can never leave two":  *)
(* once the lease was settled at the start, at most one of the brains whose *)
(* documents no Build has written since has the flag, through concurrent    *)
(* switches, failed saves, deletions, crashes in the middle of a switch and *)
(* whatever Builds write to the other brains.                               *)
OneOwner == app = "up" => \A a, b \in Owners \ written : a = b

(* Without the exception the code violates it, also when no Build is under  *)
(* way any more: a Build's activation failed after its document was written *)
(* with the flag set, or it saved a copy read before the owner was switched. *)
NeverTwoOwners == app = "up" /\ ~InitializationBusy => \A a, b \in Owners : a = b

(* What a switch or a deletion wrote is not undone by an idle cycle or by   *)
(* another switch that read the document before: but for the saves of the   *)
(* brain's own Build, a brain's flag changes, and a deleted brain comes     *)
(* back, only in a section of setActiveMode that holds the brain's lock.    *)
Flag(b) == IF Exists(b) THEN doc[b].active ELSE None
BuildWrites(b) == build'[b].pc # build[b].pc
Switching(b) == writer[b] \in Callers /\ call[writer[b]].pc = "section"
FlagSticks ==
  [][\A b \in Brains : Flag(b)' \notin {Flag(b), None} => Switching(b) \/ BuildWrites(b)]_vars

(* Without the exception of the Build's saves the code violates it: they    *)
(* undo a switch made meanwhile, and bring a deleted brain back.            *)
FlagSticksThroughBuilds ==
  [][\A b \in Brains : ~Create(b) /\ Flag(b)' \notin {Flag(b), None} => Switching(b)]_vars

(* "A cooldown keeps it from immediately reacquiring the worker after the   *)
(* user cancels it": no cycle is admitted in a cancelled brain's quiet      *)
(* window, whatever finishes or fails meanwhile.  A tick that finds the     *)
(* brain learning replaces what is left of the window by the quiet time     *)
(* after learning, which may be shorter.                                    *)
CancelIsQuiet ==
  [][\A b \in Brains : tick.pc = "reading" /\ tick' = [NoTick EXCEPT !.pc = "admitted", !.brain = b]
        => due[b] = 0]_vars

(* The steps of calls and Builds, of which there are finitely many.         *)
Goes ==
  \/ Reconcile \/ Reconciled
  \/ \E c \in Callers : DisablePrior(c) \/ EnableTarget(c)
  \/ \E c \in Switches : SwitchAsks(c)
  \/ \E b \in Fresh : ActivateCreated(b) \/ Activated(b)
  \/ \E b \in Brains : SaveBuilt(b) \/ SaveResumed(b) \/ BuildEnds(b)

TickGoes ==
  \/ Begin \/ List \/ (\E b \in Brains : Read(b)) \/ Admit("none")
  \/ CycleSaves \/ CycleDeferred \/ CycleEnds

(* Locks are given in arrival order, timers fire, reads and requests end,   *)
(* and a brain that is due is not found at other work at every tick.        *)
Fairness ==
  /\ WF_vars(Goes) /\ SF_vars(\E c \in Callers : EnterSection(c))
  /\ WF_vars(Elapse) /\ WF_vars(TickGoes)
  /\ SF_vars(Admit("none") /\ tick'.pc = "admitted") /\ SF_vars(EnterCycle)

FairSpec == Spec /\ Fairness

(* The owner thinks: a brain that stays the newest owner and ready is       *)
(* admitted again and again, whatever was cancelled, failed or was deleted  *)
(* before.                                                                  *)
Leads(b) == b \in Owners /\ Newest(Owners) = b /\ doc[b].ready
OwnerThinks ==
  \A b \in Brains : <>[](app = "up" /\ Leads(b)) => []<>(tick.pc = "admitted" /\ tick.brain = b)

(* "It processes only the persisted Active Mode owner": a cycle that starts *)
(* on the worker is one of a brain whose flag is set.  The code violates    *)
(* it: the flag is read before the lock of the brain is asked for.          *)
OnlyTheOwnerThinks ==
  [][tick.pc = "admitted" /\ tick'.pc = "worker" => tick.brain \in Owners]_vars
=============================================================================
