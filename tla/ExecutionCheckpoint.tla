------------------------- MODULE ExecutionCheckpoint -------------------------
(***************************************************************************)
(* How the Python worker saves a chat turn that is not finished and        *)
(* continues it later: ExecutionCheckpointStore                            *)
(* (engine/omni_core/execution_checkpoint.py), its callers in              *)
(* engine/worker_lifecycle.py and engine/worker.py, and what they need of  *)
(* AdaptiveBrain: brain.json, which one atomic replacement commits, with   *)
(* the receipts of admitted inputs and completed turns.                    *)
(*                                                                         *)
(* On disk are brain.json (learned), the immutable manifests of the        *)
(* checkpoint directories (manifests) and the pointer active.json.  In the *)
(* worker's memory are the resident brain and the one chat segment its     *)
(* serial dispatcher runs.  A crash loses the memory between any two       *)
(* writes; a failed write takes the exception path of the code.            *)
(*                                                                         *)
(* A checkpoint is bound to a neural state by hashes and by the paused     *)
(* activity clock that brain.json holds.  Here the number of the save      *)
(* stands for both: the clock runs between two saves.                      *)
(***************************************************************************)
EXTENDS Integers, FiniteSets

CONSTANTS Turns,        \* identities of the chat turns
          Observations, \* tool results the host may deliver to a turn
          Identifiers,  \* fresh identities of checkpoints (uuid4)
          NoTurn,       \* no turn is running
          MaxSaves,     \* bound on the saves of brain.json
          MaxFaults     \* bound on crashes and failed segments

ASSUME ConstantsAssumption ==
    /\ NoTurn \notin Turns
    /\ MaxSaves \in Nat
    /\ MaxFaults \in Nat

VARIABLES learned,   \* brain.json: the number of its save and its receipts
          manifests, \* the manifests in the checkpoint directories
          active,    \* the manifest that active.json names, as a set of at most one
          brain,     \* the resident brain, as a set of at most one
          step,      \* where the worker's dispatcher is
          segment,   \* the running chat segment
          draft,     \* the checkpoint being saved, as a set of at most one
          acked,     \* observations acknowledged to the host for the unfinished turn
          faults     \* crashes and failures so far

disk == <<learned, manifests, active>>
vars == <<learned, manifests, active, brain, step, segment, draft, acked, faults>>

Steps == {"idle", "admitting", "generating", "freezing", "sealed", "written", "answered"}
Inbox == [pending : SUBSET Observations, seen : SUBSET Observations,
          used : [Observations -> Nat]]
Neural == [save : Nat, inputs : [Turns -> Nat], replies : [Turns -> Nat]]
Manifest == [id : Identifiers, turn : Turns, status : {"suspended", "completed", "stopped"},
             binding : Nat, inbox : Inbox]
Segment == [turn : Turns \cup {NoTurn}, resumed : BOOLEAN, inbox : Inbox]

EmptyInbox == [pending |-> {}, seen |-> {}, used |-> [o \in Observations |-> 0]]
NoSegment == [turn |-> NoTurn, resumed |-> FALSE, inbox |-> EmptyInbox]

Resident == brain # {}
Idle == step = "idle"
Saved(status) == \E m \in active : m.status = status

\* The saved frontier m can execute on the neural state that is committed.
Compatible(m) == m.status = "suspended" => m.binding = learned.save

Init ==
    /\ learned = [save |-> 0, inputs |-> [t \in Turns |-> 0], replies |-> [t \in Turns |-> 0]]
    /\ manifests = {} /\ active = {}
    /\ brain = {} /\ step = "idle" /\ segment = NoSegment /\ draft = {}
    /\ acked = {} /\ faults = 0

(***************************************************************************)
(* Shared steps.                                                           *)
(***************************************************************************)

\* brain.save(): immutable blobs first, then brain.json is replaced.
SaveBrain(state) ==
    /\ learned.save < MaxSaves
    /\ LET committed == [state EXCEPT !.save = learned.save + 1]
       IN  /\ learned' = committed
           /\ brain' = {[neural |-> committed, clock |-> b.clock] : b \in brain}

\* _publish: the new manifest, then the pointer.
Publish(m) == manifests' = manifests \cup {m} /\ active' = {m}

\* The inbox after the host offers the observations obs: one it has seen is
\* acknowledged as a duplicate.
Offered(inbox, obs) ==
    [inbox EXCEPT !.pending = @ \cup (obs \ inbox.seen), !.seen = @ \cup obs]

\* What of the acknowledged observations a saved frontier keeps.
KeptBy(frontier) == {o \in acked : \E m \in frontier : m.status = "suspended" /\ o \in m.inbox.seen}

EndSegment == step' = "idle" /\ segment' = NoSegment /\ draft' = {}

(***************************************************************************)
(* Load and Unload.  The host's load inspects first and refuses an         *)
(* incompatible frontier; the worker's load checks the binding again.      *)
(***************************************************************************)
LoadBrain ==
    /\ Idle /\ ~Resident
    /\ \A m \in active : m \in manifests /\ Compatible(m)
    /\ brain' = {[neural |-> learned, clock |-> IF Saved("suspended") THEN "paused" ELSE "running"]}
    /\ UNCHANGED <<disk, step, segment, draft, acked, faults>>

\* suspend_instance: host observations join the saved turn; without one the
\* brain is saved before it is closed.
SuspendInstance(obs) ==
    /\ Idle /\ Resident
    /\ IF Saved("suspended")
       THEN /\ \E m \in active : Publish([m EXCEPT !.inbox = Offered(@, obs)])
            /\ acked' = acked \cup obs
            /\ UNCHANGED learned
       ELSE /\ obs = {}
            /\ learned.save < MaxSaves
            /\ \E b \in brain : learned' = [b.neural EXCEPT !.save = learned.save + 1]
            /\ UNCHANGED <<manifests, active, acked>>
    /\ brain' = {}
    /\ UNCHANGED <<step, segment, draft, faults>>

(***************************************************************************)
(* A chat turn.  The host starts one only when no frontier is retained; it *)
(* may repeat an unfinished one, whose input was admitted, under its       *)
(* identity, also one whose frontier it has stopped: only receipts are     *)
(* consulted.  A turn with a completion receipt is answered from it.       *)
(***************************************************************************)
EnterChatAnew(t) ==  \* Variant for mutation: a repeated input is learned again.
    /\ Idle /\ Resident /\ ~Saved("suspended")
    /\ segment' = [NoSegment EXCEPT !.turn = t]
    /\ step' = "admitting"
    /\ \E b \in brain :
          /\ b.neural.replies[t] = 0
          /\ brain' = {[neural |-> [b.neural EXCEPT !.inputs[t] = @ + 1], clock |-> "running"]}
    /\ acked' = {}
    /\ UNCHANGED <<disk, draft, faults>>

EnterChat(t) ==
    /\ Idle /\ Resident /\ ~Saved("suspended")
    /\ segment' = [NoSegment EXCEPT !.turn = t]
    /\ \E b \in brain :
          /\ b.neural.replies[t] = 0
          /\ IF b.neural.inputs[t] > 0
             THEN step' = "generating" /\ brain' = {[b EXCEPT !.clock = "running"]}
             ELSE /\ step' = "admitting"
                  /\ brain' = {[neural |-> [b.neural EXCEPT !.inputs[t] = @ + 1], clock |-> "running"]}
    /\ acked' = {}
    /\ UNCHANGED <<disk, draft, faults>>

\* The accepted input and what it taught are one commit, before any token.
Admit ==
    /\ step = "admitting"
    /\ \E b \in brain : SaveBrain(b.neural)
    /\ step' = "generating"
    /\ UNCHANGED <<manifests, active, segment, draft, acked, faults>>

\* The final commit of the turn, with its completion receipt.  A segment
\* that resumed a checkpoint still has to finish it.
Answer ==
    /\ step = "generating"
    /\ \E b \in brain : SaveBrain([b.neural EXCEPT !.replies[segment.turn] = @ + 1])
    /\ IF segment.resumed
       THEN step' = "answered" /\ UNCHANGED <<segment, draft>>
       ELSE EndSegment
    /\ acked' = {}
    /\ UNCHANGED <<manifests, active, faults>>

Finish ==
    /\ step = "answered"
    /\ \E m \in active : Publish([m EXCEPT !.status = "completed"])
    /\ EndSegment
    /\ UNCHANGED <<learned, brain, acked, faults>>

(***************************************************************************)
(* Tool observations.  The control reader offers them to the segment's     *)
(* inbox, which the generation drains; a segment that is being frozen      *)
(* refuses them and the host keeps them.                                   *)
(***************************************************************************)
OfferWhileFreezing(o) ==  \* Variant for mutation: suspension_freezing is not checked.
    /\ step \in {"generating", "freezing", "sealed", "written"}
    /\ segment' = [segment EXCEPT !.inbox = Offered(@, {o})]
    /\ acked' = acked \cup {o}
    /\ UNCHANGED <<disk, brain, step, draft, faults>>

Offer(o) ==
    /\ step = "generating"
    /\ segment' = [segment EXCEPT !.inbox = Offered(@, {o})]
    /\ acked' = acked \cup {o}
    /\ UNCHANGED <<disk, brain, step, draft, faults>>

Drain ==
    /\ step = "generating" /\ segment.inbox.pending # {}
    /\ segment' = [segment EXCEPT !.inbox.pending = {},
                     !.inbox.used = [o \in Observations |->
                         @[o] + IF o \in segment.inbox.pending THEN 1 ELSE 0]]
    /\ UNCHANGED <<disk, brain, step, draft, acked, faults>>

(***************************************************************************)
(* Suspension at a token boundary: freeze the worker state, pause the      *)
(* clock, save the brain, write the manifest, move the pointer.            *)
(***************************************************************************)
Freeze ==
    /\ step = "generating"
    /\ step' = "freezing"
    /\ \E id \in Identifiers :
          /\ \A m \in manifests : m.id # id
          /\ draft' = {[id |-> id, turn |-> segment.turn, status |-> "suspended",
                        binding |-> 0, inbox |-> segment.inbox]}
    /\ brain' = {[b EXCEPT !.clock = "paused"] : b \in brain}
    /\ UNCHANGED <<disk, segment, acked, faults>>

Seal ==
    /\ step = "freezing"
    /\ \E b \in brain : SaveBrain(b.neural)
    /\ draft' = {[m EXCEPT !.binding = learned'.save] : m \in draft}
    /\ step' = "sealed"
    /\ UNCHANGED <<manifests, active, segment, acked, faults>>

PointerFirst ==  \* Variant for mutation: the pointer moves before its manifest is written.
    /\ step = "sealed"
    /\ active' = draft
    /\ step' = "written"
    /\ UNCHANGED <<learned, manifests, brain, segment, draft, acked, faults>>

WriteManifest ==
    /\ step = "sealed"
    /\ manifests' = manifests \cup draft
    /\ step' = "written"
    /\ UNCHANGED <<learned, active, brain, segment, draft, acked, faults>>

MovePointer ==
    /\ step = "written"
    /\ active' = draft
    /\ EndSegment
    /\ UNCHANGED <<learned, manifests, brain, acked, faults>>

(***************************************************************************)
(* resume_chat.  A turn whose receipt is committed is only finished.       *)
(* Otherwise the host's pending observations are merged into the manifest, *)
(* and the segment continues if the frontier is suspended, its binding is  *)
(* the resident state's and the clock is still the sealed paused one.      *)
(***************************************************************************)
ResumeAnyStatus(obs) ==  \* Variant for mutation: a stopped frontier is resumed too.
    /\ Idle /\ Resident
    /\ \E m \in active, b \in brain :
          /\ m.status # "completed" /\ b.neural.replies[m.turn] = 0
          /\ b.neural.save = m.binding \/ m.status = "stopped"
          /\ segment' = [turn |-> m.turn, resumed |-> TRUE, inbox |-> Offered(m.inbox, obs)]
          /\ Publish([m EXCEPT !.inbox = Offered(@, obs)])
    /\ step' = "generating"
    /\ brain' = {[b EXCEPT !.clock = "running"] : b \in brain}
    /\ acked' = acked \cup obs
    /\ UNCHANGED <<learned, draft, faults>>

ResumeChat(obs) ==
    /\ Idle /\ Resident
    /\ \E m \in active, b \in brain :
          LET merged == [m EXCEPT !.inbox = Offered(@, obs)]
          IN  /\ m.status = "suspended" /\ b.neural.replies[m.turn] = 0
              /\ Publish(merged)
              /\ IF b.neural.save = m.binding /\ b.clock = "paused"
                 THEN /\ segment' = [turn |-> m.turn, resumed |-> TRUE, inbox |-> merged.inbox]
                      /\ step' = "generating"
                      /\ brain' = {[b EXCEPT !.clock = "running"]}
                 ELSE UNCHANGED <<segment, step, brain>>
    /\ acked' = acked \cup obs
    /\ UNCHANGED <<learned, draft, faults>>

ResumeCompleted ==
    /\ Idle /\ Resident
    /\ \E m \in active, b \in brain :
          /\ m.status = "suspended" /\ b.neural.replies[m.turn] > 0
          /\ Publish([m EXCEPT !.status = "completed"])
    /\ UNCHANGED <<learned, brain, step, segment, draft, acked, faults>>

\* stop_suspended_chat, with or without a resident brain.
StopSaved ==
    /\ Idle
    /\ \E m \in active :
          /\ m.status = "suspended"
          /\ Publish([m EXCEPT !.status = "stopped"])
    /\ acked' = {}
    /\ UNCHANGED <<learned, brain, step, segment, draft, faults>>

(***************************************************************************)
(* Failures.                                                               *)
(***************************************************************************)

\* A cancellation before the commit, or a failing finish() after it, ends the
\* segment and keeps the brain warm, with its clock running.
Cancelled ==
    /\ step \in {"generating", "answered"} /\ faults < MaxFaults
    /\ EndSegment
    /\ acked' = KeptBy(active)
    /\ faults' = faults + 1
    /\ UNCHANGED <<disk, brain>>

\* Any other exception: save() removes its own directory, and the worker
\* replaces the brain by the committed one, its clock paused.
SegmentFails ==
    /\ ~Idle /\ faults < MaxFaults
    /\ manifests' = {m \in manifests : \A d \in draft : m.id # d.id}
    /\ brain' = {[neural |-> learned, clock |-> "paused"]}
    /\ EndSegment
    /\ acked' = KeptBy(active)
    /\ faults' = faults + 1
    /\ UNCHANGED <<learned, active>>

Crash ==
    /\ faults < MaxFaults
    /\ brain' = {}
    /\ EndSegment
    /\ acked' = KeptBy(active)
    /\ faults' = faults + 1
    /\ UNCHANGED <<disk>>

Next ==
    \/ LoadBrain \/ \E obs \in SUBSET Observations : SuspendInstance(obs) \/ ResumeChat(obs)
    \/ \E t \in Turns : EnterChat(t)
    \/ Admit \/ Answer \/ Finish \/ Drain
    \/ \E o \in Observations : Offer(o)
    \/ Freeze \/ Seal \/ WriteManifest \/ MovePointer
    \/ ResumeCompleted \/ StopSaved
    \/ Cancelled \/ SegmentFails \/ Crash

Spec == Init /\ [][Next]_vars

(***************************************************************************)
(* Properties.                                                             *)
(***************************************************************************)

\* Every variable keeps its type; a segment runs only on a resident brain.
TypeOK ==
    /\ learned \in Neural
    /\ \A m \in manifests \cup active : m \in Manifest
    /\ Cardinality(active) <= 1 /\ Cardinality(brain) <= 1 /\ Cardinality(draft) <= 1
    /\ \A b \in brain : b.neural \in Neural /\ b.clock \in {"paused", "running"}
    /\ step \in Steps /\ segment \in Segment
    /\ (step = "idle") <=> (segment.turn = NoTurn)
    /\ step # "idle" => Resident
    /\ acked \subseteq Observations

\* Whatever is interrupted, active.json names a manifest that is complete on
\* disk: metadata first, one pointer replacement last (_publish).
PointerIntact == active \subseteq manifests

\* The committed brain has learned each admitted input once, however often the
\* turn was retried, suspended, resumed or lost, and has answered it at most
\* once and only with its input (brain.py:15629, worker_lifecycle.py:234-245).
AnsweredOnce == \A t \in Turns : learned.replies[t] <= learned.inputs[t] /\ learned.inputs[t] <= 1

\* What the host was told the worker has is there, once: an acknowledged result
\* of a tool belongs to the running segment or, once that is suspended, to the
\* saved frontier, and conditions no execution of its turn twice although the
\* host repeats deliveries (worker.py:672-696, chat_tool_observation.py:89).
ObservationsCountOnce ==
    /\ \A o \in Observations : segment.inbox.used[o] <= 1
    /\ \A m \in active : \A o \in Observations : m.inbox.used[o] <= 1
    /\ \A o \in acked :
        \/ step # "idle" /\ o \in segment.inbox.seen
        \/ Idle /\ \E m \in active : m.status = "suspended" /\ o \in m.inbox.seen

\* A frontier that Stop buried is never resumed and never becomes the saved
\* frontier again, from whichever manifest that has its identity.  Its turn may
\* still be sent again and run afresh (worker_lifecycle.py:341-353, 234-258,
\* execution_checkpoint.py:175-178, 253-261).
TombstoneIsFinal ==
    \A m \in manifests : m.status = "stopped" =>
        \A a \in active : a.id = m.id => a.status = "stopped" /\ ~segment.resumed

\* A saved frontier that is the only trace of its turn's progress can be
\* executed on the committed brain whenever no segment runs.
SavedTurnStaysExecutable ==
    Idle => \A m \in active : learned.replies[m.turn] = 0 => Compatible(m)

\* A turn that is committed does not keep its instance from being loaded.
CommittedTurnCanBeReconciled ==
    Idle /\ ~Resident => \A m \in active : learned.replies[m.turn] > 0 => Compatible(m)

\* A turn with a Stop tombstone is not executed again.  The code promises less:
\* only the receipts of completed and admitted turns are consulted.
StoppedTurnStaysStopped == \A m \in manifests : m.status = "stopped" => segment.turn # m.turn
==============================================================================
