---------------------- MODULE ExecutionCheckpointProofs ----------------------
(***************************************************************************)
(* Proofs about ExecutionCheckpoint, for any turns, observations and       *)
(* identifiers and any number of saves and faults.  The inductive          *)
(* invariant says what relates the two files, the resident brain and the   *)
(* checkpoint in the making at each step of the worker: the brain differs  *)
(* from brain.json only while an input is admitted, a running turn is      *)
(* admitted and unanswered, and a fresh identifier keeps the cleanup of a  *)
(* failed save away from the manifest that the pointer names.              *)
(* A second invariant, OInv, follows an observation from the inbox of the  *)
(* segment through the checkpoint in the making to the answered turn, so   *)
(* that it counts once in the brain that answers.                          *)
(* The last part is the other side of a saved turn: the host that loads,   *)
(* suspends, resumes and stops it (InstanceLifecycle).                     *)
(***************************************************************************)
EXTENDS ExecutionCheckpoint, InstanceLifecycle, FiniteSetTheorems, TLAPS

Brain == [neural : Neural, clock : {"paused", "running"}]
Freezing == {"freezing", "sealed", "written"}

Types ==
    /\ learned \in Neural
    /\ manifests \subseteq Manifest /\ active \subseteq Manifest /\ draft \subseteq Manifest
    /\ brain \subseteq Brain
    /\ step \in Steps /\ segment \in Segment
    /\ acked \subseteq Observations
    /\ (step = "idle") <=> (segment.turn = NoTurn)
    /\ step # "idle" => brain # {}

\* Each of the optional values is present at most once.
Single(S) == S = {} \/ \E x \in S : S = {x}
Singles == Single(active) /\ Single(brain) /\ Single(draft)

\* The checkpoint in the making.
DraftOwned ==
    /\ draft # {} => step \in Freezing
    /\ \A d \in draft : d.turn = segment.turn /\ d.status = "suspended"
    /\ \A d \in draft, m \in active : d.id # m.id
    /\ step = "written" => draft \subseteq manifests

\* The resident brain is the committed one, but for an input being admitted.
BrainCommitted ==
    \A b \in brain :
        /\ step # "admitting" => b.neural = learned
        /\ step = "admitting" =>
              /\ learned.inputs[segment.turn] = 0 /\ learned.replies[segment.turn] = 0
              /\ b.neural = [learned EXCEPT !.inputs[segment.turn] = 1]

\* A turn that runs, or is saved to run again, is admitted.
TurnsOpen ==
    /\ step \in Freezing \cup {"generating"} =>
          learned.inputs[segment.turn] = 1 /\ learned.replies[segment.turn] = 0
    /\ \A m \in active : m.status = "suspended" => learned.inputs[m.turn] = 1

IInv ==
    /\ Types /\ Singles /\ DraftOwned /\ BrainCommitted /\ TurnsOpen
    /\ PointerIntact /\ AnsweredOnce

-----------------------------------------------------------------------------
(***************************************************************************)
(* Observations: a second invariant, on top of the first.                  *)
(***************************************************************************)

\* An observation waits in an inbox at most once, before it was used.
Inboxed(i) ==
    /\ i.pending \subseteq i.seen
    /\ \A o \in Observations : /\ i.used[o] <= 1
                               /\ o \in i.pending => i.used[o] = 0
                               /\ i.used[o] > 0 => o \in i.seen
Inboxes == Inboxed(segment.inbox) /\ \A m \in active \cup draft : Inboxed(m.inbox)

\* The checkpoint in the making has the inbox the segment had, and no later save.
DraftComplete ==
    /\ step \in Freezing => draft # {}
    /\ \A d \in draft : d.inbox = segment.inbox
    /\ \A m \in active \cup draft : m.binding <= learned.save

\* A saved turn is only run by its own segment.
SavedRuns == ~Idle => \A m \in active : m.status = "suspended" => m.turn = segment.turn

\* Acknowledged observations are where the host was told they are.
Delivered ==
    /\ ~Idle => acked \subseteq segment.inbox.seen
    /\ Idle => \A o \in acked : \E m \in active : m.status = "suspended" /\ o \in m.inbox.seen
    /\ step = "answered" => acked = {}

\* A saved turn that was answered cannot be loaded, and a resident brain has
\* nothing acknowledged to it.
AnsweredSaved ==
    \A m \in active : m.status = "suspended" /\ learned.replies[m.turn] > 0 =>
        /\ m.binding < learned.save
        /\ Idle /\ Resident => acked = {}

OInv == Inboxes /\ DraftComplete /\ SavedRuns /\ Delivered /\ AnsweredSaved

(***************************************************************************)
(* Tombstones: a third invariant, on top of the first.                     *)
(***************************************************************************)

\* A stopped frontier shares its identity with no saved frontier and with no
\* checkpoint in the making, and a segment that resumed has the frontier it
\* resumed under the pointer until it is committed.
Buried ==
    /\ \A m \in manifests : m.status = "stopped" =>
          /\ \A a \in active : a.id = m.id => a.status = "stopped"
          /\ \A d \in draft : d.id # m.id
    /\ segment.resumed => ~Idle /\ \A a \in active : a.status = "suspended"
    /\ step = "answered" => segment.resumed

-----------------------------------------------------------------------------
(* An offer of observations keeps an inbox an inbox.                       *)
LEMMA OfferedType ==
    ASSUME NEW i \in Inbox, NEW obs \in SUBSET Observations
    PROVE  Offered(i, obs) \in Inbox
BY DEF Offered, Inbox

(* The initial state satisfies the invariant.                              *)
LEMMA InitInvariant == Init => IInv
<1> SUFFICES ASSUME Init PROVE IInv
  OBVIOUS
<1>1. Types
  BY ConstantsAssumption DEF Init, Types, Neural, Manifest, Brain, Steps, Segment, NoSegment, EmptyInbox, Inbox
<1>2. Singles /\ DraftOwned /\ BrainCommitted /\ TurnsOpen
  BY DEF Init, Singles, Single, DraftOwned, BrainCommitted, TurnsOpen, Freezing
<1>3. PointerIntact /\ AnsweredOnce
  BY ConstantsAssumption DEF Init, PointerIntact, AnsweredOnce, NoSegment
<1> QED
  BY <1>1, <1>2, <1>3 DEF IInv

(* Every step of the worker, and every failure, preserves the invariant.   *)
LEMMA StepInvariant == IInv /\ [Next]_vars => IInv'
<1> SUFFICES ASSUME IInv, [Next]_vars PROVE IInv'
  OBVIOUS
<1> USE ConstantsAssumption
<1> USE DEF IInv, Types, Singles, Single, DraftOwned, BrainCommitted, TurnsOpen, PointerIntact,
     AnsweredOnce, Neural, Manifest, Brain, Steps, Segment,
     Freezing, Idle, Resident, Saved, disk, NoSegment
<1>1. CASE LoadBrain
  BY <1>1, SMTT(30) DEF LoadBrain
<1>2. ASSUME NEW obs \in SUBSET Observations, SuspendInstance(obs) PROVE IInv'
  <2>1. CASE Saved("suspended")
    <3>1. PICK m \in active : Publish([m EXCEPT !.inbox = Offered(@, obs)])
      BY <1>2, <2>1 DEF SuspendInstance
    <3> DEFINE n == [m EXCEPT !.inbox = Offered(@, obs)]
    <3>2. /\ n \in Manifest /\ n.turn = m.turn /\ n.status = m.status
          /\ manifests' = manifests \cup {n} /\ active' = {n}
      BY <3>1, OfferedType DEF Publish
    <3> HIDE DEF n
    <3>3. /\ brain' = {} /\ step = "idle" /\ acked' = acked \cup obs
          /\ UNCHANGED <<learned, step, segment, draft>>
      BY <1>2, <2>1 DEF SuspendInstance
    <3> QED
      BY <3>2, <3>3
  <2>2. CASE ~Saved("suspended")
    <3>1. PICK b \in brain : learned' = [b.neural EXCEPT !.save = learned.save + 1]
      BY <1>2, <2>2 DEF SuspendInstance
    <3>2. b.neural = learned
      BY <1>2 DEF SuspendInstance
    <3>3. /\ learned' \in Neural
          /\ learned'.inputs = learned.inputs /\ learned'.replies = learned.replies
      BY <3>1, <3>2
    <3>4. /\ brain' = {} /\ step = "idle"
          /\ UNCHANGED <<manifests, active, acked, step, segment, draft>>
      BY <1>2, <2>2 DEF SuspendInstance
    <3> QED
      BY <3>3, <3>4
  <2> QED
    BY <2>1, <2>2
<1>3. ASSUME NEW obs \in SUBSET Observations, ResumeChat(obs) PROVE IInv'
  <2>1. PICK m \in active, b \in brain :
           LET merged == [m EXCEPT !.inbox = Offered(@, obs)]
           IN  /\ m.status = "suspended" /\ b.neural.replies[m.turn] = 0
               /\ Publish(merged)
               /\ IF b.neural.save = m.binding /\ b.clock = "paused"
                  THEN /\ segment' = [turn |-> m.turn, resumed |-> TRUE, inbox |-> merged.inbox]
                       /\ step' = "generating"
                       /\ brain' = {[b EXCEPT !.clock = "running"]}
                  ELSE UNCHANGED <<segment, step, brain>>
    BY <1>3 DEF ResumeChat
  <2> DEFINE n == [m EXCEPT !.inbox = Offered(@, obs)]
  <2>2. /\ n \in Manifest /\ n.turn = m.turn /\ n.status = "suspended" /\ n.inbox \in Inbox
        /\ manifests' = manifests \cup {n} /\ active' = {n}
    BY <2>1, OfferedType DEF Publish
  <2>3. b.neural = learned /\ learned.replies[m.turn] = 0
    BY <1>3, <2>1 DEF ResumeChat
  <2>4. /\ step = "idle" /\ acked' = acked \cup obs /\ UNCHANGED <<learned, draft>>
    BY <1>3 DEF ResumeChat
  <2>5. CASE UNCHANGED <<segment, step, brain>>
    <3> HIDE DEF n
    <3> QED
      BY <2>1, <2>2, <2>4, <2>5, SMTT(30)
  <2>6. CASE /\ segment' = [turn |-> m.turn, resumed |-> TRUE, inbox |-> n.inbox]
             /\ step' = "generating"
             /\ brain' = {[b EXCEPT !.clock = "running"]}
    <3> HIDE DEF n
    <3> QED
      <4>1. b.clock \in {"paused", "running"} /\ brain' \subseteq Brain /\ Single(brain)'
            /\ \A c \in brain' : c.neural = learned
        BY <2>3, <2>6
      <4>2. segment' \in Segment /\ segment'.turn = m.turn /\ m.turn \in Turns
            /\ learned.inputs[m.turn] = 1
        BY <2>1, <2>2, <2>6
      <4> QED
        BY <2>2, <2>3, <2>4, <2>6, <4>1, <4>2, SMTT(30)
  <2> QED
    BY <2>1, <2>5, <2>6
<1>4. ASSUME NEW t \in Turns, EnterChat(t) PROVE IInv'
  <2>1. PICK b \in brain :
           /\ b.neural.replies[t] = 0
           /\ IF b.neural.inputs[t] > 0
              THEN step' = "generating" /\ brain' = {[b EXCEPT !.clock = "running"]}
              ELSE /\ step' = "admitting"
                   /\ brain' = {[neural |-> [b.neural EXCEPT !.inputs[t] = @ + 1], clock |-> "running"]}
    BY <1>4 DEF EnterChat
  <2>2. /\ step = "idle" /\ ~Saved("suspended") /\ acked' = {}
        /\ UNCHANGED <<learned, manifests, active, draft>>
    BY <1>4 DEF EnterChat
  <2>3. segment' \in Segment /\ segment'.turn = t
    BY <1>4 DEF EnterChat, EmptyInbox, Inbox
  <2>4. b.neural = learned /\ learned.replies[t] = 0
    BY <2>1, <2>2
  <2>5. CASE learned.inputs[t] > 0
    <3>1. learned.inputs[t] = 1
      BY <2>5
    <3>2. /\ step' = "generating" /\ brain' = {[b EXCEPT !.clock = "running"]}
      BY <2>1, <2>4, <2>5
    <3>3. [b EXCEPT !.clock = "running"] \in Brain /\ [b EXCEPT !.clock = "running"].neural = learned
      BY <2>4
    <3> QED
      BY <2>2, <2>3, <2>4, <3>1, <3>2, <3>3, SMTT(60)
  <2>6. CASE learned.inputs[t] = 0
    <3> DEFINE c == [neural |-> [learned EXCEPT !.inputs[t] = 1], clock |-> "running"]
    <3>1. brain' = {c} /\ step' = "admitting"
      BY <2>1, <2>4, <2>6
    <3>2. c \in Brain /\ c.neural = [learned EXCEPT !.inputs[t] = 1]
      OBVIOUS
    <3> HIDE DEF c
    <3> QED
      BY <2>2, <2>3, <2>4, <2>6, <3>1, <3>2, SMTT(30)
  <2> QED
    BY <2>5, <2>6
<1>5. CASE Admit
  <2>1. PICK b \in brain : SaveBrain(b.neural)
    BY <1>5 DEF Admit
  <2>2. /\ step = "admitting" /\ step' = "generating" /\ segment.turn \in Turns
        /\ UNCHANGED <<manifests, active, segment, draft, acked>>
    BY <1>5 DEF Admit
  <2>3. /\ b.neural = [learned EXCEPT !.inputs[segment.turn] = 1]
        /\ learned.inputs[segment.turn] = 0 /\ learned.replies[segment.turn] = 0
    BY <2>2
  <2>4. /\ learned' = [b.neural EXCEPT !.save = learned.save + 1]
        /\ brain' = {[neural |-> learned', clock |-> c.clock] : c \in brain}
    BY <2>1 DEF SaveBrain
  <2>5. /\ learned' \in Neural
        /\ learned'.replies = learned.replies
        /\ learned'.inputs = [learned.inputs EXCEPT ![segment.turn] = 1]
    <3>1. learned \in Neural
      OBVIOUS
    <3>2. PICK i \in [Turns -> Nat], r \in [Turns -> Nat], n \in Nat :
             learned = [save |-> n, inputs |-> i, replies |-> r]
      BY <3>1
    <3>3. b.neural = [save |-> n, inputs |-> [i EXCEPT ![segment.turn] = 1], replies |-> r]
      BY <2>2, <2>3, <3>2
    <3>4. learned' = [save |-> n + 1, inputs |-> [i EXCEPT ![segment.turn] = 1], replies |-> r]
      BY <2>4, <3>2, <3>3
    <3> QED
      BY <2>2, <3>2, <3>4
  <2>6. brain' = {[neural |-> learned', clock |-> b.clock]}
    <3>1. brain = {b}
      OBVIOUS
    <3> QED
      BY <2>4, <3>1
  <2> QED
    BY <2>2, <2>3, <2>5, <2>6, SMTT(30)
<1>6. CASE Answer
  <2>1. PICK b \in brain : SaveBrain([b.neural EXCEPT !.replies[segment.turn] = @ + 1])
    BY <1>6 DEF Answer
  <2>2. /\ step = "generating" /\ segment.turn \in Turns /\ b.neural = learned
        /\ learned.inputs[segment.turn] = 1 /\ learned.replies[segment.turn] = 0
        /\ draft = {} /\ acked' = {} /\ UNCHANGED <<manifests, active>>
    BY <1>6 DEF Answer
  <2>3. /\ learned' = [[learned EXCEPT !.replies[segment.turn] = 1] EXCEPT !.save = learned.save + 1]
        /\ brain' = {[neural |-> learned', clock |-> c.clock] : c \in brain}
    <3>1. learned \in Neural
      OBVIOUS
    <3> HIDE DEF IInv
    <3> QED
      BY <2>1, <2>2, <3>1 DEF SaveBrain
  <2>4. /\ learned' \in Neural
        /\ learned'.inputs = learned.inputs
        /\ learned'.replies = [learned.replies EXCEPT ![segment.turn] = 1]
    <3>1. learned \in Neural
      OBVIOUS
    <3>2. PICK i \in [Turns -> Nat], r \in [Turns -> Nat], n \in Nat :
             learned = [save |-> n, inputs |-> i, replies |-> r]
      BY <3>1
    <3>3. learned' = [save |-> n + 1, inputs |-> i, replies |-> [r EXCEPT ![segment.turn] = 1]]
      BY <2>3, <3>2
    <3> QED
      BY <2>2, <3>2, <3>3
  <2>5. brain' = {[neural |-> learned', clock |-> b.clock]}
    <3>1. brain = {b}
      OBVIOUS
    <3> QED
      BY <2>3, <3>1
  <2>6. /\ step' \in {"idle", "answered"} /\ segment' \in {segment, NoSegment} /\ draft' = {}
        /\ step' = "idle" <=> segment' = NoSegment
    BY <1>6, <2>2 DEF Answer, EndSegment
  <2>7. NoSegment \in Segment
    BY DEF EmptyInbox, Inbox
  <2>8. [neural |-> learned', clock |-> b.clock] \in Brain
    BY <2>4
  <2>9. brain' \subseteq Brain /\ Single(brain)' /\ BrainCommitted'
    BY <2>5, <2>6, <2>8
  <2>10. /\ segment' \in Segment /\ segment'.turn \in {segment.turn, NoTurn}
         /\ step' = "idle" <=> segment'.turn = NoTurn
    <3>1. segment \in Segment
      OBVIOUS
    <3> HIDE DEF IInv
    <3>2. CASE segment' = NoSegment
      BY <2>6, <2>7, <3>2
    <3>3. CASE segment' # NoSegment
      <4>1. segment' = segment /\ step' # "idle" /\ segment.turn # NoTurn
        BY <2>2, <2>6, <3>3
      <4> QED
        BY <3>1, <4>1
    <3> QED
      BY <3>2, <3>3
  <2>11. step' \in Steps /\ (step' # "idle" => brain' # {})
    BY <2>5, <2>6
  <2>12. Types' /\ Singles'
    BY <2>2, <2>4, <2>6, <2>9, <2>10, <2>11
  <2>13. /\ \A t \in Turns : learned'.replies[t] = IF t = segment.turn THEN 1 ELSE learned.replies[t]
         /\ learned'.inputs = learned.inputs
    BY <2>2, <2>4
  <2>14. DraftOwned' /\ TurnsOpen' /\ PointerIntact'
    BY <2>2, <2>6, <2>13
  <2>15. AnsweredOnce'
    BY <2>2, <2>10, <2>13
  <2> QED
    BY <2>9, <2>12, <2>14, <2>15
<1>7. CASE Finish
  BY <1>7, SMTT(30) DEF Finish, Publish, EndSegment, EmptyInbox, Inbox
<1>8. CASE Drain
  <2>1. /\ segment' \in Segment /\ segment'.turn = segment.turn
    <3> DEFINE u == [o \in Observations |->
                        segment.inbox.used[o] + IF o \in segment.inbox.pending THEN 1 ELSE 0]
    <3>1. segment \in Segment /\ segment.inbox.used \in [Observations -> Nat]
      BY DEF Inbox
    <3>2. u \in [Observations -> Nat]
      BY <3>1
    <3>3. segment' = [segment EXCEPT !.inbox = [@ EXCEPT !.pending = {}, !.used = u]]
      BY <1>8 DEF Drain
    <3> HIDE DEF IInv, u
    <3> QED
      BY <3>1, <3>2, <3>3 DEF Inbox
  <2> QED
    BY <1>8, <2>1 DEF Drain
<1>9. ASSUME NEW o \in Observations, Offer(o) PROVE IInv'
  BY <1>9, OfferedType, SMTT(30) DEF Offer
<1>10. CASE Freeze
  <2>1. PICK id \in Identifiers :
           /\ \A m \in manifests : m.id # id
           /\ draft' = {[id |-> id, turn |-> segment.turn, status |-> "suspended",
                         binding |-> 0, inbox |-> segment.inbox]}
    BY <1>10 DEF Freeze
  <2>2. /\ step = "generating" /\ step' = "freezing" /\ segment.turn \in Turns
        /\ brain' = {[b EXCEPT !.clock = "paused"] : b \in brain}
        /\ UNCHANGED <<learned, manifests, active, segment, acked>>
    BY <1>10 DEF Freeze
  <2>3. draft' \subseteq Manifest /\ Single(draft)'
    BY <2>1, <2>2
  <2>4. brain' \subseteq Brain /\ Single(brain)' /\ brain' # {} /\ \A b \in brain' : b.neural = learned
    <3>1. PICK b \in brain : brain = {b}
      BY <2>2
    <3>2. brain' = {[b EXCEPT !.clock = "paused"]} /\ b.neural = learned /\ b \in Brain
      BY <2>2, <3>1
    <3>3. [b EXCEPT !.clock = "paused"] \in Brain /\ [b EXCEPT !.clock = "paused"].neural = learned
      BY <3>2
    <3> QED
      BY <3>2, <3>3
  <2>5. Types' /\ Singles'
    BY <2>2, <2>3, <2>4
  <2>6. DraftOwned' /\ TurnsOpen'
    BY <2>1, <2>2
  <2>7. BrainCommitted'
    BY <2>2, <2>4
  <2>8. PointerIntact' /\ AnsweredOnce'
    BY <2>2, <2>4
  <2> QED
    BY <2>5, <2>6, <2>7, <2>8
<1>11. CASE Seal
  <2>1. PICK b \in brain : SaveBrain(b.neural)
    BY <1>11 DEF Seal
  <2>2. /\ step = "freezing" /\ step' = "sealed"
        /\ draft' = {[m EXCEPT !.binding = learned'.save] : m \in draft}
        /\ UNCHANGED <<manifests, active, segment, acked>>
    BY <1>11 DEF Seal
  <2>3. /\ learned' = [learned EXCEPT !.save = learned.save + 1]
        /\ brain' = {[neural |-> learned', clock |-> c.clock] : c \in brain}
    <3>1. b.neural = learned
      BY <2>2
    <3> HIDE DEF IInv
    <3> QED
      BY <2>1, <3>1 DEF SaveBrain
  <2>4. /\ learned' \in Neural
        /\ learned'.inputs = learned.inputs /\ learned'.replies = learned.replies
    BY <2>3
  <2>5. brain' = {[neural |-> learned', clock |-> b.clock]}
    <3>1. brain = {b}
      OBVIOUS
    <3> QED
      BY <2>3, <3>1
  <2>6. /\ draft' \subseteq Manifest
        /\ \A d \in draft' : \E m \in draft : d.id = m.id /\ d.turn = m.turn /\ d.status = m.status
    BY <2>2, <2>4
  <2>7. Single(draft)'
    <3>1. CASE draft = {}
      BY <2>2, <3>1
    <3>2. CASE \E m \in draft : draft = {m}
      <4>1. PICK m \in draft : draft = {m}
        BY <3>2
      <4>2. draft' = {[m EXCEPT !.binding = learned'.save]}
        BY <2>2, <4>1
      <4> QED
        BY <4>2
    <3> QED
      BY <3>1, <3>2
  <2> QED
    BY <2>2, <2>4, <2>5, <2>6, <2>7, SMTT(30)
<1>12. CASE WriteManifest
  BY <1>12, SMTT(30) DEF WriteManifest
<1>13. CASE MovePointer
  BY <1>13, SMTT(30) DEF MovePointer, EndSegment, EmptyInbox, Inbox
<1>14. CASE ResumeCompleted
  BY <1>14, SMTT(30) DEF ResumeCompleted, Publish
<1>15. CASE StopSaved
  BY <1>15, SMTT(30) DEF StopSaved, Publish
<1>16. CASE Cancelled
  BY <1>16, SMTT(30) DEF Cancelled, EndSegment, KeptBy, EmptyInbox, Inbox
<1>17. CASE SegmentFails
  BY <1>17, SMTT(30) DEF SegmentFails, EndSegment, KeptBy, EmptyInbox, Inbox
<1>18. CASE Crash
  BY <1>18, SMTT(30) DEF Crash, EndSegment, KeptBy, EmptyInbox, Inbox
<1>19. CASE UNCHANGED vars
  BY <1>19 DEF vars
<1> QED
  BY <1>1, <1>2, <1>3, <1>4, <1>5, <1>6, <1>7, <1>8, <1>9, <1>10, <1>11, <1>12, <1>13,
     <1>14, <1>15, <1>16, <1>17, <1>18, <1>19 DEF Next

-----------------------------------------------------------------------------
(* Observations.                                                           *)

LEMMA OfferedOnce ==
    ASSUME NEW i \in Inbox, NEW obs \in SUBSET Observations, Inboxed(i)
    PROVE  /\ Inboxed(Offered(i, obs))
           /\ Offered(i, obs).seen = i.seen \cup obs
<1>1. /\ Offered(i, obs).pending = i.pending \cup (obs \ i.seen)
      /\ Offered(i, obs).seen = i.seen \cup obs
      /\ Offered(i, obs).used = i.used
  BY DEF Offered, Inbox
<1>2. \A o \in Observations : i.used[o] \in Nat
  BY DEF Inbox
<1> QED
  BY <1>1, <1>2 DEF Inboxed

LEMMA NoSegmentInboxed == Inboxed(NoSegment.inbox)
BY DEF Inboxed, NoSegment, EmptyInbox

(* What a segment's end, without an answer, leaves acknowledged.           *)
LEMMA KeptDelivered ==
    ASSUME IInv, OInv, EndSegment, acked' = KeptBy(active), UNCHANGED <<learned, active>>,
           ~Idle \/ brain' = {}
    PROVE  OInv'
<1>1. Inboxes' /\ DraftComplete' /\ SavedRuns'
  BY NoSegmentInboxed DEF EndSegment, OInv, Inboxes, DraftComplete, Freezing, SavedRuns, Idle
<1>2. Delivered'
  BY DEF EndSegment, KeptBy, Delivered, Idle
<1>3. acked' \subseteq acked
  BY DEF KeptBy
<1>4. ASSUME ~Idle, NEW m \in active, m.status = "suspended", learned.replies[m.turn] > 0 PROVE acked = {}
  <2>1. m.turn = segment.turn /\ learned.replies[m.turn] # 0
    BY <1>4 DEF OInv, SavedRuns
  <2>2. step \notin Freezing \cup {"generating"}
    BY <2>1 DEF IInv, TurnsOpen
  <2>3. step # "admitting"
    BY <2>1, <1>4 DEF IInv, Types, BrainCommitted
  <2>4. step = "answered"
    BY <1>4, <2>2, <2>3 DEF IInv, Types, Steps, Freezing, Idle
  <2> QED
    BY <2>4 DEF OInv, Delivered
<1>5. AnsweredSaved'
  <2>1. SUFFICES ASSUME NEW m \in active, m.status = "suspended", learned.replies[m.turn] > 0
                 PROVE  m.binding < learned.save /\ (brain' # {} => acked' = {})
    BY DEF AnsweredSaved, Resident
  <2> QED
    BY <2>1, <1>3, <1>4 DEF OInv, AnsweredSaved
<1> QED
  BY <1>1, <1>2, <1>5 DEF OInv

LEMMA ObservationStep == IInv /\ OInv /\ [Next]_vars => OInv'
<1> SUFFICES ASSUME IInv, OInv, [Next]_vars PROVE OInv'
  OBVIOUS
<1>t. /\ learned.save \in Nat /\ segment.inbox \in Inbox /\ segment \in Segment
      /\ \A m \in active \cup draft : m \in Manifest /\ m.inbox \in Inbox /\ m.binding \in Nat
  BY DEF IInv, Types, Neural, Segment, Manifest
<1> USE DEF OInv
<1>1. CASE LoadBrain
  <2>1. step = "idle" /\ \A m \in active : m.status = "suspended" => m.binding = learned.save
    BY <1>1 DEF LoadBrain, Idle, Compatible
  <2>2. UNCHANGED <<disk, step, segment, draft, acked>>
    BY <1>1 DEF LoadBrain
  <2>3. AnsweredSaved'
    BY <2>1, <2>2, <1>t DEF disk, AnsweredSaved
  <2> QED
    BY <2>2, <2>3 DEF disk, Inboxes, DraftComplete, SavedRuns, Delivered, Idle
<1>2. ASSUME NEW obs \in SUBSET Observations, SuspendInstance(obs) PROVE OInv'
  <2>1. step = "idle" /\ brain' = {} /\ UNCHANGED <<step, segment, draft>> /\ draft = {}
    BY <1>2 DEF SuspendInstance, Idle, IInv, DraftOwned, Freezing
  <2>2. CASE Saved("suspended")
    <3>1. PICK m \in active : Publish([m EXCEPT !.inbox = Offered(@, obs)])
      BY <1>2, <2>2 DEF SuspendInstance
    <3>2. PICK n : n = [m EXCEPT !.inbox = Offered(@, obs)]
      OBVIOUS
    <3>3. /\ n.inbox = Offered(m.inbox, obs) /\ n.status = m.status /\ n.turn = m.turn /\ n.binding = m.binding
          /\ active' = {n} /\ active = {m}
      BY <3>1, <3>2, <1>t DEF Publish, Manifest, IInv, Singles, Single
    <3>4. m.status = "suspended" /\ acked' = acked \cup obs /\ learned' = learned
      BY <1>2, <2>2, <3>3 DEF SuspendInstance, Saved
    <3>5. Inboxed(n.inbox) /\ n.inbox.seen = m.inbox.seen \cup obs
      BY <3>3, <1>t, OfferedOnce DEF Inboxes
    <3>6. Inboxes' /\ DraftComplete' /\ SavedRuns'
      BY <2>1, <3>3, <3>4, <3>5 DEF Inboxes, DraftComplete, SavedRuns, Freezing, Idle
    <3>7. Delivered'
      BY <2>1, <3>3, <3>4, <3>5 DEF Delivered, Idle
    <3>8. AnsweredSaved'
      BY <2>1, <3>3, <3>4 DEF AnsweredSaved, Resident
    <3> QED
      BY <3>6, <3>7, <3>8
  <2>3. CASE ~Saved("suspended")
    <3>1. PICK b \in brain : learned' = [b.neural EXCEPT !.save = learned.save + 1]
      BY <1>2, <2>3 DEF SuspendInstance
    <3>2. learned' = [learned EXCEPT !.save = learned.save + 1]
      BY <3>1, <2>1 DEF IInv, BrainCommitted
    <3>3. learned'.save = learned.save + 1 /\ active' = active /\ acked' = acked
      BY <1>2, <2>3, <3>2 DEF SuspendInstance, IInv, Types, Neural
    <3>4. \A m \in active : m.status # "suspended"
      BY <2>3 DEF Saved
    <3>5. Inboxes' /\ DraftComplete' /\ SavedRuns'
      BY <2>1, <3>3, <3>4, <1>t DEF Inboxes, DraftComplete, SavedRuns, Freezing, Idle
    <3>6. Delivered' /\ AnsweredSaved'
      BY <2>1, <3>3, <3>4 DEF Delivered, AnsweredSaved, Idle
    <3> QED
      BY <3>5, <3>6
  <2> QED
    BY <2>2, <2>3
<1>3. ASSUME NEW obs \in SUBSET Observations, ResumeChat(obs) PROVE OInv'
  <2>1. PICK m \in active, b \in brain :
           LET merged == [m EXCEPT !.inbox = Offered(@, obs)]
           IN  /\ m.status = "suspended" /\ b.neural.replies[m.turn] = 0
               /\ Publish(merged)
               /\ IF b.neural.save = m.binding /\ b.clock = "paused"
                  THEN /\ segment' = [turn |-> m.turn, resumed |-> TRUE, inbox |-> merged.inbox]
                       /\ step' = "generating"
                       /\ brain' = {[b EXCEPT !.clock = "running"]}
                  ELSE UNCHANGED <<segment, step, brain>>
    BY <1>3 DEF ResumeChat
  <2>2. PICK n : n = [m EXCEPT !.inbox = Offered(@, obs)]
    OBVIOUS
  <2>3. /\ n.inbox = Offered(m.inbox, obs) /\ n.status = "suspended" /\ n.turn = m.turn /\ n.binding = m.binding
        /\ active' = {n} /\ active = {m}
    BY <2>1, <2>2, <1>t DEF Publish, Manifest, IInv, Singles, Single
  <2>4. /\ step = "idle" /\ acked' = acked \cup obs /\ UNCHANGED <<learned, draft>> /\ draft = {}
    BY <1>3 DEF ResumeChat, Idle, IInv, DraftOwned, Freezing
  <2>5. learned.replies[n.turn] = 0
    BY <2>1, <2>3, <2>4 DEF IInv, BrainCommitted
  <2>6. Inboxed(n.inbox) /\ n.inbox.seen = m.inbox.seen \cup obs
    BY <2>3, <1>t, OfferedOnce DEF Inboxes
  <2>7. AnsweredSaved'
    BY <2>3, <2>4, <2>5 DEF AnsweredSaved
  <2>8. \A o \in acked : o \in m.inbox.seen
    BY <2>3, <2>4 DEF Delivered, Idle
  <2>9. CASE UNCHANGED <<segment, step>>
    BY <2>3, <2>4, <2>6, <2>7, <2>8, <2>9
    DEF Inboxes, DraftComplete, SavedRuns, Delivered, Freezing, Idle
  <2>10. CASE segment' = [turn |-> m.turn, resumed |-> TRUE, inbox |-> n.inbox] /\ step' = "generating"
    <3>1. segment'.inbox = n.inbox /\ segment'.turn = m.turn
      BY <2>10
    <3> QED
      BY <2>3, <2>4, <2>6, <2>7, <2>8, <2>10, <3>1
      DEF Inboxes, DraftComplete, SavedRuns, Delivered, Freezing, Idle
  <2> QED
    BY <2>1, <2>2, <2>9, <2>10
<1>4. ASSUME NEW t \in Turns, EnterChat(t) PROVE OInv'
  <2>1. /\ step = "idle" /\ step' \in {"admitting", "generating"} /\ acked' = {}
        /\ UNCHANGED <<disk, draft>> /\ draft = {} /\ \A m \in active : m.status # "suspended"
    BY <1>4 DEF EnterChat, Idle, Saved, IInv, DraftOwned, Freezing
  <2>2. segment'.inbox = NoSegment.inbox
    BY <1>4 DEF EnterChat, NoSegment
  <2> QED
    BY <2>1, <2>2, NoSegmentInboxed
    DEF disk, Inboxes, DraftComplete, SavedRuns, Delivered, AnsweredSaved, Freezing, Idle
<1>5. CASE Admit
  <2>1. /\ step = "admitting" /\ step' = "generating" /\ UNCHANGED <<active, segment, draft, acked>> /\ draft = {}
    BY <1>5 DEF Admit, IInv, DraftOwned, Freezing
  <2>2. PICK b \in brain : SaveBrain(b.neural)
    BY <1>5 DEF Admit
  <2>3. learned'.save = learned.save + 1
    BY <2>2 DEF SaveBrain, IInv, Types, Brain, Neural
  <2>4. AnsweredSaved'
    BY <2>1, <2>3, <1>t DEF AnsweredSaved, DraftComplete, Idle
  <2> QED
    BY <2>1, <2>3, <2>4, <1>t DEF Inboxes, DraftComplete, SavedRuns, Delivered, Freezing, Idle
<1>6. CASE Answer
  <2>1. /\ step = "generating" /\ step' \in {"idle", "answered"} /\ acked' = {} /\ active' = active
        /\ draft' = {}
    BY <1>6 DEF Answer, EndSegment, IInv, DraftOwned, Freezing
  <2>2. PICK b \in brain : SaveBrain([b.neural EXCEPT !.replies[segment.turn] = @ + 1])
    BY <1>6 DEF Answer
  <2>3. learned'.save = learned.save + 1
    BY <2>2 DEF SaveBrain, IInv, Types, Brain, Neural
  <2>4. segment' = segment \/ (segment' = NoSegment /\ step' = "idle")
    BY <1>6 DEF Answer, EndSegment
  <2>5. AnsweredSaved'
    BY <2>1, <2>3, <1>t DEF AnsweredSaved, DraftComplete
  <2>6. SavedRuns'
    BY <2>1, <2>4 DEF SavedRuns, Idle
  <2> QED
    BY <2>1, <2>3, <2>4, <2>5, <2>6, <1>t, NoSegmentInboxed DEF Inboxes, DraftComplete, Delivered, Freezing, Idle
<1>7. CASE Finish
  <2>1. PICK m \in active : Publish([m EXCEPT !.status = "completed"])
    BY <1>7 DEF Finish
  <2>2. /\ step = "answered" /\ acked' = {} /\ step' = "idle" /\ draft' = {} /\ segment' = NoSegment
        /\ learned' = learned
    BY <1>7 DEF Finish, EndSegment, Delivered
  <2>n. PICK n : n = [m EXCEPT !.status = "completed"]
    OBVIOUS
  <2>3. active' = {n} /\ n.inbox = m.inbox /\ n.status = "completed" /\ n.binding = m.binding
    BY <2>1, <2>n, <1>t DEF Publish, Manifest
  <2> QED
    BY <2>2, <2>3, NoSegmentInboxed
    DEF Inboxes, DraftComplete, SavedRuns, Delivered, AnsweredSaved, Freezing, Idle
<1>8. CASE Drain
  <2>1. /\ step = "generating" /\ UNCHANGED <<disk, brain, step, draft, acked>> /\ draft = {}
    BY <1>8 DEF Drain, IInv, DraftOwned, Freezing
  <2>2. PICK i \in Inbox : i = segment.inbox
    BY <1>t
  <2> DEFINE u == [o \in Observations |-> i.used[o] + IF o \in i.pending THEN 1 ELSE 0]
  <2>3. segment' = [segment EXCEPT !.inbox = [i EXCEPT !.pending = {}, !.used = u]]
    BY <1>8, <2>2, <1>t DEF Drain, Segment, Inbox
  <2>4. /\ segment'.inbox.pending = {} /\ segment'.inbox.seen = i.seen
        /\ segment'.inbox.used = u /\ segment'.turn = segment.turn
    BY <2>2, <2>3, <1>t DEF Segment, Inbox
  <2>5. Inboxed(segment'.inbox)
    <3>1. Inboxed(i) /\ \A o \in Observations : i.used[o] \in Nat
      BY <2>2 DEF Inboxes, Inbox
    <3>2. \A o \in Observations : u[o] <= 1 /\ (u[o] > 0 => o \in i.seen)
      BY <3>1 DEF Inboxed
    <3> HIDE DEF u
    <3> QED
      BY <2>4, <3>2 DEF Inboxed
  <2> HIDE DEF u
  <2> QED
    BY <2>1, <2>2, <2>4, <2>5 DEF disk, Inboxes, DraftComplete, SavedRuns, Delivered, AnsweredSaved, Freezing, Idle
<1>9. ASSUME NEW o \in Observations, Offer(o) PROVE OInv'
  <2>1. /\ step = "generating" /\ UNCHANGED <<disk, brain, step, draft>> /\ draft = {} /\ acked' = acked \cup {o}
    BY <1>9 DEF Offer, IInv, DraftOwned, Freezing
  <2>2. segment'.inbox = Offered(segment.inbox, {o}) /\ segment'.turn = segment.turn
    BY <1>9, <1>t DEF Offer, Segment
  <2>3. Inboxed(Offered(segment.inbox, {o})) /\ Offered(segment.inbox, {o}).seen = segment.inbox.seen \cup {o}
    BY <1>t, OfferedOnce DEF Inboxes
  <2> QED
    BY <2>1, <2>2, <2>3 DEF disk, Inboxes, DraftComplete, SavedRuns, Delivered, AnsweredSaved, Freezing, Idle
<1>10. CASE Freeze
  <2>1. PICK id \in Identifiers :
           draft' = {[id |-> id, turn |-> segment.turn, status |-> "suspended",
                      binding |-> 0, inbox |-> segment.inbox]}
    BY <1>10 DEF Freeze
  <2>d. PICK d : d = [id |-> id, turn |-> segment.turn, status |-> "suspended",
                      binding |-> 0, inbox |-> segment.inbox]
    OBVIOUS
  <2>2. /\ draft' = {d} /\ d.turn = segment.turn /\ d.status = "suspended" /\ d.binding = 0
        /\ d.inbox = segment.inbox
    BY <2>1, <2>d
  <2>3. /\ step = "generating" /\ step' = "freezing" /\ UNCHANGED <<disk, segment, acked>>
    BY <1>10 DEF Freeze
  <2> QED
    BY <2>2, <2>3, <1>t DEF disk, Inboxes, DraftComplete, SavedRuns, Delivered, AnsweredSaved, Freezing, Idle
<1>11. CASE Seal
  <2>1. PICK b \in brain : SaveBrain(b.neural)
    BY <1>11 DEF Seal
  <2>2. learned'.save = learned.save + 1
    BY <2>1 DEF SaveBrain, IInv, Types, Brain, Neural
  <2>3. /\ step = "freezing" /\ step' = "sealed" /\ UNCHANGED <<active, segment, acked>>
        /\ draft' = {[m EXCEPT !.binding = learned'.save] : m \in draft}
    BY <1>11 DEF Seal
  <2>4. PICK d \in draft : TRUE
    BY <2>3 DEF DraftComplete, Freezing
  <2>s. PICK k : k = learned'.save
    OBVIOUS
  <2>5. /\ draft' # {}
        /\ \A n \in draft' : n.binding = learned'.save /\ n.inbox = segment.inbox
    <3>1. draft' = {[m EXCEPT !.binding = k] : m \in draft}
      BY <2>3, <2>s
    <3>2. \A m \in draft : m \in Manifest /\ m.inbox = segment.inbox
      BY <1>t DEF DraftComplete
    <3>3. \A m \in draft : [m EXCEPT !.binding = k].binding = k /\ [m EXCEPT !.binding = k].inbox = segment.inbox
      BY <3>2 DEF Manifest
    <3> QED
      BY <2>4, <2>s, <3>1, <3>3
  <2>6. AnsweredSaved'
    BY <2>2, <2>3, <1>t DEF AnsweredSaved, DraftComplete, Idle
  <2> QED
    BY <2>2, <2>3, <2>5, <2>6, <1>t DEF Inboxes, DraftComplete, SavedRuns, Delivered, Freezing, Idle
<1>12. CASE WriteManifest
  BY <1>12 DEF WriteManifest, Inboxes, DraftComplete, SavedRuns, Delivered, AnsweredSaved, Freezing, Idle
<1>13. CASE MovePointer
  <2>1. /\ step = "written" /\ active' = draft /\ step' = "idle" /\ segment' = NoSegment /\ draft' = {}
        /\ UNCHANGED <<learned, acked>>
    BY <1>13 DEF MovePointer, EndSegment
  <2>2. PICK d \in draft : d.status = "suspended" /\ d.inbox = segment.inbox
    BY <2>1 DEF DraftComplete, Freezing, IInv, DraftOwned
  <2>3. Delivered'
    BY <2>1, <2>2 DEF Delivered, Idle
  <2>4. \A m \in draft : learned.replies[m.turn] = 0
    BY <2>1 DEF IInv, DraftOwned, TurnsOpen, Freezing
  <2>5. AnsweredSaved'
    BY <2>1, <2>4 DEF AnsweredSaved
  <2> QED
    BY <2>1, <2>3, <2>5, NoSegmentInboxed DEF Inboxes, DraftComplete, SavedRuns, Freezing, Idle
<1>14. CASE ResumeCompleted
  <2>1. PICK m \in active, b \in brain : /\ m.status = "suspended" /\ b.neural.replies[m.turn] > 0
                                         /\ Publish([m EXCEPT !.status = "completed"])
    BY <1>14 DEF ResumeCompleted
  <2>2. step = "idle" /\ brain # {} /\ UNCHANGED <<learned, brain, step, segment, draft, acked>>
    BY <1>14 DEF ResumeCompleted, Idle, Resident
  <2>n. PICK n : n = [m EXCEPT !.status = "completed"]
    OBVIOUS
  <2>3. active' = {n} /\ n.inbox = m.inbox /\ n.status = "completed" /\ n.binding = m.binding
    BY <2>1, <2>n, <1>t DEF Publish, Manifest
  <2>4. learned.replies[m.turn] > 0
    BY <2>1, <2>2 DEF IInv, BrainCommitted
  <2>5. acked = {}
    BY <2>1, <2>2, <2>4 DEF AnsweredSaved, Idle, Resident
  <2> QED
    BY <2>2, <2>3, <2>5 DEF Inboxes, DraftComplete, SavedRuns, Delivered, AnsweredSaved, Freezing, Idle
<1>15. CASE StopSaved
  <2>1. PICK m \in active : Publish([m EXCEPT !.status = "stopped"])
    BY <1>15 DEF StopSaved
  <2>2. step = "idle" /\ acked' = {} /\ UNCHANGED <<learned, brain, step, segment, draft>>
    BY <1>15 DEF StopSaved, Idle
  <2>n. PICK n : n = [m EXCEPT !.status = "stopped"]
    OBVIOUS
  <2>3. active' = {n} /\ n.inbox = m.inbox /\ n.status = "stopped" /\ n.binding = m.binding
    BY <2>1, <2>n, <1>t DEF Publish, Manifest
  <2> QED
    BY <2>2, <2>3 DEF Inboxes, DraftComplete, SavedRuns, Delivered, AnsweredSaved, Freezing, Idle
<1>16. CASE Cancelled
  BY <1>16, KeptDelivered DEF Cancelled, disk, Idle
<1>17. CASE SegmentFails
  BY <1>17, KeptDelivered DEF SegmentFails
<1>18. CASE Crash
  BY <1>18, KeptDelivered DEF Crash, disk
<1>19. CASE UNCHANGED vars
  BY <1>19 DEF vars, Inboxes, DraftComplete, SavedRuns, Delivered, AnsweredSaved, Freezing, Idle, Resident
<1> QED
  BY <1>1, <1>2, <1>3, <1>4, <1>5, <1>6, <1>7, <1>8, <1>9, <1>10, <1>11, <1>12, <1>13,
     <1>14, <1>15, <1>16, <1>17, <1>18, <1>19 DEF Next

(* The invariant holds in every state of the specification.                *)
THEOREM InvariantHolds == Spec => []IInv
BY InitInvariant, StepInvariant, PTL DEF Spec

(* The two files, the resident brain, the segment and the checkpoint in the making
   keep their types, with one pointer, one brain and one draft at most
   (ExecutionCheckpointStore, Worker.chat). *)
THEOREM Typing == Spec => []TypeOK
<1>1. \A S : Single(S) => Cardinality(S) <= 1
  <2> SUFFICES ASSUME NEW S, Single(S) PROVE Cardinality(S) <= 1
    OBVIOUS
  <2>1. Cardinality(S) \in {0, 1}
    BY FS_EmptySet, FS_Singleton DEF Single
  <2> QED BY <2>1
<1>2. IInv => TypeOK
  BY <1>1 DEF IInv, Types, Singles, TypeOK, Brain, Resident
<1> QED BY <1>2, InvariantHolds, PTL

(* A crash or a failed write at any step leaves active.json naming a manifest that
   is complete on disk (_publish and the cleanup of save()). *)
THEOREM PointerAlwaysIntact == Spec => []PointerIntact
<1>1. IInv => PointerIntact
  BY DEF IInv
<1> QED
  BY <1>1, InvariantHolds, PTL

(* However a turn is retried, suspended, resumed or lost, the committed brain
   learned its input at most once, and has answered it at most once and only
   with its input (the receipts of chat() and resume_chat()). *)
THEOREM TurnsAnsweredOnce == Spec => []AnsweredOnce
<1>1. IInv => AnsweredOnce
  BY DEF IInv
<1> QED
  BY <1>1, InvariantHolds, PTL

(* Every step, and every failure, leaves a stopped frontier buried.         *)
LEMMA TombstoneStep == IInv /\ Buried /\ [Next]_vars => Buried'
<1> SUFFICES ASSUME IInv, Buried, [Next]_vars PROVE Buried'
  OBVIOUS
<1>0. /\ Single(active) /\ active \subseteq manifests
      /\ draft # {} => step \in Freezing
      /\ \A d \in draft : d.status = "suspended"
  BY DEF IInv, Singles, PointerIntact, DraftOwned
<1>r. Idle => ~segment.resumed /\ draft = {}
  BY <1>0 DEF Buried, Idle, Freezing
<1> USE DEF Buried, Idle, Freezing, Single, NoSegment
<1>1. CASE LoadBrain
  BY <1>1 DEF LoadBrain, disk
<1>2. ASSUME NEW obs \in SUBSET Observations, SuspendInstance(obs) PROVE Buried'
  <2>1. CASE Saved("suspended")
    <3>1. PICK m \in active : Publish([m EXCEPT !.inbox = Offered(@, obs)])
      BY <1>2, <2>1 DEF SuspendInstance
    <3>2. PICK n : n = [m EXCEPT !.inbox = Offered(@, obs)]
      OBVIOUS
    <3>3. /\ m \in Manifest /\ m.status = "suspended" /\ active = {m}
      BY <1>0, <2>1 DEF Saved, IInv, Types
    <3>4. /\ n.id = m.id /\ n.status = "suspended"
          /\ manifests' = manifests \cup {n} /\ active' = {n}
      BY <3>1, <3>2, <3>3 DEF Publish, Manifest
    <3>5. step = "idle" /\ UNCHANGED <<step, segment, draft>>
      BY <1>2 DEF SuspendInstance
    <3> QED
      BY <1>r, <3>3, <3>4, <3>5
  <2>2. CASE ~Saved("suspended")
    BY <1>2, <2>2 DEF SuspendInstance
  <2> QED
    BY <2>1, <2>2
<1>3. ASSUME NEW obs \in SUBSET Observations, ResumeChat(obs) PROVE Buried'
  <2>1. PICK m \in active : m.status = "suspended" /\ Publish([m EXCEPT !.inbox = Offered(@, obs)])
    BY <1>3 DEF ResumeChat
  <2>2. PICK n : n = [m EXCEPT !.inbox = Offered(@, obs)]
    OBVIOUS
  <2>3. m \in Manifest /\ active = {m}
    BY <1>0 DEF IInv, Types
  <2>4. /\ n.id = m.id /\ n.status = "suspended"
        /\ manifests' = manifests \cup {n} /\ active' = {n}
    BY <2>1, <2>2, <2>3 DEF Publish, Manifest
  <2>5. /\ step = "idle" /\ draft' = draft
        /\ step' = "generating" \/ UNCHANGED <<segment, step>>
    BY <1>3 DEF ResumeChat
  <2> QED
    BY <1>r, <2>1, <2>3, <2>4, <2>5
<1>4. ASSUME NEW t \in Turns, EnterChat(t) PROVE Buried'
  BY <1>4 DEF EnterChat, disk
<1>5. CASE Admit
  BY <1>5 DEF Admit
<1>6. CASE Answer
  BY <1>0, <1>6 DEF Answer, EndSegment
<1>7. CASE Finish
  <2>1. PICK m \in active : Publish([m EXCEPT !.status = "completed"])
    BY <1>7 DEF Finish
  <2>2. PICK n : n = [m EXCEPT !.status = "completed"]
    OBVIOUS
  <2>3. m \in Manifest /\ active = {m} /\ m.status = "suspended"
    BY <1>0, <1>7 DEF IInv, Types, Finish
  <2>4. /\ n.id = m.id /\ n.status = "completed"
        /\ manifests' = manifests \cup {n} /\ active' = {n}
    BY <2>1, <2>2, <2>3 DEF Publish, Manifest
  <2>5. draft' = {} /\ segment'.resumed = FALSE /\ step' = "idle"
    BY <1>7 DEF Finish, EndSegment
  <2> QED
    BY <2>3, <2>4, <2>5
<1>8. CASE Drain
  BY <1>8 DEF Drain, disk, IInv, Types, Segment
<1>9. ASSUME NEW o \in Observations, Offer(o) PROVE Buried'
  BY <1>9 DEF Offer, disk, IInv, Types, Segment
<1>10. CASE Freeze
  <2>1. PICK id \in Identifiers :
           /\ \A m \in manifests : m.id # id
           /\ \A d \in draft' : d.id = id
    BY <1>10 DEF Freeze
  <2>2. step' = "freezing" /\ UNCHANGED <<manifests, active, segment>>
    BY <1>10 DEF Freeze, disk
  <2> QED
    BY <2>1, <2>2
<1>11. CASE Seal
  <2>1. \A d \in draft' : \E e \in draft : d.id = e.id
    BY <1>11 DEF Seal, IInv, Types, Manifest
  <2>2. step' = "sealed" /\ UNCHANGED <<manifests, active, segment>>
    BY <1>11 DEF Seal
  <2> QED
    BY <2>1, <2>2
<1>12. CASE WriteManifest
  BY <1>0, <1>12 DEF WriteManifest
<1>13. CASE MovePointer
  BY <1>0, <1>13 DEF MovePointer, EndSegment
<1>14. CASE ResumeCompleted
  <2>1. PICK m \in active : m.status = "suspended" /\ Publish([m EXCEPT !.status = "completed"])
    BY <1>14 DEF ResumeCompleted
  <2>2. PICK n : n = [m EXCEPT !.status = "completed"]
    OBVIOUS
  <2>3. m \in Manifest /\ active = {m}
    BY <1>0 DEF IInv, Types
  <2>4. /\ n.id = m.id /\ n.status = "completed"
        /\ manifests' = manifests \cup {n} /\ active' = {n}
    BY <2>1, <2>2, <2>3 DEF Publish, Manifest
  <2>5. step = "idle" /\ UNCHANGED <<step, segment, draft>>
    BY <1>14 DEF ResumeCompleted
  <2> QED
    BY <1>r, <2>1, <2>3, <2>4, <2>5
<1>15. CASE StopSaved
  <2>1. PICK m \in active : m.status = "suspended" /\ Publish([m EXCEPT !.status = "stopped"])
    BY <1>15 DEF StopSaved
  <2>2. PICK n : n = [m EXCEPT !.status = "stopped"]
    OBVIOUS
  <2>3. m \in Manifest /\ active = {m}
    BY <1>0 DEF IInv, Types
  <2>4. /\ n.id = m.id /\ n.status = "stopped"
        /\ manifests' = manifests \cup {n} /\ active' = {n}
    BY <2>1, <2>2, <2>3 DEF Publish, Manifest
  <2>5. step = "idle" /\ UNCHANGED <<step, segment, draft>>
    BY <1>15 DEF StopSaved
  <2> QED
    BY <1>r, <2>1, <2>3, <2>4, <2>5
<1>16. CASE Cancelled
  BY <1>16 DEF Cancelled, EndSegment, disk
<1>17. CASE SegmentFails
  BY <1>17 DEF SegmentFails, EndSegment
<1>18. CASE Crash
  BY <1>18 DEF Crash, EndSegment, disk
<1>19. CASE UNCHANGED vars
  BY <1>19 DEF vars
<1> QED
  BY <1>1, <1>2, <1>3, <1>4, <1>5, <1>6, <1>7, <1>8, <1>9, <1>10, <1>11, <1>12, <1>13,
     <1>14, <1>15, <1>16, <1>17, <1>18, <1>19 DEF Next

(* A frontier stopped while it was saved is never resumed and never becomes the
   saved frontier again, although its turn may be sent again and suspended under
   another identity (stop_suspended_chat, ExecutionCheckpointStore.finish, restore). *)
THEOREM TombstonesFinal == Spec => []TombstoneIsFinal
<1>1. Init => Buried
  BY DEF Init, Buried, Idle, NoSegment
<1>2. Buried => TombstoneIsFinal
  BY DEF Buried, TombstoneIsFinal
<1> QED
  BY <1>1, <1>2, InvariantHolds, TombstoneStep, PTL DEF Spec

(* What the host was told the worker has is there, and used at most once: in the
   running segment, or in the saved frontier once that is suspended, whatever is
   delivered again, cancelled, lost or resumed (prepare_chat_observation, worker.py). *)
THEOREM ObservationsOnce == Spec => []ObservationsCountOnce
<1>1. Init => OInv
  BY NoSegmentInboxed
  DEF Init, OInv, Inboxes, DraftComplete, SavedRuns, Delivered, AnsweredSaved, Freezing, Idle
<1>2. IInv /\ OInv => ObservationsCountOnce
  BY DEF IInv, Types, OInv, Inboxes, Inboxed, Delivered, ObservationsCountOnce, Idle
<1> QED
  BY <1>1, <1>2, InvariantHolds, ObservationStep, PTL DEF Spec

-----------------------------------------------------------------------------
(***************************************************************************)
(* The host's side of a saved turn: Load, Unload and the chat turns of      *)
(* InstanceLifecycle, for any turns and any number of worker deaths.  The   *)
(* invariant relates what the host believes to what the worker holds by     *)
(* way of the replies between them, which arrive in order: a belief about   *)
(* the frontier may be out of date only while the reply that corrects it is *)
(* still in the stream.  The engine's line and the writer queue do not      *)
(* occur in it: what is proved holds whatever their order.                  *)
(***************************************************************************)
(***************************************************************************)
(* What the worker wrote and the host has not read, as the host's answers   *)
(* depend on it: x is in the stream, at most once, and nothing but          *)
(* inspections comes after it.                                              *)
(***************************************************************************)
Names == {"op", "status", "stopper"}

Has(s, x) == \E i \in DOMAIN s : s[i] = x
Lone(s, x) == \A i, j \in DOMAIN s : s[i] = x /\ s[j] = x => i = j
Quiet(s) == \A i \in DOMAIN s : s[i] \in {"op", "status"}
LastWord(s, x) == \E i \in DOMAIN s : /\ s[i] = x
                                      /\ \A j \in DOMAIN s : j > i => s[j] \in {"op", "status"}

\* A message at the end of the stream.
LEMMA Appended ==
    ASSUME NEW A, NEW s \in Seq(A), NEW y \in A, NEW x
    PROVE  /\ Append(s, y) \in Seq(A)
           /\ Has(Append(s, y), x) <=> Has(s, x) \/ x = y
           /\ Lone(s, x) /\ (x = y => ~Has(s, x)) => Lone(Append(s, y), x)
           /\ Quiet(Append(s, y)) => Quiet(s) /\ y \in {"op", "status"}
           /\ LastWord(Append(s, y), x) => y = x \/ (y \in {"op", "status"} /\ LastWord(s, x))
<1> DEFINE n == Len(s)
           r == Append(s, y)
<1>1. /\ n \in Nat /\ DOMAIN s = 1..n /\ DOMAIN r = 1..(n + 1)
      /\ r[n + 1] = y /\ \A i \in 1..n : r[i] = s[i]
      /\ r \in Seq(A)
  OBVIOUS
<1> HIDE DEF n, r
<1>2. Has(r, x) <=> Has(s, x) \/ x = y
  BY <1>1 DEF Has
<1>3. Lone(s, x) /\ (x = y => ~Has(s, x)) => Lone(r, x)
  <2> SUFFICES ASSUME Lone(s, x), x = y => ~Has(s, x),
                      NEW i \in 1..(n + 1), NEW j \in 1..(n + 1), r[i] = x, r[j] = x
               PROVE  i = j
    BY <1>1 DEF Lone
  <2>1. CASE i = n + 1 /\ j \in 1..n
    BY <2>1, <1>1 DEF Has
  <2>2. CASE j = n + 1 /\ i \in 1..n
    BY <2>2, <1>1 DEF Has
  <2>3. CASE i \in 1..n /\ j \in 1..n
    BY <2>3, <1>1 DEF Lone
  <2> QED BY <2>1, <2>2, <2>3, <1>1
<1>4. Quiet(r) => Quiet(s) /\ y \in {"op", "status"}
  <2> SUFFICES ASSUME Quiet(r) PROVE Quiet(s) /\ y \in {"op", "status"}
    OBVIOUS
  <2>1. \A i \in 1..n : i \in 1..(n + 1)
    BY <1>1
  <2>2. n + 1 \in 1..(n + 1)
    BY <1>1
  <2> QED BY <2>1, <2>2, <1>1 DEF Quiet
<1>5. LastWord(r, x) => y = x \/ (y \in {"op", "status"} /\ LastWord(s, x))
  <2> SUFFICES ASSUME LastWord(r, x), y # x PROVE y \in {"op", "status"} /\ LastWord(s, x)
    OBVIOUS
  <2>1. PICK i \in 1..(n + 1) :
           r[i] = x /\ \A j \in 1..(n + 1) : j > i => r[j] \in {"op", "status"}
    BY <1>1 DEF LastWord
  <2>2. i \in 1..n
    BY <2>1, <1>1
  <2>3. y \in {"op", "status"}
    BY <2>1, <2>2, <1>1
  <2>4. \A j \in 1..n : j > i => s[j] \in {"op", "status"}
    BY <2>1, <1>1
  <2> QED BY <2>1, <2>2, <2>3, <2>4, <1>1 DEF LastWord
<1> QED BY <1>1, <1>2, <1>3, <1>4, <1>5 DEF r

\* The first message taken from the stream.
LEMMA Taken ==
    ASSUME NEW A, NEW s \in Seq(A), s # <<>>, NEW x
    PROVE  /\ Tail(s) \in Seq(A)
           /\ Has(s, x) <=> Has(Tail(s), x) \/ x = Head(s)
           /\ Lone(s, x) => Lone(Tail(s), x) /\ (x = Head(s) => ~Has(Tail(s), x))
           /\ Quiet(Tail(s)) /\ Head(s) \in {"op", "status"} => Quiet(s)
           /\ Quiet(Tail(s)) /\ Head(s) = x => LastWord(s, x)
           /\ LastWord(Tail(s), x) => LastWord(s, x)
<1> DEFINE n == Len(s)
           r == Tail(s)
<1>1. /\ n \in Nat \ {0} /\ DOMAIN s = 1..n /\ DOMAIN r = 1..(n - 1)
      /\ Head(s) = s[1] /\ \A i \in 1..(n - 1) : r[i] = s[i + 1]
      /\ r \in Seq(A)
  OBVIOUS
<1> HIDE DEF n, r
<1>2. /\ \A i \in 1..(n - 1) : i + 1 \in 1..n
      /\ \A i \in 1..n : i # 1 => i - 1 \in 1..(n - 1) /\ r[i - 1] = s[i]
      /\ 1 \in 1..n
  BY <1>1
<1>3. Has(s, x) <=> Has(r, x) \/ x = Head(s)
  BY <1>1, <1>2 DEF Has
<1>4. Lone(s, x) => Lone(r, x) /\ (x = Head(s) => ~Has(r, x))
  <2> SUFFICES ASSUME Lone(s, x) PROVE Lone(r, x) /\ (x = Head(s) => ~Has(r, x))
    OBVIOUS
  <2>1. \A i \in 1..(n - 1) : i \in Nat /\ i + 1 # 1
    BY <1>1
  <2>2. \A i, j \in 1..(n - 1) : i + 1 = j + 1 => i = j
    BY <1>1
  <2>3. Lone(r, x)
    <3> SUFFICES ASSUME NEW i \in 1..(n - 1), NEW j \in 1..(n - 1), r[i] = x, r[j] = x
                 PROVE  i = j
      BY <1>1 DEF Lone
    <3>1. s[i + 1] = x /\ s[j + 1] = x /\ i + 1 \in 1..n /\ j + 1 \in 1..n
      BY <1>1, <1>2
    <3>2. i + 1 = j + 1
      BY <3>1, <1>1 DEF Lone
    <3> QED BY <3>2, <2>2
  <2>4. ASSUME x = Head(s), NEW i \in 1..(n - 1), r[i] = x PROVE FALSE
    <3>1. s[i + 1] = x /\ s[1] = x /\ i + 1 \in 1..n /\ i + 1 # 1
      BY <2>1, <2>4, <1>1, <1>2
    <3> QED BY <3>1, <1>1, <1>2 DEF Lone
  <2>5. x = Head(s) => ~Has(r, x)
    BY <2>4, <1>1 DEF Has
  <2> QED BY <2>3, <2>5
<1>5. Quiet(r) /\ Head(s) \in {"op", "status"} => Quiet(s)
  BY <1>1, <1>2 DEF Quiet
<1>6. Quiet(r) /\ Head(s) = x => LastWord(s, x)
  <2> SUFFICES ASSUME Quiet(r), Head(s) = x PROVE LastWord(s, x)
    OBVIOUS
  <2>1. \A j \in 1..n : j > 1 => j # 1
    BY <1>1
  <2>2. \A j \in 1..n : j > 1 => s[j] \in {"op", "status"}
    BY <2>1, <1>1, <1>2 DEF Quiet
  <2> QED BY <2>2, <1>1, <1>2 DEF LastWord
<1>7. LastWord(r, x) => LastWord(s, x)
  <2> SUFFICES ASSUME LastWord(r, x) PROVE LastWord(s, x)
    OBVIOUS
  <2>1. PICK i \in 1..(n - 1) :
           r[i] = x /\ \A j \in 1..(n - 1) : j > i => r[j] \in {"op", "status"}
    BY <1>1 DEF LastWord
  <2>2. s[i + 1] = x /\ i + 1 \in 1..n
    BY <2>1, <1>1, <1>2
  <2>3. \A j \in 1..n : j > i + 1 => j # 1 /\ j - 1 > i
    BY <1>1, <2>1
  <2>4. \A j \in 1..n : j > i + 1 => s[j] \in {"op", "status"}
    BY <2>1, <2>3, <1>2
  <2> QED BY <2>2, <2>4, <1>1 DEF LastWord
<1> QED BY <1>1, <1>3, <1>4, <1>5, <1>6, <1>7 DEF r

(***************************************************************************)
(* The invariant, in parts.                                                 *)
(***************************************************************************)
FlagsTyped == /\ phase \in Phases /\ admitted \in BOOLEAN /\ hold \in BOOLEAN
              /\ closing \in BOOLEAN /\ resident \in BOOLEAN
              /\ frontier \in ChatTurns \cup {None} /\ saved \in ChatTurns \cup {None}
RecordsTyped == /\ op \in [kind : {"none", "load", "unload"}, at : Points,
                            saw : ChatTurns \cup {None}]
                /\ query \in [at : {"idle", "asked", "replied"}, fresh : BOOLEAN,
                              resident : BOOLEAN, saved : ChatTurns \cup {None}]
TurnsTyped == turn \in [ChatTurns -> TurnPoints]
HostTypes == /\ FlagsTyped /\ RecordsTyped /\ TurnsTyped
             /\ replies \in Seq(ChatTurns \cup Names)

\* An operation or a query waits for exactly the reply that is on its way.
RepliesSent == /\ Has(replies, "op") <=>
                     op.at \in {"inspected", "verified", "released", "unreleased"}
               /\ Has(replies, "status") <=> query.at = "replied"
               /\ Lone(replies, "op") /\ Lone(replies, "status")

\* Load and Unload exclude each other, and what each has withdrawn stays so.
OpKinds == /\ op.at \in {"inspecting", "inspected", "loading", "verifying", "verified"} =>
                 op.kind = "load"
           /\ op.at \in {"scanning", "boundary", "releasing", "released", "unreleased"} =>
                 op.kind = "unload"
           /\ op.kind = "load" => phase # "loaded"
           /\ op.kind = "unload" => ~admitted

\* The runtime a loaded brain, or a verified Load, counts on.
Residency == /\ IsLoaded => resident \/ closing
             /\ op.at = "verified" => resident \/ closing

\* An inspection is out of date only while a later reply about the frontier
\* is behind it, and so is the frontier the host believes in.
ViewsTrue == /\ op.at = "verified" /\ LastWord(replies, "op") => op.saw = saved
             /\ query.at = "replied" /\ LastWord(replies, "status") => query.saved = saved
             /\ IsLoaded /\ Quiet(replies) /\ frontier # None => frontier = saved

\* Only turns are committed, and a committed one is not executed or suspended again.
Fates == committed \subseteq ChatTurns /\ CommittedOnce

HostInv == /\ HostTypes /\ RepliesSent /\ OpKinds /\ Residency /\ ViewsTrue
           /\ NothingStranded /\ Fates

\* The worker answers y.
LEMMA Replied ==
    ASSUME HostTypes, NEW y \in ChatTurns \cup Names, Reply(y)
    PROVE  /\ replies' \in Seq(ChatTurns \cup Names)
           /\ \A x \in Names :
                 /\ Has(replies', x) <=> Has(replies, x) \/ x = y
                 /\ Lone(replies, x) /\ (x = y => ~Has(replies, x)) => Lone(replies', x)
                 /\ LastWord(replies', x) =>
                       x = y \/ (y \in {"op", "status"} /\ LastWord(replies, x))
           /\ Quiet(replies') => Quiet(replies) /\ y \in {"op", "status"}
           /\ ~closing /\ closing' = closing /\ deaths' = deaths
<1> replies \in Seq(ChatTurns \cup Names)
  BY DEF HostTypes
<1> DEFINE r == Append(replies, y)
<1>1. /\ r \in Seq(ChatTurns \cup Names)
      /\ \A x : /\ Has(r, x) <=> Has(replies, x) \/ x = y
                /\ Lone(replies, x) /\ (x = y => ~Has(replies, x)) => Lone(r, x)
                /\ LastWord(r, x) => y = x \/ (y \in {"op", "status"} /\ LastWord(replies, x))
      /\ Quiet(r) => Quiet(replies) /\ y \in {"op", "status"}
  BY Appended
<1>2. replies' = r /\ ~closing /\ closing' = closing /\ deaths' = deaths
  BY DEF Reply
<1> QED BY <1>1, <1>2

\* The host reads the answer for y.
LEMMA WasRead ==
    ASSUME HostTypes, NEW y \in ChatTurns \cup Names, Read(y)
    PROVE  /\ replies' \in Seq(ChatTurns \cup Names)
           /\ \A x \in Names :
                 /\ Has(replies, x) <=> Has(replies', x) \/ x = y
                 /\ Lone(replies, x) => Lone(replies', x) /\ (x = y => ~Has(replies', x))
                 /\ LastWord(replies', x) => LastWord(replies, x)
           /\ Quiet(replies') /\ y \in {"op", "status"} => Quiet(replies)
           /\ Quiet(replies') /\ y \in Names => LastWord(replies, y)
           /\ closing' = closing /\ deaths' = deaths
<1> replies \in Seq(ChatTurns \cup Names)
  BY DEF HostTypes
<1>1. replies # <<>> /\ Head(replies) = y /\ replies' = Tail(replies)
      /\ closing' = closing /\ deaths' = deaths
  BY DEF Read
<1> DEFINE r == Tail(replies)
<1>2. /\ r \in Seq(ChatTurns \cup Names)
      /\ \A x : /\ Has(replies, x) <=> Has(r, x) \/ x = y
                /\ Lone(replies, x) => Lone(r, x) /\ (x = y => ~Has(r, x))
                /\ LastWord(r, x) => LastWord(replies, x)
      /\ Quiet(r) /\ y \in {"op", "status"} => Quiet(replies)
      /\ Quiet(r) => LastWord(replies, y)
  BY <1>1, Taken
<1> QED BY <1>1, <1>2

\* Wake moves the parked turns that may run, and only them.
LEMMA Woken ==
    ASSUME NEW p, NEW a, NEW f, NEW points \in [ChatTurns -> TurnPoints], NEW queue,
           Wake(p, a, f, points, queue)
    PROVE  /\ turn' \in [ChatTurns -> TurnPoints]
           /\ \A t \in ChatTurns : turn'[t] = IF points[t] = "parked" /\ RunnableIn(p, a, f, t)
                                             THEN "lining" ELSE points[t]
BY DEF Wake, TurnPoints

\* completed() as a step.
LEMMA Concluded ==
    ASSUME HostTypes, NEW points \in [ChatTurns -> TurnPoints], NEW queue,
           Completed(points, queue)
    PROVE  /\ turn' \in [ChatTurns -> TurnPoints]
           /\ \A t \in ChatTurns : turn'[t] = IF points[t] = "parked" /\ IsLoaded
                                             THEN "lining" ELSE points[t]
           /\ phase' = phase /\ admitted' = admitted /\ frontier' = None
           /\ query' = [query EXCEPT !.fresh = FALSE]
           /\ hold' = (hold /\ ~IsLoaded)
<1>1. Wake(phase, admitted, None, points, queue)
  BY DEF Completed
<1>2. \A t \in ChatTurns : RunnableIn(phase, admitted, None, t) <=> IsLoaded
  BY DEF RunnableIn, IsLoaded
<1> QED BY <1>1, <1>2, Woken DEF Completed, Update

\* The close event: nothing is left in the stream, and an operation whose answer
\* was lost has failed.
LEMMA Cut ==
    ASSUME RequestsRejected, HostTypes
    PROVE  /\ replies' = <<>>
           /\ \A x : ~Has(replies', x) /\ Lone(replies', x)
           /\ op' \in {op, [op EXCEPT !.at = "failed"]}
           /\ op'.kind = op.kind /\ op'.at \in {op.at, "failed"}
           /\ Has(replies, "op") => op'.at = "failed"
           /\ turn' \in [ChatTurns -> TurnPoints]
           /\ \A t \in ChatTurns :
                 \/ /\ turn'[t] = turn[t]
                    /\ turn[t] \notin {"running", "finished", "paused", "stopped"}
                 \/ turn'[t] \in {"done", "reconciling"}
<1>1. PICK extra : /\ Rejected(InNative \cup extra)
  <2>1. CASE Rejected(InNative)
    <3>1. InNative = InNative \cup {}
      OBVIOUS
    <3> QED BY <2>1, <3>1
  <2>2. CASE \E i \in DOMAIN line : Rejected(InNative \cup {line[i]})
    BY <2>2
  <2> QED BY <2>1, <2>2 DEF RequestsRejected
<1> DEFINE lost == InNative \cup extra
<1>2. Has(replies, "op") => "op" \in lost
  BY DEF Has, InNative, Range, HostTypes
<1>3. op.at \in Points /\ op = [kind |-> op.kind, at |-> op.at, saw |-> op.saw]
  BY DEF HostTypes, RecordsTyped
<1>4. \A t \in ChatTurns : turn[t] \in {"running", "finished", "paused", "stopped"} => t \in lost
  BY DEF InNative
<1> HIDE DEF lost
<1>5. Rejected(lost)
  BY <1>1 DEF lost
<1>6. replies' = <<>> /\ op' \in {op, [op EXCEPT !.at = "failed"]}
  BY <1>5 DEF Rejected
<1>7. /\ op'.kind = op.kind /\ op'.at \in {op.at, "failed"}
      /\ Has(replies, "op") => op'.at = "failed"
  BY <1>2, <1>3, <1>5 DEF Rejected
<1>10. \A x : ~Has(<<>>, x) /\ Lone(<<>>, x)
  BY DEF Has, Lone
<1>8. turn' = [t \in ChatTurns |-> IF t \notin lost THEN turn[t]
                                  ELSE IF turn[t] \in {"stopping", "stopped"} THEN "done"
                                  ELSE "reconciling"]
  BY <1>5 DEF Rejected
<1>9. turn' \in [ChatTurns -> TurnPoints]
  BY <1>8 DEF HostTypes, TurnsTyped, TurnPoints
<1> QED BY <1>4, <1>6, <1>7, <1>8, <1>9, <1>10

\* completed() of a turn that leaves its loop.
LEMMA Ended ==
    ASSUME HostTypes, NEW t \in ChatTurns, NEW queue,
           Completed([turn EXCEPT ![t] = "done"], queue)
    PROVE  /\ turn' \in [ChatTurns -> TurnPoints]
           /\ turn'[t] = "done"
           /\ \A u \in ChatTurns \ {t} : turn'[u] = IF turn[u] = "parked" /\ IsLoaded
                                                   THEN "lining" ELSE turn[u]
           /\ phase' = phase /\ admitted' = admitted /\ frontier' = None
           /\ query' = [query EXCEPT !.fresh = FALSE]
           /\ hold' = (hold /\ ~IsLoaded)
<1> DEFINE points == [turn EXCEPT ![t] = "done"]
<1>1. /\ points \in [ChatTurns -> TurnPoints] /\ points[t] = "done"
      /\ \A u \in ChatTurns \ {t} : points[u] = turn[u]
  BY DEF HostTypes, TurnsTyped, TurnPoints
<1>2. Completed(points, queue)
  OBVIOUS
<1> HIDE DEF points
<1> QED BY <1>1, <1>2, Concluded

\* Wake with the turns where they are.
LEMMA Rewoken ==
    ASSUME TurnsTyped, NEW p, NEW a, NEW f, NEW queue, Wake(p, a, f, turn, queue)
    PROVE  /\ turn' \in [ChatTurns -> TurnPoints]
           /\ \A t \in ChatTurns :
                 \/ turn'[t] = turn[t] /\ (turn[t] = "parked" => ~RunnableIn(p, a, f, t))
                 \/ turn[t] = "parked" /\ turn'[t] = "lining"
<1>1. turn \in [ChatTurns -> TurnPoints]
  BY DEF TurnsTyped
<1>2. /\ turn' \in [ChatTurns -> TurnPoints]
      /\ \A t \in ChatTurns : turn'[t] = IF turn[t] = "parked" /\ RunnableIn(p, a, f, t)
                                        THEN "lining" ELSE turn[t]
  BY <1>1, Woken
<1>3. ASSUME NEW t \in ChatTurns
      PROVE  \/ turn'[t] = turn[t] /\ (turn[t] = "parked" => ~RunnableIn(p, a, f, t))
             \/ turn[t] = "parked" /\ turn'[t] = "lining"
  <2>1. CASE turn[t] = "parked" /\ RunnableIn(p, a, f, t)
    BY <2>1, <1>2
  <2>2. CASE ~(turn[t] = "parked" /\ RunnableIn(p, a, f, t))
    <3>1. turn'[t] = turn[t]
      BY <2>2, <1>2
    <3> QED BY <2>2, <3>1
  <2> QED BY <2>1, <2>2
<1> QED BY <1>2, <1>3
\* Every step of the host and its worker keeps each part of the invariant.
LEMMA FlagsStep ==
    ASSUME LifecycleNext,
           HostTypes
    PROVE  FlagsTyped'
<1> USE NamesAssumption, NoneAssumption DEF Names, HostTypes, FlagsTyped, RecordsTyped, Phases,
      host, engine, native, worker
<1>1. CASE StopSavedCalled \/ StopSavedTurn \/ StopSavedRefused \/
      NativeInspect \/ LoadTurn \/ NativeVerify \/ BoundaryReached \/
      UnloadTurn \/ OpFaulted \/ StatusAsked \/ NativeStatus \/
      StatusStale \/ (\E t \in ChatTurns : Send(t) \/ EnterWriter(t) \/
      Submit(t) \/ NativeCommit(t) \/ FinishFaulted(t) \/ Dispatch(t) \/ StopRefused(t) \/ Stop(t) \/
      AskSuspension(t))
  <2>1. UNCHANGED <<phase, admitted, frontier, hold, closing, resident, saved>>
    BY <1>1 DEF Send, EnterWriter, Submit, NativeCommit, FinishFaulted, Dispatch, StopRefused, Stop, StopSavedCalled,
         StopSavedTurn, StopSavedRefused, NativeInspect, LoadTurn, NativeVerify, AskSuspension,
         BoundaryReached, UnloadTurn, OpFaulted, StatusAsked, NativeStatus, StatusStale, Goto,
         NoQuery, Reply, Read, Enqueue, Dequeue
  <2> QED BY <2>1
<1>2. ASSUME NEW t \in ChatTurns, NativeFinish(t) \/ NativePause(t) \/
      NativeStop(t) PROVE FlagsTyped'
  BY <1>2, Replied DEF NativeFinish, NativePause, NativeStop, Dequeue
<1>3. ASSUME NEW t \in ChatTurns, Finished(t) PROVE FlagsTyped'
  BY <1>3, WasRead, Ended DEF Finished
<1>4. CASE LoadFits \/ LoadRefused \/ (\E t \in ChatTurns : Paused(t))
  BY <1>4, WasRead DEF Paused, LoadFits, LoadRefused, Update, At, Goto, NoOp
<1>5. ASSUME NEW t \in ChatTurns, Reconcile(t) PROVE FlagsTyped'
  BY <1>5, Ended DEF Reconcile
<1>6. ASSUME NEW t \in ChatTurns, Stopped(t) PROVE FlagsTyped'
  BY <1>6, WasRead, Ended DEF Stopped
<1>7. CASE NativeStopSaved
  BY <1>7, Replied DEF NativeStopSaved, Dequeue
<1>8. CASE StopSavedAcked
  BY <1>8, WasRead, Concluded DEF StopSavedAcked, TurnsTyped
<1>9. CASE Load
  BY <1>9 DEF Load, Update
<1>10. CASE Unload
  BY <1>10 DEF Unload, Update
<1>11. CASE NativeLoad
  BY <1>11 DEF NativeLoad, At, Goto, Dequeue
<1>12. CASE Loaded
  BY <1>12, WasRead, Rewoken DEF Loaded, At, Update, NoOp
<1>13. CASE NativeRelease
  BY <1>13, Replied DEF NativeRelease, At, Dequeue
<1>14. CASE Unloaded \/ NotUnloaded
  BY <1>14, WasRead DEF Unloaded, NotUnloaded, At, Update, NoOp
<1>15. CASE OpFailed
  BY <1>15 DEF OpFailed, Update, NoOp
<1>16. CASE StatusApplied
  BY <1>16, WasRead, Rewoken DEF StatusApplied, PhaseOf, NoQuery
<1>17. CASE WorkerDies
  BY <1>17 DEF WorkerDies
<1>18. CASE WorkerClosed
  BY <1>18, Cut DEF WorkerClosed, NoQuery
<1> QED BY <1>1, <1>2, <1>3, <1>4, <1>5, <1>6, <1>7, <1>8, <1>9, <1>10, <1>11, <1>12, <1>13,
      <1>14, <1>15, <1>16, <1>17, <1>18 DEF LifecycleNext, TurnStep, OpStep, StopperStep,
      StatusStep

\* See FlagsStep.
LEMMA RecordsStep ==
    ASSUME LifecycleNext,
           HostTypes
    PROVE  RecordsTyped'
<1> USE NamesAssumption, NoneAssumption DEF Names, HostTypes, RecordsTyped, FlagsTyped, Points,
      host, engine, native, worker
<1>1. CASE StopSavedCalled \/ StopSavedTurn \/ NativeStopSaved \/
      StopSavedRefused \/ WorkerDies \/ (\E t \in ChatTurns : Send(t) \/
      EnterWriter(t) \/ Submit(t) \/ NativeCommit(t) \/ FinishFaulted(t) \/ Dispatch(t) \/ NativeFinish(t) \/
      NativePause(t) \/ NativeStop(t) \/ StopRefused(t) \/ Stop(t))
  <2>1. UNCHANGED <<op, query>>
    BY <1>1 DEF Send, EnterWriter, Submit, NativeCommit, FinishFaulted, Dispatch, NativeFinish, NativePause, NativeStop,
         StopRefused, Stop, StopSavedCalled, StopSavedTurn, NativeStopSaved, StopSavedRefused,
         WorkerDies
  <2> QED BY <2>1
<1>2. ASSUME NEW t \in ChatTurns, Finished(t) PROVE RecordsTyped'
  BY <1>2, WasRead, Ended DEF Finished
<1>3. ASSUME NEW t \in ChatTurns, Paused(t) PROVE RecordsTyped'
  BY <1>3, WasRead DEF Paused, Update
<1>4. ASSUME NEW t \in ChatTurns, Reconcile(t) PROVE RecordsTyped'
  BY <1>4, Ended DEF Reconcile
<1>5. ASSUME NEW t \in ChatTurns, Stopped(t) PROVE RecordsTyped'
  BY <1>5, WasRead, Ended DEF Stopped
<1>6. CASE StopSavedAcked
  BY <1>6, WasRead, Concluded DEF StopSavedAcked, TurnsTyped
<1>7. CASE Load
  BY <1>7 DEF Load, Update
<1>8. CASE Unload
  BY <1>8 DEF Unload, Update
<1>9. CASE NativeInspect
  BY <1>9, Replied DEF NativeInspect, At
<1>10. CASE LoadFits
  BY <1>10, WasRead DEF LoadFits, At, Goto, Update
<1>11. CASE LoadRefused
  BY <1>11, WasRead DEF LoadRefused, At, Update, NoOp
<1>12. CASE LoadTurn
  BY <1>12 DEF LoadTurn, At, Goto, Enqueue
<1>13. CASE NativeLoad
  BY <1>13 DEF NativeLoad, At, Goto, Dequeue
<1>14. CASE NativeVerify
  BY <1>14, Replied DEF NativeVerify, At
<1>15. CASE Loaded
  BY <1>15, WasRead, Rewoken DEF Loaded, At, Update, NoOp
<1>16. ASSUME NEW t \in ChatTurns, AskSuspension(t) PROVE RecordsTyped'
  BY <1>16 DEF AskSuspension, At, Goto
<1>17. CASE BoundaryReached
  BY <1>17 DEF BoundaryReached, Goto
<1>18. CASE UnloadTurn
  BY <1>18 DEF UnloadTurn, At, Goto, Enqueue
<1>19. CASE NativeRelease
  BY <1>19, Replied DEF NativeRelease, At, Dequeue
<1>20. CASE Unloaded
  BY <1>20, WasRead DEF Unloaded, At, Update, NoOp
<1>21. CASE NotUnloaded
  BY <1>21, WasRead DEF NotUnloaded, At, Update, NoOp
<1>22. CASE OpFailed
  BY <1>22 DEF OpFailed, Update, NoOp
<1>23. CASE OpFaulted
  BY <1>23 DEF OpFaulted, Goto, Dequeue
<1>24. CASE StatusAsked
  BY <1>24 DEF StatusAsked
<1>25. CASE NativeStatus
  BY <1>25, Replied DEF NativeStatus
<1>26. CASE StatusApplied
  BY <1>26, WasRead, Rewoken DEF StatusApplied, PhaseOf, NoQuery
<1>27. CASE StatusStale
  BY <1>27, WasRead DEF StatusStale, NoQuery
<1>28. CASE WorkerClosed
  BY <1>28, Cut DEF WorkerClosed, NoQuery
<1> QED BY <1>1, <1>2, <1>3, <1>4, <1>5, <1>6, <1>7, <1>8, <1>9, <1>10, <1>11, <1>12, <1>13,
      <1>14, <1>15, <1>16, <1>17, <1>18, <1>19, <1>20, <1>21, <1>22, <1>23, <1>24, <1>25, <1>26,
      <1>27, <1>28 DEF LifecycleNext, TurnStep, OpStep, StopperStep, StatusStep

\* See FlagsStep.
LEMMA TurnsStep ==
    ASSUME LifecycleNext,
           HostTypes
    PROVE  TurnsTyped'
<1> USE NamesAssumption, NoneAssumption DEF Names, HostTypes, TurnsTyped, TurnPoints, host,
      engine, native, worker
<1>1. CASE StopSavedCalled \/ StopSavedTurn \/ NativeStopSaved \/
      StopSavedRefused \/ Load \/ Unload \/ NativeInspect \/
      LoadFits \/ LoadRefused \/ LoadTurn \/ NativeLoad \/
      NativeVerify \/ BoundaryReached \/ UnloadTurn \/ NativeRelease \/
      Unloaded \/ NotUnloaded \/ OpFailed \/ OpFaulted \/
      StatusAsked \/ NativeStatus \/ StatusStale \/ WorkerDies \/
      (\E t \in ChatTurns : AskSuspension(t))
  <2>1. UNCHANGED turn
    BY <1>1 DEF StopSavedCalled, StopSavedTurn, NativeStopSaved, StopSavedRefused, Load, Unload,
         NativeInspect, LoadFits, LoadRefused, LoadTurn, NativeLoad, NativeVerify,
         AskSuspension, BoundaryReached, UnloadTurn, NativeRelease, Unloaded, NotUnloaded,
         OpFailed, OpFaulted, StatusAsked, NativeStatus, StatusStale, WorkerDies, Update, Goto,
         NoOp, NoQuery
  <2> QED BY <2>1
<1>2. ASSUME NEW t \in ChatTurns, Send(t) \/ EnterWriter(t) \/
      Submit(t) \/ NativeCommit(t) \/ FinishFaulted(t) PROVE TurnsTyped'
  BY <1>2 DEF Send, EnterWriter, Submit, NativeCommit, FinishFaulted, Enqueue
<1>3. ASSUME NEW t \in ChatTurns, Dispatch(t) \/ StopRefused(t) \/
      Stop(t) PROVE TurnsTyped'
  BY <1>3 DEF Dispatch, Entered, StopRefused, Stop, Dequeue
<1>4. ASSUME NEW t \in ChatTurns, NativeFinish(t) \/ NativePause(t) \/
      NativeStop(t) PROVE TurnsTyped'
  BY <1>4, Replied DEF NativeFinish, NativePause, NativeStop, Dequeue
<1>5. ASSUME NEW t \in ChatTurns, Finished(t) PROVE TurnsTyped'
  BY <1>5, WasRead, Ended DEF Finished
<1>6. ASSUME NEW t \in ChatTurns, Paused(t) PROVE TurnsTyped'
  BY <1>6, WasRead DEF Paused, Update
<1>7. ASSUME NEW t \in ChatTurns, Reconcile(t) PROVE TurnsTyped'
  BY <1>7, Ended DEF Reconcile
<1>8. ASSUME NEW t \in ChatTurns, Stopped(t) PROVE TurnsTyped'
  BY <1>8, WasRead, Ended DEF Stopped
<1>9. CASE StopSavedAcked
  BY <1>9, WasRead, Concluded DEF StopSavedAcked
<1>10. CASE Loaded
  BY <1>10, WasRead, Rewoken DEF Loaded, At, Update, NoOp
<1>11. CASE StatusApplied
  BY <1>11, WasRead, Rewoken DEF StatusApplied, PhaseOf, NoQuery
<1>12. CASE WorkerClosed
  BY <1>12, Cut DEF WorkerClosed, NoQuery
<1> QED BY <1>1, <1>2, <1>3, <1>4, <1>5, <1>6, <1>7, <1>8, <1>9, <1>10, <1>11, <1>12
      DEF LifecycleNext, TurnStep, OpStep, StopperStep, StatusStep

\* See FlagsStep.
LEMMA RepliesStep ==
    ASSUME LifecycleNext,
           HostTypes
    PROVE  (replies \in Seq(ChatTurns \cup Names))'
<1> USE NamesAssumption, NoneAssumption DEF Names, HostTypes, host, engine, native, worker
<1>1. CASE StopSavedCalled \/ StopSavedTurn \/ StopSavedRefused \/
      Load \/ Unload \/ LoadTurn \/ NativeLoad \/
      BoundaryReached \/ UnloadTurn \/ OpFailed \/ OpFaulted \/
      StatusAsked \/ WorkerDies \/ (\E t \in ChatTurns : Send(t) \/
      EnterWriter(t) \/ Submit(t) \/ NativeCommit(t) \/ FinishFaulted(t) \/ Dispatch(t) \/ Reconcile(t) \/
      StopRefused(t) \/ Stop(t) \/ AskSuspension(t))
  <2>1. UNCHANGED replies
    BY <1>1 DEF Send, EnterWriter, Submit, NativeCommit, FinishFaulted, Dispatch, Reconcile, StopRefused, Stop,
         StopSavedCalled, StopSavedTurn, StopSavedRefused, Load, Unload, LoadTurn, NativeLoad,
         AskSuspension, BoundaryReached, UnloadTurn, OpFailed, OpFaulted, StatusAsked,
         WorkerDies, Update, Goto, NoOp, Reply, Read
  <2> QED BY <2>1
<1>2. ASSUME NEW t \in ChatTurns, NativeFinish(t) \/ NativePause(t) \/
      NativeStop(t) PROVE (replies \in Seq(ChatTurns \cup Names))'
  BY <1>2, Replied DEF NativeFinish, NativePause, NativeStop, Dequeue
<1>3. ASSUME NEW t \in ChatTurns, Finished(t) PROVE (replies \in Seq(ChatTurns \cup Names))'
  BY <1>3, WasRead, Ended DEF Finished
<1>4. CASE LoadFits \/ LoadRefused \/ (\E t \in ChatTurns : Paused(t))
  BY <1>4, WasRead DEF Paused, LoadFits, LoadRefused, Update, At, Goto, NoOp
<1>5. ASSUME NEW t \in ChatTurns, Stopped(t) PROVE (replies \in Seq(ChatTurns \cup Names))'
  BY <1>5, WasRead, Ended DEF Stopped
<1>6. CASE NativeStopSaved \/ NativeInspect \/ NativeVerify
  BY <1>6, Replied DEF NativeStopSaved, NativeInspect, NativeVerify, Dequeue, At
<1>7. CASE StopSavedAcked
  BY <1>7, WasRead, Concluded DEF StopSavedAcked, TurnsTyped
<1>8. CASE Loaded
  BY <1>8, WasRead, Rewoken DEF Loaded, At, Update, NoOp
<1>9. CASE NativeRelease
  BY <1>9, Replied DEF NativeRelease, At, Dequeue
<1>10. CASE Unloaded \/ NotUnloaded \/ StatusStale
  BY <1>10, WasRead DEF Unloaded, NotUnloaded, StatusStale, At, Update, NoOp, NoQuery
<1>11. CASE NativeStatus
  BY <1>11, Replied DEF NativeStatus
<1>12. CASE StatusApplied
  BY <1>12, WasRead, Rewoken DEF StatusApplied, PhaseOf, NoQuery
<1>13. CASE WorkerClosed
  BY <1>13, Cut DEF WorkerClosed, NoQuery
<1> QED BY <1>1, <1>2, <1>3, <1>4, <1>5, <1>6, <1>7, <1>8, <1>9, <1>10, <1>11, <1>12, <1>13
      DEF LifecycleNext, TurnStep, OpStep, StopperStep, StatusStep

\* A reply is sent once per request, and read by whoever waits for it.
LEMMA SentStep ==
    ASSUME LifecycleNext,
           HostTypes, RepliesSent, OpKinds
    PROVE  RepliesSent'
<1> USE NamesAssumption, NoneAssumption DEF Names, RepliesSent, HostTypes, RecordsTyped,
      OpKinds, host, engine, native, worker
<1>1. CASE StopSavedCalled \/ StopSavedTurn \/ StopSavedRefused \/
      WorkerDies \/ (\E t \in ChatTurns : Send(t) \/ EnterWriter(t) \/
      Submit(t) \/ NativeCommit(t) \/ FinishFaulted(t) \/ Dispatch(t) \/ StopRefused(t) \/ Stop(t))
  <2>1. UNCHANGED <<op, query, replies>>
    BY <1>1 DEF Send, EnterWriter, Submit, NativeCommit, FinishFaulted, Dispatch, StopRefused, Stop, StopSavedCalled,
         StopSavedTurn, StopSavedRefused, WorkerDies, Reply, Read
  <2> QED BY <2>1
<1>2. ASSUME NEW t \in ChatTurns, NativeFinish(t) \/ NativePause(t) \/
      NativeStop(t) PROVE RepliesSent'
  BY <1>2, Replied DEF NativeFinish, NativePause, NativeStop, Dequeue
<1>3. ASSUME NEW t \in ChatTurns, Finished(t) PROVE RepliesSent'
  BY <1>3, WasRead, Ended DEF Finished
<1>4. CASE LoadFits \/ LoadRefused \/ (\E t \in ChatTurns : Paused(t))
  BY <1>4, WasRead DEF Paused, LoadFits, LoadRefused, Update, At, Goto, NoOp
<1>5. ASSUME NEW t \in ChatTurns, Reconcile(t) PROVE RepliesSent'
  BY <1>5, Ended DEF Reconcile
<1>6. ASSUME NEW t \in ChatTurns, Stopped(t) PROVE RepliesSent'
  BY <1>6, WasRead, Ended DEF Stopped
<1>7. CASE NativeStopSaved \/ NativeInspect \/ NativeVerify
  BY <1>7, Replied DEF NativeStopSaved, NativeInspect, NativeVerify, Dequeue, At
<1>8. CASE StopSavedAcked
  BY <1>8, WasRead, Concluded DEF StopSavedAcked, TurnsTyped
<1>9. CASE Load \/ LoadTurn \/ (\E t \in ChatTurns : AskSuspension(t))
  BY <1>9 DEF Load, LoadTurn, AskSuspension, Update, At, Goto, Enqueue
<1>10. CASE Unload
  BY <1>10 DEF Unload, Update
<1>11. CASE NativeLoad
  BY <1>11 DEF NativeLoad, At, Goto, Dequeue
<1>12. CASE Loaded
  BY <1>12, WasRead, Rewoken DEF Loaded, At, Update, NoOp
<1>13. CASE BoundaryReached \/ UnloadTurn \/ OpFaulted
  BY <1>13 DEF BoundaryReached, UnloadTurn, OpFaulted, Goto, At, Enqueue, Dequeue
<1>14. CASE NativeRelease
  BY <1>14, Replied DEF NativeRelease, At, Dequeue
<1>15. CASE Unloaded \/ NotUnloaded \/ StatusStale
  BY <1>15, WasRead DEF Unloaded, NotUnloaded, StatusStale, At, Update, NoOp, NoQuery
<1>16. CASE OpFailed
  BY <1>16 DEF OpFailed, Update, NoOp
<1>17. CASE StatusAsked
  BY <1>17 DEF StatusAsked
<1>18. CASE NativeStatus
  BY <1>18, Replied DEF NativeStatus
<1>19. CASE StatusApplied
  BY <1>19, WasRead, Rewoken DEF StatusApplied, PhaseOf, NoQuery
<1>20. CASE WorkerClosed
  BY <1>20, Cut DEF WorkerClosed, NoQuery
<1> QED BY <1>1, <1>2, <1>3, <1>4, <1>5, <1>6, <1>7, <1>8, <1>9, <1>10, <1>11, <1>12, <1>13,
      <1>14, <1>15, <1>16, <1>17, <1>18, <1>19, <1>20 DEF LifecycleNext, TurnStep, OpStep,
      StopperStep, StatusStep

\* See FlagsStep.
LEMMA OpKindsStep ==
    ASSUME LifecycleNext,
           HostTypes, OpKinds
    PROVE  OpKinds'
<1> USE NamesAssumption, NoneAssumption DEF Names, OpKinds, HostTypes, RecordsTyped, host,
      engine, native, worker
<1>1. CASE StopSavedCalled \/ StopSavedTurn \/ NativeStopSaved \/
      StopSavedRefused \/ StatusAsked \/ NativeStatus \/ StatusStale \/
      WorkerDies \/ (\E t \in ChatTurns : Send(t) \/ EnterWriter(t) \/
      Submit(t) \/ NativeCommit(t) \/ FinishFaulted(t) \/ Dispatch(t) \/ NativeFinish(t) \/ NativePause(t) \/
      NativeStop(t) \/ StopRefused(t) \/ Stop(t))
  <2>1. UNCHANGED <<op, phase, admitted, frontier>>
    BY <1>1 DEF Send, EnterWriter, Submit, NativeCommit, FinishFaulted, Dispatch, NativeFinish, NativePause, NativeStop,
         StopRefused, Stop, StopSavedCalled, StopSavedTurn, NativeStopSaved, StopSavedRefused,
         StatusAsked, NativeStatus, StatusStale, WorkerDies, NoQuery
  <2> QED BY <2>1
<1>2. ASSUME NEW t \in ChatTurns, Finished(t) PROVE OpKinds'
  BY <1>2, WasRead, Ended DEF Finished
<1>3. CASE LoadFits \/ LoadRefused \/ (\E t \in ChatTurns : Paused(t))
  BY <1>3, WasRead DEF Paused, LoadFits, LoadRefused, Update, At, Goto, NoOp
<1>4. ASSUME NEW t \in ChatTurns, Reconcile(t) PROVE OpKinds'
  BY <1>4, Ended DEF Reconcile
<1>5. ASSUME NEW t \in ChatTurns, Stopped(t) PROVE OpKinds'
  BY <1>5, WasRead, Ended DEF Stopped
<1>6. CASE StopSavedAcked
  BY <1>6, WasRead, Concluded DEF StopSavedAcked, TurnsTyped
<1>7. CASE Load \/ LoadTurn \/ (\E t \in ChatTurns : AskSuspension(t))
  BY <1>7 DEF Load, LoadTurn, AskSuspension, Update, At, Goto, Enqueue
<1>8. CASE Unload
  BY <1>8 DEF Unload, Update
<1>9. CASE NativeInspect \/ NativeVerify
  BY <1>9, Replied DEF NativeInspect, NativeVerify, At
<1>10. CASE NativeLoad
  BY <1>10 DEF NativeLoad, At, Goto, Dequeue
<1>11. CASE Loaded
  BY <1>11, WasRead, Rewoken DEF Loaded, At, Update, NoOp
<1>12. CASE BoundaryReached \/ UnloadTurn \/ OpFaulted
  BY <1>12 DEF BoundaryReached, UnloadTurn, OpFaulted, Goto, At, Enqueue, Dequeue
<1>13. CASE NativeRelease
  BY <1>13, Replied DEF NativeRelease, At, Dequeue
<1>14. CASE Unloaded \/ NotUnloaded
  BY <1>14, WasRead DEF Unloaded, NotUnloaded, At, Update, NoOp
<1>15. CASE OpFailed
  BY <1>15 DEF OpFailed, Update, NoOp
<1>16. CASE StatusApplied
  BY <1>16, WasRead, Rewoken DEF StatusApplied, PhaseOf, NoQuery
<1>17. CASE WorkerClosed
  BY <1>17, Cut DEF WorkerClosed, NoQuery
<1> QED BY <1>1, <1>2, <1>3, <1>4, <1>5, <1>6, <1>7, <1>8, <1>9, <1>10, <1>11, <1>12, <1>13,
      <1>14, <1>15, <1>16, <1>17 DEF LifecycleNext, TurnStep, OpStep, StopperStep, StatusStep

\* The runtime goes only by an Unload, which has withdrawn the admission, or by a
\* death, whose close event withdraws it.
LEMMA ResidencyStep ==
    ASSUME LifecycleNext,
           HostTypes, OpKinds, Residency, RepliesSent
    PROVE  Residency'
<1> USE NamesAssumption, NoneAssumption DEF Names, Residency, OpKinds, HostTypes, FlagsTyped,
      RecordsTyped, IsLoaded, RepliesSent, host, engine, native, worker
<1>1. CASE StopSavedCalled \/ StopSavedTurn \/ StopSavedRefused \/
      StatusAsked \/ (\E t \in ChatTurns : Send(t) \/ EnterWriter(t) \/
      Submit(t) \/ NativeCommit(t) \/ FinishFaulted(t) \/ Dispatch(t) \/ StopRefused(t) \/ Stop(t))
  <2>1. UNCHANGED <<phase, admitted, frontier, op, resident, closing, replies>>
    BY <1>1 DEF Send, EnterWriter, Submit, NativeCommit, FinishFaulted, Dispatch, StopRefused, Stop, StopSavedCalled,
         StopSavedTurn, StopSavedRefused, StatusAsked, Reply, Read
  <2> QED BY <2>1
<1>2. ASSUME NEW t \in ChatTurns, NativeFinish(t) PROVE Residency'
  BY <1>2, Replied DEF NativeFinish
<1>3. ASSUME NEW t \in ChatTurns, NativePause(t) PROVE Residency'
  BY <1>3, Replied DEF NativePause
<1>4. ASSUME NEW t \in ChatTurns, Finished(t) PROVE Residency'
  BY <1>4, WasRead, Ended DEF Finished
<1>5. ASSUME NEW t \in ChatTurns, Paused(t) PROVE Residency'
  BY <1>5, WasRead DEF Paused, Update
<1>6. ASSUME NEW t \in ChatTurns, Reconcile(t) PROVE Residency'
  BY <1>6, Ended DEF Reconcile
<1>7. ASSUME NEW t \in ChatTurns, NativeStop(t) PROVE Residency'
  BY <1>7, Replied DEF NativeStop, Dequeue
<1>8. ASSUME NEW t \in ChatTurns, Stopped(t) PROVE Residency'
  BY <1>8, WasRead, Ended DEF Stopped
<1>9. CASE NativeStopSaved
  BY <1>9, Replied DEF NativeStopSaved, Dequeue
<1>10. CASE StopSavedAcked
  BY <1>10, WasRead, Concluded DEF StopSavedAcked, TurnsTyped
<1>11. CASE Load
  BY <1>11 DEF Load, Update
<1>12. CASE Unload
  BY <1>12 DEF Unload, Update
<1>13. CASE NativeInspect
  BY <1>13, Replied DEF NativeInspect, At
<1>14. CASE LoadFits
  BY <1>14, WasRead DEF LoadFits, At, Goto, Update
<1>15. CASE LoadRefused
  BY <1>15, WasRead DEF LoadRefused, At, Update, NoOp
<1>16. CASE LoadTurn
  BY <1>16 DEF LoadTurn, At, Goto, Enqueue
<1>17. CASE NativeLoad
  BY <1>17 DEF NativeLoad, At, Goto, Dequeue
<1>18. CASE NativeVerify
  BY <1>18, Replied DEF NativeVerify, At
<1>19. CASE Loaded
  BY <1>19, WasRead, Rewoken DEF Loaded, At, Update, NoOp
<1>20. ASSUME NEW t \in ChatTurns, AskSuspension(t) PROVE Residency'
  BY <1>20 DEF AskSuspension, At, Goto
<1>21. CASE BoundaryReached
  BY <1>21 DEF BoundaryReached, Goto
<1>22. CASE UnloadTurn
  BY <1>22 DEF UnloadTurn, At, Goto, Enqueue
<1>23. CASE NativeRelease
  BY <1>23, Replied DEF NativeRelease, At, Dequeue
<1>24. CASE Unloaded
  BY <1>24, WasRead DEF Unloaded, At, Update, NoOp
<1>25. CASE NotUnloaded
  BY <1>25, WasRead DEF NotUnloaded, At, Update, NoOp
<1>26. CASE OpFailed
  BY <1>26 DEF OpFailed, Update, NoOp
<1>27. CASE OpFaulted
  BY <1>27 DEF OpFaulted, Goto, Dequeue
<1>28. CASE NativeStatus
  BY <1>28, Replied DEF NativeStatus
<1>29. CASE StatusApplied
  BY <1>29, WasRead, Rewoken DEF StatusApplied, PhaseOf, NoQuery
<1>30. CASE StatusStale
  BY <1>30, WasRead DEF StatusStale, NoQuery
<1>31. CASE WorkerDies
  BY <1>31 DEF WorkerDies
<1>32. CASE WorkerClosed
  BY <1>32, Cut DEF WorkerClosed, NoQuery
<1> QED BY <1>1, <1>2, <1>3, <1>4, <1>5, <1>6, <1>7, <1>8, <1>9, <1>10, <1>11, <1>12, <1>13,
      <1>14, <1>15, <1>16, <1>17, <1>18, <1>19, <1>20, <1>21, <1>22, <1>23, <1>24, <1>25, <1>26,
      <1>27, <1>28, <1>29, <1>30, <1>31, <1>32 DEF LifecycleNext, TurnStep, OpStep, StopperStep,
      StatusStep

\* The frontier changes only with a reply behind every earlier inspection.
LEMMA ViewsStep ==
    ASSUME LifecycleNext,
           HostTypes, RepliesSent, OpKinds, ViewsTrue
    PROVE  ViewsTrue'
<1> USE NamesAssumption, NoneAssumption DEF Names, ViewsTrue, RepliesSent, OpKinds, HostTypes,
      FlagsTyped, RecordsTyped, IsLoaded, host, engine, native, worker
<1>1. CASE StopSavedCalled \/ StopSavedTurn \/ StopSavedRefused \/
      WorkerDies \/ (\E t \in ChatTurns : Send(t) \/ EnterWriter(t) \/
      Submit(t) \/ NativeCommit(t) \/ FinishFaulted(t) \/ Dispatch(t) \/ StopRefused(t) \/ Stop(t))
  <2>1. UNCHANGED <<op, query, replies, phase, admitted, frontier, saved>>
    BY <1>1 DEF Send, EnterWriter, Submit, NativeCommit, FinishFaulted, Dispatch, StopRefused, Stop, StopSavedCalled,
         StopSavedTurn, StopSavedRefused, WorkerDies, Reply, Read
  <2> QED BY <2>1
<1>2. ASSUME NEW t \in ChatTurns, NativeFinish(t) PROVE ViewsTrue'
  BY <1>2, Replied DEF NativeFinish
<1>3. ASSUME NEW t \in ChatTurns, NativePause(t) PROVE ViewsTrue'
  BY <1>3, Replied DEF NativePause
<1>4. ASSUME NEW t \in ChatTurns, Finished(t) PROVE ViewsTrue'
  BY <1>4, WasRead, Ended DEF Finished
<1>5. ASSUME NEW t \in ChatTurns, Paused(t) PROVE ViewsTrue'
  BY <1>5, WasRead DEF Paused, Update
<1>6. ASSUME NEW t \in ChatTurns, Reconcile(t) PROVE ViewsTrue'
  BY <1>6, Ended DEF Reconcile
<1>7. ASSUME NEW t \in ChatTurns, NativeStop(t) PROVE ViewsTrue'
  BY <1>7, Replied DEF NativeStop, Dequeue
<1>8. ASSUME NEW t \in ChatTurns, Stopped(t) PROVE ViewsTrue'
  BY <1>8, WasRead, Ended DEF Stopped
<1>9. CASE NativeStopSaved
  BY <1>9, Replied DEF NativeStopSaved, Dequeue
<1>10. CASE StopSavedAcked
  BY <1>10, WasRead, Concluded DEF StopSavedAcked, TurnsTyped
<1>11. CASE Load
  BY <1>11 DEF Load, Update
<1>12. CASE Unload
  BY <1>12 DEF Unload, Update
<1>13. CASE NativeInspect
  BY <1>13, Replied DEF NativeInspect, At
<1>14. CASE LoadFits
  BY <1>14, WasRead DEF LoadFits, At, Goto, Update
<1>15. CASE LoadRefused
  BY <1>15, WasRead DEF LoadRefused, At, Update, NoOp
<1>16. CASE LoadTurn
  BY <1>16 DEF LoadTurn, At, Goto, Enqueue
<1>17. CASE NativeLoad
  BY <1>17 DEF NativeLoad, At, Goto, Dequeue
<1>18. CASE NativeVerify
  BY <1>18, Replied DEF NativeVerify, At
<1>19. CASE Loaded
  BY <1>19, WasRead, Rewoken DEF Loaded, At, Update, NoOp
<1>20. ASSUME NEW t \in ChatTurns, AskSuspension(t) PROVE ViewsTrue'
  BY <1>20 DEF AskSuspension, At, Goto
<1>21. CASE BoundaryReached
  BY <1>21 DEF BoundaryReached, Goto
<1>22. CASE UnloadTurn
  BY <1>22 DEF UnloadTurn, At, Goto, Enqueue
<1>23. CASE NativeRelease
  BY <1>23, Replied DEF NativeRelease, At, Dequeue
<1>24. CASE Unloaded
  BY <1>24, WasRead DEF Unloaded, At, Update, NoOp
<1>25. CASE NotUnloaded
  BY <1>25, WasRead DEF NotUnloaded, At, Update, NoOp
<1>26. CASE OpFailed
  BY <1>26 DEF OpFailed, Update, NoOp
<1>27. CASE OpFaulted
  BY <1>27 DEF OpFaulted, Goto, Dequeue
<1>28. CASE StatusAsked
  BY <1>28 DEF StatusAsked
<1>29. CASE NativeStatus
  BY <1>29, Replied DEF NativeStatus
<1>30. CASE StatusApplied
  BY <1>30, WasRead, Rewoken DEF StatusApplied, PhaseOf, NoQuery
<1>31. CASE StatusStale
  BY <1>31, WasRead DEF StatusStale, NoQuery
<1>32. CASE WorkerClosed
  BY <1>32, Cut DEF WorkerClosed, NoQuery
<1> QED BY <1>1, <1>2, <1>3, <1>4, <1>5, <1>6, <1>7, <1>8, <1>9, <1>10, <1>11, <1>12, <1>13,
      <1>14, <1>15, <1>16, <1>17, <1>18, <1>19, <1>20, <1>21, <1>22, <1>23, <1>24, <1>25, <1>26,
      <1>27, <1>28, <1>29, <1>30, <1>31, <1>32 DEF LifecycleNext, TurnStep, OpStep, StopperStep,
      StatusStep

\* Whatever lets a parked turn run has woken it.
LEMMA ParkedStep ==
    ASSUME LifecycleNext,
           HostTypes, OpKinds, NothingStranded, NEW u \in ChatTurns
    PROVE  (turn[u] = "parked" => ~CanRun(u))'
<1> USE NamesAssumption, NoneAssumption DEF Names, NothingStranded, OpKinds, HostTypes,
      FlagsTyped, TurnsTyped, CanRun, CanRunAny, RunnableIn, IsLoaded, host, engine, native,
      worker
<1>1. CASE StopSavedCalled \/ StopSavedTurn \/ NativeStopSaved \/
      StopSavedRefused \/ NativeInspect \/ LoadTurn \/ NativeLoad \/
      NativeVerify \/ BoundaryReached \/ UnloadTurn \/ NativeRelease \/
      OpFaulted \/ StatusAsked \/ NativeStatus \/ StatusStale \/
      WorkerDies \/ (\E t \in ChatTurns : AskSuspension(t))
  <2>1. UNCHANGED <<turn, phase, admitted, frontier>>
    BY <1>1 DEF StopSavedCalled, StopSavedTurn, NativeStopSaved, StopSavedRefused,
         NativeInspect, LoadTurn, NativeLoad, NativeVerify, AskSuspension, BoundaryReached,
         UnloadTurn, NativeRelease, OpFaulted, StatusAsked, NativeStatus, StatusStale,
         WorkerDies, Goto, NoQuery
  <2> QED BY <2>1
<1>2. ASSUME NEW t \in ChatTurns, Send(t) \/ EnterWriter(t) \/
      Submit(t) \/ NativeCommit(t) \/ FinishFaulted(t) PROVE (turn[u] = "parked" => ~CanRun(u))'
  BY <1>2 DEF Send, EnterWriter, Submit, NativeCommit, FinishFaulted, Enqueue
<1>3. ASSUME NEW t \in ChatTurns, Dispatch(t) \/ StopRefused(t) \/
      Stop(t) PROVE (turn[u] = "parked" => ~CanRun(u))'
  BY <1>3 DEF Dispatch, Entered, StopRefused, Stop, Dequeue
<1>4. ASSUME NEW t \in ChatTurns, NativeFinish(t) \/ NativePause(t) \/
      NativeStop(t) PROVE (turn[u] = "parked" => ~CanRun(u))'
  BY <1>4, Replied DEF NativeFinish, NativePause, NativeStop, Dequeue
<1>5. ASSUME NEW t \in ChatTurns,
      Finished(t) PROVE (turn[u] = "parked" => ~CanRun(u))'
  BY <1>5, WasRead, Ended DEF Finished
<1>6. CASE LoadFits \/ LoadRefused \/ (\E t \in ChatTurns : Paused(t))
  BY <1>6, WasRead DEF Paused, LoadFits, LoadRefused, Update, At, Goto, NoOp
<1>7. ASSUME NEW t \in ChatTurns,
      Reconcile(t) PROVE (turn[u] = "parked" => ~CanRun(u))'
  BY <1>7, Ended DEF Reconcile
<1>8. ASSUME NEW t \in ChatTurns, Stopped(t) PROVE (turn[u] = "parked" => ~CanRun(u))'
  BY <1>8, WasRead, Ended DEF Stopped
<1>9. CASE StopSavedAcked
  BY <1>9, WasRead, Concluded DEF StopSavedAcked
<1>10. CASE Load
  BY <1>10 DEF Load, Update
<1>11. CASE Unload
  BY <1>11 DEF Unload, Update
<1>12. CASE Loaded
  BY <1>12, WasRead, Rewoken DEF Loaded, At, Update, NoOp
<1>13. CASE Unloaded \/ NotUnloaded
  BY <1>13, WasRead DEF Unloaded, NotUnloaded, At, Update, NoOp
<1>14. CASE OpFailed
  BY <1>14 DEF OpFailed, Update, NoOp
<1>15. CASE StatusApplied
  BY <1>15, WasRead, Rewoken DEF StatusApplied, PhaseOf, NoQuery
<1>16. CASE WorkerClosed
  BY <1>16, Cut DEF WorkerClosed, NoQuery
<1> QED BY <1>1, <1>2, <1>3, <1>4, <1>5, <1>6, <1>7, <1>8, <1>9, <1>10, <1>11, <1>12, <1>13,
      <1>14, <1>15, <1>16 DEF LifecycleNext, TurnStep, OpStep, StopperStep, StatusStep

\* Whatever admits work has released the hold.
LEMMA HoldStep ==
    ASSUME LifecycleNext,
           HostTypes, OpKinds, NothingStranded
    PROVE  (CanRunAny => ~hold)'
<1> USE NamesAssumption, NoneAssumption DEF Names, NothingStranded, OpKinds, HostTypes,
      FlagsTyped, TurnsTyped, CanRunAny, RunnableIn, IsLoaded, host, engine, native, worker
<1>1. CASE StopSavedCalled \/ StopSavedTurn \/ NativeStopSaved \/
      StopSavedRefused \/ NativeInspect \/ LoadTurn \/ NativeLoad \/
      NativeVerify \/ BoundaryReached \/ UnloadTurn \/ NativeRelease \/
      OpFaulted \/ StatusAsked \/ NativeStatus \/ StatusStale \/
      WorkerDies \/ (\E t \in ChatTurns : Send(t) \/ EnterWriter(t) \/
      Submit(t) \/ NativeCommit(t) \/ FinishFaulted(t) \/ Dispatch(t) \/ NativeFinish(t) \/ NativePause(t) \/
      NativeStop(t) \/ StopRefused(t) \/ Stop(t) \/ AskSuspension(t))
  <2>1. UNCHANGED <<phase, admitted, frontier, hold>>
    BY <1>1 DEF Send, EnterWriter, Submit, NativeCommit, FinishFaulted, Dispatch, NativeFinish, NativePause, NativeStop,
         StopRefused, Stop, StopSavedCalled, StopSavedTurn, NativeStopSaved, StopSavedRefused,
         NativeInspect, LoadTurn, NativeLoad, NativeVerify, AskSuspension, BoundaryReached,
         UnloadTurn, NativeRelease, OpFaulted, StatusAsked, NativeStatus, StatusStale,
         WorkerDies, Goto, NoQuery, Enqueue, Dequeue
  <2> QED BY <2>1
<1>2. ASSUME NEW t \in ChatTurns, Finished(t) PROVE (CanRunAny => ~hold)'
  BY <1>2, WasRead, Ended DEF Finished
<1>3. CASE LoadFits \/ LoadRefused \/ (\E t \in ChatTurns : Paused(t))
  BY <1>3, WasRead DEF Paused, LoadFits, LoadRefused, Update, At, Goto, NoOp
<1>4. ASSUME NEW t \in ChatTurns, Reconcile(t) PROVE (CanRunAny => ~hold)'
  BY <1>4, Ended DEF Reconcile
<1>5. ASSUME NEW t \in ChatTurns, Stopped(t) PROVE (CanRunAny => ~hold)'
  BY <1>5, WasRead, Ended DEF Stopped
<1>6. CASE StopSavedAcked
  BY <1>6, WasRead, Concluded DEF StopSavedAcked
<1>7. CASE Load
  BY <1>7 DEF Load, Update
<1>8. CASE Unload
  BY <1>8 DEF Unload, Update
<1>9. CASE Loaded
  BY <1>9, WasRead, Rewoken DEF Loaded, At, Update, NoOp
<1>10. CASE Unloaded \/ NotUnloaded
  BY <1>10, WasRead DEF Unloaded, NotUnloaded, At, Update, NoOp
<1>11. CASE OpFailed
  BY <1>11 DEF OpFailed, Update, NoOp
<1>12. CASE StatusApplied
  BY <1>12, WasRead, Rewoken DEF StatusApplied, PhaseOf, NoQuery
<1>13. CASE WorkerClosed
  BY <1>13, Cut DEF WorkerClosed, NoQuery
<1> QED BY <1>1, <1>2, <1>3, <1>4, <1>5, <1>6, <1>7, <1>8, <1>9, <1>10, <1>11, <1>12, <1>13
      DEF LifecycleNext, TurnStep, OpStep, StopperStep, StatusStep

\* Only turns are committed.
LEMMA CommittedStep ==
    ASSUME LifecycleNext,
           HostTypes, Fates
    PROVE  (committed \subseteq ChatTurns)'
<1> USE NamesAssumption, NoneAssumption DEF Names, Fates, host, engine, native, worker
<1>1. CASE StopSavedCalled \/ StopSavedTurn \/ NativeStopSaved \/
      StopSavedAcked \/ StopSavedRefused \/ Load \/ Unload \/
      NativeInspect \/ LoadFits \/ LoadRefused \/ LoadTurn \/
      NativeLoad \/ NativeVerify \/ Loaded \/ BoundaryReached \/
      UnloadTurn \/ NativeRelease \/ Unloaded \/ NotUnloaded \/
      OpFailed \/ OpFaulted \/ StatusAsked \/ NativeStatus \/
      StatusApplied \/ StatusStale \/ WorkerDies \/ WorkerClosed \/
      (\E t \in ChatTurns : Send(t) \/ EnterWriter(t) \/ Submit(t) \/
      Dispatch(t) \/ NativeFinish(t) \/ FinishFaulted(t) \/ NativePause(t) \/ Finished(t) \/ Paused(t) \/
      Reconcile(t) \/ NativeStop(t) \/ StopRefused(t) \/ Stopped(t) \/
      Stop(t) \/ AskSuspension(t))
  <2>1. UNCHANGED committed
    BY <1>1 DEF Send, EnterWriter, Submit, Dispatch, NativeFinish, FinishFaulted, NativePause, Finished, Paused, Reconcile,
         NativeStop, StopRefused, Stopped, Stop, StopSavedCalled, StopSavedTurn,
         NativeStopSaved, StopSavedAcked, StopSavedRefused, Load, Unload, NativeInspect,
         LoadFits, LoadRefused, LoadTurn, NativeLoad, NativeVerify, Loaded, AskSuspension,
         BoundaryReached, UnloadTurn, NativeRelease, Unloaded, NotUnloaded, OpFailed, OpFaulted,
         StatusAsked, NativeStatus, StatusApplied, StatusStale, WorkerDies, WorkerClosed,
         Update, Goto, NoOp, PhaseOf, NoQuery
  <2> QED BY <2>1
<1>2. ASSUME NEW t \in ChatTurns, NativeCommit(t) PROVE (committed \subseteq ChatTurns)'
  BY <1>2 DEF NativeCommit
<1> QED BY <1>1, <1>2 DEF LifecycleNext, TurnStep, OpStep, StopperStep, StatusStep

\* Only a turn that is not committed enters the worker to be executed, and only
\* an executed one is suspended.
LEMMA FatesStep ==
    ASSUME LifecycleNext,
           HostTypes, Fates, NEW u \in ChatTurns
    PROVE  (u \in committed => turn[u] \notin {"running", "paused"})'
<1> USE NamesAssumption, NoneAssumption DEF Names, Fates, CommittedOnce, HostTypes, TurnsTyped,
      host, engine, native, worker
<1>1. CASE StopSavedCalled \/ StopSavedTurn \/ StopSavedRefused \/
      Load \/ Unload \/ NativeInspect \/ LoadFits \/ LoadRefused \/
      LoadTurn \/ NativeLoad \/ NativeVerify \/ BoundaryReached \/
      UnloadTurn \/ NativeRelease \/ Unloaded \/ NotUnloaded \/
      OpFailed \/ OpFaulted \/ StatusAsked \/ NativeStatus \/
      StatusStale \/ WorkerDies \/ (\E t \in ChatTurns : AskSuspension(t))
  <2>1. UNCHANGED <<committed, turn>>
    BY <1>1 DEF StopSavedCalled, StopSavedTurn, StopSavedRefused, Load, Unload, NativeInspect,
         LoadFits, LoadRefused, LoadTurn, NativeLoad, NativeVerify, AskSuspension,
         BoundaryReached, UnloadTurn, NativeRelease, Unloaded, NotUnloaded, OpFailed, OpFaulted,
         StatusAsked, NativeStatus, StatusStale, WorkerDies, Update, Goto, NoOp, NoQuery
  <2> QED BY <2>1
<1>2. ASSUME NEW t \in ChatTurns, Send(t) \/ EnterWriter(t) \/
      Submit(t) \/ NativeCommit(t) \/ FinishFaulted(t) PROVE (u \in committed => turn[u] \notin {"running", "paused"})'
  BY <1>2 DEF Send, EnterWriter, Submit, NativeCommit, FinishFaulted, Enqueue
<1>3. ASSUME NEW t \in ChatTurns, Dispatch(t) \/ StopRefused(t) \/
      Stop(t) PROVE (u \in committed => turn[u] \notin {"running", "paused"})'
  BY <1>3 DEF Dispatch, Entered, StopRefused, Stop, Dequeue
<1>4. ASSUME NEW t \in ChatTurns, NativeFinish(t) \/ NativePause(t) \/
      NativeStop(t) PROVE (u \in committed => turn[u] \notin {"running", "paused"})'
  BY <1>4, Replied DEF NativeFinish, NativePause, NativeStop, Dequeue
<1>5. ASSUME NEW t \in ChatTurns, Finished(t) PROVE (u \in committed => turn[u] \notin {"running", "paused"})'
  BY <1>5, WasRead, Ended DEF Finished
<1>6. ASSUME NEW t \in ChatTurns, Paused(t) PROVE (u \in committed => turn[u] \notin {"running", "paused"})'
  BY <1>6, WasRead DEF Paused, Update
<1>7. ASSUME NEW t \in ChatTurns, Reconcile(t) PROVE (u \in committed => turn[u] \notin {"running", "paused"})'
  BY <1>7, Ended DEF Reconcile
<1>8. ASSUME NEW t \in ChatTurns, Stopped(t) PROVE (u \in committed => turn[u] \notin {"running", "paused"})'
  BY <1>8, WasRead, Ended DEF Stopped
<1>9. CASE NativeStopSaved
  BY <1>9, Replied DEF NativeStopSaved, Dequeue
<1>10. CASE StopSavedAcked
  BY <1>10, WasRead, Concluded DEF StopSavedAcked
<1>11. CASE Loaded
  BY <1>11, WasRead, Rewoken DEF Loaded, At, Update, NoOp
<1>12. CASE StatusApplied
  BY <1>12, WasRead, Rewoken DEF StatusApplied, PhaseOf, NoQuery
<1>13. CASE WorkerClosed
  BY <1>13, Cut DEF WorkerClosed, NoQuery
<1> QED BY <1>1, <1>2, <1>3, <1>4, <1>5, <1>6, <1>7, <1>8, <1>9, <1>10, <1>11, <1>12, <1>13
      DEF LifecycleNext, TurnStep, OpStep, StopperStep, StatusStep

\* Initially, whichever turn an earlier session saved.
LEMMA HostInit ==
    ASSUME LifecycleInit
    PROVE  HostInv
<1> USE NamesAssumption, NoneAssumption DEF Names
<1>1. \A x : ~Has(<<>>, x) /\ Lone(<<>>, x) /\ ~LastWord(<<>>, x)
  BY DEF Has, Lone, LastWord
<1>2. HostTypes
  <2>1. FlagsTyped
    BY DEF LifecycleInit, FlagsTyped, Phases
  <2>2. RecordsTyped
    BY DEF LifecycleInit, RecordsTyped, Points, NoOp, NoQuery
  <2>3. TurnsTyped
    BY DEF LifecycleInit, TurnsTyped, TurnPoints
  <2>4. replies \in Seq(ChatTurns \cup Names)
    BY DEF LifecycleInit
  <2> QED BY <2>1, <2>2, <2>3, <2>4 DEF HostTypes
<1>3. RepliesSent /\ OpKinds /\ Residency /\ ViewsTrue
  BY <1>1 DEF LifecycleInit, RepliesSent, OpKinds, Residency, ViewsTrue, IsLoaded, NoOp, NoQuery
<1>4. NothingStranded /\ Fates
  BY DEF LifecycleInit, NothingStranded, Fates, CommittedOnce, CanRun, CanRunAny, RunnableIn,
       IsLoaded
<1> QED BY <1>2, <1>3, <1>4 DEF HostInv

\* Every step.
LEMMA HostStep ==
    ASSUME HostInv, [LifecycleNext]_lifecycleVars
    PROVE  HostInv'
<1>1. CASE LifecycleNext
  <2>0. /\ HostTypes /\ RepliesSent /\ OpKinds /\ Residency /\ ViewsTrue
        /\ NothingStranded /\ Fates
    BY DEF HostInv
  <2>1. HostTypes'
    BY <1>1, <2>0, FlagsStep, RecordsStep, TurnsStep, RepliesStep DEF HostTypes
  <2>2. RepliesSent' /\ OpKinds'
    BY <1>1, <2>0, SentStep, OpKindsStep
  <2>3. Residency' /\ ViewsTrue'
    BY <1>1, <2>0, ResidencyStep, ViewsStep
  <2>4. (\A u \in ChatTurns : turn[u] = "parked" => ~CanRun(u))'
    BY <1>1, <2>0, ParkedStep
  <2>5. (CanRunAny => ~hold)'
    BY <1>1, <2>0, HoldStep
  <2>6. NothingStranded'
    BY <2>4, <2>5 DEF NothingStranded
  <2>7. Fates'
    BY <1>1, <2>0, CommittedStep, FatesStep DEF Fates, CommittedOnce
  <2> QED BY <2>1, <2>2, <2>3, <2>6, <2>7 DEF HostInv
<1>2. CASE UNCHANGED lifecycleVars
  BY <1>2 DEF lifecycleVars, host, engine, native, worker, HostInv, HostTypes, FlagsTyped,
       RecordsTyped, TurnsTyped, RepliesSent, OpKinds, Residency, ViewsTrue, NothingStranded,
       Fates, CommittedOnce, CanRun, CanRunAny, IsLoaded
<1> QED BY <1>1, <1>2

\* InstanceLifecycleController, the chat loop of brainService.ts and
\* worker_lifecycle.py agree as HostInv has it, for any turns and any deaths.
THEOREM HostInvariant == LifecycleSpec => []HostInv
<1>1. LifecycleInit => HostInv
  BY HostInit
<1>2. HostInv /\ [LifecycleNext]_lifecycleVars => HostInv'
  BY HostStep
<1> QED BY <1>1, <1>2, PTL DEF LifecycleSpec

\* isLoaded and resume of the controller: what the host believes of a loaded brain
\* is so in the worker, up to the close event of one that just died.
THEOREM HostViewHolds == LifecycleSpec => []HostViewIsTrue
<1>1. HostInv => HostViewIsTrue
  <2>1. Settled => Quiet(replies)
    BY DEF Settled, Quiet, Range
  <2> QED BY <2>1 DEF HostInv, Residency, ViewsTrue, HostViewIsTrue
<1> QED BY <1>1, HostInvariant, PTL

\* resume_chat and suspend_instance, over every retry of chat(): a committed turn is
\* not executed or suspended again.
THEOREM CommittedOnceHolds == LifecycleSpec => []CommittedOnce
<1>1. HostInv => CommittedOnce
  BY DEF HostInv, Fates, CommittedOnce
<1> QED BY <1>1, HostInvariant, PTL

\* waitUntilLoaded and holdInstanceDispatch: no waiter and no hold outlives its
\* reason.
THEOREM NothingStrandedHolds == LifecycleSpec => []NothingStranded
<1>1. HostInv => NothingStranded
  BY DEF HostInv
<1> QED BY <1>1, HostInvariant, PTL
=============================================================================
