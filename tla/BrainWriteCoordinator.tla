----------------------- MODULE BrainWriteCoordinator -----------------------
(***************************************************************************)
(* src/src/main/brainWriteCoordinator.ts: FIFO serialization of the         *)
(* whole-document writers of persistent brains.                             *)
(*                                                                         *)
(* Each call of run() is one writer.  For every brain of its scope, in one  *)
(* global order, it links a promise behind the brain's current tail and     *)
(* waits for the predecessor; after the last one its operation runs (read   *)
(* the documents, work, save them).  The finally blocks release the links   *)
(* from the innermost to the outermost.  A tail settles only once it was    *)
(* released AND everything chained before it has settled.                   *)
(*                                                                         *)
(* Promise callbacks are separate steps (Settle, Forget), so every delay    *)
(* the microtask queue can add is explored.                                 *)
(***************************************************************************)
EXTENDS Integers

CONSTANTS Brains,   \* trimmed brain identifiers, ordered as localeCompare does
          Writers,  \* the calls of run()
          Scopes,   \* the sets of brains each call may be made for
          None      \* no tail, or Promise.resolve() as predecessor

ASSUME BrainsAssumption == Brains \subseteq Nat \ {0}
ASSUME ScopesAssumption == Scopes \in [Writers -> SUBSET (SUBSET Brains)]
ASSUME NoneAssumption == None \notin Writers

VARIABLES pc,        \* control point of each call
          want,      \* normalized scope of each call
          at,        \* brain whose runForOne frame is innermost (0: none)
          aborted,   \* the caller's AbortSignal has fired
          tails,     \* this.tails: last link of each brain
          pred,      \* predecessor captured by each link
          link,      \* state of each link's barrier and tail promise
          ahead,     \* history: links registered earlier on the same brain
          copy,      \* documents the running operation has read
          doc        \* documents on disk, as the writers they contain

vars == <<pc, want, at, aborted, tails, pred, link, ahead, copy, doc>>

LinkState == {"none", "open", "released", "settled"}

TypeOK == /\ pc \in [Writers -> {"new", "waiting", "operating", "unwinding", "done"}]
          /\ want \in [Writers -> SUBSET Brains]
          /\ at \in [Writers -> Brains \cup {0}]
          /\ aborted \in [Writers -> BOOLEAN]
          /\ tails \in [Brains -> Writers \cup {None}]
          /\ pred \in [Brains -> [Writers -> Writers \cup {None}]]
          /\ link \in [Brains -> [Writers -> LinkState]]
          /\ ahead \in [Brains -> [Writers -> SUBSET Writers]]
          /\ copy \in [Writers -> [Brains -> SUBSET Writers]]
          /\ doc \in [Brains -> SUBSET Writers]

Init == /\ pc = [w \in Writers |-> "new"]
        /\ want = [w \in Writers |-> {}]
        /\ at = [w \in Writers |-> 0]
        /\ aborted = [w \in Writers |-> FALSE]
        /\ tails = [b \in Brains |-> None]
        /\ pred = [b \in Brains |-> [w \in Writers |-> None]]
        /\ link = [b \in Brains |-> [w \in Writers |-> "none"]]
        /\ ahead = [b \in Brains |-> [w \in Writers |-> {}]]
        /\ copy = [w \in Writers |-> [b \in Brains |-> {}]]
        /\ doc = [b \in Brains |-> {}]
-----------------------------------------------------------------------------
Linked(b) == {v \in Writers : link[b][v] # "none"}

(* b is the next brain of scope S after a, in acquisition order. *)
IsNext(S, a, b) == /\ b \in S
                   /\ b > a
                   /\ \A c \in S : c > a => b <= c

(* c is the brain of scope S acquired just before b. *)
IsPrevious(S, b, c) == /\ c \in S
                       /\ c < b
                       /\ \A d \in S : d < b => d <= c

(* runForOne up to its first await: read the tail, chain behind it, replace it. *)
Register(w, b) == /\ pred' = [pred EXCEPT ![b][w] = tails[b]]
                  /\ tails' = [tails EXCEPT ![b] = w]
                  /\ link' = [link EXCEPT ![b][w] = "open"]
                  /\ ahead' = [ahead EXCEPT ![b][w] = Linked(b)]
                  /\ at' = [at EXCEPT ![w] = b]

PredecessorSettled(b, w) == \/ pred[b][w] = None
                            \/ pred[b][w] # None /\ link[b][pred[b][w]] = "settled"

(* run(): normalize the scope and register on its first brain, synchronously. *)
Start(w, S) == /\ pc[w] = "new"
               /\ S # {}
               /\ want' = [want EXCEPT ![w] = S]
               /\ \E b \in Brains : IsNext(S, 0, b) /\ Register(w, b)
               /\ pc' = [pc EXCEPT ![w] = "waiting"]
               /\ UNCHANGED <<aborted, copy, doc>>

(* The predecessor settled and the signal has not fired: go on to the next  *)
(* brain of the scope ...                                                   *)
Acquire(w) == /\ pc[w] = "waiting"
              /\ ~aborted[w]
              /\ PredecessorSettled(at[w], w)
              /\ \E b \in Brains : IsNext(want[w], at[w], b) /\ Register(w, b)
              /\ UNCHANGED <<pc, want, aborted, copy, doc>>

(* Variant for mutation: the operation starts without waiting its turn. *)
OperateUnqueued(w) == /\ pc[w] = "waiting"
                      /\ ~aborted[w]
                      /\ \A b \in want[w] : b <= at[w]
                      /\ pc' = [pc EXCEPT ![w] = "operating"]
                      /\ copy' = [copy EXCEPT ![w] = doc]
                      /\ UNCHANGED <<want, at, aborted, tails, pred, link, ahead, doc>>

(* ... or, past the last one, run the operation, which reads the documents. *)
Operate(w) == /\ pc[w] = "waiting"
              /\ ~aborted[w]
              /\ PredecessorSettled(at[w], w)
              /\ \A b \in want[w] : b <= at[w]
              /\ pc' = [pc EXCEPT ![w] = "operating"]
              /\ copy' = [copy EXCEPT ![w] = doc]
              /\ UNCHANGED <<want, at, aborted, tails, pred, link, ahead, doc>>

(* The operation saves the detached document it read, plus its own change. *)
Save(w, b) == /\ pc[w] = "operating"
              /\ b \in want[w]
              /\ doc' = [doc EXCEPT ![b] = copy[w][b] \cup {w}]
              /\ copy' = [copy EXCEPT ![w][b] = copy[w][b] \cup {w}]
              /\ UNCHANGED <<pc, want, at, aborted, tails, pred, link, ahead>>

(* The operation settles, whether or not it saved, cancelled or not. *)
Finish(w) == /\ pc[w] = "operating"
             /\ pc' = [pc EXCEPT ![w] = "unwinding"]
             /\ UNCHANGED <<want, at, aborted, tails, pred, link, ahead, copy, doc>>

(* Variant for mutation: the abort event itself releases a running operation. *)
AbortReleases(w) == /\ pc[w] # "done"
                    /\ ~aborted[w]
                    /\ aborted' = [aborted EXCEPT ![w] = TRUE]
                    /\ link' = IF pc[w] = "operating"
                               THEN [link EXCEPT ![at[w]][w] = "released"] ELSE link
                    /\ UNCHANGED <<pc, want, at, tails, pred, ahead, copy, doc>>

(* The caller's AbortController fires; only a waiter listens to it. *)
Abort(w) == /\ pc[w] # "done"
            /\ ~aborted[w]
            /\ aborted' = [aborted EXCEPT ![w] = TRUE]
            /\ UNCHANGED <<pc, want, at, tails, pred, link, ahead, copy, doc>>

(* waitForPredecessor rejects: the links are released without ever running. *)
AbandonWait(w) == /\ pc[w] = "waiting"
                  /\ aborted[w]
                  /\ pc' = [pc EXCEPT ![w] = "unwinding"]
                  /\ UNCHANGED <<want, at, aborted, tails, pred, link, ahead, copy, doc>>

(* Variant for mutation: the frames around the innermost one are not unwound. *)
ReleaseInnermostOnly(w) == /\ pc[w] = "unwinding"
                           /\ link' = [link EXCEPT ![at[w]][w] = "released"]
                           /\ at' = [at EXCEPT ![w] = 0]
                           /\ pc' = [pc EXCEPT ![w] = "done"]
                           /\ UNCHANGED <<want, aborted, tails, pred, ahead, copy, doc>>

(* The finally block of the innermost frame, then the frame around it. *)
Release(w) == /\ pc[w] = "unwinding"
              /\ link' = [link EXCEPT ![at[w]][w] = "released"]
              /\ \/ \E c \in Brains : /\ IsPrevious(want[w], at[w], c)
                                      /\ at' = [at EXCEPT ![w] = c]
                                      /\ UNCHANGED pc
                 \/ /\ \A c \in want[w] : c >= at[w]
                    /\ at' = [at EXCEPT ![w] = 0]
                    /\ pc' = [pc EXCEPT ![w] = "done"]
              /\ UNCHANGED <<want, aborted, tails, pred, ahead, copy, doc>>

(* Variant for mutation: the tail is the bare barrier, not chained. *)
SettleUnchained(b, w) == /\ link[b][w] = "released"
                         /\ link' = [link EXCEPT ![b][w] = "settled"]
                         /\ UNCHANGED <<pc, want, at, aborted, tails, pred, ahead, copy, doc>>

(* predecessor.then(() => barrier): the tail promise resolves. *)
Settle(b, w) == /\ link[b][w] = "released"
                /\ PredecessorSettled(b, w)
                /\ link' = [link EXCEPT ![b][w] = "settled"]
                /\ UNCHANGED <<pc, want, at, aborted, tails, pred, ahead, copy, doc>>

Forget(b, w) == /\ link[b][w] = "settled"
                /\ tails[b] = w
                /\ tails' = [tails EXCEPT ![b] = None]
                /\ UNCHANGED <<pc, want, at, aborted, pred, link, ahead, copy, doc>>
-----------------------------------------------------------------------------
Next == \/ \E w \in Writers :
             \/ \E S \in Scopes[w] : Start(w, S)
             \/ Acquire(w)
             \/ Operate(w)
             \/ \E b \in Brains : Save(w, b)
             \/ Finish(w)
             \/ Abort(w)
             \/ AbandonWait(w)
             \/ Release(w)
        \/ \E b \in Brains, w \in Writers : Settle(b, w) \/ Forget(b, w)

Spec == Init /\ [][Next]_vars

(* Promise callbacks always run; nobody has to call run() or abort a call.  *)
(* An operation is not assumed to settle here.                              *)
CallbackFairness ==
  /\ \A w \in Writers : /\ WF_vars(Acquire(w))
                        /\ WF_vars(Operate(w))
                        /\ WF_vars(AbandonWait(w))
                        /\ WF_vars(Release(w))
  /\ \A b \in Brains, w \in Writers : WF_vars(Settle(b, w)) /\ WF_vars(Forget(b, w))

FairSpec == Spec /\ CallbackFairness

(* Operations settle: worker requests are bounded by deadlines and exits. *)
OperationsSettle == \A w \in Writers : WF_vars(Finish(w))
-----------------------------------------------------------------------------
(* The brains whose predecessor chain w has waited out and not released. *)
Holds(w, b) == /\ b \in want[w]
               /\ pc[w] \in {"waiting", "operating"}
               /\ \/ b < at[w]
                  \/ b = at[w] /\ pc[w] = "operating"

(* No two calls are past the wait for the same brain at once, whichever of  *)
(* them was aborted meanwhile: the lock covers read, work and save          *)
(* (brainWriteCoordinator.ts:43-49, 98-101).                                *)
Exclusive == \A b \in Brains, v, w \in Writers :
               v # w /\ Holds(v, b) => ~Holds(w, b)

(* First come, first served on every brain: while a call holds a brain no    *)
(* call that queued earlier on it still has work to release, even when a     *)
(* waiter in the middle of the queue was aborted and let go of its link      *)
(* out of order (brainWriteCoordinator.ts:104-109).                          *)
ArrivalOrder == \A b \in Brains, w \in Writers :
                  Holds(w, b) => \A v \in ahead[b][w] : link[b][v] = "settled"

(* What a running operation has read is what is on disk, so the save of a    *)
(* detached document never overwrites a newer commit.                        *)
NoStaleCopy == \A w \in Writers : pc[w] = "operating" =>
                 \A b \in want[w] : copy[w][b] = doc[b]

(* The open links of a call are exactly the frames it is inside of. *)
FramesMatchLinks ==
  \A w \in Writers :
    /\ pc[w] = "new" => at[w] = 0
    /\ pc[w] \in {"waiting", "operating", "unwinding"} => at[w] \in want[w]
    /\ pc[w] = "operating" => \A b \in want[w] : b <= at[w]
    /\ \A b \in Brains :
         /\ link[b][w] = "open" <=> /\ pc[w] \in {"waiting", "operating", "unwinding"}
                                   /\ b \in want[w]
                                   /\ b <= at[w]
         /\ pc[w] \in {"new", "waiting", "operating"} /\ b > at[w] => link[b][w] = "none"

(* The links of a brain form one queue, and `ahead' is its order. *)
QueueIsTotal ==
  \A b \in Brains, v \in Writers :
    /\ link[b][v] = "none" => ahead[b][v] = {}
    /\ ahead[b][v] \subseteq Linked(b) \ {v}
    /\ \A w \in Linked(b) \ {v} : v \in Linked(b) => v \in ahead[b][w] \/ w \in ahead[b][v]

(* The tail is the youngest link; a brain without a tail has no unsettled link. *)
TailIsLast ==
  \A b \in Brains :
    /\ tails[b] = None => \A v \in Linked(b) : link[b][v] = "settled"
    /\ tails[b] # None => /\ tails[b] \in Linked(b)
                          /\ Linked(b) \subseteq ahead[b][tails[b]] \cup {tails[b]}

(* The predecessor is the link just ahead, or everything ahead has settled. *)
PredecessorIsNearest ==
  \A b \in Brains : \A w \in Linked(b) :
    /\ pred[b][w] = None => \A v \in ahead[b][w] : link[b][v] = "settled"
    /\ pred[b][w] # None => /\ pred[b][w] \in ahead[b][w]
                            /\ ahead[b][w] \subseteq ahead[b][pred[b][w]] \cup {pred[b][w]}

(* A tail settles only behind everything that was queued before it, in       *)
(* whatever order the barriers were released.                                *)
SettledInOrder ==
  \A b \in Brains, w \in Writers :
    link[b][w] = "settled" => \A v \in ahead[b][w] : link[b][v] = "settled"

QueueInv == QueueIsTotal /\ TailIsLast /\ PredecessorIsNearest /\ SettledInOrder

IInv == TypeOK /\ FramesMatchLinks /\ QueueInv /\ ArrivalOrder /\ NoStaleCopy

(* Nobody waits for ever: calls with overlapping scopes acquire in one order *)
(* and every release wakes the next one in line, provided operations settle; *)
(* a cancelled waiter returns even if the operation in front of it hangs.    *)
EveryCallReturns ==
  /\ OperationsSettle => \A w \in Writers : pc[w] = "waiting" ~> pc[w] = "done"
  /\ \A w \in Writers : pc[w] = "waiting" /\ aborted[w] ~> pc[w] = "done"

(* The abstract promise: exclusive scopes and atomic read-modify-writes. *)
Abstract == INSTANCE AtomicBrainWrites WITH
              scope <- [w \in Writers |-> IF pc[w] = "operating" THEN want[w] ELSE {}]

ImplementsAtomicWrites == Abstract!ASpec
=============================================================================
