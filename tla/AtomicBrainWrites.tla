------------------------- MODULE AtomicBrainWrites -------------------------
(***************************************************************************)
(* What the brain-write coordinator promises its callers, with no promise   *)
(* chain in sight.  A writer owns the brains of its scope from the moment   *)
(* its operation starts until it settles; two scopes in use never overlap;  *)
(* and whatever a writer saves contains everything committed before it      *)
(* (src/src/main/brainWriteCoordinator.ts, comment on the class).           *)
(***************************************************************************)

CONSTANTS Brains,    \* identifiers of the persistent brains
          Writers    \* calls that want to rewrite whole brain documents

VARIABLES scope,     \* scope[w]: the brains w's running operation owns
          doc        \* doc[b]: the writers whose mutation brain b contains

avars == <<scope, doc>>

AInit == /\ scope = [w \in Writers |-> {}]
         /\ doc = [b \in Brains |-> {}]

(* A writer enters only when nobody who is running owns one of its brains. *)
Enter(w, S) == /\ scope[w] = {}
               /\ \A v \in Writers : scope[v] \cap S = {}
               /\ scope' = [scope EXCEPT ![w] = S]
               /\ UNCHANGED doc

(* A save keeps every earlier mutation: it is an atomic read-modify-write. *)
Commit(w, b) == /\ b \in scope[w]
                /\ doc' = [doc EXCEPT ![b] = @ \cup {w}]
                /\ UNCHANGED scope

Leave(w) == /\ scope' = [scope EXCEPT ![w] = {}]
            /\ UNCHANGED doc

ANext == \E w \in Writers :
           \/ \E S \in SUBSET Brains : Enter(w, S)
           \/ \E b \in Brains : Commit(w, b)
           \/ Leave(w)

ASpec == AInit /\ [][ANext]_avars
=============================================================================
