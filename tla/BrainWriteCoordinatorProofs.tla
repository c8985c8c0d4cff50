-------------------- MODULE BrainWriteCoordinatorProofs --------------------
(***************************************************************************)
(* Proofs about BrainWriteCoordinator for any number of brains and calls:  *)
(* IInv is inductive, so the lock is exclusive and first come first served,*)
(* a running operation never works on a stale document, and the promise    *)
(* chains implement AtomicBrainWrites.                                     *)
(***************************************************************************)
EXTENDS BrainWriteCoordinator, TLAPS

LEMMA OrderedBrains ==
  ASSUME TypeOK
  PROVE  Brains \subseteq Nat /\ \A w \in Writers : at[w] \in Nat
<1>1. Brains \subseteq Nat
  BY BrainsAssumption
<1>2. ASSUME NEW w \in Writers PROVE at[w] \in Nat
  <2>1. CASE at[w] \in Brains
    BY <1>1, <2>1
  <2>2. CASE at[w] = 0
    BY <2>2
  <2> QED
    BY <2>1, <2>2 DEF TypeOK
<1> QED
  BY <1>1, <1>2

(* Two holders of one brain are ordered by the queue, and the later one    *)
(* would have waited for the earlier one's link to settle.                 *)
LEMMA HoldersExclude == IInv => Exclusive
<1> SUFFICES ASSUME IInv, NEW b \in Brains, NEW v \in Writers, NEW w \in Writers,
                    v # w, Holds(v, b), Holds(w, b)
             PROVE  FALSE
  BY DEF Exclusive
<1>0. b \in Nat /\ at[v] \in Nat /\ at[w] \in Nat
  BY OrderedBrains DEF IInv
<1>1. link[b][v] = "open" /\ link[b][w] = "open"
  <2>1. pc[v] \in {"waiting", "operating"} /\ b \in want[v] /\ b <= at[v]
    BY <1>0 DEF Holds
  <2>2. pc[w] \in {"waiting", "operating"} /\ b \in want[w] /\ b <= at[w]
    BY <1>0 DEF Holds
  <2> QED
    BY <2>1, <2>2 DEF IInv, FramesMatchLinks
<1>2. v \in ahead[b][w] \/ w \in ahead[b][v]
  BY <1>1 DEF IInv, QueueInv, QueueIsTotal, Linked
<1> QED
  BY <1>1, <1>2 DEF IInv, ArrivalOrder

LEMMA InitIInv == Init => IInv
<1> SUFFICES ASSUME Init PROVE IInv
  OBVIOUS
<1>1. TypeOK
  BY DEF Init, TypeOK, LinkState
<1>2. FramesMatchLinks
  BY BrainsAssumption DEF Init, FramesMatchLinks
<1>3. QueueInv
  BY NoneAssumption DEF Init, QueueInv, QueueIsTotal, TailIsLast, PredecessorIsNearest,
     SettledInOrder, Linked
<1>4. ArrivalOrder /\ NoStaleCopy
  BY DEF Init, ArrivalOrder, NoStaleCopy, Holds
<1> QED
  BY <1>1, <1>2, <1>3, <1>4 DEF IInv

LEMMA TypePreserved == TypeOK /\ [Next]_vars => TypeOK'
<1> SUFFICES ASSUME TypeOK, [Next]_vars PROVE TypeOK'
  OBVIOUS
<1> USE DEF TypeOK, LinkState
<1>1. ASSUME NEW w \in Writers, NEW b \in Brains, Register(w, b)
      PROVE  /\ at' \in [Writers -> Brains \cup {0}]
             /\ tails' \in [Brains -> Writers \cup {None}]
             /\ pred' \in [Brains -> [Writers -> Writers \cup {None}]]
             /\ link' \in [Brains -> [Writers -> LinkState]]
             /\ ahead' \in [Brains -> [Writers -> SUBSET Writers]]
  BY <1>1 DEF Register, Linked
<1>2. ASSUME NEW w \in Writers, NEW S \in SUBSET Brains, Start(w, S) PROVE TypeOK'
  BY <1>1, <1>2 DEF Start
<1>3. ASSUME NEW w \in Writers, Acquire(w) PROVE TypeOK'
  BY <1>1, <1>3 DEF Acquire
<1>4. ASSUME NEW w \in Writers, Operate(w) PROVE TypeOK'
  BY <1>4 DEF Operate
<1>5. ASSUME NEW w \in Writers, NEW b \in Brains, Save(w, b) PROVE TypeOK'
  BY <1>5 DEF Save
<1>6. ASSUME NEW w \in Writers, Finish(w) \/ Abort(w) \/ AbandonWait(w) PROVE TypeOK'
  BY <1>6 DEF Finish, Abort, AbandonWait
<1>7. ASSUME NEW w \in Writers, Release(w) PROVE TypeOK'
  BY <1>7 DEF Release
<1>8. ASSUME NEW b \in Brains, NEW w \in Writers, Settle(b, w) \/ Forget(b, w) PROVE TypeOK'
  <2>1. CASE Settle(b, w)
    BY <2>1 DEF Settle
  <2>2. CASE Forget(b, w)
    BY <2>2 DEF Forget
  <2> QED
    BY <1>8, <2>1, <2>2
<1>9. CASE UNCHANGED vars
  BY <1>9 DEF vars
<1> QED
  BY <1>2, <1>3, <1>4, <1>5, <1>6, <1>7, <1>8, <1>9, ScopesAssumption
    DEF Next

(* Registering appends to the queue of one brain.                          *)
LEMMA RegisterKeepsQueue ==
  ASSUME TypeOK, QueueInv, NEW w \in Writers, NEW b \in Brains,
         link[b][w] = "none", Register(w, b)
  PROVE  QueueInv'
<1> USE DEF TypeOK, LinkState, Linked
<1>1. /\ \A c \in Brains, v \in Writers :
           <<c, v>> # <<b, w>> => /\ link'[c][v] = link[c][v]
                                  /\ pred'[c][v] = pred[c][v]
                                  /\ ahead'[c][v] = ahead[c][v]
      /\ link'[b][w] = "open"
      /\ pred'[b][w] = tails[b]
      /\ ahead'[b][w] = Linked(b)
      /\ \A c \in Brains : c # b => tails'[c] = tails[c]
      /\ tails'[b] = w
  BY DEF Register
<1>2. \A c \in Brains : c # b => Linked(c)' = Linked(c)
  BY <1>1
<1>3. Linked(b)' = Linked(b) \cup {w}
  BY <1>1
<1>a. w \notin Linked(b) /\ \A c \in Brains : Linked(c) \subseteq Writers
  OBVIOUS
<1> HIDE DEF TypeOK, LinkState, Linked
<1>4. QueueIsTotal'
  <2> SUFFICES ASSUME NEW c \in Brains, NEW v \in Writers
               PROVE  /\ link'[c][v] = "none" => ahead'[c][v] = {}
                      /\ ahead'[c][v] \subseteq Linked(c)' \ {v}
                      /\ \A u \in Linked(c)' \ {v} :
                           v \in Linked(c)' => v \in ahead'[c][u] \/ u \in ahead'[c][v]
    BY DEF QueueIsTotal
  <2>1. CASE c # b
    BY <1>1, <1>2, <1>a, <2>1 DEF QueueInv, QueueIsTotal
  <2>2. CASE c = b
    BY <1>1, <1>3, <1>a, <2>2 DEF QueueInv, QueueIsTotal
  <2> QED
    BY <2>1, <2>2
<1>5. TailIsLast'
  BY <1>1, <1>2, <1>3, <1>a, NoneAssumption DEF QueueInv, TailIsLast
<1>b. \A c \in Brains, v \in Writers : ahead[c][v] \subseteq Linked(c)
  BY DEF QueueInv, QueueIsTotal
<1>6. PredecessorIsNearest'
  <2> SUFFICES ASSUME NEW c \in Brains, NEW v \in Linked(c)'
               PROVE  /\ pred'[c][v] = None =>
                           \A u \in ahead'[c][v] : link'[c][u] = "settled"
                      /\ pred'[c][v] # None =>
                           /\ pred'[c][v] \in ahead'[c][v]
                           /\ ahead'[c][v] \subseteq ahead'[c][pred'[c][v]] \cup {pred'[c][v]}
    BY DEF PredecessorIsNearest
  <2>1. CASE c = b /\ v = w
    <3>1. \A u \in Linked(b) : u # w /\ link'[b][u] = link[b][u] /\ ahead'[b][u] = ahead[b][u]
      BY <1>1, <1>a
    <3> QED
      BY <2>1, <3>1, <1>1 DEF QueueInv, TailIsLast
  <2>2. CASE <<c, v>> # <<b, w>>
    <3>1. v \in Linked(c)
      BY <2>2, <1>2, <1>3
    <3>2. \A u \in ahead[c][v] : link'[c][u] = link[c][u] /\ ahead'[c][u] = ahead[c][u]
      BY <3>1, <1>1, <1>a, <1>b
    <3>3. v \in Writers
      BY <3>1, <1>a
    <3> QED
      BY <2>2, <3>1, <3>2, <3>3, <1>1 DEF QueueInv, PredecessorIsNearest
  <2> QED
    BY <2>1, <2>2
<1>7. SettledInOrder'
  <2> SUFFICES ASSUME NEW c \in Brains, NEW v \in Writers, link'[c][v] = "settled",
                      NEW u \in ahead'[c][v]
               PROVE  link'[c][u] = "settled"
    BY DEF SettledInOrder
  <2>1. <<c, v>> # <<b, w>>
    BY <1>1
  <2>2. u \in ahead[c][v] /\ link[c][u] = "settled"
    BY <2>1, <1>1 DEF QueueInv, SettledInOrder
  <2> QED
    BY <2>2, <1>1, <1>a, <1>b
<1> QED
  BY <1>4, <1>5, <1>6, <1>7 DEF QueueInv

(* A link that may settle stands behind settled links only.                *)
LEMMA PredecessorChain ==
  ASSUME TypeOK, QueueInv, NEW b \in Brains, NEW w \in Linked(b), PredecessorSettled(b, w)
  PROVE  \A v \in ahead[b][w] : link[b][v] = "settled"
BY NoneAssumption DEF TypeOK, QueueInv, PredecessorIsNearest, SettledInOrder, PredecessorSettled, Linked
(* A link changes state behind a queue of the same shape: it was open and  *)
(* is released, or it was released and settles behind settled links.       *)
LEMMA LinkStepKeepsQueue ==
  ASSUME TypeOK, QueueInv, NEW w \in Writers, NEW b \in Brains, NEW s \in {"released", "settled"},
         link[b][w] \notin {"none", "settled"}, link' = [link EXCEPT ![b][w] = s],
         s = "settled" => \A v \in ahead[b][w] : link[b][v] = "settled",
         UNCHANGED <<tails, pred, ahead>>
  PROVE  QueueInv'
<1>1. /\ \A c \in Brains, v \in Writers : <<c, v>> # <<b, w>> => link'[c][v] = link[c][v]
      /\ link'[b][w] = s
  BY DEF TypeOK
<1>2. \A c \in Brains : Linked(c)' = Linked(c) /\ Linked(c) \subseteq Writers
  BY <1>1 DEF Linked
<1>3. \A c \in Brains, v \in Writers : link[c][v] = "settled" => link'[c][v] = "settled"
  BY <1>1
<1>4. QueueIsTotal'
  BY <1>1, <1>2 DEF QueueInv, QueueIsTotal, Linked
<1>5. TailIsLast'
  BY <1>2, <1>3 DEF QueueInv, TailIsLast
<1>6. \A c \in Brains, v \in Writers : ahead[c][v] \subseteq Writers
  BY DEF TypeOK
<1>7. PredecessorIsNearest'
  BY <1>2, <1>3, <1>6 DEF QueueInv, PredecessorIsNearest
<1>8. SettledInOrder'
  <2> SUFFICES ASSUME NEW c \in Brains, NEW v \in Writers, link'[c][v] = "settled",
                      NEW u \in ahead[c][v]
               PROVE  link'[c][u] = "settled"
    BY DEF SettledInOrder
  <2>1. link[c][u] = "settled"
    <3>1. CASE <<c, v>> = <<b, w>>
      BY <3>1, <1>1
    <3>2. CASE <<c, v>> # <<b, w>>
      BY <3>2, <1>1 DEF QueueInv, SettledInOrder
    <3> QED
      BY <3>1, <3>2
  <2> QED
    BY <2>1, <1>3, <1>6
<1> QED
  BY <1>4, <1>5, <1>7, <1>8 DEF QueueInv

LEMMA QueuePreserved == IInv /\ [Next]_vars => QueueInv'
<1> SUFFICES ASSUME IInv, [Next]_vars PROVE QueueInv'
  OBVIOUS
<1>t. TypeOK /\ QueueInv /\ FramesMatchLinks
  BY DEF IInv
<1>f. ASSUME UNCHANGED <<tails, pred, link, ahead>> PROVE QueueInv'
  BY <1>t, <1>f DEF QueueInv, QueueIsTotal, TailIsLast, PredecessorIsNearest, SettledInOrder, Linked
<1>1. ASSUME NEW w \in Writers, NEW S \in SUBSET Brains, Start(w, S) PROVE QueueInv'
  <2>1. PICK b \in Brains : IsNext(S, 0, b) /\ Register(w, b)
    BY <1>1 DEF Start
  <2>2. link[b][w] = "none"
    BY <1>1, <1>t, <2>1 DEF Start, FramesMatchLinks, IsNext
  <2> QED
    BY <1>t, <2>1, <2>2, RegisterKeepsQueue
<1>2. ASSUME NEW w \in Writers, Acquire(w) PROVE QueueInv'
  <2>1. PICK b \in Brains : IsNext(want[w], at[w], b) /\ Register(w, b)
    BY <1>2 DEF Acquire
  <2>2. link[b][w] = "none"
    BY <1>2, <1>t, <2>1 DEF Acquire, FramesMatchLinks, IsNext
  <2> QED
    BY <1>t, <2>1, <2>2, RegisterKeepsQueue
<1>3. ASSUME NEW w \in Writers, Release(w) PROVE QueueInv'
  <2>1. at[w] \in Brains /\ link[at[w]][w] = "open"
    BY <1>3, <1>t, OrderedBrains DEF Release, FramesMatchLinks, TypeOK
  <2> QED
    BY <1>3, <1>t, <2>1, LinkStepKeepsQueue DEF Release
<1>4. ASSUME NEW b \in Brains, NEW w \in Writers, Settle(b, w) PROVE QueueInv'
  <2>1. w \in Linked(b)
    BY <1>4 DEF Settle, Linked
  <2>2. \A v \in ahead[b][w] : link[b][v] = "settled"
    BY <1>4, <1>t, <2>1, PredecessorChain DEF Settle
  <2> QED
    BY <1>4, <1>t, <2>2, LinkStepKeepsQueue DEF Settle
<1>5. ASSUME NEW b \in Brains, NEW w \in Writers, Forget(b, w) PROVE QueueInv'
  <2>1. \A v \in Linked(b) : link[b][v] = "settled"
    BY <1>5, <1>t, NoneAssumption DEF Forget, QueueInv, TailIsLast, SettledInOrder
  <2>2. tails'[b] = None /\ \A c \in Brains : c # b => tails'[c] = tails[c]
    BY <1>5, <1>t DEF Forget, TypeOK
  <2>3. TailIsLast'
    BY <1>5, <1>t, <2>1, <2>2 DEF Forget, QueueInv, TailIsLast, Linked
  <2> QED
    BY <1>5, <1>t, <2>3 DEF Forget, QueueInv, QueueIsTotal, PredecessorIsNearest,
       SettledInOrder, Linked
<1> QED
  BY <1>f, <1>1, <1>2, <1>3, <1>4, <1>5, ScopesAssumption
     DEF Next, vars, Operate, Save, Finish, Abort, AbandonWait

(* Registering opens the frame of the next brain in acquisition order.     *)
LEMMA RegisterKeepsFrames ==
  ASSUME TypeOK, FramesMatchLinks, NEW w \in Writers, NEW b \in Brains,
         pc[w] \in {"new", "waiting"}, pc' = [pc EXCEPT ![w] = "waiting"],
         want'[w] \in SUBSET Brains,
         \A v \in Writers : v # w => want'[v] = want[v],
         pc[w] = "waiting" => want'[w] = want[w],
         IsNext(want'[w], at[w], b), Register(w, b)
  PROVE  FramesMatchLinks'
<1>1. /\ \A v \in Writers : v # w => pc'[v] = pc[v] /\ at'[v] = at[v]
      /\ pc'[w] = "waiting"
      /\ at'[w] = b
      /\ \A c \in Brains, v \in Writers : <<c, v>> # <<b, w>> => link'[c][v] = link[c][v]
      /\ link'[b][w] = "open"
  BY DEF Register, TypeOK
<1>2. Brains \subseteq Nat /\ \A v \in Writers : at[v] \in Nat
  BY OrderedBrains
<1> SUFFICES ASSUME NEW v \in Writers
             PROVE  /\ pc'[v] = "new" => at'[v] = 0
                    /\ pc'[v] \in {"waiting", "operating", "unwinding"} => at'[v] \in want'[v]
                    /\ pc'[v] = "operating" => \A c \in want'[v] : c <= at'[v]
                    /\ \A c \in Brains :
                         /\ link'[c][v] = "open" <=>
                              /\ pc'[v] \in {"waiting", "operating", "unwinding"}
                              /\ c \in want'[v]
                              /\ c <= at'[v]
                         /\ pc'[v] \in {"new", "waiting", "operating"} /\ c > at'[v]
                              => link'[c][v] = "none"
  BY DEF FramesMatchLinks
<1>3. CASE v # w
  BY <1>1, <1>3 DEF FramesMatchLinks
<1>4. CASE v = w
  <2>1. b \in want'[w] /\ b > at[w] /\ \A c \in want'[w] : c > at[w] => b <= c
    BY DEF IsNext
  <2>2. ASSUME NEW c \in Brains
        PROVE  /\ link'[c][w] = "open" <=> c \in want'[w] /\ c <= b
               /\ c > b => link'[c][w] = "none"
    <3>1. CASE c = b
      BY <3>1, <1>1, <1>2, <2>1
    <3>2. CASE c # b /\ c > at[w]
      <4>1. link'[c][w] = "none"
        BY <3>2, <1>1 DEF FramesMatchLinks
      <4>2. c \in Nat /\ b \in Nat
        BY <1>2
      <4> QED
        BY <3>2, <4>1, <4>2, <2>1
    <3>3. CASE c <= at[w]
      <4>1. c \in Nat /\ b \in Nat /\ at[w] \in Nat
        BY <1>2
      <4>2. c <= b /\ c # b
        BY <3>3, <4>1, <2>1
      <4>3. pc[w] = "waiting"
        <5>1. CASE pc[w] = "new"
          <6>1. at[w] = 0 /\ c # 0
            BY <5>1, BrainsAssumption DEF FramesMatchLinks
          <6> QED
            BY <6>1, <4>1, <3>3
        <5> QED
          BY <5>1
      <4> QED
        BY <3>3, <4>1, <4>2, <4>3, <1>1 DEF FramesMatchLinks
    <3> QED
      BY <3>1, <3>2, <3>3, <1>2
  <2> QED
    BY <1>1, <1>4, <2>1, <2>2
<1> QED
  BY <1>3, <1>4

(* Leaving the innermost frame closes exactly its link.                    *)
LEMMA ReleaseKeepsFrames ==
  ASSUME TypeOK, FramesMatchLinks, NEW w \in Writers, Release(w)
  PROVE  FramesMatchLinks'
<1>1. /\ pc[w] = "unwinding" /\ at[w] \in want[w] /\ at[w] \in Brains
      /\ \A v \in Writers : v # w => pc'[v] = pc[v] /\ at'[v] = at[v]
      /\ \A c \in Brains, v \in Writers : <<c, v>> # <<at[w], w>> => link'[c][v] = link[c][v]
      /\ link'[at[w]][w] = "released"
      /\ want' = want
  BY DEF Release, TypeOK, FramesMatchLinks
<1>2. Brains \subseteq Nat /\ \A v \in Writers : at[v] \in Nat
  BY OrderedBrains
<1>3. \A c \in Brains : link'[c][w] = "open" <=> c \in want[w] /\ c < at[w]
  <2> SUFFICES ASSUME NEW c \in Brains
               PROVE  link'[c][w] = "open" <=> c \in want[w] /\ c < at[w]
    OBVIOUS
  <2>1. c \in Nat /\ at[w] \in Nat
    BY <1>2
  <2>2. CASE c = at[w]
    BY <2>1, <2>2, <1>1
  <2>3. CASE c # at[w]
    <3>1. link[c][w] = "open" <=> c \in want[w] /\ c <= at[w]
      BY <1>1 DEF FramesMatchLinks
    <3> QED
      BY <2>1, <2>3, <3>1, <1>1
  <2> QED
    BY <2>2, <2>3
<1>4. CASE \E c \in Brains : IsPrevious(want[w], at[w], c) /\ at' = [at EXCEPT ![w] = c] /\ UNCHANGED pc
  <2>1. PICK c \in Brains : IsPrevious(want[w], at[w], c) /\ at' = [at EXCEPT ![w] = c] /\ UNCHANGED pc
    BY <1>4
  <2>2. at'[w] = c /\ c \in want[w] /\ c < at[w] /\ (\A d \in want[w] : d < at[w] => d <= c)
    BY <2>1 DEF IsPrevious, TypeOK
  <2>3. \A d \in Brains : d \in want[w] /\ d < at[w] <=> d \in want[w] /\ d <= c
    BY <2>2, <1>2
  <2> QED
    BY <1>1, <1>3, <2>1, <2>2, <2>3 DEF FramesMatchLinks
<1>5. CASE /\ \A c \in want[w] : c >= at[w]
           /\ at' = [at EXCEPT ![w] = 0]
           /\ pc' = [pc EXCEPT ![w] = "done"]
  <2>1. pc'[w] = "done"
    BY <1>5 DEF TypeOK
  <2>2. ASSUME NEW c \in Brains PROVE link'[c][w] # "open"
    BY <1>2, <1>3, <1>5
  <2> QED
    BY <1>1, <2>1, <2>2 DEF FramesMatchLinks
<1> QED
  BY <1>4, <1>5 DEF Release
LEMMA FramesPreserved == IInv /\ [Next]_vars => FramesMatchLinks'
<1> SUFFICES ASSUME IInv, [Next]_vars PROVE FramesMatchLinks'
  OBVIOUS
<1>t. TypeOK /\ FramesMatchLinks
  BY DEF IInv
<1>1. ASSUME NEW w \in Writers, NEW S \in SUBSET Brains, Start(w, S) PROVE FramesMatchLinks'
  <2>1. PICK b \in Brains : IsNext(S, 0, b) /\ Register(w, b)
    BY <1>1 DEF Start
  <2>2. at[w] = 0 /\ want'[w] = S /\ \A v \in Writers : v # w => want'[v] = want[v]
    BY <1>1, <1>t DEF Start, FramesMatchLinks, TypeOK
  <2> QED
    BY <1>1, <1>t, <2>1, <2>2, RegisterKeepsFrames DEF Start
<1>2. ASSUME NEW w \in Writers, Acquire(w) PROVE FramesMatchLinks'
  <2>1. PICK b \in Brains : IsNext(want[w], at[w], b) /\ Register(w, b)
    BY <1>2 DEF Acquire
  <2>2. pc' = [pc EXCEPT ![w] = "waiting"] /\ want' = want /\ want[w] \in SUBSET Brains
    BY <1>2, <1>t DEF Acquire, TypeOK
  <2>3. pc[w] = "waiting"
    BY <1>2 DEF Acquire
  <2> QED
    BY <1>t, <2>1, <2>2, <2>3, RegisterKeepsFrames
<1>3. ASSUME NEW w \in Writers, Operate(w) PROVE FramesMatchLinks'
  BY <1>3, <1>t DEF Operate, FramesMatchLinks, TypeOK
<1>4. ASSUME NEW w \in Writers, Finish(w) \/ AbandonWait(w) PROVE FramesMatchLinks'
  BY <1>4, <1>t DEF Finish, AbandonWait, FramesMatchLinks, TypeOK
<1>5. ASSUME NEW w \in Writers, Release(w) PROVE FramesMatchLinks'
  BY <1>5, <1>t, ReleaseKeepsFrames
<1>6. ASSUME NEW b \in Brains, NEW w \in Writers, Settle(b, w) PROVE FramesMatchLinks'
  BY <1>6, <1>t DEF Settle, FramesMatchLinks, TypeOK
<1>7. ASSUME UNCHANGED <<pc, want, at, link>> PROVE FramesMatchLinks'
  BY <1>7, <1>t DEF FramesMatchLinks
<1> QED
  BY <1>1, <1>2, <1>3, <1>4, <1>5, <1>6, <1>7, ScopesAssumption
    DEF Next, vars, Save, Abort, Forget

LEMMA ArrivalOrderPreserved == IInv /\ [Next]_vars => ArrivalOrder'
<1> SUFFICES ASSUME IInv, [Next]_vars, NEW b \in Brains, NEW w \in Writers, Holds(w, b)',
                    NEW v \in ahead'[b][w]
             PROVE  link'[b][v] = "settled"
  BY DEF ArrivalOrder
<1>t. TypeOK /\ QueueInv /\ FramesMatchLinks /\ ArrivalOrder
  BY DEF IInv
<1>i. TypeOK' /\ FramesMatchLinks' /\ QueueInv'
  BY TypePreserved, FramesPreserved, QueuePreserved DEF IInv
<1>n. Brains \subseteq Nat /\ (\A u \in Writers : at[u] \in Nat) /\ (\A u \in Writers : at'[u] \in Nat)
  <2>1. \A u \in Writers : at'[u] \in Brains \cup {0}
    BY <1>i DEF TypeOK
  <2>2. Brains \subseteq Nat /\ \A u \in Writers : at[u] \in Nat
    BY <1>t, OrderedBrains
  <2>3. ASSUME NEW u \in Writers PROVE at'[u] \in Nat
    <3>1. CASE at'[u] \in Brains
      BY <2>2, <3>1
    <3>2. CASE at'[u] = 0
      BY <3>2
    <3> QED
      BY <2>1, <3>1, <3>2
  <2> QED
    BY <2>2, <2>3
<1>0. ASSUME Holds(w, b), UNCHANGED <<ahead, link>> PROVE link'[b][v] = "settled"
  BY <1>0, <1>t DEF ArrivalOrder
<1>r. ASSUME NEW u \in Writers, NEW c \in Brains, Register(u, c), link[c][u] = "none",
             link[b][w] = "open", \A x \in ahead[b][w] : link[b][x] = "settled"
      PROVE  link'[b][v] = "settled"
  <2>1. /\ ahead'[b][w] = ahead[b][w]
        /\ ahead[b][w] \subseteq Linked(b)
        /\ \A d \in Brains, x \in Writers : <<d, x>> # <<c, u>> => link'[d][x] = link[d][x]
    BY <1>r, <1>t DEF Register, QueueInv, QueueIsTotal, TypeOK
  <2> QED
    BY <2>1, <1>r DEF Linked
<1>1. ASSUME NEW u \in Writers, NEW S \in SUBSET Brains, Start(u, S) PROVE link'[b][v] = "settled"
  <2>1. PICK c \in Brains : IsNext(S, 0, c) /\ Register(u, c)
    BY <1>1 DEF Start
  <2>2. link[c][u] = "none"
    BY <1>1, <1>t, <2>1 DEF Start, FramesMatchLinks, IsNext
  <2>3. w # u
    <3> SUFFICES ASSUME w = u PROVE FALSE
      OBVIOUS
    <3>1. pc'[u] = "waiting" /\ want'[u] = S /\ at'[u] = c /\ b \in S /\ b < c
      BY <1>1, <2>1, <1>t DEF Start, Register, TypeOK, Holds
    <3> QED
      BY <3>1, <2>1, <1>n, BrainsAssumption DEF IsNext
  <2>4. Holds(w, b) /\ link[b][w] = "open"
    BY <1>1, <2>1, <2>3, <1>t, <1>n DEF Start, Register, TypeOK, Holds, FramesMatchLinks
  <2> QED
    BY <2>1, <2>2, <2>4, <1>r, <1>t DEF ArrivalOrder
<1>c. ASSUME NEW u \in Writers, pc[u] = "waiting", PredecessorSettled(at[u], u)
      PROVE  \A x \in ahead[at[u]][u] : link[at[u]][x] = "settled"
  <2>1. at[u] \in Brains /\ link[at[u]][u] = "open"
    BY <1>c, <1>t, <1>n DEF FramesMatchLinks, TypeOK
  <2> QED
    BY <2>1, <1>c, <1>t, PredecessorChain DEF Linked
<1>2. ASSUME NEW u \in Writers, Acquire(u) PROVE link'[b][v] = "settled"
  <2>1. PICK c \in Brains : IsNext(want[u], at[u], c) /\ Register(u, c)
    BY <1>2 DEF Acquire
  <2>2. pc[u] = "waiting" /\ PredecessorSettled(at[u], u) /\ link[c][u] = "none"
    BY <1>2, <1>t, <2>1 DEF Acquire, FramesMatchLinks, IsNext
  <2>3. \A x \in ahead[b][w] : link[b][x] = "settled"
    <3>1. CASE w # u
      <4>1. Holds(w, b)
        BY <3>1, <1>2, <2>1, <1>t DEF Acquire, Register, TypeOK, Holds
      <4> QED
        BY <4>1, <1>t DEF ArrivalOrder
    <3>2. CASE w = u
      <4>1. b \in want[u] /\ b < c
        BY <3>2, <1>2, <2>1, <2>2, <1>t DEF Acquire, Register, TypeOK, Holds
      <4>2. b < at[u] \/ b = at[u]
        BY <4>1, <2>1, <1>n DEF IsNext
      <4>3. CASE b < at[u]
        BY <4>1, <4>3, <3>2, <2>2, <1>t DEF ArrivalOrder, Holds
      <4>4. CASE b = at[u]
        BY <4>4, <3>2, <2>2, <1>c
      <4> QED
        BY <4>2, <4>3, <4>4
    <3> QED
      BY <3>1, <3>2
  <2>4. link[b][w] = "open"
    <3>1. pc[w] \in {"waiting", "operating"} /\ b \in want[w] /\ b <= at[w]
      <4>1. CASE w # u
        BY <4>1, <1>2, <2>1, <1>t, <1>n DEF Acquire, Register, TypeOK, Holds
      <4>2. CASE w = u
        BY <4>2, <1>2, <2>1, <2>2, <1>t, <1>n DEF Acquire, Register, TypeOK, Holds, IsNext
      <4> QED
        BY <4>1, <4>2
    <3> QED
      BY <3>1, <1>t DEF FramesMatchLinks
  <2> QED
    BY <2>1, <2>2, <2>3, <2>4, <1>r
<1>3. ASSUME NEW u \in Writers, Operate(u) PROVE link'[b][v] = "settled"
  <2>1. CASE w # u
    BY <1>3, <2>1, <1>0, <1>t DEF Operate, Holds, TypeOK
  <2>2. CASE w = u
    <3>1. b \in want[u] /\ (b < at[u] \/ b = at[u]) /\ pc[u] = "waiting"
      BY <1>3, <2>2, <1>n DEF Operate, Holds
    <3>2. CASE b < at[u]
      BY <1>3, <2>2, <3>1, <3>2, <1>0 DEF Operate, Holds
    <3>3. CASE b = at[u]
      BY <1>3, <2>2, <3>1, <3>3, <1>c DEF Operate
    <3> QED
      BY <3>1, <3>2, <3>3
  <2> QED
    BY <2>1, <2>2
<1>4. ASSUME NEW u \in Writers, Finish(u) \/ Abort(u) \/ AbandonWait(u) PROVE link'[b][v] = "settled"
  BY <1>4, <1>0, <1>t DEF Finish, Abort, AbandonWait, Holds, TypeOK
<1>5. ASSUME NEW u \in Writers, Release(u) PROVE link'[b][v] = "settled"
  <2>1. Holds(w, b) /\ ahead' = ahead
    BY <1>5, <1>t DEF Release, Holds, TypeOK
  <2>2. link[b][v] = "settled" /\ v \in Writers
    BY <2>1, <1>t DEF ArrivalOrder, TypeOK
  <2>3. at[u] \in Brains /\ link[at[u]][u] = "open"
    BY <1>5, <1>t, <1>n DEF Release, FramesMatchLinks, TypeOK
  <2> QED
    BY <1>5, <2>2, <2>3, <1>t DEF Release, TypeOK
<1>6. ASSUME NEW c \in Brains, NEW u \in Writers, Settle(c, u) PROVE link'[b][v] = "settled"
  <2>1. Holds(w, b) /\ ahead' = ahead
    BY <1>6 DEF Settle, Holds
  <2>2. link[b][v] = "settled" /\ v \in Writers
    BY <2>1, <1>t DEF ArrivalOrder, TypeOK
  <2> QED
    BY <1>6, <2>2, <1>t DEF Settle, TypeOK
<1>7. ASSUME UNCHANGED <<pc, want, at, link, ahead>> PROVE link'[b][v] = "settled"
  BY <1>7, <1>0 DEF Holds
<1> QED
  BY <1>1, <1>2, <1>3, <1>4, <1>5, <1>6, <1>7, ScopesAssumption
    DEF Next, vars, Save, Forget

(* A save touches the copies of its own writer, and exclusion keeps everyone *)
(* else away from the brain it writes.                                     *)
LEMMA CopyPreserved == IInv /\ [Next]_vars => NoStaleCopy'
<1> SUFFICES ASSUME IInv, [Next]_vars, NEW w \in Writers, pc'[w] = "operating",
                    NEW b \in want'[w]
             PROVE  copy'[w][b] = doc'[b]
  BY DEF NoStaleCopy
<1>t. TypeOK /\ NoStaleCopy /\ Exclusive /\ FramesMatchLinks
  BY HoldersExclude DEF IInv
<1>0. ASSUME pc[w] = "operating", want'[w] = want[w], UNCHANGED <<copy, doc>>
      PROVE  copy'[w][b] = doc'[b]
  BY <1>0, <1>t DEF NoStaleCopy
<1>1. ASSUME NEW u \in Writers, NEW S \in SUBSET Brains, Start(u, S) PROVE copy'[w][b] = doc'[b]
  BY <1>1, <1>0, <1>t DEF Start, TypeOK
<1>2. ASSUME NEW u \in Writers, Operate(u) PROVE copy'[w][b] = doc'[b]
  <2>1. CASE w # u
    BY <1>2, <2>1, <1>t DEF Operate, TypeOK, NoStaleCopy
  <2>2. CASE w = u
    BY <1>2, <2>2, <1>t DEF Operate, TypeOK
  <2> QED
    BY <2>1, <2>2
<1>3. ASSUME NEW u \in Writers, NEW c \in Brains, Save(u, c) PROVE copy'[w][b] = doc'[b]
  <2>0. b \in Brains /\ b \in want[w] /\ pc[w] = "operating" /\ copy[w][b] = doc[b]
    BY <1>3, <1>t DEF Save, TypeOK, NoStaleCopy
  <2>1. CASE w = u /\ b = c
    BY <1>3, <2>0, <2>1, <1>t DEF Save, TypeOK
  <2>2. CASE b # c
    BY <1>3, <2>0, <2>2, <1>t DEF Save, TypeOK
  <2>3. CASE w # u /\ b = c
    <3>1. Holds(w, b) /\ Holds(u, b)
      <4>1. \A x \in Writers : pc[x] = "operating" /\ b \in want[x] => b < at[x] \/ b = at[x]
        BY <1>t, <2>0, OrderedBrains DEF FramesMatchLinks
      <4> QED
        BY <1>3, <2>0, <2>3, <4>1 DEF Save, Holds
    <3> QED
      BY <2>0, <2>3, <3>1, <1>t DEF Exclusive
  <2> QED
    BY <2>1, <2>2, <2>3
<1>4. ASSUME NEW u \in Writers, Finish(u) \/ Abort(u) \/ AbandonWait(u) \/ Release(u) \/ Acquire(u)
      PROVE  copy'[w][b] = doc'[b]
  BY <1>4, <1>0, <1>t DEF Finish, Abort, AbandonWait, Release, Acquire, TypeOK
<1>5. ASSUME UNCHANGED <<pc, want, copy, doc>> PROVE copy'[w][b] = doc'[b]
  BY <1>5, <1>0
<1> QED
  BY <1>1, <1>2, <1>3, <1>4, <1>5, ScopesAssumption
    DEF Next, vars, Settle, Forget
-----------------------------------------------------------------------------
(* The lock state is well formed in every reachable state: the strengthening *)
(* behind the theorems below is inductive.                                 *)
THEOREM InvariantHolds == Spec => []IInv
<1>1. Init => IInv
  BY InitIInv
<1>2. IInv /\ [Next]_vars => IInv'
  BY TypePreserved, FramesPreserved, QueuePreserved, ArrivalOrderPreserved, CopyPreserved DEF IInv
<1> QED
  BY <1>1, <1>2, PTL DEF Spec

(* Type correctness of the coordinator's state.                            *)
THEOREM TypeCorrect == Spec => []TypeOK
BY InvariantHolds, PTL DEF IInv

(* Any number of overlapping calls, aborted or not: at most one is past the*)
(* wait for a brain (brainWriteCoordinator.ts:43-49).                      *)
THEOREM WritersExclude == Spec => []Exclusive
BY InvariantHolds, HoldersExclude, PTL

(* No call overtakes another on a brain both want, even when a waiter      *)
(* between them gave up (brainWriteCoordinator.ts:104-109).                *)
THEOREM FirstComeFirstServed == Spec => []ArrivalOrder
BY InvariantHolds, PTL DEF IInv

(* The document an operation read is still the one on disk when it saves.  *)
THEOREM NoLostUpdate == Spec => []NoStaleCopy
BY InvariantHolds, PTL DEF IInv
Owned == [w \in Writers |-> IF pc[w] = "operating" THEN want[w] ELSE {}]

LEMMA HoldersExcludeNext == IInv' => Exclusive'
BY HoldersExclude, PTL

LEMMA StepRefines == IInv /\ IInv' /\ [Next]_vars => [Abstract!ANext]_(Abstract!avars)
<1> SUFFICES ASSUME IInv, IInv', [Next]_vars
             PROVE  Abstract!ANext \/ UNCHANGED <<Owned, doc>>
  BY DEF Abstract!avars, Owned
<1>t. TypeOK /\ TypeOK' /\ NoStaleCopy
  BY DEF IInv
<1>0. ASSUME UNCHANGED doc,
             \A w \in Writers : \/ pc'[w] = pc[w] /\ want'[w] = want[w]
                                \/ pc[w] # "operating" /\ pc'[w] # "operating"
      PROVE  UNCHANGED <<Owned, doc>>
  BY <1>0 DEF Owned
<1>1. ASSUME NEW w \in Writers, NEW S \in SUBSET Brains, Start(w, S) PROVE UNCHANGED <<Owned, doc>>
  BY <1>1, <1>0, <1>t DEF Start, TypeOK
<1>2. ASSUME NEW w \in Writers, Operate(w) PROVE Abstract!ANext
  <2>1. Owned[w] = {} /\ Owned' = [Owned EXCEPT ![w] = want[w]] /\ UNCHANGED doc
    BY <1>2, <1>t DEF Operate, Owned, TypeOK
  <2>2. \A v \in Writers : Owned[v] \cap want[w] = {}
    <3> SUFFICES ASSUME NEW v \in Writers, pc[v] = "operating" PROVE want[v] \cap want[w] = {}
      BY DEF Owned
    <3>1. v # w /\ pc'[v] = "operating" /\ pc'[w] = "operating" /\ want' = want
      BY <1>2, <1>t DEF Operate, TypeOK
    <3>2. \A b \in want[v] : b \notin want[w]
      <4> SUFFICES ASSUME NEW b \in want[v], b \in want[w] PROVE FALSE
        OBVIOUS
      <4>1. b \in Brains /\ IInv'
        BY <1>t DEF TypeOK
      <4>3. Exclusive'
        BY <4>1, HoldersExcludeNext
      <4>4. ASSUME NEW x \in {v, w} PROVE Holds(x, b)'
        <5>0. FramesMatchLinks' /\ b \in want'[x] /\ x \in Writers
          BY <3>1 DEF IInv
        <5>1. b <= at'[x] /\ at'[x] \in want'[x]
          BY <5>0, <3>1 DEF FramesMatchLinks
        <5>2. b \in Nat /\ at'[x] \in Nat
          BY <5>0, <5>1, <4>1, <1>t, BrainsAssumption DEF TypeOK
        <5>3. b < at'[x] \/ b = at'[x]
          BY <5>1, <5>2
        <5> QED
          BY <5>0, <5>3, <3>1 DEF Holds
      <4> QED
        BY <4>1, <4>3, <4>4, <3>1 DEF Exclusive
    <3> QED
      BY <3>2
  <2>3. want[w] \in SUBSET Brains
    BY <1>t DEF TypeOK
  <2> QED
    BY <2>1, <2>2, <2>3 DEF Abstract!ANext, Abstract!Enter, Owned
<1>3. ASSUME NEW w \in Writers, NEW b \in Brains, Save(w, b) PROVE Abstract!ANext
  <2>1. b \in Owned[w] /\ Owned' = Owned /\ doc' = [doc EXCEPT ![b] = @ \cup {w}]
    BY <1>3, <1>t DEF Save, Owned, NoStaleCopy
  <2> QED
    BY <2>1 DEF Abstract!ANext, Abstract!Commit, Owned
<1>4. ASSUME NEW w \in Writers, Finish(w) PROVE Abstract!ANext
  <2>1. Owned' = [Owned EXCEPT ![w] = {}] /\ UNCHANGED doc
    BY <1>4, <1>t DEF Finish, Owned, TypeOK
  <2> QED
    BY <2>1 DEF Abstract!ANext, Abstract!Leave, Owned
<1>5. ASSUME NEW w \in Writers, Acquire(w) \/ Abort(w) \/ AbandonWait(w) \/ Release(w)
      PROVE  UNCHANGED <<Owned, doc>>
  BY <1>5, <1>0, <1>t DEF Acquire, Abort, AbandonWait, Release, TypeOK
<1>6. ASSUME UNCHANGED <<pc, want, doc>> PROVE UNCHANGED <<Owned, doc>>
  BY <1>6 DEF Owned
<1> QED
  BY <1>1, <1>2, <1>3, <1>4, <1>5, <1>6, ScopesAssumption
    DEF Next, vars, Settle, Forget

(* The promise chains implement exclusive scopes with atomic               *)
(* read-modify-writes, for any number of brains and calls.                 *)
THEOREM Refinement == Spec => ImplementsAtomicWrites
<1>1. Init => Abstract!AInit
  BY DEF Init, Abstract!AInit
<1>2. Spec => []IInv
  BY InvariantHolds
<1> QED
  BY <1>1, <1>2, StepRefines, PTL DEF Spec, ImplementsAtomicWrites, Abstract!ASpec
=============================================================================
