------------------------- MODULE WorkerProcessProofs -------------------------
(***************************************************************************)
(* Proofs about WorkerProcess, for any callers, generations and launch     *)
(* candidates: at most one worker runs, a request waits only on the        *)
(* current live one, and a cancellation is reported only after the exit.   *)
(*                                                                         *)
(* The inductive invariant says that a worker that has not exited is the   *)
(* one being spawned, the child, the one being terminated, or the one      *)
(* nobody acknowledged, and that only one of these cases exists at a time; *)
(* At(p, label, x) says what a process at a control point, waiting on      *)
(* generation x, may rely on.  A continuation in the microtask queue can   *)
(* rely on more, for no event comes before it.                             *)
(***************************************************************************)
EXTENDS WorkerProcess, WellFoundedInduction, TLAPS

Unacknowledged == unack # None /\ os[unack] # "exited"

\* No worker runs, and none is being spawned or terminated.
Clear == child = None /\ Ending = {} /\ ~Unacknowledged

Life ==
  \A g \in Gens :
    /\ term[g] # "no" => os[g] \in {"alive", "exited"}
    /\ closed[g] \/ term[g] = "ok" => os[g] = "exited"
    /\ killed[g] => term[g] # "no"
    /\ os[g] = "spawning" => pc[Starter] = "spawning" /\ at[Starter] = g
    /\ os[g] = "alive" => child = g \/ g \in Ending \/ unack = g

Exclusive ==
  /\ \A g, h \in Ending : g = h
  /\ child # None => /\ os[child] \in {"alive", "exited"} /\ term[child] = "no" /\ ~closed[child]
                     /\ Ending = {} /\ ~Unacknowledged
  /\ Ending # {} => ~Unacknowledged

\* What a caller, the start in flight, or either of them may rely on.
CallerAt(label, x) ==
  /\ label = "closed" => /\ x # None /\ os[x] = "exited" /\ ~Unacknowledged
                         /\ IF closed[x] THEN Clear ELSE child = x \/ x \in Ending
  /\ label = "term2" => x # None /\ term[x] # "no" /\ (term[x] = "ok" => Clear)
  /\ label = "killing" => x # None
  /\ label = "cancelled" => x # None /\ os[x] = "exited"
StarterAt(label, x) ==
  /\ label = "spawning" => Clear /\ (x # None => os[x] = "spawning")
  /\ label = "rejected" => ~Unacknowledged
  /\ label = "cleanup" => /\ child = None
                          /\ IF x = None THEN Clear ELSE term[x] # "no" /\ (term[x] = "ok" => Clear)
At(p, label, x) ==
  /\ label = "pending" => x = child /\ child # None /\ os[child] = "alive"
  /\ p \in Callers => CallerAt(label, x)
  /\ p = Starter => StarterAt(label, x)

IInv == TypeOK /\ Life /\ Exclusive /\ \A p \in Procs : At(p, pc[p], at[p])
-----------------------------------------------------------------------------
(* Small facts.                                                            *)

LEMMA Distinct ==
  /\ Starter \in Procs /\ Stopper \in Procs /\ Starter # Stopper /\ Callers \subseteq Procs
  /\ Starter \notin Callers /\ Stopper \notin Callers
BY CallersAssumption DEF Procs, Starter, Stopper

\* A control point that relies on nothing.
LEMMA FreeAt ==
  ASSUME NEW p, NEW x, NEW label,
         label \notin {"pending", "closed", "term2", "killing", "cancelled", "spawning", "rejected", "cleanup"}
  PROVE  At(p, label, x)
BY DEF At, CallerAt, StarterAt

\* What terminateChild() makes its caller wait for.
LEMMA Target ==
  ASSUME IInv
  PROVE  /\ TermTarget \in Gens \cup {None}
         /\ Terminating => TermTarget \in Ending /\ Ending = {TermTarget} /\ child = None
         /\ ~Terminating => TermTarget = child
<1>1. Ending \subseteq Gens /\ child \in Gens \cup {None}
  BY DEF IInv, TypeOK, Ending
<1>2. CASE Terminating
  <2>1. Ending # {} /\ TermTarget \in Ending
    BY <1>2 DEF Terminating, TermTarget
  <2> QED BY <1>1, <1>2, <2>1 DEF IInv, Exclusive
<1>3. CASE ~Terminating
  BY <1>1, <1>3 DEF TermTarget
<1> QED BY <1>2, <1>3

\* The next generation is one that was never made, or none.
LEMMA Least ==
  ASSUME NEW S \in SUBSET Nat, S # {}
  PROVE  \E m \in S : \A n \in S : m <= n
<1> DEFINE R == {ss \in Nat \X Nat : ss[1] < ss[2]}
<1>1. IsWellFoundedOn(R, Nat)
  BY NatLessThanWellFounded DEF OpToRel
<1>2. PICK m \in S : \A n \in S : <<n, m>> \notin R
  <2> HIDE DEF R
  <2> QED BY <1>1, WFMin
<1>3. ASSUME NEW n \in S PROVE m <= n
  <2>1. ~(n < m)
    <3>1. <<n, m>> \notin R
      BY <1>2
    <3> QED BY <3>1
  <2> QED BY <2>1
<1> QED BY <1>3

LEMMA NextGenUnborn ==
  NextGen = None \/ (NextGen \in Gens /\ NextGen # None /\ os[NextGen] = "unborn")
<1>1. CASE Unborn = {}
  <2>1. NextGen = None
    BY <1>1, Zenon DEF NextGen
  <2> QED BY <2>1
<1>2. CASE Unborn # {}
  <2>1. Unborn \in SUBSET Nat
    BY GensAssumption DEF Unborn
  <2>2. \E g \in Unborn : \A h \in Unborn : g <= h
    BY <1>2, <2>1, Least
  <2>3. NextGen \in Unborn
    BY <1>2, <2>2 DEF NextGen
  <2> QED BY <2>3, GensAssumption DEF Unborn
<1> QED BY <1>1, <1>2

\* With no worker, being spawned, ended or unacknowledged, none runs.
LEMMA RunningIsOne ==
  ASSUME IInv
  PROVE  AtMostOneWorker
<1> SUFFICES ASSUME NEW g \in Running, NEW h \in Running PROVE g = h
  BY DEF AtMostOneWorker
<1>1. /\ os[g] = "spawning" => pc[Starter] = "spawning" /\ at[Starter] = g
      /\ os[g] = "alive" => child = g \/ g \in Ending \/ unack = g
      /\ os[h] = "spawning" => pc[Starter] = "spawning" /\ at[Starter] = h
      /\ os[h] = "alive" => child = h \/ h \in Ending \/ unack = h
  BY DEF IInv, Life, Running
<1>2. g \in Gens /\ h \in Gens /\ os[g] \in {"spawning", "alive"} /\ os[h] \in {"spawning", "alive"}
      /\ g # None /\ h # None
  BY GensAssumption DEF Running
<1>3. pc[Starter] = "spawning" => Clear
  BY Distinct DEF IInv, At, StarterAt
<1>4. CASE pc[Starter] = "spawning"
  <2>1. child = None /\ Ending = {} /\ ~Unacknowledged
    BY <1>3, <1>4 DEF Clear
  <2>2. \A k \in Gens : os[k] = "alive" => ~(unack = k)
    BY <2>1, GensAssumption DEF Unacknowledged
  <2> QED BY <1>1, <1>2, <2>1, <2>2
<1>5. CASE pc[Starter] # "spawning"
  <2>1. os[g] = "alive" /\ os[h] = "alive"
    BY <1>1, <1>2, <1>5
  <2>2. unack = g \/ unack = h => Unacknowledged
    BY <1>2, <2>1 DEF Unacknowledged
  <2>3. Exclusive
    BY DEF IInv
  <2> QED BY <1>1, <1>2, <2>1, <2>2, <2>3 DEF Exclusive
<1> QED BY <1>4, <1>5
-----------------------------------------------------------------------------
(* The effects a step may have.                                            *)

\* Control moves on; a generation that has exited may be forgotten.
LEMMA MoveInvariant ==
  ASSUME IInv, UNCHANGED <<os, bySignal, killed, closed, term, child>>,
         unack' = unack \/ (unack' = None /\ ~Unacknowledged),
         pc' \in [Procs -> PcState], at' \in [Procs -> Gens \cup {None}],
         left' \in 0..Candidates, stopping' \in BOOLEAN, quiet' \in BOOLEAN,
         pc[Starter] = "spawning" => pc'[Starter] = "spawning" /\ at'[Starter] = at[Starter],
         \A p \in Procs : (pc'[p] = pc[p] /\ at'[p] = at[p]) \/ At(p, pc'[p], at'[p])
  PROVE  IInv'
<1>1. TypeOK'
  BY DEF IInv, TypeOK
<1>2. Ending' = Ending /\ (Unacknowledged' => Unacknowledged)
  BY DEF Ending, Unacknowledged
<1>3. Life'
  <2> SUFFICES ASSUME NEW g \in Gens
               PROVE  /\ term[g] # "no" => os[g] \in {"alive", "exited"}
                      /\ closed[g] \/ term[g] = "ok" => os[g] = "exited"
                      /\ killed[g] => term[g] # "no"
                      /\ os[g] = "spawning" => pc'[Starter] = "spawning" /\ at'[Starter] = g
                      /\ os[g] = "alive" => child = g \/ g \in Ending \/ unack' = g
    BY <1>2 DEF Life
  <2>1. /\ term[g] # "no" => os[g] \in {"alive", "exited"}
        /\ closed[g] \/ term[g] = "ok" => os[g] = "exited"
        /\ killed[g] => term[g] # "no"
        /\ os[g] = "spawning" => pc[Starter] = "spawning" /\ at[Starter] = g
        /\ os[g] = "alive" => child = g \/ g \in Ending \/ unack = g
    BY DEF IInv, Life
  <2>2. os[g] = "alive" /\ unack = g => unack' = g
    BY GensAssumption DEF Unacknowledged
  <2> QED BY <2>1, <2>2
<1>4. Exclusive'
  BY <1>2 DEF IInv, Exclusive
<1>5. ASSUME NEW p \in Procs PROVE At(p, pc[p], at[p])'
  <2>1. PICK label, x : label = pc'[p] /\ x = at'[p]
    OBVIOUS
  <2>2. At(p, label, x)
    BY <2>1 DEF IInv
  <2>3. Clear => Clear'
    BY <1>2 DEF Clear
  <2>4. CallerAt(label, x) => CallerAt(label, x)'
    BY <1>2, <2>3 DEF CallerAt
  <2>5. StarterAt(label, x) => StarterAt(label, x)'
    BY <1>2, <2>3 DEF StarterAt
  <2>6. At(p, label, x)'
    BY <2>2, <2>4, <2>5 DEF At
  <2> QED BY <2>1, <2>6 DEF At, CallerAt, StarterAt
<1> QED BY <1>1, <1>3, <1>4, <1>5 DEF IInv

\* A worker is spawned where none runs.
LEMMA SpawnInvariant ==
  ASSUME IInv, Clear, pc[Starter] # "spawning", NEW f \in [Procs -> PcState], Spawn(f),
         UNCHANGED <<bySignal, killed, closed, term, child, unack>>,
         left' \in 0..Candidates, stopping' \in BOOLEAN, quiet' \in BOOLEAN,
         \A p \in Procs : f[p] = pc[p] \/ At(p, f[p], at[p])
  PROVE  IInv'
<1> DEFINE n == NextGen
<1>1. /\ os \in [Gens -> OsState] /\ pc \in [Procs -> PcState] /\ at \in [Procs -> Gens \cup {None}]
      /\ Starter \in Procs /\ unack \in Gens \cup {None}
  BY Distinct DEF IInv, TypeOK
<1>2. n = None \/ (n \in Gens /\ n # None /\ os[n] = "unborn")
  BY NextGenUnborn
<1>3. /\ pc' = [f EXCEPT ![Starter] = "spawning"] /\ at' = [at EXCEPT ![Starter] = n]
      /\ os' = IF n = None THEN os ELSE [os EXCEPT ![n] = "spawning"]
  BY DEF Spawn
<1> HIDE DEF n
<1>4. /\ pc' \in [Procs -> PcState] /\ at' \in [Procs -> Gens \cup {None}] /\ os' \in [Gens -> OsState]
      /\ pc'[Starter] = "spawning" /\ at'[Starter] = n
      /\ \A p \in Procs \ {Starter} : pc'[p] = f[p] /\ at'[p] = at[p]
      /\ \A g \in Gens : IF g = n THEN os'[g] = "spawning" ELSE os'[g] = os[g]
  <2>1. "spawning" \in PcState /\ "spawning" \in OsState
    BY DEF PcState, OsState
  <2>2. None \notin Gens
    BY GensAssumption
  <2> QED BY <1>1, <1>2, <1>3, <2>1, <2>2
<1>5. TypeOK'
  BY <1>4 DEF IInv, TypeOK
<1>6. Ending' = Ending
  BY DEF Ending
<1>7. Unacknowledged' <=> Unacknowledged
  <2>1. unack \in Gens => unack # n
    BY <1>2, GensAssumption DEF Clear, Unacknowledged
  <2> QED BY <1>1, <1>4, <2>1 DEF Unacknowledged
<1>8. Clear'
  BY <1>6, <1>7 DEF Clear
<1>9. Life'
  <2> SUFFICES ASSUME NEW g \in Gens
               PROVE  /\ term[g] # "no" => os'[g] \in {"alive", "exited"}
                      /\ closed[g] \/ term[g] = "ok" => os'[g] = "exited"
                      /\ killed[g] => term[g] # "no"
                      /\ os'[g] = "spawning" => pc'[Starter] = "spawning" /\ at'[Starter] = g
                      /\ os'[g] = "alive" => child = g \/ g \in Ending \/ unack = g
    BY <1>6 DEF Life
  <2>1. /\ term[g] # "no" => os[g] \in {"alive", "exited"}
        /\ closed[g] \/ term[g] = "ok" => os[g] = "exited"
        /\ killed[g] => term[g] # "no"
        /\ os[g] # "spawning"
        /\ os[g] = "alive" => child = g \/ g \in Ending \/ unack = g
    BY DEF IInv, Life
  <2>2. CASE g = n
    <3>1. os[g] = "unborn"
      BY <1>2, <2>2, GensAssumption
    <3> QED BY <1>4, <2>1, <2>2, <3>1
  <2>3. CASE g # n
    BY <1>4, <2>1, <2>3
  <2> QED BY <2>2, <2>3
<1>10. Exclusive'
  BY <1>6, <1>7, <1>8 DEF IInv, Exclusive, Clear
<1>11. ASSUME NEW p \in Procs PROVE At(p, pc[p], at[p])'
  <2>1. CASE p = Starter
    <3>1. n # None => os'[n] = "spawning"
      BY <1>2, <1>4
    <3> QED BY <1>4, <1>8, <2>1, <3>1, Distinct DEF At, StarterAt
  <2>2. CASE p # Starter
    <3>1. PICK label, x : label = f[p] /\ x = at[p]
      OBVIOUS
    <3>2. At(p, label, x) /\ pc'[p] = label /\ at'[p] = x /\ x \in Gens \cup {None}
      BY <1>1, <1>4, <2>2, <3>1 DEF IInv
    <3>3. label # "pending"
      BY <3>2 DEF At, Clear
    <3>4. \A g \in Gens : os[g] = "exited" => os'[g] = "exited"
      BY <1>2, <1>4, GensAssumption
    <3>5. CallerAt(label, x) => CallerAt(label, x)'
      BY <1>6, <1>7, <1>8, <3>2, <3>4 DEF CallerAt
    <3>6. At(p, label, x)'
      BY <2>2, <3>2, <3>3, <3>5 DEF At
    <3> QED BY <2>2, <3>2, <3>6 DEF At, CallerAt
  <2> QED BY <2>1, <2>2
<1> QED BY <1>5, <1>9, <1>10, <1>11 DEF IInv

\* terminateChild(): the child, if there is one and no other is being ended,
\* is the one being ended, and what waited on it is rejected.
LEMMA TerminateInvariant ==
  ASSUME IInv, NEW f \in [Procs -> PcState], NEW a \in [Procs -> Gens \cup {None}], Terminate(f, a),
         stopping' \in BOOLEAN, quiet' \in BOOLEAN,
         pc[Starter] = "spawning" => f[Starter] = "spawning" /\ a[Starter] = at[Starter],
         \A p \in Procs : (f[p] = pc[p] /\ a[p] = at[p]) \/ (f[p] # "pending" /\ At(p, f[p], a[p])')
  PROVE  IInv'
<1>1. /\ pc \in [Procs -> PcState] /\ at \in [Procs -> Gens \cup {None}] /\ left \in 0..Candidates
      /\ term \in [Gens -> TermState] /\ killed \in [Gens -> BOOLEAN] /\ child \in Gens \cup {None}
  BY DEF IInv, TypeOK
<1>2. at' = a /\ UNCHANGED <<os, bySignal, closed, unack, left>>
  BY DEF Terminate
<1>3. CASE Terminating \/ child = None
  <2>1. pc' = f /\ UNCHANGED <<child, term, killed>>
    BY <1>3 DEF Terminate
  <2>2. Ending' = Ending /\ Unacknowledged' = Unacknowledged
    BY <1>2, <2>1 DEF Ending, Unacknowledged
  <2>3. ASSUME NEW p \in Procs PROVE (pc'[p] = pc[p] /\ at'[p] = at[p]) \/ At(p, pc'[p], at'[p])
    <3>1. CASE f[p] = pc[p] /\ a[p] = at[p]
      BY <1>2, <2>1, <3>1
    <3>2. CASE At(p, f[p], a[p])'
      <4>1. PICK label, x : label = f[p] /\ x = a[p]
        OBVIOUS
      <4>2. At(p, label, x)'
        BY <3>2, <4>1
      <4>3. At(p, label, x)
        BY <1>2, <2>1, <2>2, <4>2 DEF At, CallerAt, StarterAt, Clear
      <4> QED BY <1>2, <2>1, <4>1, <4>3
    <3> QED BY <3>1, <3>2
  <2> QED BY <1>1, <1>2, <2>1, <2>3, MoveInvariant
<1>4. CASE ~Terminating /\ child # None
  <2> DEFINE g == child
  <2>1. /\ child' = None /\ term' = [term EXCEPT ![g] = "soft"]
        /\ killed' = [killed EXCEPT ![g] = @ \/ os[g] = "alive"]
        /\ pc' = [p \in Procs |-> IF f[p] = "pending" /\ a[p] = g THEN "rejected" ELSE f[p]]
    BY <1>4 DEF Terminate, Rejected
  <2>2. /\ g \in Gens /\ os[g] \in {"alive", "exited"} /\ term[g] = "no" /\ ~closed[g]
        /\ Ending = {} /\ ~Unacknowledged /\ pc[Starter] # "spawning"
    <3>1. pc[Starter] = "spawning" => Clear
      BY Distinct DEF IInv, At, StarterAt
    <3> QED BY <1>1, <1>4, <3>1 DEF IInv, Exclusive, Clear
  <2>3. /\ term' \in [Gens -> TermState] /\ killed' \in [Gens -> BOOLEAN]
        /\ term'[g] = "soft" /\ \A h \in Gens : h # g => term'[h] = term[h] /\ killed'[h] = killed[h]
    <3>1. "soft" \in TermState
      BY DEF TermState
    <3> QED BY <1>1, <2>1, <2>2, <3>1
  <2>4. Ending' = {g} /\ ~Unacknowledged'
    <3>1. Ending' = {h \in Gens : term'[h] \in {"soft", "hard"}}
      BY DEF Ending
    <3>2. \A h \in Gens : term[h] \notin {"soft", "hard"}
      BY <2>2 DEF Ending
    <3>3. Ending' = {g}
      BY <2>2, <2>3, <3>1, <3>2
    <3> QED BY <1>2, <2>2, <3>3 DEF Unacknowledged
  <2>5. pc' \in [Procs -> PcState]
    <3>1. "rejected" \in PcState
      BY DEF PcState
    <3> QED BY <2>1, <3>1
  <2>6. TypeOK'
    BY <1>2, <2>1, <2>3, <2>5 DEF IInv, TypeOK
  <2>7. Life'
    <3> SUFFICES ASSUME NEW h \in Gens
                 PROVE  /\ term'[h] # "no" => os[h] \in {"alive", "exited"}
                        /\ closed[h] \/ term'[h] = "ok" => os[h] = "exited"
                        /\ killed'[h] => term'[h] # "no"
                        /\ os[h] # "spawning"
                        /\ os[h] = "alive" => h = g \/ unack = h
      BY <1>2, <2>1, <2>4 DEF Life
    <3>1. /\ term[h] # "no" => os[h] \in {"alive", "exited"}
          /\ closed[h] \/ term[h] = "ok" => os[h] = "exited"
          /\ killed[h] => term[h] # "no"
          /\ os[h] # "spawning"
          /\ os[h] = "alive" => h = g \/ unack = h
      BY <2>2 DEF IInv, Life
    <3> QED BY <2>2, <2>3, <3>1
  <2>8. Exclusive'
    BY <2>1, <2>4 DEF Exclusive
  <2>9. ASSUME NEW p \in Procs PROVE At(p, pc[p], at[p])'
    <3>1. PICK label, x : label = f[p] /\ x = a[p]
      OBVIOUS
    <3>2. pc'[p] = (IF label = "pending" /\ x = g THEN "rejected" ELSE label) /\ at'[p] = x
      BY <1>2, <2>1, <3>1
    <3>3. CASE f[p] # "pending" /\ At(p, f[p], a[p])'
      <4>1. pc'[p] = label /\ At(p, label, x)'
        BY <3>1, <3>2, <3>3
      <4> QED BY <3>2, <4>1 DEF At, CallerAt, StarterAt
    <3>4. CASE f[p] = pc[p] /\ a[p] = at[p]
      <4>1. At(p, label, x) /\ x \in Gens \cup {None}
        BY <1>1, <3>1, <3>4 DEF IInv
      <4>2. CASE label = "pending"
        <5>1. pc'[p] = "rejected"
          BY <3>2, <4>1, <4>2 DEF At
        <5> QED BY <2>4, <5>1 DEF At, CallerAt, StarterAt
      <4>3. CASE label # "pending"
        <5>1. CallerAt(label, x) => CallerAt(label, x)'
          <6>1. ~Clear
            BY <1>4 DEF Clear
          <6>2. x # None => (term[x] # "no" => x # g /\ term'[x] = term[x])
            BY <2>2, <2>3, <4>1
          <6> QED BY <1>2, <2>2, <2>4, <4>1, <6>1, <6>2 DEF CallerAt
        <5>2. StarterAt(label, x) => StarterAt(label, x)'
          BY <1>4, <2>4 DEF StarterAt, Clear
        <5>3. At(p, label, x)' /\ pc'[p] = label
          BY <3>2, <4>1, <4>3, <5>1, <5>2 DEF At
        <5> QED BY <3>2, <5>3 DEF At, CallerAt, StarterAt
      <4> QED BY <4>2, <4>3
    <3> QED BY <3>3, <3>4
  <2> QED BY <2>6, <2>7, <2>8, <2>9 DEF IInv
<1> QED BY <1>3, <1>4
-----------------------------------------------------------------------------
(* Events of the environment: no continuation is waiting.                  *)

LEMMA CalmFacts ==
  ASSUME IInv, Calm, NEW p \in Procs
  PROVE  /\ p \in Callers /\ pc[p] = "closed" => ~closed[at[p]]
         /\ p \in Callers /\ pc[p] = "term2" => at[p] \in Ending
         /\ p = Starter /\ pc[p] = "cleanup" => at[p] \in Ending
         /\ pc[Starter] # "rejected"
<1>1. ~Runnable(p) /\ ~Runnable(Starter)
  BY Distinct DEF Calm
<1>2. /\ at[p] \in Gens \cup {None} /\ term \in [Gens -> TermState]
      /\ At(p, pc[p], at[p])
  BY DEF IInv, TypeOK
<1>3. pc[p] \in {"term2", "cleanup"} => at[p] # None /\ term[at[p]] \notin {"ok", "failed"}
  BY <1>1 DEF Runnable, TerminationSettled
<1>4. ASSUME at[p] # None, term[at[p]] \notin {"ok", "failed"}, term[at[p]] # "no" PROVE at[p] \in Ending
  <2>1. at[p] \in Gens /\ term[at[p]] \in TermState
    BY <1>2, <1>4
  <2> QED BY <1>4, <2>1 DEF Ending, TermState
<1>5. p \in Callers /\ pc[p] = "term2" => at[p] \in Ending
  BY <1>2, <1>3, <1>4 DEF At, CallerAt
<1>6. p = Starter /\ pc[p] = "cleanup" => at[p] \in Ending
  BY <1>2, <1>3, <1>4 DEF At, StarterAt
<1> QED BY <1>1, <1>5, <1>6 DEF Runnable

LEMMA SpawnOkInvariant ==
  ASSUME IInv, SpawnOk
  PROVE  IInv'
<1> DEFINE g == at[Starter]
<1>1. /\ Calm /\ pc[Starter] = "spawning" /\ g # None
      /\ os' = [os EXCEPT ![g] = "alive"] /\ child' = g /\ pc' = [pc EXCEPT ![Starter] = "pending"]
      /\ UNCHANGED <<bySignal, killed, closed, term, unack, left, stopping, quiet, at>>
  BY DEF SpawnOk, Goto
<1>2. /\ os \in [Gens -> OsState] /\ pc \in [Procs -> PcState] /\ at \in [Procs -> Gens \cup {None}]
      /\ unack \in Gens \cup {None} /\ term \in [Gens -> TermState] /\ closed \in [Gens -> BOOLEAN]
  BY DEF IInv, TypeOK
<1>3. /\ g \in Gens /\ os[g] = "spawning" /\ child = None /\ Ending = {} /\ ~Unacknowledged
  BY <1>1, <1>2, Distinct DEF IInv, At, StarterAt, Clear
<1> HIDE DEF g
<1>4. /\ os' \in [Gens -> OsState] /\ pc' \in [Procs -> PcState]
      /\ os'[g] = "alive" /\ \A h \in Gens : h # g => os'[h] = os[h]
      /\ pc'[Starter] = "pending" /\ \A p \in Procs : p # Starter => pc'[p] = pc[p]
  <2>1. "alive" \in OsState /\ "pending" \in PcState
    BY DEF OsState, PcState
  <2> QED BY <1>1, <1>2, <1>3, <2>1, Distinct
<1>5. TypeOK'
  BY <1>1, <1>3, <1>4 DEF IInv, TypeOK
<1>6. Ending' = {} /\ ~Unacknowledged'
  <2>1. Ending' = Ending
    BY <1>1 DEF Ending
  <2>2. unack \in Gens => unack # g
    BY <1>3, GensAssumption DEF Unacknowledged
  <2> QED BY <1>1, <1>2, <1>3, <1>4, <2>1, <2>2 DEF Unacknowledged
<1>7. term[g] = "no" /\ ~closed[g]
  BY <1>3 DEF IInv, Life
<1>8. Life'
  <2> SUFFICES ASSUME NEW h \in Gens
               PROVE  /\ term[h] # "no" => os'[h] \in {"alive", "exited"}
                      /\ closed[h] \/ term[h] = "ok" => os'[h] = "exited"
                      /\ killed[h] => term[h] # "no"
                      /\ os'[h] # "spawning"
                      /\ os'[h] = "alive" => g = h \/ unack = h
    BY <1>1, <1>6 DEF Life
  <2>1. /\ term[h] # "no" => os[h] \in {"alive", "exited"}
        /\ closed[h] \/ term[h] = "ok" => os[h] = "exited"
        /\ killed[h] => term[h] # "no"
        /\ os[h] = "spawning" => at[Starter] = h
        /\ os[h] = "alive" => unack = h
    BY <1>3, GensAssumption DEF IInv, Life
  <2> QED BY <1>4, <1>7, <2>1 DEF g
<1>9. Exclusive'
  BY <1>1, <1>4, <1>6, <1>7 DEF Exclusive
<1>10. ASSUME NEW p \in Procs PROVE At(p, pc[p], at[p])'
  <2>1. CASE p = Starter
    BY <1>1, <1>3, <1>4, <2>1, Distinct, GensAssumption DEF At, StarterAt, g
  <2>2. CASE p # Starter
    <3>1. PICK label, x : label = pc[p] /\ x = at[p]
      OBVIOUS
    <3>2. At(p, label, x) /\ pc'[p] = label /\ at'[p] = x /\ x \in Gens \cup {None}
      BY <1>1, <1>2, <1>4, <2>2, <3>1 DEF IInv
    <3>3. label # "pending"
      BY <1>3, <3>2 DEF At
    <3>4. p \in Callers => label \notin {"closed", "term2"}
      <4>1. p \in Callers /\ label = "closed" => ~closed[x] /\ x # None /\ (child = x \/ x \in Ending)
        BY <1>1, <3>1, <3>2, CalmFacts DEF At, CallerAt
      <4>2. p \in Callers /\ label = "term2" => x \in Ending
        BY <1>1, <3>1, <3>2, CalmFacts
      <4> QED BY <1>3, <4>1, <4>2
    <3>5. CallerAt(label, x) /\ p \in Callers => CallerAt(label, x)'
      <4>1. x # None /\ os[x] = "exited" => os'[x] = "exited"
        BY <1>3, <1>4, <3>2
      <4> QED BY <3>4, <4>1 DEF CallerAt
    <3> QED BY <2>2, <3>2, <3>3, <3>5 DEF At, CallerAt
  <2> QED BY <2>1, <2>2
<1> QED BY <1>5, <1>8, <1>9, <1>10 DEF IInv

LEMMA SpawnErrorInvariant ==
  ASSUME IInv, SpawnError
  PROVE  IInv'
<1> DEFINE g == at[Starter]
<1>1. /\ pc[Starter] = "spawning" /\ pc' = [pc EXCEPT ![Starter] = "rejected"]
      /\ os' = IF g = None THEN os ELSE [os EXCEPT ![g] = "exited"]
      /\ UNCHANGED <<bySignal, killed, closed, term, child, unack, left, stopping, quiet, at>>
  BY DEF SpawnError, Goto
<1>2. /\ os \in [Gens -> OsState] /\ pc \in [Procs -> PcState] /\ at \in [Procs -> Gens \cup {None}]
      /\ unack \in Gens \cup {None}
  BY DEF IInv, TypeOK
<1>3. Clear /\ (g # None => g \in Gens /\ os[g] = "spawning")
  BY <1>1, <1>2, Distinct DEF IInv, At, StarterAt
<1> HIDE DEF g
<1>4. /\ os' \in [Gens -> OsState] /\ pc' \in [Procs -> PcState]
      /\ \A h \in Gens : os'[h] = IF h = g THEN "exited" ELSE os[h]
      /\ pc'[Starter] = "rejected" /\ \A p \in Procs : p # Starter => pc'[p] = pc[p]
  <2>1. "exited" \in OsState /\ "rejected" \in PcState
    BY DEF OsState, PcState
  <2> QED BY <1>1, <1>2, <1>3, <2>1, Distinct, GensAssumption
<1>5. TypeOK'
  BY <1>1, <1>4 DEF IInv, TypeOK
<1>6. Ending' = Ending /\ ~Unacknowledged'
  BY <1>1, <1>2, <1>3, <1>4 DEF Ending, Unacknowledged, Clear
<1>7. Clear'
  BY <1>1, <1>3, <1>6 DEF Clear
<1>8. Life'
  <2> SUFFICES ASSUME NEW h \in Gens
               PROVE  /\ term[h] # "no" => os'[h] \in {"alive", "exited"}
                      /\ closed[h] \/ term[h] = "ok" => os'[h] = "exited"
                      /\ killed[h] => term[h] # "no"
                      /\ os'[h] # "spawning"
                      /\ os'[h] = "alive" => child = h \/ h \in Ending \/ unack = h
    BY <1>1, <1>6 DEF Life
  <2>1. /\ term[h] # "no" => os[h] \in {"alive", "exited"}
        /\ closed[h] \/ term[h] = "ok" => os[h] = "exited"
        /\ killed[h] => term[h] # "no"
        /\ os[h] = "spawning" => at[Starter] = h
        /\ os[h] = "alive" => child = h \/ h \in Ending \/ unack = h
    BY DEF IInv, Life
  <2> QED BY <1>4, <2>1 DEF g
<1>9. Exclusive'
  BY <1>7 DEF Exclusive, Clear
<1>10. ASSUME NEW p \in Procs PROVE At(p, pc[p], at[p])'
  <2>1. CASE p = Starter
    BY <1>4, <1>6, <2>1, Distinct DEF At, StarterAt
  <2>2. CASE p # Starter
    <3>1. PICK label, x : label = pc[p] /\ x = at[p]
      OBVIOUS
    <3>2. At(p, label, x) /\ pc'[p] = label /\ at'[p] = x /\ x \in Gens \cup {None}
      BY <1>1, <1>2, <1>4, <2>2, <3>1 DEF IInv
    <3>3. label # "pending"
      BY <1>3, <3>2 DEF At, Clear
    <3>4. CallerAt(label, x) => CallerAt(label, x)'
      <4>1. x # None /\ os[x] = "exited" => os'[x] = "exited"
        BY <1>4, <3>2
      <4> QED BY <1>1, <1>6, <1>7, <4>1 DEF CallerAt
    <3> QED BY <2>2, <3>2, <3>3, <3>4 DEF At, CallerAt
  <2> QED BY <2>1, <2>2
<1> QED BY <1>5, <1>8, <1>9, <1>10 DEF IInv

LEMMA ExitInvariant ==
  ASSUME IInv, NEW g \in Gens, Exit(g)
  PROVE  IInv'
<1>1. /\ os[g] = "alive" /\ os' = [os EXCEPT ![g] = "exited"]
      /\ pc' = [p \in Procs |-> IF pc[p] = "pending" /\ at[p] = g THEN "rejected" ELSE pc[p]]
      /\ UNCHANGED <<killed, closed, term, child, unack, left, stopping, quiet, at>>
  BY DEF Exit, Rejected
<1>2. /\ os \in [Gens -> OsState] /\ pc \in [Procs -> PcState] /\ at \in [Procs -> Gens \cup {None}]
      /\ unack \in Gens \cup {None} /\ child \in Gens \cup {None}
  BY DEF IInv, TypeOK
<1>3. /\ os' \in [Gens -> OsState] /\ pc' \in [Procs -> PcState]
      /\ \A h \in Gens : os'[h] = IF h = g THEN "exited" ELSE os[h]
  <2>1. "exited" \in OsState /\ "rejected" \in PcState
    BY DEF OsState, PcState
  <2> QED BY <1>1, <1>2, <2>1
<1>4. bySignal' \in [Gens -> BOOLEAN]
  <2>1. \E s \in BOOLEAN : bySignal' = [bySignal EXCEPT ![g] = s]
    BY DEF Exit
  <2>2. bySignal \in [Gens -> BOOLEAN]
    BY DEF IInv, TypeOK
  <2> QED BY <2>1, <2>2
<1>5. TypeOK'
  BY <1>1, <1>3, <1>4 DEF IInv, TypeOK
<1>6. Ending' = Ending /\ (Unacknowledged' => Unacknowledged)
  BY <1>1, <1>2, <1>3 DEF Ending, Unacknowledged
<1>7. Clear => Clear'
  BY <1>1, <1>6 DEF Clear
<1>8. Life'
  <2> SUFFICES ASSUME NEW h \in Gens
               PROVE  /\ term[h] # "no" => os'[h] \in {"alive", "exited"}
                      /\ closed[h] \/ term[h] = "ok" => os'[h] = "exited"
                      /\ killed[h] => term[h] # "no"
                      /\ os'[h] = "spawning" => pc'[Starter] = "spawning" /\ at[Starter] = h
                      /\ os'[h] = "alive" => child = h \/ h \in Ending \/ unack = h
    BY <1>1, <1>6 DEF Life
  <2>1. /\ term[h] # "no" => os[h] \in {"alive", "exited"}
        /\ closed[h] \/ term[h] = "ok" => os[h] = "exited"
        /\ killed[h] => term[h] # "no"
        /\ os[h] = "spawning" => pc[Starter] = "spawning" /\ at[Starter] = h
        /\ os[h] = "alive" => child = h \/ h \in Ending \/ unack = h
    BY DEF IInv, Life
  <2>2. pc[Starter] = "spawning" => pc'[Starter] = "spawning"
    BY <1>1, Distinct
  <2> QED BY <1>3, <2>1, <2>2
<1>9. Exclusive'
  <2>1. child # None => os'[child] \in {"alive", "exited"}
    BY <1>2, <1>3 DEF IInv, Exclusive
  <2> QED BY <1>1, <1>6, <2>1 DEF IInv, Exclusive
<1>10. ASSUME NEW p \in Procs PROVE At(p, pc[p], at[p])'
  <2>1. PICK label, x : label = pc[p] /\ x = at[p]
    OBVIOUS
  <2>2. /\ At(p, label, x) /\ at'[p] = x /\ x \in Gens \cup {None}
        /\ pc'[p] = IF label = "pending" /\ x = g THEN "rejected" ELSE label
    BY <1>1, <1>2, <2>1 DEF IInv
  <2>3. CASE label = "pending" /\ x = g
    <3>1. ~Unacknowledged
      BY <2>2, <2>3 DEF At, IInv, Exclusive
    <3> QED BY <1>6, <2>2, <2>3, <3>1 DEF At, CallerAt, StarterAt
  <2>4. CASE label = "pending" /\ x # g
    <3>1. x = child /\ child # None /\ os[x] = "alive" /\ os'[x] = "alive" /\ pc'[p] = "pending"
      BY <1>3, <2>2, <2>4 DEF At
    <3> QED BY <1>1, <2>2, <3>1 DEF At, CallerAt, StarterAt
  <2>5. CASE label # "pending"
    <3>1. x # None /\ os[x] = "exited" => os'[x] = "exited"
      BY <1>3, <2>2
    <3>2. x # None /\ os[x] = "spawning" => os'[x] = "spawning"
      BY <1>1, <1>3, <2>2
    <3>3. CallerAt(label, x) => CallerAt(label, x)'
      BY <1>1, <1>6, <1>7, <3>1 DEF CallerAt
    <3>4. StarterAt(label, x) => StarterAt(label, x)'
      BY <1>1, <1>6, <1>7, <3>2 DEF StarterAt
    <3>5. At(p, label, x)' /\ pc'[p] = label
      BY <2>2, <2>5, <3>3, <3>4 DEF At
    <3> QED BY <2>2, <3>5 DEF At, CallerAt, StarterAt
  <2> QED BY <2>3, <2>4, <2>5
<1> QED BY <1>5, <1>8, <1>9, <1>10 DEF IInv

\* The lifecycle of a generation that has exited settles.
LEMMA CloseInvariant ==
  ASSUME IInv, Calm, NEW g \in Gens, os[g] = "exited", HandleClose(g)
  PROVE  IInv'
<1>1. /\ closed' = [closed EXCEPT ![g] = TRUE] /\ child' = IF child = g THEN None ELSE child
      /\ pc' = [p \in Procs |-> IF pc[p] = "pending" /\ at[p] = g THEN "rejected" ELSE pc[p]]
      /\ term' = [term EXCEPT ![g] = IF @ \in {"soft", "hard"} THEN "ok" ELSE @]
      /\ UNCHANGED <<os, bySignal, killed, unack, left, stopping, quiet, at>>
  BY DEF HandleClose, Rejected
<1>2. /\ closed \in [Gens -> BOOLEAN] /\ term \in [Gens -> TermState] /\ pc \in [Procs -> PcState]
      /\ at \in [Procs -> Gens \cup {None}] /\ child \in Gens \cup {None}
  BY DEF IInv, TypeOK
<1>3. pc' = pc
  <2>1. \A p \in Procs : ~(pc[p] = "pending" /\ at[p] = g)
    BY DEF IInv, At
  <2> QED BY <1>1, <1>2, <2>1
<1>4. /\ closed' \in [Gens -> BOOLEAN] /\ term' \in [Gens -> TermState] /\ child' \in Gens \cup {None}
      /\ \A h \in Gens : /\ closed'[h] = (h = g \/ closed[h])
                         /\ term'[h] = IF h = g /\ term[h] \in {"soft", "hard"} THEN "ok" ELSE term[h]
  <2>1. "ok" \in TermState
    BY DEF TermState
  <2> QED BY <1>1, <1>2, <2>1
<1>5. TypeOK'
  BY <1>1, <1>3, <1>4 DEF IInv, TypeOK
<1>6. Ending' = Ending \ {g} /\ Unacknowledged' = Unacknowledged
  BY <1>1, <1>4 DEF Ending, Unacknowledged
<1>7. /\ \A h, k \in Ending : h = k
      /\ child # None => /\ os[child] \in {"alive", "exited"} /\ term[child] = "no" /\ ~closed[child]
                         /\ Ending = {} /\ ~Unacknowledged
      /\ Ending # {} => ~Unacknowledged
  BY DEF IInv, Exclusive
<1>8. Clear => Clear'
  BY <1>1, <1>6 DEF Clear
<1>9. Life'
  <2> SUFFICES ASSUME NEW h \in Gens
               PROVE  /\ term'[h] # "no" => os[h] \in {"alive", "exited"}
                      /\ closed'[h] \/ term'[h] = "ok" => os[h] = "exited"
                      /\ killed[h] => term'[h] # "no"
                      /\ os[h] = "spawning" => pc[Starter] = "spawning" /\ at[Starter] = h
                      /\ os[h] = "alive" => child' = h \/ h \in Ending' \/ unack = h
    BY <1>1, <1>3 DEF Life
  <2>1. /\ term[h] # "no" => os[h] \in {"alive", "exited"}
        /\ closed[h] \/ term[h] = "ok" => os[h] = "exited"
        /\ killed[h] => term[h] # "no"
        /\ os[h] = "spawning" => pc[Starter] = "spawning" /\ at[Starter] = h
        /\ os[h] = "alive" => child = h \/ h \in Ending \/ unack = h
    BY DEF IInv, Life
  <2> QED BY <1>1, <1>4, <1>6, <2>1
<1>10. Exclusive'
  <2>1. child' # None => child' = child /\ child # g
    BY <1>1
  <2> QED BY <1>1, <1>2, <1>4, <1>6, <1>7, <2>1 DEF Exclusive
<1>11. g \in Ending => Clear'
  BY <1>1, <1>6, <1>7 DEF Clear
<1>12. ASSUME NEW p \in Procs PROVE At(p, pc[p], at[p])'
  <2>1. PICK label, x : label = pc[p] /\ x = at[p]
    OBVIOUS
  <2>2. At(p, label, x) /\ pc'[p] = label /\ at'[p] = x /\ x \in Gens \cup {None}
    BY <1>1, <1>2, <1>3, <2>1 DEF IInv
  <2>3. label = "pending" => x = child' /\ child' # None /\ os[x] = "alive"
    BY <1>1, <2>2 DEF At
  <2>4. x \in Ending /\ x # None => term'[x] # "no" /\ (term'[x] = "ok" => Clear')
    <3>1. CASE x = g
      <4>1. x \in Ending => term'[x] = "ok"
        BY <1>4, <3>1 DEF Ending
      <4> QED BY <1>11, <3>1, <4>1
    <3>2. CASE x # g
      BY <1>4, <3>2 DEF Ending
    <3> QED BY <3>1, <3>2
  <2>5. p \in Callers => CallerAt(label, x)'
    <3> SUFFICES ASSUME p \in Callers PROVE CallerAt(label, x)'
      OBVIOUS
    <3>1. CallerAt(label, x)
      BY <2>2 DEF At
    <3>2. CASE label = "closed"
      <4>1. /\ x # None /\ os[x] = "exited" /\ ~Unacknowledged /\ ~closed[x]
            /\ child = x \/ x \in Ending
        BY <2>1, <3>1, <3>2, CalmFacts DEF CallerAt
      <4>2. CASE x = g
        <5>1. closed'[x] /\ Clear'
          BY <1>1, <1>4, <1>6, <1>7, <4>1, <4>2 DEF Clear
        <5> QED BY <1>1, <1>6, <3>2, <4>1, <5>1 DEF CallerAt
      <4>3. CASE x # g
        <5>1. ~closed'[x] /\ (child' = x \/ x \in Ending')
          BY <1>1, <1>4, <1>6, <2>2, <4>1, <4>3
        <5> QED BY <1>1, <1>6, <3>2, <4>1, <5>1 DEF CallerAt
      <4> QED BY <4>2, <4>3
    <3>3. CASE label = "term2"
      <4>1. x \in Ending /\ x # None
        BY <2>1, <3>1, <3>3, CalmFacts DEF CallerAt
      <4> QED BY <2>4, <3>3, <4>1 DEF CallerAt
    <3>4. CASE label \notin {"closed", "term2"}
      BY <1>1, <3>1, <3>4 DEF CallerAt
    <3> QED BY <3>2, <3>3, <3>4
  <2>6. p = Starter => StarterAt(label, x)'
    <3> SUFFICES ASSUME p = Starter PROVE StarterAt(label, x)'
      OBVIOUS
    <3>1. StarterAt(label, x)
      BY <2>2 DEF At
    <3>2. CASE label = "cleanup"
      <4>1. x \in Ending /\ child = None
        BY <2>1, <3>1, <3>2, CalmFacts DEF StarterAt
      <4>2. x # None /\ child' = None
        BY <1>1, <4>1, GensAssumption DEF Ending
      <4> QED BY <2>4, <3>2, <4>1, <4>2 DEF StarterAt
    <3>3. CASE label # "cleanup"
      BY <1>1, <1>6, <1>8, <3>1, <3>3 DEF StarterAt
    <3> QED BY <3>2, <3>3
  <2> QED BY <1>1, <2>2, <2>3, <2>5, <2>6 DEF At, CallerAt, StarterAt
<1> QED BY <1>5, <1>9, <1>10, <1>12 DEF IInv

\* A termination that grows harder or is given up.
LEMMA EscalationInvariant ==
  ASSUME IInv, Calm, NEW g \in Gens, g \in Ending,
         \/ term' = [term EXCEPT ![g] = "hard"] /\ unack' = unack
         \/ term' = [term EXCEPT ![g] = "failed"] /\ unack' = g /\ os[g] # "exited",
         UNCHANGED <<os, bySignal, killed, closed, child, left, stopping, quiet, pc, at>>
  PROVE  IInv'
<1>1. /\ term \in [Gens -> TermState] /\ pc \in [Procs -> PcState] /\ unack \in Gens \cup {None}
      /\ at \in [Procs -> Gens \cup {None}]
  BY DEF IInv, TypeOK
<1>2. Ending = {g} /\ child = None /\ ~Unacknowledged /\ term[g] # "no"
  BY DEF IInv, Exclusive, Ending
<1>3. /\ term' \in [Gens -> TermState] /\ unack' \in Gens \cup {None}
      /\ term'[g] \in {"hard", "failed"} /\ \A h \in Gens : h # g => term'[h] = term[h]
  <2>1. "hard" \in TermState /\ "failed" \in TermState
    BY DEF TermState
  <2> QED BY <1>1, <2>1
<1>4. TypeOK'
  BY <1>3 DEF IInv, TypeOK
<1>5. IF unack' = unack /\ term'[g] = "hard" THEN Ending' = {g} /\ ~Unacknowledged'
      ELSE unack' = g /\ Ending' = {} /\ os[g] # "exited"
  <2>1. CASE term' = [term EXCEPT ![g] = "hard"] /\ unack' = unack
    <3>1. term'[g] = "hard"
      BY <1>1, <2>1
    <3>2. Ending' = {g}
      BY <1>2, <1>3, <3>1 DEF Ending
    <3> QED BY <1>2, <2>1, <3>1, <3>2 DEF Unacknowledged
  <2>2. CASE term' = [term EXCEPT ![g] = "failed"] /\ unack' = g /\ os[g] # "exited"
    <3>1. term'[g] = "failed"
      BY <1>1, <2>2
    <3>2. Ending' = {}
      BY <1>2, <1>3, <3>1 DEF Ending
    <3> QED BY <2>2, <3>1, <3>2
  <2> QED BY <2>1, <2>2
<1>6. Life'
  <2> SUFFICES ASSUME NEW h \in Gens
               PROVE  /\ term'[h] # "no" => os[h] \in {"alive", "exited"}
                      /\ closed[h] \/ term'[h] = "ok" => os[h] = "exited"
                      /\ killed[h] => term'[h] # "no"
                      /\ os[h] = "spawning" => pc[Starter] = "spawning" /\ at[Starter] = h
                      /\ os[h] = "alive" => child = h \/ h \in Ending' \/ unack' = h
    BY DEF Life
  <2>1. /\ term[h] # "no" => os[h] \in {"alive", "exited"}
        /\ closed[h] \/ term[h] = "ok" => os[h] = "exited"
        /\ killed[h] => term[h] # "no"
        /\ os[h] = "spawning" => pc[Starter] = "spawning" /\ at[Starter] = h
        /\ os[h] = "alive" => h = g
    <3>1. unack = h => os[h] = "exited"
      BY <1>2, GensAssumption DEF Unacknowledged
    <3> QED BY <1>2, <3>1, GensAssumption DEF IInv, Life
  <2>2. h = g => term'[h] # "no" /\ term'[h] # "ok" /\ term[h] # "no"
    BY <1>2, <1>3
  <2> QED BY <1>3, <1>5, <2>1, <2>2
<1>7. Exclusive'
  BY <1>2, <1>5 DEF Exclusive
<1>8. ASSUME NEW p \in Procs PROVE At(p, pc[p], at[p])'
  <2>1. PICK label, x : label = pc[p] /\ x = at[p]
    OBVIOUS
  <2>2. At(p, label, x) /\ x \in Gens \cup {None}
    BY <1>1, <2>1 DEF IInv
  <2>3. label # "pending"
    BY <1>2, <2>2 DEF At
  <2>4. p \in Callers => CallerAt(label, x)'
    <3> SUFFICES ASSUME p \in Callers PROVE CallerAt(label, x)'
      OBVIOUS
    <3>1. CallerAt(label, x)
      BY <2>2 DEF At
    <3>2. CASE label = "closed"
      <4>1. x # None /\ os[x] = "exited" /\ ~closed[x] /\ (child = x \/ x \in Ending)
        BY <2>1, <3>1, <3>2, CalmFacts DEF CallerAt
      <4>2. x = g /\ os[g] = "exited"
        BY <1>2, <4>1
      <4>3. Ending' = {g} /\ ~Unacknowledged'
        BY <1>5, <4>2
      <4> QED BY <3>2, <4>1, <4>2, <4>3 DEF CallerAt
    <3>3. CASE label = "term2"
      <4>1. x = g /\ x # None
        BY <1>2, <2>1, <3>1, <3>3, CalmFacts DEF CallerAt
      <4> QED BY <1>3, <3>3, <4>1 DEF CallerAt
    <3>4. CASE label \notin {"closed", "term2"}
      BY <3>1, <3>4 DEF CallerAt
    <3> QED BY <3>2, <3>3, <3>4
  <2>5. p = Starter => StarterAt(label, x)'
    <3> SUFFICES ASSUME p = Starter PROVE StarterAt(label, x)'
      OBVIOUS
    <3>1. StarterAt(label, x)
      BY <2>2 DEF At
    <3>2. label # "rejected"
      BY <2>1, CalmFacts
    <3>3. label # "spawning"
      BY <1>2, <3>1 DEF StarterAt, Clear
    <3>4. CASE label = "cleanup"
      <4>1. x = g
        BY <1>2, <2>1, <3>4, CalmFacts
      <4>2. g # None
        BY GensAssumption
      <4> QED BY <1>2, <1>3, <3>4, <4>1, <4>2 DEF StarterAt
    <3> QED BY <3>2, <3>3, <3>4 DEF StarterAt
  <2> QED BY <2>1, <2>2, <2>3, <2>4, <2>5 DEF At, CallerAt, StarterAt
<1> QED BY <1>4, <1>6, <1>7, <1>8 DEF IInv

LEMMA TimerInvariant ==
  ASSUME IInv, NEW g \in Gens, Close(g) \/ ForcedClose(g) \/ GraceExpires(g) \/ HardKillExpires(g)
  PROVE  IInv'
<1>1. CASE Close(g) \/ ForcedClose(g)
  BY <1>1, CloseInvariant DEF Close, ForcedClose, Supervised
<1>2. CASE GraceExpires(g)
  <2>1. g \in Ending
    BY <1>2 DEF GraceExpires, Ending
  <2> QED BY <1>2, <2>1, EscalationInvariant DEF GraceExpires
<1>3. CASE HardKillExpires(g)
  <2>1. g \in Ending /\ Calm
    BY <1>3 DEF HardKillExpires, Ending
  <2>2. CASE os[g] = "exited" /\ HandleClose(g)
    BY <2>1, <2>2, CloseInvariant
  <2>3. CASE ~(os[g] = "exited" /\ HandleClose(g))
    <3>1. /\ os[g] # "exited" /\ term' = [term EXCEPT ![g] = "failed"] /\ unack' = g
          /\ UNCHANGED <<os, bySignal, killed, closed, child, left, stopping, quiet, pc, at>>
      BY <1>3, <2>3 DEF HardKillExpires
    <3> QED BY <2>1, <3>1, EscalationInvariant
  <2> QED BY <2>2, <2>3
<1> QED BY <1>1, <1>2, <1>3
-----------------------------------------------------------------------------
(* The calls of start(), request() and interruptAndRestart().              *)

\* One process moves to a control point whose reliances hold.
LEMMA GotoInvariant ==
  ASSUME IInv, NEW p \in Procs, p # Starter \/ pc[p] # "spawning", NEW label \in PcState,
         NEW x \in Gens \cup {None}, At(p, label, x),
         pc' = [pc EXCEPT ![p] = label], at' = [at EXCEPT ![p] = x],
         unack' = unack \/ (unack' = None /\ ~Unacknowledged),
         UNCHANGED <<os, bySignal, killed, closed, term, child, left>>,
         stopping' \in BOOLEAN, quiet' \in BOOLEAN
  PROVE  IInv'
<1>1. pc \in [Procs -> PcState] /\ at \in [Procs -> Gens \cup {None}] /\ left \in 0..Candidates
  BY DEF IInv, TypeOK
<1>2. /\ pc' \in [Procs -> PcState] /\ at' \in [Procs -> Gens \cup {None}]
      /\ \A q \in Procs : IF q = p THEN pc'[q] = label /\ at'[q] = x ELSE pc'[q] = pc[q] /\ at'[q] = at[q]
  BY <1>1
<1>3. ASSUME NEW q \in Procs PROVE (pc'[q] = pc[q] /\ at'[q] = at[q]) \/ At(q, pc'[q], at'[q])
  <2>1. CASE q = p
    <3>1. pc'[q] = label /\ at'[q] = x
      BY <1>2, <2>1
    <3> QED BY <2>1, <3>1
  <2>2. CASE q # p
    BY <1>2, <2>2
  <2> QED BY <2>1, <2>2
<1>4. pc[Starter] = "spawning" => pc'[Starter] = "spawning" /\ at'[Starter] = at[Starter]
  BY <1>2, Distinct
<1> QED BY <1>1, <1>2, <1>3, <1>4, MoveInvariant

\* The same where it waits on the generation it did before.
LEMMA StayInvariant ==
  ASSUME IInv, NEW p \in Procs, p # Starter \/ pc[p] # "spawning", NEW label \in PcState,
         At(p, label, at[p]),
         pc' = [pc EXCEPT ![p] = label], UNCHANGED <<gvars, left, at>>,
         stopping' \in BOOLEAN, quiet' \in BOOLEAN
  PROVE  IInv'
<1>1. at \in [Procs -> Gens \cup {None}]
  BY DEF IInv, TypeOK
<1>2. at[p] \in Gens \cup {None} /\ at' = [at EXCEPT ![p] = at[p]]
  BY <1>1
<1>3. UNCHANGED <<os, bySignal, killed, closed, term, child, unack, left>>
  BY DEF gvars
<1> QED BY <1>2, <1>3, GotoInvariant

LEMMA JoinStartInvariant ==
  ASSUME IInv, NEW c \in Callers, JoinStart(c), child = None => Clear,
         child # None => LooksAlive(child), stopping' \in BOOLEAN, quiet' \in BOOLEAN
  PROVE  IInv'
<1>1. /\ pc \in [Procs -> PcState] /\ c \in Procs /\ c # Starter
      /\ {"ready", "starting"} \subseteq PcState
  BY Distinct DEF IInv, TypeOK, PcState
<1>2. CASE child # None /\ LooksAlive(child)
  <2>1. pc' = [pc EXCEPT ![c] = "ready"] /\ UNCHANGED <<gvars, left, at>>
    BY <1>2 DEF JoinStart, Goto
  <2>2. At(c, "ready", at[c])
    BY FreeAt
  <2> QED BY <1>1, <2>1, <2>2, StayInvariant
<1>3. CASE child = None /\ pc[Starter] # "off"
  <2>1. pc' = [pc EXCEPT ![c] = "starting"] /\ UNCHANGED <<gvars, left, at>>
    BY <1>3 DEF JoinStart, Goto
  <2>2. At(c, "starting", at[c])
    BY FreeAt
  <2> QED BY <1>1, <2>1, <2>2, StayInvariant
<1>4. CASE child = None /\ pc[Starter] = "off"
  <2> DEFINE f == Move("starting", c)
  <2>1. /\ Spawn(f) /\ left' = Candidates - 1
        /\ UNCHANGED <<bySignal, killed, closed, term, child, unack>>
    BY <1>4 DEF JoinStart
  <2>2. f \in [Procs -> PcState] /\ \A p \in Procs : f[p] = IF p = c THEN "starting" ELSE pc[p]
    BY <1>1 DEF Move
  <2> HIDE DEF f
  <2>3. \A p \in Procs : f[p] = pc[p] \/ At(p, f[p], at[p])
    BY <2>2, FreeAt
  <2>4. left' \in 0..Candidates
    BY <2>1, CandidatesAssumption
  <2> QED BY <1>4, <2>1, <2>2, <2>3, <2>4, SpawnInvariant
<1> QED BY <1>2, <1>3, <1>4

LEMMA AfterClosedInvariant ==
  ASSUME IInv, NEW c \in Callers, AfterClosed(c), child = None, ~Unacknowledged,
         stopping' \in BOOLEAN, quiet' \in BOOLEAN
  PROVE  IInv'
<1>1. CASE Terminating
  <2>1. /\ pc' = [pc EXCEPT ![c] = "term2"] /\ at' = [at EXCEPT ![c] = TermTarget]
        /\ UNCHANGED <<os, bySignal, killed, closed, term, child, unack, left>>
    BY <1>1 DEF AfterClosed, Goto, Await, gvars
  <2>2. TermTarget \in Gens \cup {None} /\ TermTarget \in Ending
    BY <1>1, Target
  <2>3. At(c, "term2", TermTarget)
    BY <2>2, Distinct, GensAssumption DEF At, CallerAt, Ending
  <2>4. c \in Procs /\ c # Starter /\ "term2" \in PcState
    BY Distinct DEF PcState
  <2> QED BY <2>1, <2>2, <2>3, <2>4, GotoInvariant
<1>2. CASE ~Terminating
  <2>1. Clear
    BY <1>2 DEF Clear, Terminating
  <2> QED BY <1>2, <2>1, JoinStartInvariant DEF AfterClosed
<1> QED BY <1>1, <1>2

LEMMA AfterTermInvariant ==
  ASSUME IInv, NEW c \in Callers, AfterTerm(c), stopping' \in BOOLEAN, quiet' \in BOOLEAN
  PROVE  IInv'
<1>1. c \in Procs /\ c # Starter /\ {"ready", "closed", "unacknowledged"} \subseteq PcState
      /\ child \in Gens \cup {None} /\ at \in [Procs -> Gens \cup {None}]
  BY Distinct DEF PcState, IInv, TypeOK
<1>2. CASE Unacknowledged
  <2>1. pc' = [pc EXCEPT ![c] = "unacknowledged"] /\ UNCHANGED <<gvars, left, at>>
    BY <1>2 DEF AfterTerm, Goto, Unacknowledged
  <2>2. At(c, "unacknowledged", at[c])
    BY FreeAt
  <2> QED BY <1>1, <2>1, <2>2, StayInvariant
<1>3. CASE ~Unacknowledged /\ child # None /\ LooksAlive(child)
  <2>1. /\ pc' = [pc EXCEPT ![c] = "ready"] /\ unack' = None
        /\ UNCHANGED <<os, bySignal, killed, closed, term, child, left, at>>
    BY <1>3 DEF AfterTerm, Goto, Unacknowledged
  <2>2. At(c, "ready", at[c]) /\ at' = [at EXCEPT ![c] = at[c]] /\ at[c] \in Gens \cup {None}
    BY <1>1, <2>1, FreeAt
  <2> QED BY <1>1, <1>3, <2>1, <2>2, GotoInvariant
<1>4. CASE ~Unacknowledged /\ child # None /\ ~LooksAlive(child)
  <2>1. /\ pc' = [pc EXCEPT ![c] = "closed"] /\ at' = [at EXCEPT ![c] = child] /\ unack' = None
        /\ UNCHANGED <<os, bySignal, killed, closed, term, child, left>>
    BY <1>4 DEF AfterTerm, Goto, Await, Unacknowledged
  <2>2. os[child] = "exited" /\ ~closed[child]
    <3>1. ~killed[child] /\ os[child] \in {"alive", "exited"} /\ ~closed[child]
      BY <1>1, <1>4 DEF IInv, Exclusive, Life
    <3> QED BY <1>4, <3>1 DEF LooksAlive
  <2>3. At(c, "closed", child)
    BY <1>1, <1>4, <2>2 DEF At, CallerAt
  <2> QED BY <1>1, <1>4, <2>1, <2>3, GotoInvariant
<1>5. CASE ~Unacknowledged /\ child = None
  BY <1>5, AfterClosedInvariant DEF AfterTerm, Unacknowledged
<1> QED BY <1>2, <1>3, <1>4, <1>5

LEMMA StartCallInvariant ==
  ASSUME IInv, NEW c \in Callers, StartCall(c), stopping' \in BOOLEAN, quiet' \in BOOLEAN
  PROVE  IInv'
<1>1. CASE Terminating
  <2>1. /\ pc' = [pc EXCEPT ![c] = "term1"] /\ at' = [at EXCEPT ![c] = TermTarget]
        /\ UNCHANGED <<os, bySignal, killed, closed, term, child, unack, left>>
    BY <1>1 DEF StartCall, Goto, Await, gvars
  <2>2. TermTarget \in Gens \cup {None} /\ At(c, "term1", TermTarget)
    BY Target, FreeAt
  <2>3. c \in Procs /\ c # Starter /\ "term1" \in PcState
    BY Distinct DEF PcState
  <2> QED BY <2>1, <2>2, <2>3, GotoInvariant
<1>2. CASE ~Terminating
  BY <1>2, AfterTermInvariant DEF StartCall
<1> QED BY <1>1, <1>2

LEMMA ContinueStartInvariant ==
  ASSUME IInv, NEW c \in Callers, ContinueStart(c)
  PROVE  IInv'
<1>1. /\ c \in Procs /\ c # Starter /\ "failed" \in PcState /\ At(c, "failed", at[c])
      /\ stopping' \in BOOLEAN /\ quiet' \in BOOLEAN /\ Runnable(c)
      /\ term \in [Gens -> TermState] /\ at[c] \in Gens \cup {None}
  BY Distinct, FreeAt DEF PcState, ContinueStart, IInv, TypeOK
<1>3. CASE pc[c] \in {"term1", "term2"} /\ TerminationFailed(c)
  <2>1. pc' = [pc EXCEPT ![c] = "failed"] /\ UNCHANGED <<gvars, left, at>>
    BY <1>3 DEF ContinueStart, Goto
  <2> QED BY <1>1, <2>1, StayInvariant
<1>4. CASE pc[c] = "term1" /\ ~TerminationFailed(c)
  <2>1. AfterTerm(c)
    BY <1>4 DEF ContinueStart
  <2> QED BY <1>1, <2>1, AfterTermInvariant
<1>5. CASE pc[c] = "closed"
  <2>1. AfterClosed(c) /\ closed[at[c]]
    BY <1>1, <1>5 DEF ContinueStart, Runnable
  <2>2. Clear
    <3>1. CallerAt("closed", at[c])
      BY <1>1, <1>5 DEF IInv, At
    <3> QED BY <2>1, <3>1 DEF CallerAt
  <2> QED BY <1>1, <2>1, <2>2, AfterClosedInvariant DEF Clear
<1>6. CASE pc[c] = "term2" /\ ~TerminationFailed(c)
  <2>1. JoinStart(c)
    BY <1>6 DEF ContinueStart
  <2>2. Clear
    <3>1. CallerAt("term2", at[c])
      BY <1>1, <1>6 DEF IInv, At
    <3>2. at[c] # None /\ term[at[c]] = "ok"
      BY <1>1, <1>6, <3>1 DEF CallerAt, Runnable, TerminationSettled, TerminationFailed
    <3> QED BY <3>1, <3>2 DEF CallerAt
  <2> QED BY <1>1, <2>1, <2>2, JoinStartInvariant DEF Clear
<1> QED BY <1>3, <1>4, <1>5, <1>6 DEF ContinueStart

\* Moves of a call that change nothing else.
LEMMA CallMovesInvariant ==
  ASSUME IInv, NEW c \in Callers, Dispatch(c) \/ Reply(c) \/ CancelSettles(c)
  PROVE  IInv'
<1>1. /\ c \in Procs /\ c # Starter /\ stopping \in BOOLEAN /\ quiet \in BOOLEAN
      /\ child \in Gens \cup {None} /\ at \in [Procs -> Gens \cup {None}]
      /\ {"pending", "unavailable", "replied", "unacknowledged", "cancelled"} \subseteq PcState
  BY Distinct DEF IInv, TypeOK, PcState
<1>2. CASE Dispatch(c)
  <2>1. /\ UNCHANGED <<os, bySignal, killed, closed, term, child, unack, left, stopping, quiet>>
        /\ IF child # None /\ os[child] = "alive" /\ ~killed[child]
           THEN pc' = [pc EXCEPT ![c] = "pending"] /\ at' = [at EXCEPT ![c] = child]
           ELSE pc' = [pc EXCEPT ![c] = "unavailable"] /\ UNCHANGED at
    BY <1>2 DEF Dispatch, Goto, Await, gvars
  <2>2. CASE child # None /\ os[child] = "alive" /\ ~killed[child]
    <3>1. At(c, "pending", child)
      BY <1>1, <2>2 DEF At, CallerAt
    <3> QED BY <1>1, <2>1, <2>2, <3>1, GotoInvariant
  <2>3. CASE ~(child # None /\ os[child] = "alive" /\ ~killed[child])
    <3>1. At(c, "unavailable", at[c]) /\ at' = [at EXCEPT ![c] = at[c]] /\ at[c] \in Gens \cup {None}
      BY <1>1, <2>1, <2>3, FreeAt
    <3>2. pc' = [pc EXCEPT ![c] = "unavailable"]
      BY <2>1, <2>3
    <3> QED BY <1>1, <2>1, <3>1, <3>2, GotoInvariant
  <2> QED BY <2>2, <2>3
<1>3. CASE Reply(c)
  <2>1. pc' = [pc EXCEPT ![c] = "replied"] /\ UNCHANGED <<gvars, left, stopping, quiet, at>>
    BY <1>3 DEF Reply, Goto
  <2>2. At(c, "replied", at[c])
    BY FreeAt
  <2> QED BY <1>1, <2>1, <2>2, StayInvariant
<1>4. CASE CancelSettles(c)
  <2>1. /\ pc' = [pc EXCEPT ![c] = IF TerminationFailed(c) THEN "unacknowledged" ELSE "cancelled"]
        /\ UNCHANGED <<gvars, left, stopping, quiet, at>> /\ pc[c] = "killing" /\ Runnable(c)
    BY <1>4 DEF CancelSettles, Goto
  <2>2. At(c, "unacknowledged", at[c])
    BY FreeAt
  <2>3. ~TerminationFailed(c) => At(c, "cancelled", at[c])
    <3> SUFFICES ASSUME ~TerminationFailed(c) PROVE At(c, "cancelled", at[c])
      OBVIOUS
    <3>1. CallerAt("killing", at[c])
      BY <1>1, <2>1 DEF IInv, At
    <3>2. at[c] \in Gens /\ at[c] # None
      BY <1>1, <3>1 DEF CallerAt
    <3>3. term[at[c]] = "ok"
      BY <2>1, <3>2 DEF Runnable, TerminationSettled, TerminationFailed
    <3>4. os[at[c]] = "exited"
      BY <3>2, <3>3 DEF IInv, Life
    <3> QED BY <1>1, <3>2, <3>4 DEF At, CallerAt
  <2>4. CASE TerminationFailed(c)
    BY <1>1, <2>1, <2>2, <2>4, StayInvariant
  <2>5. CASE ~TerminationFailed(c)
    BY <1>1, <2>1, <2>3, <2>5, StayInvariant
  <2> QED BY <2>4, <2>5
<1> QED BY <1>2, <1>3, <1>4

\* Whoever terminates the worker goes where nothing is relied on, or to wait
\* for the termination.
LEMMA EndsWorker ==
  ASSUME IInv, NEW p \in Procs, p # Starter, NEW label \in {"failed", "killing", "interrupting", "ending"},
         label = "killing" => child # None,
         NEW a \in {at, Await(TermTarget, p)}, label = "killing" => a = Await(TermTarget, p),
         Terminate(Move(label, p), a),
         stopping' \in BOOLEAN, quiet' \in BOOLEAN
  PROVE  IInv'
<1>1. /\ pc \in [Procs -> PcState] /\ at \in [Procs -> Gens \cup {None}]
      /\ {"failed", "killing", "interrupting", "ending"} \subseteq PcState
  BY DEF IInv, TypeOK, PcState
<1>2. PICK f : f = Move(label, p)
  OBVIOUS
<1>3. f \in [Procs -> PcState] /\ \A q \in Procs : f[q] = IF q = p THEN label ELSE pc[q]
  BY <1>1, <1>2 DEF Move
<1>4. a \in [Procs -> Gens \cup {None}] /\ \A q \in Procs : q # p => a[q] = at[q]
  BY <1>1, Target DEF Await
<1>5. label = "killing" => a[p] # None
  <2>1. child # None => TermTarget # None
    BY Target, GensAssumption DEF IInv, Exclusive, Terminating, Ending
  <2> QED BY <1>1, <2>1 DEF Await
<1>6. At(p, f[p], a[p])' /\ f[p] # "pending"
  BY <1>3, <1>5 DEF At, CallerAt, StarterAt
<1>7. \A q \in Procs : (f[q] = pc[q] /\ a[q] = at[q]) \/ (f[q] # "pending" /\ At(q, f[q], a[q])')
  BY <1>3, <1>4, <1>6
<1>8. pc[Starter] = "spawning" => f[Starter] = "spawning" /\ a[Starter] = at[Starter]
  BY <1>3, <1>4, Distinct
<1> QED BY <1>2, <1>3, <1>4, <1>7, <1>8, TerminateInvariant

LEMMA CallEndsWorkerInvariant ==
  ASSUME IInv, NEW c \in Callers, Deadline(c) \/ ForceCancel(c) \/ CallInterrupt(c)
  PROVE  IInv'
<1>1. c \in Procs /\ c # Starter /\ stopping \in BOOLEAN /\ quiet \in BOOLEAN
  BY Distinct DEF IInv, TypeOK
<1>2. CASE Deadline(c)
  BY <1>1, <1>2, EndsWorker DEF Deadline
<1>3. CASE ForceCancel(c)
  <2>1. child # None
    BY <1>1, <1>3 DEF ForceCancel, IInv, At
  <2> QED BY <1>1, <1>3, <2>1, EndsWorker DEF ForceCancel
<1>4. CASE CallInterrupt(c)
  BY <1>1, <1>4, EndsWorker DEF CallInterrupt
<1> QED BY <1>2, <1>3, <1>4

LEMMA CallStartInvariant ==
  ASSUME IInv, NEW c \in Callers, CallStart(c) \/ InterruptContinues(c)
  PROVE  IInv'
<1>1. c \in Procs /\ c # Starter /\ stopping \in BOOLEAN /\ quiet \in BOOLEAN
  BY Distinct DEF IInv, TypeOK
<1>2. CASE CallStart(c)
  BY <1>1, <1>2, StartCallInvariant DEF CallStart
<1>3. CASE InterruptContinues(c)
  <2>1. stopping' \in BOOLEAN /\ quiet' \in BOOLEAN
    BY <1>1, <1>3 DEF InterruptContinues
  <2>2. CASE TerminationFailed(c)
    <3>1. pc' = [pc EXCEPT ![c] = "failed"] /\ UNCHANGED <<gvars, left, at>>
      BY <1>3, <2>2 DEF InterruptContinues, Goto
    <3>2. At(c, "failed", at[c]) /\ "failed" \in PcState
      BY FreeAt DEF PcState
    <3> QED BY <1>1, <2>1, <3>1, <3>2, StayInvariant
  <2>3. CASE ~TerminationFailed(c)
    BY <1>3, <2>1, <2>3, StartCallInvariant DEF InterruptContinues
  <2> QED BY <2>2, <2>3
<1> QED BY <1>2, <1>3
-----------------------------------------------------------------------------
(* The start in flight, stop() and an oversized line.                      *)

LEMMA HealthInvariant ==
  ASSUME IInv, HealthOk \/ HealthFails
  PROVE  IInv'
<1>1. /\ pc \in [Procs -> PcState] /\ at \in [Procs -> Gens \cup {None}] /\ left \in 0..Candidates
      /\ stopping \in BOOLEAN /\ quiet \in BOOLEAN /\ {"off", "ready", "rejected"} \subseteq PcState
      /\ Starter \in Procs /\ Starter \notin Callers
  BY Distinct DEF IInv, TypeOK, PcState
<1>2. pc[Starter] = "pending" /\ UNCHANGED <<stopping, quiet>>
  BY DEF HealthOk, HealthFails
<1>3. ~Unacknowledged
  BY <1>1, <1>2 DEF IInv, At, Exclusive
<1>4. CASE HealthOk
  <2>1. /\ UNCHANGED <<os, bySignal, killed, closed, term, child, unack, left, at>>
        /\ pc' = [p \in Procs |-> IF p = Starter THEN "off" ELSE IF pc[p] = "starting" THEN "ready" ELSE pc[p]]
    BY <1>4 DEF HealthOk, Settled, gvars
  <2>2. pc' \in [Procs -> PcState]
    BY <1>1, <2>1
  <2>3. \A p \in Procs : (pc'[p] = pc[p] /\ at'[p] = at[p]) \/ At(p, pc'[p], at'[p])
    BY <2>1, FreeAt
  <2> QED BY <1>1, <1>2, <2>1, <2>2, <2>3, MoveInvariant
<1>5. CASE pc' = [pc EXCEPT ![Starter] = "rejected"] /\ UNCHANGED <<gvars, left, at>>
  <2>1. At(Starter, "rejected", at[Starter])
    BY <1>1, <1>3 DEF At, StarterAt
  <2> QED BY <1>1, <1>2, <1>5, <2>1, StayInvariant
<1>6. CASE Terminate(Move("rejected", Starter), at)
  <2>1. PICK f : f = Move("rejected", Starter)
    OBVIOUS
  <2>2. f \in [Procs -> PcState] /\ \A q \in Procs : f[q] = IF q = Starter THEN "rejected" ELSE pc[q]
    BY <1>1, <2>1 DEF Move
  <2>3. ~Unacknowledged'
    BY <1>3, <1>6 DEF Terminate, Unacknowledged
  <2>4. At(Starter, f[Starter], at[Starter])' /\ f[Starter] # "pending"
    BY <1>1, <2>2, <2>3, <1>6 DEF At, StarterAt, Terminate
  <2>5. PICK a : a = at
    OBVIOUS
  <2>6. \A q \in Procs : (f[q] = pc[q] /\ a[q] = at[q]) \/ (f[q] # "pending" /\ At(q, f[q], a[q])')
    <3> SUFFICES ASSUME NEW q \in Procs
                 PROVE  (f[q] = pc[q] /\ a[q] = at[q]) \/ (f[q] # "pending" /\ At(q, f[q], a[q])')
      OBVIOUS
    <3>1. CASE q # Starter
      BY <2>2, <2>5, <3>1
    <3>2. CASE q = Starter
      <4>1. f[q] = "rejected"
        BY <2>2, <3>2
      <4>2. At(q, f[q], a[q])'
        BY <1>1, <2>3, <3>2, <4>1 DEF At, StarterAt
      <4> QED BY <4>1, <4>2
    <3> QED BY <3>1, <3>2
  <2> QED BY <1>1, <1>2, <1>6, <2>1, <2>2, <2>5, <2>6, TerminateInvariant
<1> QED BY <1>4, <1>5, <1>6 DEF HealthFails, Goto

LEMMA CandidateFailsInvariant ==
  ASSUME IInv, CandidateFails
  PROVE  IInv'
<1>1. /\ pc \in [Procs -> PcState] /\ at \in [Procs -> Gens \cup {None}]
      /\ stopping \in BOOLEAN /\ quiet \in BOOLEAN /\ "cleanup" \in PcState
      /\ Starter \in Procs /\ Starter \notin Callers /\ term \in [Gens -> TermState] /\ child \in Gens \cup {None}
  BY Distinct DEF IInv, TypeOK, PcState
<1>2. /\ pc[Starter] = "rejected" /\ UNCHANGED <<stopping, quiet>>
      /\ Terminate(Move("cleanup", Starter), Await(TermTarget, Starter))
  BY DEF CandidateFails
<1>3. ~Unacknowledged
  BY <1>1, <1>2 DEF IInv, At, StarterAt
<1>4. PICK f, a, x : f = Move("cleanup", Starter) /\ a = Await(TermTarget, Starter) /\ x = TermTarget
  OBVIOUS
<1>5. /\ f \in [Procs -> PcState] /\ \A q \in Procs : f[q] = IF q = Starter THEN "cleanup" ELSE pc[q]
      /\ a \in [Procs -> Gens \cup {None}] /\ \A q \in Procs : a[q] = IF q = Starter THEN x ELSE at[q]
  BY <1>1, <1>4, Target DEF Move, Await
<1>6. StarterAt("cleanup", x)'
  <2>1. CASE Terminating
    <3>1. UNCHANGED <<child, term>> /\ child = None /\ x \in Ending
      BY <1>2, <1>4, <2>1, Target DEF Terminate
    <3>2. x # None /\ term[x] \in {"soft", "hard"}
      BY <3>1, GensAssumption DEF Ending
    <3> QED BY <3>1, <3>2 DEF StarterAt
  <2>2. CASE ~Terminating /\ child # None
    <3>1. child' = None /\ term' = [term EXCEPT ![child] = "soft"] /\ x = child
      BY <1>2, <1>4, <2>2, Target DEF Terminate
    <3>2. term'[x] = "soft"
      BY <1>1, <2>2, <3>1
    <3> QED BY <2>2, <3>1, <3>2 DEF StarterAt
  <2>3. CASE ~Terminating /\ child = None
    <3>1. UNCHANGED <<child, term, os, unack>> /\ x = None
      BY <1>2, <1>4, <2>3, Target DEF Terminate
    <3>2. Clear'
      BY <1>3, <2>3, <3>1 DEF Clear, Terminating, Ending, Unacknowledged
    <3> QED BY <2>3, <3>1, <3>2 DEF StarterAt
  <2> QED BY <2>1, <2>2, <2>3
<1>7. \A q \in Procs : (f[q] = pc[q] /\ a[q] = at[q]) \/ (f[q] # "pending" /\ At(q, f[q], a[q])')
  <2> SUFFICES ASSUME NEW q \in Procs
               PROVE  (f[q] = pc[q] /\ a[q] = at[q]) \/ (f[q] # "pending" /\ At(q, f[q], a[q])')
    OBVIOUS
  <2>1. CASE q # Starter
    BY <1>5, <2>1
  <2>2. CASE q = Starter
    <3>1. f[q] = "cleanup" /\ a[q] = x
      BY <1>5, <2>2
    <3>2. At(q, "cleanup", x)'
      BY <1>1, <1>6, <2>2 DEF At
    <3> QED BY <3>1, <3>2
  <2> QED BY <2>1, <2>2
<1> QED BY <1>1, <1>2, <1>4, <1>5, <1>7, TerminateInvariant

LEMMA NextCandidateInvariant ==
  ASSUME IInv, NextCandidate
  PROVE  IInv'
<1>1. /\ pc \in [Procs -> PcState] /\ at \in [Procs -> Gens \cup {None}] /\ left \in 0..Candidates
      /\ stopping \in BOOLEAN /\ quiet \in BOOLEAN /\ {"off", "failed"} \subseteq PcState
      /\ Starter \in Procs /\ term \in [Gens -> TermState]
  BY Distinct DEF IInv, TypeOK, PcState
<1>2. /\ pc[Starter] = "cleanup" /\ Runnable(Starter)
      /\ UNCHANGED <<bySignal, killed, closed, term, child, unack, stopping, quiet>>
  BY DEF NextCandidate
<1>3. CASE TerminationFailed(Starter) \/ left = 0
  <2>1. /\ UNCHANGED <<os, at, left>>
        /\ pc' = [p \in Procs |-> IF p = Starter THEN "off" ELSE IF pc[p] = "starting" THEN "failed" ELSE pc[p]]
    BY <1>3 DEF NextCandidate, Settled
  <2>2. pc' \in [Procs -> PcState]
    BY <1>1, <2>1
  <2>3. \A p \in Procs : (pc'[p] = pc[p] /\ at'[p] = at[p]) \/ At(p, pc'[p], at'[p])
    BY <2>1, FreeAt
  <2> QED BY <1>1, <1>2, <2>1, <2>2, <2>3, MoveInvariant
<1>4. CASE ~(TerminationFailed(Starter) \/ left = 0)
  <2>1. Spawn(pc) /\ left' = left - 1
    BY <1>4 DEF NextCandidate
  <2>2. Clear
    <3>1. StarterAt("cleanup", at[Starter])
      BY <1>1, <1>2 DEF IInv, At
    <3>2. at[Starter] # None => term[at[Starter]] = "ok"
      BY <1>2, <1>4 DEF Runnable, TerminationSettled, TerminationFailed
    <3> QED BY <3>1, <3>2 DEF StarterAt
  <2>3. left' \in 0..Candidates
    BY <1>1, <1>4, <2>1, CandidatesAssumption
  <2> QED BY <1>1, <1>2, <2>1, <2>2, <2>3, SpawnInvariant
<1> QED BY <1>3, <1>4

LEMMA StopInvariant ==
  ASSUME IInv, CallStop \/ ShutdownAnswered \/ StopTerminates \/ StopReturns
  PROVE  IInv'
<1>1. /\ Stopper \in Procs /\ Stopper # Starter /\ Stopper \notin Callers
      /\ stopping \in BOOLEAN /\ quiet \in BOOLEAN /\ at \in [Procs -> Gens \cup {None}]
      /\ child \in Gens \cup {None} /\ {"stopped", "pending", "rejected", "failed"} \subseteq PcState
  BY Distinct DEF IInv, TypeOK, PcState
<1>2. \A label, x : label # "pending" => At(Stopper, label, x)
  BY <1>1 DEF At
<1>3. CASE CallStop
  <2>1. stopping' \in BOOLEAN /\ quiet' \in BOOLEAN
    BY <1>3 DEF CallStop
  <2>2. CASE \E label \in {"stopped", "rejected"} :
               pc' = [pc EXCEPT ![Stopper] = label] /\ UNCHANGED <<gvars, left, at>>
    BY <1>1, <1>2, <2>1, <2>2, StayInvariant
  <2>3. CASE /\ child # None /\ os[child] = "alive" /\ pc' = [pc EXCEPT ![Stopper] = "pending"]
             /\ at' = [at EXCEPT ![Stopper] = child] /\ UNCHANGED <<gvars, left>>
    <3>1. At(Stopper, "pending", child)
      BY <1>1, <2>3 DEF At
    <3>2. UNCHANGED <<os, bySignal, killed, closed, term, child, unack, left>>
      BY <2>3 DEF gvars
    <3> QED BY <1>1, <2>1, <2>3, <3>1, <3>2, GotoInvariant
  <2> QED BY <1>3, <2>2, <2>3 DEF CallStop, Goto, Await
<1>4. CASE ShutdownAnswered
  BY <1>1, <1>2, <1>4, StayInvariant DEF ShutdownAnswered, Goto
<1>5. CASE StopTerminates
  BY <1>1, <1>5, EndsWorker DEF StopTerminates
<1>6. CASE StopReturns
  <2>1. stopping' \in BOOLEAN /\ quiet' \in BOOLEAN /\ UNCHANGED <<gvars, left, at>>
    BY <1>1, <1>6 DEF StopReturns
  <2>2. PICK label \in {"failed", "stopped"} : pc' = [pc EXCEPT ![Stopper] = label]
    BY <1>6 DEF StopReturns, Goto
  <2> QED BY <1>1, <1>2, <2>1, <2>2, StayInvariant
<1> QED BY <1>3, <1>4, <1>5, <1>6

LEMMA OversizedLineInvariant ==
  ASSUME IInv, OversizedLine
  PROVE  IInv'
<1>1. /\ pc \in [Procs -> PcState] /\ at \in [Procs -> Gens \cup {None}]
      /\ stopping' \in BOOLEAN /\ quiet' \in BOOLEAN /\ Terminate(pc, at)
  BY DEF IInv, TypeOK, OversizedLine
<1>2. PICK f, a : f = pc /\ a = at
  OBVIOUS
<1> QED BY <1>1, <1>2, TerminateInvariant
-----------------------------------------------------------------------------
(* The invariant is inductive.                                             *)

LEMMA InitInvariant == Init => IInv
<1> SUFFICES ASSUME Init PROVE IInv
  OBVIOUS
<1>1. TypeOK
  <2>1. /\ os \in [Gens -> OsState] /\ term \in [Gens -> TermState]
        /\ bySignal \in [Gens -> BOOLEAN] /\ killed \in [Gens -> BOOLEAN]
        /\ closed \in [Gens -> BOOLEAN]
    BY Zenon DEF Init, OsState, TermState
  <2>2. /\ pc \in [Procs -> PcState] /\ at \in [Procs -> Gens \cup {None}]
    BY Zenon DEF Init, PcState
  <2>3. left \in 0..Candidates
    <3>1. left = 0
      BY DEF Init
    <3> QED BY <3>1, CandidatesAssumption
  <2>4. /\ child \in Gens \cup {None} /\ unack \in Gens \cup {None}
        /\ stopping \in BOOLEAN /\ quiet \in BOOLEAN
    BY DEF Init
  <2> QED BY <2>1, <2>2, <2>3, <2>4 DEF TypeOK
<1>2. Ending = {} /\ ~Unacknowledged
  BY DEF Init, Ending, Unacknowledged
<1>3. Life /\ Exclusive
  BY <1>2 DEF Init, Life, Exclusive
<1>4. \A p \in Procs : pc[p] = "off"
  BY DEF Init
<1> QED BY <1>1, <1>3, <1>4, FreeAt DEF IInv

LEMMA StepInvariant == IInv /\ [Next]_vars => IInv'
<1> SUFFICES ASSUME IInv, [Next]_vars PROVE IInv'
  OBVIOUS
<1>1. CASE UNCHANGED vars
  <2>1. /\ UNCHANGED <<os, bySignal, killed, closed, term, child, unack, left, stopping, quiet, pc, at>>
        /\ pc \in [Procs -> PcState] /\ at \in [Procs -> Gens \cup {None}] /\ left \in 0..Candidates
        /\ stopping \in BOOLEAN /\ quiet \in BOOLEAN
    BY <1>1 DEF vars, IInv, TypeOK
  <2> QED BY <2>1, MoveInvariant
<1>2. ASSUME NEW c \in Callers,
             \/ CallStart(c) \/ ContinueStart(c) \/ Dispatch(c) \/ Reply(c)
             \/ Deadline(c) \/ ForceCancel(c) \/ CancelSettles(c)
             \/ CallInterrupt(c) \/ InterruptContinues(c)
      PROVE  IInv'
  BY <1>2, CallStartInvariant, ContinueStartInvariant, CallMovesInvariant, CallEndsWorkerInvariant
<1>3. CASE SpawnOk \/ SpawnError \/ HealthOk \/ HealthFails \/ CandidateFails \/ NextCandidate \/ OversizedLine
  BY <1>3, SpawnOkInvariant, SpawnErrorInvariant, HealthInvariant, CandidateFailsInvariant,
     NextCandidateInvariant, OversizedLineInvariant
<1>4. CASE CallStop \/ ShutdownAnswered \/ StopTerminates \/ StopReturns
  BY <1>4, StopInvariant
<1>5. ASSUME NEW g \in Gens,
             Exit(g) \/ Close(g) \/ ForcedClose(g) \/ GraceExpires(g) \/ HardKillExpires(g)
      PROVE  IInv'
  BY <1>5, ExitInvariant, TimerInvariant
<1> QED BY <1>1, <1>2, <1>3, <1>4, <1>5 DEF Next
-----------------------------------------------------------------------------
(* Theorems.                                                               *)

\* The cases of a worker that has not exited exclude each other, and a
\* process may rely on what its control point says.
THEOREM InvariantHolds == Spec => []IInv
<1>1. Init => IInv
  BY InitInvariant
<1>2. IInv /\ [Next]_vars => IInv'
  BY StepInvariant
<1> QED BY <1>1, <1>2, PTL DEF Spec

\* Every variable of the supervisor keeps its type.
THEOREM Typing == Spec => []TypeOK
<1>1. IInv => TypeOK
  BY DEF IInv
<1> QED BY <1>1, InvariantHolds, PTL

\* No replacement is launched beside a worker that has not exited, however
\* calls, deadlines, cancellations, interrupts and kills interleave.
THEOREM OneWorkerAtATime == Spec => []AtMostOneWorker
<1>1. IInv => AtMostOneWorker
  BY RunningIsOne
<1> QED BY <1>1, InvariantHolds, PTL

\* A request waits only on the current, live generation: none hangs on a dead
\* process or crosses into the replacement.
THEOREM NoOrphanedRequest == Spec => []PendingOnCurrentWorker
<1>1. IInv => PendingOnCurrentWorker
  BY DEF IInv, At, PendingOnCurrentWorker
<1> QED BY <1>1, InvariantHolds, PTL

\* A forced cancellation is reported as such only after the process the
\* request was dispatched to has exited.
THEOREM CancelWaitsForExit == Spec => []CancelledMeansExited
<1>1. IInv => CancelledMeansExited
  BY Distinct DEF IInv, At, CallerAt, CancelledMeansExited
<1> QED BY <1>1, InvariantHolds, PTL
=============================================================================
