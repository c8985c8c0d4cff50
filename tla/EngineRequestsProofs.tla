------------------------ MODULE EngineRequestsProofs ------------------------
(***************************************************************************)
(* Proofs about EngineRequests, for any requests of any kinds: one request *)
(* executes at a time, background work yields to foreground work, the main *)
(* process computes alone, a cancellation is exact, and a hold keeps its   *)
(* order.                                                                  *)
(*                                                                         *)
(* At(r, label) says what a request may rely on at a control point: only   *)
(* the head of the turn queue gets past its turn, and what executes is the *)
(* active request.  The rest relates requests to each other: a host        *)
(* computation and any other live request have one of them waiting for the *)
(* other, and somebody stands behind every launch.                         *)
(***************************************************************************)
EXTENDS EngineRequests, SequenceTheorems, TLAPS

(* Where a request has no place in the turn queue.                         *)
Outside == {"off", "hosts", "claim", "yielding", "preempting", "claimed", "parked", "woken", "done"}
Claiming == {"claim", "yielding", "preempting", "claimed"}
Starts == {"start", "starting", "started"}
Executes == {"before", "sent", "host", "killing"}

(* How often foreground work has claimed the worker by then.               *)
ClaimsAt(label, n, queued) ==
  /\ label \in {"off", "hosts", "done"} => n = 0
  /\ label = "claim" => n \in {0, 1}
  /\ label \in {"yielding", "preempting", "claimed"} => n \in {1, 2}
  /\ label \in Starts /\ ~queued => n = 1
  /\ label \in {"parked", "woken", "turn"} => n = 2

At(r, label) ==
  /\ label \in Outside => ~InQueue(r)
  /\ label \in Executes => InQueue(r) /\ active = r
  /\ active = r => label # "off"
  /\ InQueue(r) /\ label # "turn" => OwnsTurn(r)
  /\ r \in Hosts => label \in {"off", "hosts", "turn", "host", "done"}
  /\ r \in Background => label \notin Claiming
  /\ r \notin Background \cup Hosts => ClaimsAt(label, claims[r], InQueue(r))

(* A host computation and another request: one waits for the other.        *)
Ordered ==
  /\ \A r \in Requests : \A s \in waits[r] : pc[s] # "off"
  /\ \A h \in Hosts \cap Live, s \in Live \ Hosts :
       s \in waits[h] \/ (pc[s] = "hosts" /\ h \in waits[s])
  /\ \A h \in Hosts : pc[h] \in {"turn", "host"} => WaitsOver(h)

(* Somebody waits for every launch and every preemption.                   *)
Launches == /\ worker = "starting" => \E r \in Requests : pc[r] \in {"starting", "preempting"}
            /\ preempting # "no" => \E r \in Requests : pc[r] = "preempting"

AskedAborted == \A r \in Requests : asked[r] # "no" => r \in aborted

(* Nothing ordinary is past its turn once a held load or resumption went.  *)
Kept == held /\ overtaken => InSlot \subseteq Exempt \cup Hosts

IInv == /\ TypeOK
        /\ \A r \in Requests : At(r, pc[r])
        /\ BackgroundYields
        /\ Ordered
        /\ Launches
        /\ AskedAborted
        /\ Kept
-----------------------------------------------------------------------------
(* The turn queue.                                                         *)

LEMMA RemovedFirst ==
  ASSUME NEW S, NEW s \in Seq(S), NEW e, IsInjective(s)
  PROVE  /\ RemoveFirst(s, e) \in Seq(S) /\ IsInjective(RemoveFirst(s, e))
         /\ ToSet(RemoveFirst(s, e)) = ToSet(s) \ {e}
         /\ s # <<>> /\ Head(s) # e => /\ RemoveFirst(s, e) # <<>>
                                       /\ Head(RemoveFirst(s, e)) = Head(s)
<1>1. CASE ~\E i \in 1 .. Len(s) : s[i] = e
  <2>1. RemoveFirst(s, e) = s /\ DOMAIN s = 1 .. Len(s)
    BY <1>1 DEF RemoveFirst
  <2> QED BY <1>1, <2>1 DEF ToSet
<1>2. CASE \E i \in 1 .. Len(s) : s[i] = e
  <2>1. PICK p \in 1 .. Len(s) : s[p] = e
    BY <1>2
  <2>2. DOMAIN s = 1 .. Len(s) /\ Len(s) \in Nat /\ p \in Nat
    BY <2>1
  <2>3. {i \in 1 .. Len(s) : s[i] = e} = {p}
    BY <2>1, <2>2 DEF IsInjective
  <2>4. SelectInSeq(s, LAMBDA v : v = e) = p
    BY <2>3 DEF SelectInSeq, Min
  <2> DEFINE a == SubSeq(s, 1, p - 1)
             z == SubSeq(s, p + 1, Len(s))
             r == a \o z
  <2>5. RemoveFirst(s, e) = r
    BY <1>2, <2>4 DEF RemoveFirst, RemoveAt
  <2>6. /\ a \in Seq(S) /\ Len(a) = p - 1 /\ \A i \in 1 .. p - 1 : a[i] = s[i]
        /\ z \in Seq(S) /\ Len(z) = Len(s) - p /\ \A i \in 1 .. Len(s) - p : z[i] = s[i + p]
    <3>1. p - 1 \in Int /\ p + 1 \in Int /\ Len(s) \in Int /\ (p - 1) - 1 + 1 = p - 1
      BY <2>1, <2>2
    <3>2. /\ a \in Seq(S) /\ Len(a) = IF 1 <= p - 1 THEN (p - 1) - 1 + 1 ELSE 0
          /\ \A i \in 1 .. (p - 1) - 1 + 1 : a[i] = s[1 + i - 1]
      BY <2>1, <2>2, <3>1, SubSeqProperties
    <3>3. /\ z \in Seq(S) /\ Len(z) = IF p + 1 <= Len(s) THEN Len(s) - (p + 1) + 1 ELSE 0
          /\ \A i \in 1 .. Len(s) - (p + 1) + 1 : z[i] = s[(p + 1) + i - 1]
      BY <2>1, <2>2, <3>1, SubSeqProperties
    <3> HIDE DEF a, z
    <3>4. Len(s) - (p + 1) + 1 = Len(s) - p /\ p >= 1 /\ p <= Len(s)
      BY <2>1, <2>2
    <3>5. Len(a) = p - 1 /\ Len(z) = Len(s) - p
      <4>1. Len(a) = IF 1 <= p - 1 THEN p - 1 ELSE 0
        BY <3>1, <3>2
      <4>2. Len(z) = IF p + 1 <= Len(s) THEN Len(s) - p ELSE 0
        BY <3>3, <3>4
      <4>3. p \in Int /\ Len(s) \in Int
        BY <2>2
      <4>4. Len(a) = p - 1
        BY <3>4, <4>1, <4>3
      <4>5. Len(z) = Len(s) - p
        <5>1. CASE p + 1 <= Len(s)
          BY <4>2, <5>1
        <5>2. CASE ~(p + 1 <= Len(s))
          <6>1. PICK n \in Int : n = Len(s)
            BY <4>3
          <6>2. p <= n /\ ~(p + 1 <= n)
            BY <3>4, <5>2, <6>1
          <6>3. n - p = 0
            BY <4>3, <6>2
          <6> QED BY <4>2, <5>2, <6>1, <6>3
        <5> QED BY <5>1, <5>2
      <4> QED BY <4>4, <4>5
    <3>6. ASSUME NEW i \in 1 .. p - 1 PROVE a[i] = s[i]
      <4>1. 1 + i - 1 = i
        OBVIOUS
      <4> QED BY <3>1, <3>2, <4>1
    <3>7. ASSUME NEW i \in 1 .. Len(s) - p PROVE z[i] = s[i + p]
      <4>1. (p + 1) + i - 1 = i + p
        BY <2>2
      <4> QED BY <3>3, <3>4, <4>1
    <3> QED BY <3>2, <3>3, <3>5, <3>6, <3>7
  <2> HIDE DEF a, z
  <2>7. /\ r \in Seq(S) /\ DOMAIN r = 1 .. Len(s) - 1
        /\ \A i \in 1 .. Len(s) - 1 : r[i] = IF i < p THEN s[i] ELSE s[i + 1]
    <3>1. r \in Seq(S) /\ Len(r) = Len(s) - 1 /\ DOMAIN r = 1 .. Len(s) - 1
      <4>1. r \in Seq(S) /\ Len(r) = Len(a) + Len(z)
        BY <2>6, ConcatProperties
      <4>2. Len(r) = Len(s) - 1
        BY <2>2, <2>6, <4>1
      <4> QED BY <4>1, <4>2
    <3>2. ASSUME NEW i \in 1 .. Len(s) - 1, i < p PROVE r[i] = s[i]
      <4>1. i \in 1 .. Len(a)
        BY <2>2, <2>6, <3>2
      <4>2. r[i] = a[i]
        BY <2>6, <4>1
      <4> QED BY <2>6, <4>1, <4>2
    <3>3. ASSUME NEW i \in 1 .. Len(s) - 1, ~(i < p) PROVE r[i] = s[i + 1]
      <4> DEFINE k == i - (p - 1)
      <4>1. k \in 1 .. Len(s) - p /\ i = k + Len(a) /\ k + p = i + 1 /\ i > Len(a)
        BY <2>2, <2>6, <3>3
      <4>2. r[i] = z[i - Len(a)] /\ i - Len(a) = k
        BY <2>6, <3>1, <4>1
      <4>3. z[k] = s[k + p]
        BY <2>6, <4>1
      <4> QED BY <4>1, <4>2, <4>3
    <3> QED BY <3>1, <3>2, <3>3
  <2> HIDE DEF r
  <2>8. IsInjective(r)
    <3>1. SUFFICES ASSUME NEW i \in DOMAIN r, NEW j \in DOMAIN r, r[i] = r[j] PROVE i = j
      BY DEF IsInjective
    <3> DEFINE at(k) == IF k < p THEN k ELSE k + 1
    <3>2. at(i) \in DOMAIN s /\ at(j) \in DOMAIN s /\ s[at(i)] = s[at(j)] /\ i \in Int /\ j \in Int
      BY <2>2, <2>7, <3>1
    <3>3. at(i) = at(j)
      BY <3>2 DEF IsInjective
    <3> QED BY <2>2, <3>2, <3>3
  <2>9. ToSet(r) = ToSet(s) \ {e}
    <3>1. ASSUME NEW x \in ToSet(r) PROVE x \in ToSet(s) \ {e}
      <4>1. PICK i \in DOMAIN r : x = r[i]
        BY <3>1 DEF ToSet
      <4>2. PICK k \in DOMAIN s : k # p /\ x = s[k]
        BY <2>2, <2>7, <4>1
      <4>3. x # e
        BY <2>1, <2>2, <4>2 DEF IsInjective
      <4> QED BY <4>2, <4>3 DEF ToSet
    <3>2. ASSUME NEW x \in ToSet(s) \ {e} PROVE x \in ToSet(r)
      <4>1. PICK k \in DOMAIN s : x = s[k]
        BY <3>2 DEF ToSet
      <4>2. k # p
        BY <2>1, <3>2, <4>1
      <4>3. CASE k < p
        <5>1. k \in DOMAIN r /\ r[k] = x
          BY <2>2, <2>7, <4>1, <4>3
        <5> QED BY <5>1 DEF ToSet
      <4>4. CASE k > p
        <5>1. k - 1 \in DOMAIN r /\ r[k - 1] = x
          BY <2>2, <2>7, <4>1, <4>4
        <5> QED BY <5>1 DEF ToSet
      <4> QED BY <2>2, <4>1, <4>2, <4>3, <4>4
    <3> QED BY <3>1, <3>2
  <2>10. s # <<>> /\ Head(s) # e => r # <<>> /\ Head(r) = Head(s)
    <3>1. HAVE s # <<>> /\ Head(s) # e
    <3>2. Head(s) = s[1] /\ 1 < p
      BY <2>1, <2>2, <3>1
    <3>3. 1 \in 1 .. Len(s) - 1 /\ r[1] = s[1]
      BY <2>1, <2>2, <2>7, <3>2
    <3> QED BY <2>7, <3>2, <3>3
  <2> QED BY <2>5, <2>7, <2>8, <2>9, <2>10
<1> QED BY <1>1, <1>2

LEMMA Appended ==
  ASSUME NEW S, NEW s \in Seq(S), NEW e \in S, IsInjective(s), e \notin ToSet(s)
  PROVE  /\ Append(s, e) \in Seq(S) /\ IsInjective(Append(s, e))
         /\ ToSet(Append(s, e)) = ToSet(s) \cup {e}
         /\ s # <<>> => Append(s, e) # <<>> /\ Head(Append(s, e)) = Head(s)
<1> DEFINE r == Append(s, e)
<1>1. /\ r \in Seq(S) /\ DOMAIN r = 1 .. Len(s) + 1 /\ DOMAIN s = 1 .. Len(s) /\ Len(s) \in Nat
      /\ r[Len(s) + 1] = e /\ \A i \in 1 .. Len(s) : r[i] = s[i]
  OBVIOUS
<1> HIDE DEF r
<1>2. IsInjective(r)
  <2>1. SUFFICES ASSUME NEW i \in DOMAIN r, NEW j \in DOMAIN r, r[i] = r[j] PROVE i = j
    BY DEF IsInjective
  <2>2. i \in DOMAIN s \/ i = Len(s) + 1
    BY <1>1
  <2>3. j \in DOMAIN s \/ j = Len(s) + 1
    BY <1>1
  <2>4. \A k \in DOMAIN s : s[k] # e /\ r[k] = s[k]
    BY <1>1 DEF ToSet
  <2> QED BY <1>1, <2>1, <2>2, <2>3, <2>4 DEF IsInjective
<1>3. ToSet(r) = ToSet(s) \cup {e}
  <2>1. ASSUME NEW x \in ToSet(r) PROVE x \in ToSet(s) \cup {e}
    <3>1. PICK i \in DOMAIN r : x = r[i]
      BY <2>1 DEF ToSet
    <3>2. i \in DOMAIN s \/ i = Len(s) + 1
      BY <1>1
    <3> QED BY <1>1, <3>1, <3>2 DEF ToSet
  <2>2. ASSUME NEW x \in ToSet(s) PROVE x \in ToSet(r)
    <3>1. PICK i \in DOMAIN s : x = s[i]
      BY <2>2 DEF ToSet
    <3>2. i \in DOMAIN r /\ r[i] = x
      BY <1>1, <3>1
    <3> QED BY <3>2 DEF ToSet
  <2>3. e \in ToSet(r)
    <3>1. Len(s) + 1 \in DOMAIN r
      BY <1>1
    <3> QED BY <1>1, <3>1 DEF ToSet
  <2> QED BY <2>1, <2>2, <2>3
<1>4. s # <<>> => r # <<>> /\ Head(r) = Head(s)
  <2>1. HAVE s # <<>>
  <2>2. Head(s) = s[1] /\ 1 \in 1 .. Len(s)
    BY <1>1, <2>1
  <2>3. Head(r) = r[1]
    BY <1>1, <2>2
  <2> QED BY <1>1, <2>2, <2>3
<1> QED BY <1>1, <1>2, <1>3, <1>4 DEF r

(* Leaving the queue leaves the owner of the turn, and joining it too.     *)
LEMMA Leaves ==
  ASSUME TypeOK, NEW r \in Requests, queue' = RemoveFirst(queue, r)
  PROVE  /\ queue' \in Seq(Requests) /\ IsInjective(queue')
         /\ \A s \in Requests : InQueue(s)' <=> (InQueue(s) /\ s # r)
         /\ \A s \in Requests : OwnsTurn(s) /\ s # r => OwnsTurn(s)'
<1>1. /\ queue' \in Seq(Requests) /\ IsInjective(queue') /\ ToSet(queue') = ToSet(queue) \ {r}
      /\ queue # <<>> /\ Head(queue) # r => queue' # <<>> /\ Head(queue') = Head(queue)
  BY RemovedFirst DEF TypeOK
<1> QED BY <1>1 DEF InQueue, OwnsTurn

LEMMA Joins ==
  ASSUME TypeOK, NEW r \in Requests, ~InQueue(r), queue' = Append(queue, r)
  PROVE  /\ queue' \in Seq(Requests) /\ IsInjective(queue')
         /\ \A s \in Requests : InQueue(s)' <=> (InQueue(s) \/ s = r)
         /\ \A s \in Requests : OwnsTurn(s) => OwnsTurn(s)'
<1>1. /\ queue' \in Seq(Requests) /\ IsInjective(queue') /\ ToSet(queue') = ToSet(queue) \cup {r}
      /\ queue # <<>> => queue' # <<>> /\ Head(queue') = Head(queue)
  BY Appended DEF TypeOK, InQueue
<1> QED BY <1>1 DEF InQueue, OwnsTurn

LEMMA OwnerQueued ==
  ASSUME TypeOK, NEW r \in Requests, OwnsTurn(r)
  PROVE  InQueue(r)
<1>1. queue # <<>> /\ Head(queue) = r /\ queue \in Seq(Requests)
  BY DEF OwnsTurn, TypeOK
<1>2. 1 \in DOMAIN queue /\ queue[1] = r
  BY <1>1
<1> QED BY <1>2 DEF InQueue, ToSet

(* Nobody but the head of the queue is past its turn.                      *)
LEMMA OnlyHead ==
  ASSUME IInv, NEW r \in InSlot
  PROVE  r \in Requests /\ InQueue(r) /\ OwnsTurn(r) /\ \A s \in Requests : InQueue(s) /\ s # r => pc[s] = "turn"
<1>1. r \in Requests /\ At(r, pc[r]) /\ \A s \in Requests : At(s, pc[s])
  BY DEF IInv, InSlot
<1>2. InQueue(r) /\ pc[r] # "turn"
  BY <1>1 DEF At, InSlot, Executes
<1>3. OwnsTurn(r)
  BY <1>1, <1>2 DEF At
<1>4. ASSUME NEW s \in Requests, InQueue(s), s # r PROVE pc[s] = "turn"
  <2>1. ~OwnsTurn(s)
    BY <1>3, <1>4 DEF OwnsTurn
  <2> QED BY <1>1, <1>4, <2>1 DEF At
<1> QED BY <1>1, <1>2, <1>3, <1>4
-----------------------------------------------------------------------------
(* What changes of a request and its control point do to the others.       *)

LEMMA SameQueue ==
  ASSUME UNCHANGED queue
  PROVE  \A s \in Requests : (InQueue(s)' <=> InQueue(s)) /\ (OwnsTurn(s)' <=> OwnsTurn(s))
BY DEF InQueue, OwnsTurn

(* What happens to requests that wait for the worker or for a release.     *)
Shifts == ({"sent"} \X {"answered", "refused", "stopped", "killing"})
          \cup ({"killing"} \X {"killed", "unacknowledged"})
          \cup ({"starting"} \X {"started", "refused"})
          \cup ({"preempting"} \X {"claimed", "refused"})
          \cup ({"parked"} \X {"woken"})

LEMMA Shifted ==
  ASSUME IInv, UNCHANGED <<claims, waits, queue, active>>, pc' \in [Requests -> PcState],
         \A s \in Requests : pc'[s] = pc[s] \/ <<pc[s], pc'[s]>> \in Shifts,
         cancelled \subseteq cancelled',
         \A s \in Requests : asked'[s] # "no" => s \in aborted',
         held' /\ overtaken' => held /\ overtaken
  PROVE  /\ (\A r \in Requests : At(r, pc[r]))' /\ BackgroundYields' /\ Ordered'
         /\ AskedAborted' /\ Kept'
<1>1. \A s \in Requests : (InQueue(s)' <=> InQueue(s)) /\ (OwnsTurn(s)' <=> OwnsTurn(s))
  BY SameQueue
<1>2. Live' = Live /\ \A s \in Requests : pc'[s] \in {"off", "hosts", "turn", "host", "done"} <=> pc[s] = pc'[s] /\ pc[s] \in {"off", "hosts", "turn", "host", "done"}
  BY DEF Live, Shifts
<1>3. ASSUME NEW s \in Requests PROVE At(s, pc[s])'
  <2>1. At(s, pc[s])
    BY DEF IInv
  <2>2. CASE pc'[s] = pc[s]
    BY <1>1, <2>1, <2>2 DEF At, ClaimsAt
  <2>3. CASE <<pc[s], pc'[s]>> \in Shifts
    BY <1>1, <2>1, <2>3 DEF Shifts, At, ClaimsAt, Outside, Claiming, Starts, Executes
  <2> QED BY <2>2, <2>3
<1>4. BackgroundYields'
  <2>1. SUFFICES ASSUME NEW r \in Requests \ (Background \cup Hosts), NEW b \in Background,
                        r \in Live' \ cancelled', b \in Live',
                        claims'[r] = 2 \/ pc'[r] \in {"parked", "woken", "turn"}
                 PROVE  b \in cancelled'
    BY DEF BackgroundYields
  <2>2. claims[r] = 2 \/ pc[r] \in {"parked", "woken", "turn"}
    BY <2>1 DEF Shifts
  <2> QED BY <1>2, <2>1, <2>2 DEF IInv, BackgroundYields
<1>5. Ordered'
  <2>1. \A r \in Requests : waits[r] \subseteq Requests
    BY DEF IInv, TypeOK
  <2>2. \A h \in Hosts : h \in Requests
    BY KindsAssumption
  <2>3. \A r \in Requests : WaitsOver(r)' <=> WaitsOver(r)
    BY <1>2 DEF WaitsOver
  <2>4. \A r \in Requests : \A s \in waits'[r] : pc'[s] # "off"
    BY <1>2, <2>1 DEF IInv, Ordered
  <2>5. \A h \in Hosts \cap Live', s \in Live' \ Hosts :
          s \in waits'[h] \/ (pc'[s] = "hosts" /\ h \in waits'[s])
    BY <1>2 DEF IInv, Ordered, Live, Shifts
  <2>6. \A h \in Hosts : pc'[h] \in {"turn", "host"} => WaitsOver(h)'
    BY <1>2, <2>2, <2>3 DEF IInv, Ordered
  <2> QED BY <2>4, <2>5, <2>6 DEF Ordered
<1>6. Kept'
  <2>1. InSlot' \subseteq InSlot
    BY <1>1 DEF InSlot, Shifts
  <2> QED BY <2>1 DEF IInv, Kept
<1> QED BY <1>3, <1>4, <1>5, <1>6 DEF AskedAborted

(* A request that goes on by itself.                                       *)
LEMMA Walks ==
  ASSUME IInv, NEW r \in Requests, NEW label \in PcState \ {"off", "hosts", "parked", "woken", "turn", "host", "done"},
         Goto(r, label), At(r, label), pc[r] \notin {"off", "starting", "preempting", "done"},
         pc[r] = "hosts" => r \notin Hosts /\ WaitsOver(r),
         label \in Starts \cup Executes /\ InQueue(r) => r \in InSlot \/ ~HeldBack(r)
  PROVE  IInv'
<1>1. \A s \in Requests : (InQueue(s)' <=> InQueue(s)) /\ (OwnsTurn(s)' <=> OwnsTurn(s))
  BY SameQueue DEF Goto, slot
<1>2. /\ pc' = [pc EXCEPT ![r] = label] /\ pc'[r] = label /\ pc' \in [Requests -> PcState]
      /\ \A s \in Requests : s # r => pc'[s] = pc[s]
      /\ UNCHANGED <<claims, state, ackd, waits, flags, slot, worker, gone, preempting, hold>>
      /\ Live' = Live /\ r \in Live
  BY DEF Goto, Move, IInv, TypeOK, Live
<1>3. TypeOK'
  BY <1>2 DEF IInv, TypeOK, flags, slot, hold
<1>4. ASSUME NEW s \in Requests PROVE At(s, pc[s])'
  <2>1. At(s, pc[s]) /\ At(s, pc'[s])
    BY <1>2 DEF IInv
  <2> QED BY <1>1, <1>2, <2>1 DEF At, ClaimsAt, slot
<1>5. BackgroundYields'
  BY <1>2 DEF IInv, BackgroundYields, flags
<1>6. Ordered'
  <2>1. \A s \in Requests : waits[s] \subseteq Requests /\ (WaitsOver(s)' <=> WaitsOver(s))
    BY <1>2 DEF IInv, TypeOK, WaitsOver
  <2>2. \A h \in Hosts : h \in Requests
    BY KindsAssumption
  <2>3. \A s \in Requests : \A u \in waits'[s] : pc'[u] # "off"
    BY <1>2, <2>1 DEF IInv, Ordered
  <2>4. ASSUME NEW h \in Hosts \cap Live, NEW s \in Live \ Hosts
        PROVE  s \in waits[h] \/ (pc'[s] = "hosts" /\ h \in waits[s])
    <3>1. s \in waits[h] \/ (pc[s] = "hosts" /\ h \in waits[s])
      BY DEF IInv, Ordered
    <3>2. CASE s = r
      BY <3>1, <3>2 DEF WaitsOver
    <3>3. CASE s # r
      BY <1>2, <3>1, <3>3 DEF Live
    <3> QED BY <3>2, <3>3
  <2>5. \A h \in Hosts : pc'[h] \in {"turn", "host"} => WaitsOver(h)'
    BY <1>2, <2>1, <2>2 DEF IInv, Ordered
  <2> QED BY <1>2, <2>3, <2>4, <2>5 DEF Ordered
<1>7. Launches'
  BY <1>2 DEF IInv, Launches
<1>8. AskedAborted'
  BY <1>2 DEF IInv, AskedAborted, flags
<1>9. Kept'
  <2>1. SUFFICES ASSUME held, overtaken, NEW s \in InSlot' PROVE s \in Exempt \cup Hosts
    BY <1>2 DEF Kept, hold
  <2>2. s \in Requests
    BY <2>1 DEF InSlot
  <2>3. CASE s \in InSlot
    BY <2>1, <2>3 DEF IInv, Kept
  <2>4. CASE s \notin InSlot
    <3>1. s = r
      BY <1>1, <1>2, <2>1, <2>2, <2>4 DEF InSlot
    <3>2. label \in Starts \cup Executes /\ InQueue(r)
      BY <1>1, <1>2, <2>1, <3>1 DEF InSlot, Starts, Executes, At
    <3> QED BY <2>1, <2>4, <3>1, <3>2 DEF HeldBack
  <2> QED BY <2>3, <2>4
<1> QED BY <1>3, <1>4, <1>5, <1>6, <1>7, <1>8, <1>9 DEF IInv

(* A request that is over.                                                 *)
LEMMA Finishes ==
  ASSUME IInv, NEW r \in Requests, NEW how, Finish(r, how),
         pc[r] \notin {"off", "starting", "preempting", "done"}
  PROVE  IInv'
<1>1. /\ queue' \in Seq(Requests) /\ IsInjective(queue')
      /\ \A s \in Requests : InQueue(s)' <=> (InQueue(s) /\ s # r)
      /\ \A s \in Requests : OwnsTurn(s) /\ s # r => OwnsTurn(s)'
  BY Leaves DEF IInv, Finish
<1>2. /\ pc' = [pc EXCEPT ![r] = "done"] /\ pc'[r] = "done" /\ pc' \in [Requests -> PcState]
      /\ \A s \in Requests : s # r => pc'[s] = pc[s]
      /\ claims'[r] = 0 /\ \A s \in Requests : s # r => claims'[s] = claims[s]
      /\ waits'[r] = {} /\ \A s \in Requests : s # r => waits'[s] = waits[s]
      /\ asked'[r] = "no" /\ \A s \in Requests : s # r => asked'[s] = asked[s]
      /\ cancelled' = cancelled \ {r} /\ aborted' = aborted \ {r} /\ Live' = Live \ {r}
      /\ active' = IF active = r THEN None ELSE active
      /\ UNCHANGED <<worker, preempting, hold>>
  BY DEF Finish, Move, IInv, TypeOK, PcState, Live
<1>3. TypeOK'
  <2>1. Ended(r, how) \in Activity
    BY DEF Ended, Activity, IInv, TypeOK
  <2> QED BY <1>1, <1>2, <2>1 DEF Finish, IInv, TypeOK, Phase, Activity, hold
<1>4. ASSUME NEW s \in Requests PROVE At(s, pc[s])'
  <2>1. At(s, pc[s])
    BY DEF IInv
  <2>2. CASE s = r
    BY <1>1, <1>2, <2>2, <2>1 DEF At, ClaimsAt, Outside, Claiming, Starts, Executes
  <2>3. CASE s # r
    BY <1>1, <1>2, <2>1, <2>3, KindsAssumption DEF At, ClaimsAt
  <2> QED BY <2>2, <2>3
<1>5. BackgroundYields'
  <2>1. SUFFICES ASSUME NEW u \in Requests \ (Background \cup Hosts), NEW b \in Background,
                        u \in Live' \ cancelled', b \in Live',
                        claims'[u] = 2 \/ pc'[u] \in {"parked", "woken", "turn"}
                 PROVE  b \in cancelled'
    BY DEF BackgroundYields
  <2>2. u # r /\ b # r
    BY <1>2, <2>1
  <2>3. b \in cancelled
    BY <1>2, <2>1, <2>2 DEF IInv, BackgroundYields
  <2> QED BY <1>2, <2>2, <2>3
<1>6. Ordered'
  <2>1. \A s \in Requests : waits[s] \subseteq Requests /\ waits'[s] \subseteq waits[s]
    BY <1>2 DEF IInv, TypeOK
  <2>2. \A h \in Hosts : h \in Requests
    BY KindsAssumption
  <2>3. \A s \in Requests : \A u \in waits'[s] : pc'[u] # "off"
    BY <1>2, <2>1 DEF IInv, Ordered
  <2>4. \A h \in Hosts \cap Live', s \in Live' \ Hosts :
          s \in waits'[h] \/ (pc'[s] = "hosts" /\ h \in waits'[s])
    BY <1>2, <2>2 DEF IInv, Ordered, Live
  <2>5. \A h \in Hosts : pc'[h] \in {"turn", "host"} => WaitsOver(h)'
    BY <1>2, <2>1, <2>2 DEF IInv, Ordered, WaitsOver
  <2> QED BY <2>3, <2>4, <2>5 DEF Ordered
<1>7. Launches'
  BY <1>2 DEF IInv, Launches
<1>8. AskedAborted'
  BY <1>2 DEF IInv, AskedAborted
<1>9. Kept'
  <2>1. InSlot' \subseteq InSlot
    BY <1>1, <1>2 DEF InSlot
  <2> QED BY <1>2, <2>1 DEF IInv, Kept, hold
<1> QED BY <1>3, <1>4, <1>5, <1>6, <1>7, <1>8, <1>9 DEF IInv
-----------------------------------------------------------------------------
(* A request that gets a turn, parks, or has its turn.                     *)

LEMMA Reserves ==
  ASSUME IInv, NEW r \in Requests, Reserve(r), ~InQueue(r), At(r, "turn"),
         pc[r] \in {"hosts", "claimed", "started", "woken"},
         pc[r] = "hosts" => r \in Hosts, r \in Hosts => WaitsOver(r)
  PROVE  IInv'
<1>1. /\ queue' \in Seq(Requests) /\ IsInjective(queue')
      /\ \A s \in Requests : InQueue(s)' <=> (InQueue(s) \/ s = r)
      /\ \A s \in Requests : OwnsTurn(s) => OwnsTurn(s)'
  BY Joins DEF IInv, Reserve
<1>2. /\ pc' = [pc EXCEPT ![r] = "turn"] /\ pc'[r] = "turn" /\ pc' \in [Requests -> PcState]
      /\ \A s \in Requests : s # r => pc'[s] = pc[s]
      /\ Live' = Live /\ r \in Live
      /\ UNCHANGED <<claims, state, ackd, waits, flags, active, worker, gone, preempting, hold>>
  BY DEF Reserve, Move, IInv, TypeOK, PcState, Live
<1>3. TypeOK'
  BY <1>1, <1>2 DEF IInv, TypeOK, flags, hold
<1>4. ASSUME NEW s \in Requests PROVE At(s, pc[s])'
  <2>1. At(s, pc[s])
    BY DEF IInv
  <2>2. CASE s = r
    BY <1>1, <1>2, <2>2 DEF At, ClaimsAt, Outside, Claiming, Starts, Executes
  <2>3. CASE s # r
    BY <1>1, <1>2, <2>1, <2>3 DEF At, ClaimsAt
  <2> QED BY <2>2, <2>3
<1>5. BackgroundYields'
  BY <1>2 DEF IInv, BackgroundYields, flags, At, ClaimsAt
<1>6. Ordered'
  <2>1. \A s \in Requests : waits[s] \subseteq Requests /\ (WaitsOver(s)' <=> WaitsOver(s))
    BY <1>2 DEF IInv, TypeOK, WaitsOver
  <2>2. \A h \in Hosts : h \in Requests
    BY KindsAssumption
  <2>3. \A s \in Requests : \A u \in waits'[s] : pc'[u] # "off"
    BY <1>2, <2>1 DEF IInv, Ordered
  <2>4. ASSUME NEW h \in Hosts \cap Live, NEW s \in Live \ Hosts
        PROVE  s \in waits[h] \/ (pc'[s] = "hosts" /\ h \in waits[s])
    <3>1. s \in waits[h] \/ (pc[s] = "hosts" /\ h \in waits[s])
      BY DEF IInv, Ordered
    <3> QED BY <1>2, <3>1 DEF Live
  <2>5. \A h \in Hosts : pc'[h] \in {"turn", "host"} => WaitsOver(h)'
    BY <1>2, <2>1, <2>2 DEF IInv, Ordered
  <2> QED BY <1>2, <2>3, <2>4, <2>5 DEF Ordered
<1>7. Launches'
  BY <1>2 DEF IInv, Launches
<1>8. AskedAborted'
  BY <1>2 DEF IInv, AskedAborted, flags
<1>9. Kept'
  <2>1. InSlot' \subseteq InSlot
    BY <1>1, <1>2 DEF InSlot
  <2> QED BY <1>2, <2>1 DEF IInv, Kept, hold
<1> QED BY <1>3, <1>4, <1>5, <1>6, <1>7, <1>8, <1>9 DEF IInv

LEMMA Parks ==
  ASSUME IInv, NEW r \in Requests \ Hosts, Park(r), At(r, "turn"), pc[r] \in {"claimed", "started", "turn"}
  PROVE  IInv'
<1>1. /\ queue' \in Seq(Requests) /\ IsInjective(queue')
      /\ \A s \in Requests : InQueue(s)' <=> (InQueue(s) /\ s # r)
      /\ \A s \in Requests : OwnsTurn(s) /\ s # r => OwnsTurn(s)'
  BY Leaves DEF IInv, Park
<1>2. /\ pc' = [pc EXCEPT ![r] = "parked"] /\ pc'[r] = "parked" /\ pc' \in [Requests -> PcState]
      /\ \A s \in Requests : s # r => pc'[s] = pc[s]
      /\ Live' = Live /\ r \in Live
      /\ UNCHANGED <<claims, ackd, waits, flags, active, worker, gone, preempting, hold>>
  BY DEF Park, Move, IInv, TypeOK, PcState, Live
<1>3. TypeOK'
  BY <1>1, <1>2 DEF Park, IInv, TypeOK, flags, hold, Activity
<1>4. ASSUME NEW s \in Requests PROVE At(s, pc[s])'
  <2>1. At(s, pc[s]) /\ (r \in Background => pc[r] \notin Claiming)
    BY DEF IInv, At
  <2>2. CASE s = r
    BY <1>1, <1>2, <2>1, <2>2 DEF At, ClaimsAt, Outside, Claiming, Starts, Executes
  <2>3. CASE s # r
    BY <1>1, <1>2, <2>1, <2>3 DEF At, ClaimsAt
  <2> QED BY <2>2, <2>3
<1>5. BackgroundYields'
  BY <1>2 DEF IInv, BackgroundYields, flags, At, ClaimsAt
<1>6. Ordered'
  <2>1. \A s \in Requests : waits[s] \subseteq Requests /\ (WaitsOver(s)' <=> WaitsOver(s))
    BY <1>2 DEF IInv, TypeOK, WaitsOver
  <2>2. \A h \in Hosts : h \in Requests
    BY KindsAssumption
  <2>3. \A s \in Requests : \A u \in waits'[s] : pc'[u] # "off"
    BY <1>2, <2>1 DEF IInv, Ordered
  <2>4. ASSUME NEW h \in Hosts \cap Live, NEW s \in Live \ Hosts
        PROVE  s \in waits[h] \/ (pc'[s] = "hosts" /\ h \in waits[s])
    <3>1. s \in waits[h] \/ (pc[s] = "hosts" /\ h \in waits[s])
      BY DEF IInv, Ordered
    <3> QED BY <1>2, <3>1 DEF Live
  <2>5. \A h \in Hosts : pc'[h] \in {"turn", "host"} => WaitsOver(h)'
    BY <1>2, <2>1, <2>2 DEF IInv, Ordered
  <2> QED BY <1>2, <2>3, <2>4, <2>5 DEF Ordered
<1>7. Launches'
  BY <1>2 DEF IInv, Launches
<1>8. AskedAborted'
  BY <1>2 DEF IInv, AskedAborted, flags
<1>9. Kept'
  <2>1. InSlot' \subseteq InSlot
    BY <1>1, <1>2 DEF InSlot
  <2> QED BY <1>2, <2>1 DEF IInv, Kept, hold
<1> QED BY <1>3, <1>4, <1>5, <1>6, <1>7, <1>8, <1>9 DEF IInv

LEMMA Activates ==
  ASSUME IInv, NEW r \in Requests, NEW label \in {"before", "host"}, Activate(r, label),
         dispatched' \in {dispatched, dispatched \cup {r}}, InQueue(r), OwnsTurn(r),
         \/ pc[r] = "started" /\ r \notin Hosts /\ label = "before"
         \/ pc[r] = "turn" /\ r \in Hosts /\ label = "host"
  PROVE  IInv'
<1>1. \A s \in Requests : (InQueue(s)' <=> InQueue(s)) /\ (OwnsTurn(s)' <=> OwnsTurn(s))
  BY SameQueue DEF Activate
<1>2. /\ pc' = [pc EXCEPT ![r] = label] /\ pc'[r] = label /\ pc' \in [Requests -> PcState]
      /\ \A s \in Requests : s # r => pc'[s] = pc[s]
      /\ Live' = Live /\ r \in Live
      /\ active' = r
      /\ UNCHANGED <<claims, ackd, waits, cancelled, aborted, phase, asked, queue, worker, gone, preempting, hold>>
  BY DEF Activate, Move, IInv, TypeOK, PcState, Live
<1>3. TypeOK'
  BY <1>2 DEF Activate, IInv, TypeOK, hold, Activity
<1>4. ASSUME NEW s \in Requests PROVE At(s, pc[s])'
  <2>1. At(s, pc[s])
    BY DEF IInv
  <2>2. CASE s = r
    BY <1>1, <1>2, <2>1, <2>2 DEF At, ClaimsAt, Outside, Claiming, Starts, Executes
  <2>3. CASE s # r
    <3>1. ~OwnsTurn(s)
      BY <2>3 DEF OwnsTurn
    <3> QED BY <1>1, <1>2, <2>1, <2>3, <3>1 DEF At, ClaimsAt, Executes
  <2> QED BY <2>2, <2>3
<1>5. BackgroundYields'
  BY <1>2 DEF IInv, BackgroundYields, flags, At, ClaimsAt
<1>6. Ordered'
  <2>1. \A s \in Requests : waits[s] \subseteq Requests /\ (WaitsOver(s)' <=> WaitsOver(s))
    BY <1>2 DEF IInv, TypeOK, WaitsOver
  <2>2. \A h \in Hosts : h \in Requests
    BY KindsAssumption
  <2>3. \A s \in Requests : \A u \in waits'[s] : pc'[u] # "off"
    BY <1>2, <2>1 DEF IInv, Ordered
  <2>4. ASSUME NEW h \in Hosts \cap Live, NEW s \in Live \ Hosts
        PROVE  s \in waits[h] \/ (pc'[s] = "hosts" /\ h \in waits[s])
    <3>1. s \in waits[h] \/ (pc[s] = "hosts" /\ h \in waits[s])
      BY DEF IInv, Ordered
    <3> QED BY <1>2, <3>1 DEF Live
  <2>5. \A h \in Hosts : pc'[h] \in {"turn", "host"} => WaitsOver(h)'
    BY <1>2, <2>1, <2>2 DEF IInv, Ordered
  <2> QED BY <1>2, <2>3, <2>4, <2>5 DEF Ordered
<1>7. Launches'
  BY <1>2 DEF IInv, Launches
<1>8. AskedAborted'
  BY <1>2 DEF IInv, AskedAborted, flags
<1>9. Kept'
  <2>1. InSlot' \subseteq InSlot \cup Hosts
    BY <1>1, <1>2 DEF InSlot
  <2> QED BY <1>2, <2>1 DEF IInv, Kept, hold
<1> QED BY <1>3, <1>4, <1>5, <1>6, <1>7, <1>8, <1>9 DEF IInv

LEMMA Sends ==
  ASSUME IInv, NEW r \in Requests, pc[r] = "before", r \notin aborted, Dispatched(r)
  PROVE  IInv'
<1> DEFINE label == IF worker = "up" THEN "sent" ELSE "refused"
<1>0. label \in {"sent", "refused"}
  OBVIOUS
<1>1. \A s \in Requests : (InQueue(s)' <=> InQueue(s)) /\ (OwnsTurn(s)' <=> OwnsTurn(s))
  BY SameQueue DEF Dispatched, slot
<1>2. /\ pc' = [pc EXCEPT ![r] = label] /\ pc'[r] = label /\ pc' \in [Requests -> PcState]
      /\ \A s \in Requests : s # r => pc'[s] = pc[s]
      /\ Live' = Live /\ r \in Live
      /\ UNCHANGED <<claims, waits, asked, aborted, cancelled, active, worker, preempting, held>>
      /\ overtaken' = (overtaken \/ (held /\ r \in Exempt))
  BY DEF Dispatched, Move, IInv, TypeOK, PcState, Live, slot
<1> HIDE DEF label
<1>3. TypeOK'
  BY <1>2 DEF Dispatched, IInv, TypeOK, slot
<1>4. ASSUME NEW s \in Requests PROVE At(s, pc[s])'
  <2>1. At(s, pc[s])
    BY DEF IInv
  <2> QED BY <1>1, <1>2, <1>0, <2>1 DEF At, ClaimsAt, Outside, Claiming, Starts, Executes
<1>5. BackgroundYields'
  BY <1>2, <1>0 DEF IInv, BackgroundYields, flags, At, ClaimsAt
<1>6. Ordered'
  <2>1. \A s \in Requests : waits[s] \subseteq Requests /\ (WaitsOver(s)' <=> WaitsOver(s))
    BY <1>2 DEF IInv, TypeOK, WaitsOver
  <2>2. \A h \in Hosts : h \in Requests
    BY KindsAssumption
  <2>3. \A s \in Requests : \A u \in waits'[s] : pc'[u] # "off"
    BY <1>2, <1>0, <2>1 DEF IInv, Ordered
  <2>4. ASSUME NEW h \in Hosts \cap Live, NEW s \in Live \ Hosts
        PROVE  s \in waits[h] \/ (pc'[s] = "hosts" /\ h \in waits[s])
    <3>1. s \in waits[h] \/ (pc[s] = "hosts" /\ h \in waits[s])
      BY DEF IInv, Ordered
    <3> QED BY <1>2, <3>1 DEF Live
  <2>5. \A h \in Hosts : pc'[h] \in {"turn", "host"} => WaitsOver(h)'
    BY <1>2, <1>0, <2>1, <2>2 DEF IInv, Ordered
  <2> QED BY <1>2, <2>3, <2>4, <2>5 DEF Ordered
<1>7. Launches'
  BY <1>2 DEF IInv, Launches
<1>8. AskedAborted'
  BY <1>2 DEF IInv, AskedAborted, flags
<1>9. Kept'
  <2>1. r \in InSlot /\ InSlot' \subseteq InSlot
    BY <1>1, <1>2, <1>0 DEF InSlot
  <2>2. InSlot \subseteq {r}
    BY <2>1, OnlyHead DEF InSlot
  <2> QED BY <1>2, <2>1, <2>2 DEF IInv, Kept
<1> QED BY <1>3, <1>4, <1>5, <1>6, <1>7, <1>8, <1>9 DEF IInv
-----------------------------------------------------------------------------
(* The steps of a request.                                                 *)

LEMMA AfterHostsKeeps ==
  ASSUME IInv, NEW r \in Requests, AfterHosts(r)
  PROVE  IInv'
<1>1. At(r, "hosts") /\ pc[r] = "hosts" /\ r \notin Hosts
  BY DEF AfterHosts, IInv
<1>2. CASE Finish(r, "refused")
  BY <1>1, <1>2, Finishes
<1>3. CASE WaitsOver(r) /\ Goto(r, IF Foreground(r) THEN "claim" ELSE "start")
  <2>1. CASE Foreground(r)
    <3>1. At(r, "claim")
      BY <1>1, <2>1 DEF At, ClaimsAt, Outside, Claiming, Starts, Executes, PcState, Foreground
    <3> QED BY <1>1, <1>3, <2>1, <3>1, Walks DEF At, ClaimsAt, Outside, Claiming, Starts, Executes, PcState
  <2>2. CASE ~Foreground(r)
    <3>1. At(r, "start")
      BY <1>1, <2>2 DEF At, ClaimsAt, Outside, Claiming, Starts, Executes, PcState, Foreground
    <3> QED BY <1>1, <1>3, <2>2, <3>1, Walks DEF At, ClaimsAt, Outside, Claiming, Starts, Executes, PcState
  <2> QED BY <2>1, <2>2
<1> QED BY <1>2, <1>3 DEF AfterHosts

LEMMA YieldedKeeps ==
  ASSUME IInv, NEW r \in Requests, Yielded(r)
  PROVE  IInv'
<1>1. At(r, "yielding") /\ pc[r] = "yielding" /\ Goto(r, "claimed")
  BY DEF Yielded, IInv
<1>2. At(r, "claimed")
  BY <1>1 DEF At, ClaimsAt, Outside, Claiming, Starts, Executes, PcState
<1> QED BY <1>1, <1>2, Walks DEF At, ClaimsAt, Outside, Claiming, Starts, Executes, PcState

LEMMA ContinueKeeps ==
  ASSUME IInv, NEW r \in Requests, Continue(r)
  PROVE  IInv'
<1>1. At(r, pc[r])
  BY DEF IInv
<1>2. CASE pc[r] = "claimed" /\ claims[r] = 1 /\ Goto(r, "start")
  <2>1. At(r, "start") /\ ~InQueue(r)
    BY <1>1, <1>2 DEF At, ClaimsAt, Outside, Claiming, Starts, Executes, PcState
  <2> QED BY <1>2, <2>1, Walks DEF At, ClaimsAt, Outside, Claiming, Starts, Executes, PcState
<1>3. CASE pc[r] = "started" /\ ~InQueue(r) /\ Foreground(r) /\ Goto(r, "claim")
  <2>1. At(r, "claim")
    BY <1>1, <1>3 DEF At, ClaimsAt, Outside, Claiming, Starts, Executes, PcState, Foreground
  <2> QED BY <1>3, <2>1, Walks DEF At, ClaimsAt, Outside, Claiming, Starts, Executes, PcState
<1> QED BY <1>2, <1>3 DEF Continue

LEMMA StartKeeps ==
  ASSUME IInv, NEW r \in Requests, Start(r)
  PROVE  IInv'
<1>1. At(r, "start") /\ pc[r] = "start" /\ worker \in {"down", "starting", "up", "ending", "stuck"}
  BY DEF Start, IInv, TypeOK
<1>2. CASE worker = "up"
  <2>1. Goto(r, "started")
    BY <1>1, <1>2 DEF Start
  <2>2. At(r, "started") /\ (InQueue(r) => r \in InSlot)
    BY <1>1 DEF At, ClaimsAt, Outside, Claiming, Starts, Executes, PcState, InSlot
  <2> QED BY <1>1, <2>1, <2>2, Walks DEF At, ClaimsAt, Outside, Claiming, Starts, Executes, PcState
<1>3. CASE worker = "stuck"
  <2>1. Finish(r, "refused")
    BY <1>1, <1>3 DEF Start
  <2> QED BY <1>1, <2>1, Finishes
<1>4. CASE worker \notin {"up", "stuck"}
  <2>1. /\ pc' = [pc EXCEPT ![r] = "starting"] /\ worker' = "starting"
        /\ UNCHANGED <<claims, state, ackd, waits, flags, slot, gone, preempting, hold>>
    BY <1>1, <1>4 DEF Start, Move
  <2>2. \A s \in Requests : (InQueue(s)' <=> InQueue(s)) /\ (OwnsTurn(s)' <=> OwnsTurn(s))
    BY <2>1, SameQueue DEF slot
  <2>3. /\ pc'[r] = "starting" /\ pc' \in [Requests -> PcState] /\ Live' = Live
        /\ \A s \in Requests : s # r => pc'[s] = pc[s]
    BY <1>1, <2>1 DEF IInv, TypeOK, PcState, Live
  <2>4. TypeOK'
    BY <2>1, <2>3 DEF IInv, TypeOK, flags, slot, hold
  <2>5. ASSUME NEW s \in Requests PROVE At(s, pc[s])'
    <3>1. At(s, pc[s])
      BY DEF IInv
    <3> QED BY <1>1, <2>1, <2>2, <2>3, <3>1 DEF At, ClaimsAt, Outside, Claiming, Starts, Executes, PcState, slot
  <2>6. BackgroundYields'
    BY <2>1, <2>3 DEF IInv, BackgroundYields, flags
  <2>7. Ordered'
    <3>1. \A s \in Requests : waits[s] \subseteq Requests /\ (WaitsOver(s)' <=> WaitsOver(s))
      BY <2>1, <2>3 DEF IInv, TypeOK, WaitsOver
    <3>2. \A h \in Hosts : h \in Requests
      BY KindsAssumption
    <3> QED BY <1>1, <2>1, <2>3, <3>1, <3>2 DEF IInv, Ordered, Live
  <2>8. Launches'
    BY <1>1, <2>1, <2>3 DEF IInv, Launches
  <2>9. AskedAborted'
    BY <2>1 DEF IInv, AskedAborted, flags
  <2>10. Kept'
    <3>1. InSlot' \subseteq InSlot
      BY <1>1, <2>2, <2>3 DEF InSlot
    <3> QED BY <2>1, <3>1 DEF IInv, Kept, hold
  <2> QED BY <2>4, <2>5, <2>6, <2>7, <2>8, <2>9, <2>10 DEF IInv
<1> QED BY <1>2, <1>3, <1>4

LEMMA EnterKeeps ==
  ASSUME IInv, NEW r \in Requests, Enter(r)
  PROVE  IInv'
<1>1. /\ At(r, pc[r]) /\ ~InQueue(r)
      /\ \/ pc[r] = "claimed" /\ claims[r] = 2
         \/ pc[r] = "started" /\ ~Foreground(r)
         \/ pc[r] = "woken"
  BY DEF IInv, Enter
<1>2. At(r, "turn") /\ r \notin Hosts
  BY <1>1 DEF At, ClaimsAt, Outside, Claiming, Starts, Executes, PcState, Foreground
<1>3. CASE Finish(r, "refused")
  BY <1>1, <1>3, Finishes
<1>4. CASE pc[r] # "woken" /\ Park(r)
  BY <1>1, <1>2, <1>4, Parks
<1>5. CASE Reserve(r)
  BY <1>1, <1>2, <1>5, Reserves
<1> QED BY <1>3, <1>4, <1>5 DEF Enter

LEMMA TurnReadyKeeps ==
  ASSUME IInv, NEW r \in Requests, TurnReady(r)
  PROVE  IInv'
<1>1. At(r, "turn") /\ pc[r] = "turn" /\ r \notin Hosts
  BY DEF IInv, TurnReady
<1>2. CASE Finish(r, "refused")
  BY <1>1, <1>2, Finishes
<1>3. CASE Park(r)
  BY <1>1, <1>3, Parks
<1>4. CASE OwnsTurn(r) /\ ~HeldBack(r) /\ Goto(r, "start")
  <2>1. InQueue(r)
    BY <1>4, OwnerQueued DEF IInv
  <2>2. At(r, "start")
    BY <1>1, <1>4, <2>1 DEF At, ClaimsAt, Outside, Claiming, Starts, Executes, PcState
  <2> QED BY <1>1, <1>4, <2>2, Walks DEF At, ClaimsAt, Outside, Claiming, Starts, Executes, PcState
<1> QED BY <1>2, <1>3, <1>4 DEF TurnReady

LEMMA RunKeeps ==
  ASSUME IInv, NEW r \in Requests, Run(r)
  PROVE  IInv'
<1>1. At(r, "started") /\ pc[r] = "started" /\ InQueue(r)
  BY DEF IInv, Run
<1>2. OwnsTurn(r) /\ r \notin Hosts
  BY <1>1 DEF At
<1>3. CASE Finish(r, "refused")
  BY <1>1, <1>3, Finishes
<1>4. CASE Activate(r, "before") /\ UNCHANGED dispatched
  BY <1>1, <1>2, <1>4, Activates
<1> QED BY <1>3, <1>4 DEF Run

LEMMA DispatchKeeps ==
  ASSUME IInv, NEW r \in Requests, Dispatch(r)
  PROVE  IInv'
<1>1. CASE Finish(r, "refused")
  BY <1>1, Finishes DEF Dispatch
<1>2. CASE r \notin aborted /\ Dispatched(r)
  BY <1>2, Sends DEF Dispatch
<1> QED BY <1>1, <1>2 DEF Dispatch

LEMMA HostKeeps ==
  ASSUME IInv, NEW r \in Requests, HostReserve(r) \/ HostRun(r) \/ HostReturns(r)
  PROVE  IInv'
<1>1. At(r, pc[r])
  BY DEF IInv
<1>2. CASE HostReserve(r)
  <2>1. At(r, "turn") /\ ~InQueue(r) /\ pc[r] = "hosts"
    BY <1>1, <1>2 DEF At, ClaimsAt, Outside, Claiming, Starts, Executes, PcState, HostReserve
  <2> QED BY <1>2, <2>1, Finishes, Reserves DEF HostReserve
<1>3. CASE HostRun(r)
  <2>1. CASE Finish(r, "refused")
    BY <1>3, <2>1, Finishes DEF HostRun
  <2>2. CASE OwnsTurn(r) /\ Activate(r, "host") /\ dispatched' = dispatched \cup {r}
    <3>1. InQueue(r)
      BY <2>2, OwnerQueued DEF IInv
    <3> QED BY <1>3, <2>2, <3>1, Activates DEF HostRun
  <2> QED BY <1>3, <2>1, <2>2 DEF HostRun
<1>4. CASE HostReturns(r)
  BY <1>4, Finishes DEF HostReturns
<1> QED BY <1>2, <1>3, <1>4

LEMMA AnswerKeeps ==
  ASSUME IInv, NEW r \in Requests, Unpark(r) \/ Reply(r) \/ End(r)
  PROVE  IInv'
<1>1. At(r, pc[r])
  BY DEF IInv
<1>2. CASE Unpark(r)
  BY <1>2, Finishes DEF Unpark
<1>3. CASE Reply(r)
  <2>1. PICK how \in {"answered", "refused"} : pc[r] = "sent" /\ Goto(r, how)
    BY <1>3 DEF Reply
  <2>2. At(r, how)
    BY <1>1, <2>1 DEF At, ClaimsAt, Outside, Claiming, Starts, Executes, PcState
  <2>3. how \notin Starts \cup Executes
    BY DEF Starts, Executes
  <2> QED BY <2>1, <2>2, <2>3, Walks DEF PcState
<1>4. CASE End(r)
  BY <1>4, Finishes DEF End
<1> QED BY <1>2, <1>3, <1>4
-----------------------------------------------------------------------------
(* Calls, claims and cancellations.                                        *)

LEMMA CallKeeps ==
  ASSUME IInv, NEW r \in Requests, Call(r)
  PROVE  IInv'
<1>1. \A s \in Requests : (InQueue(s)' <=> InQueue(s)) /\ (OwnsTurn(s)' <=> OwnsTurn(s))
  BY SameQueue DEF Call, slot
<1>2. /\ pc[r] = "off" /\ pc'[r] = "hosts" /\ pc' \in [Requests -> PcState]
      /\ \A s \in Requests : s # r => pc'[s] = pc[s] /\ waits'[s] = waits[s]
      /\ waits'[r] = IF r \in Hosts THEN Live ELSE Live \cap Hosts
      /\ Live' = Live \cup {r} /\ r \notin Live /\ Live \subseteq Requests
      /\ r \in Background => Live \subseteq cancelled
      /\ UNCHANGED <<claims, state, ackd, flags, slot, worker, gone, preempting, hold>>
  BY DEF Call, Admit, Move, IInv, TypeOK, PcState, Live
<1>3. TypeOK'
  <2>1. waits' \in [Requests -> SUBSET Requests]
    BY <1>2 DEF Call, IInv, TypeOK
  <2> QED BY <1>2, <2>1 DEF IInv, TypeOK, flags, slot, hold
<1>4. ASSUME NEW s \in Requests PROVE At(s, pc[s])'
  <2>1. At(s, pc[s])
    BY DEF IInv
  <2> QED BY <1>1, <1>2, <2>1 DEF At, ClaimsAt, Outside, Claiming, Starts, Executes, slot
<1>5. BackgroundYields'
  <2>1. SUFFICES ASSUME NEW u \in Requests \ (Background \cup Hosts), NEW b \in Background,
                        u \in Live' \ cancelled', b \in Live',
                        claims'[u] = 2 \/ pc'[u] \in {"parked", "woken", "turn"}
                 PROVE  b \in cancelled'
    BY DEF BackgroundYields
  <2>2. u # r
    <3>1. At(r, pc[r])
      BY DEF IInv
    <3> QED BY <1>2, <2>1, <3>1 DEF At, ClaimsAt
  <2>3. b # r /\ u \in Live
    BY <1>2, <2>1, <2>2 DEF flags
  <2> QED BY <1>2, <2>1, <2>2, <2>3 DEF IInv, BackgroundYields, flags
<1>6. Ordered'
  <2>1. \A s \in Requests : waits[s] \subseteq Requests /\ r \notin waits[s]
    BY <1>2 DEF IInv, TypeOK, Ordered
  <2>2. \A h \in Hosts : h \in Requests
    BY KindsAssumption
  <2>3. \A s \in Requests : \A u \in waits'[s] : pc'[u] # "off"
    BY <1>2, <2>1 DEF IInv, Ordered, Live
  <2>4. ASSUME NEW h \in Hosts \cap Live', NEW s \in Live' \ Hosts
        PROVE  s \in waits'[h] \/ (pc'[s] = "hosts" /\ h \in waits'[s])
    BY <1>2 DEF IInv, Ordered
  <2>5. \A h \in Hosts : pc'[h] \in {"turn", "host"} => WaitsOver(h)'
    BY <1>2, <2>1, <2>2 DEF IInv, Ordered, WaitsOver
  <2> QED BY <2>3, <2>4, <2>5 DEF Ordered
<1>7. Launches'
  BY <1>2 DEF IInv, Launches
<1>8. AskedAborted'
  BY <1>2 DEF IInv, AskedAborted, flags
<1>9. Kept'
  <2>1. InSlot' \subseteq InSlot
    BY <1>1, <1>2 DEF InSlot
  <2> QED BY <1>2, <2>1 DEF IInv, Kept, hold
<1> QED BY <1>3, <1>4, <1>5, <1>6, <1>7, <1>8, <1>9 DEF IInv

(* What waits for an answer may be killed, and nothing else changes.       *)
LEMMA Kills ==
  ASSUME TypeOK, NEW S
  PROVE  /\ Killing(S) \in [Requests -> PcState]
         /\ \A s \in Requests : Killing(S)[s] = pc[s] \/ (pc[s] = "sent" /\ Killing(S)[s] = "killing")
BY DEF Killing, Victims, TypeOK, PcState

LEMMA ClaimKeeps ==
  ASSUME IInv, NEW r \in Requests, Claim(r)
  PROVE  IInv'
<1> DEFINE B == Live \cap Background
<1>1. \A s \in Requests : (InQueue(s)' <=> InQueue(s)) /\ (OwnsTurn(s)' <=> OwnsTurn(s))
  BY SameQueue DEF Claim, slot
<1>2. /\ pc[r] = "claim" /\ At(r, "claim") /\ r \notin Background \cup Hosts /\ claims[r] \in {0, 1}
      /\ At(r, pc[r]) /\ ~InQueue(r) /\ B \subseteq Requests
  <2>1. pc[r] = "claim" /\ At(r, "claim")
    BY DEF Claim, IInv
  <2> QED BY <2>1 DEF At, ClaimsAt, Outside, Claiming, Live
<1>3. /\ Killing(B) \in [Requests -> PcState]
      /\ \A s \in Requests : Killing(B)[s] = pc[s] \/ (pc[s] = "sent" /\ Killing(B)[s] = "killing")
  BY Kills DEF IInv
<1>4. /\ pc' \in [Requests -> PcState]
      /\ pc'[r] \in {"claimed", "yielding", "preempting"}
      /\ \A s \in Requests : s # r => pc'[s] = pc[s] \/ (pc[s] = "sent" /\ pc'[s] \in {"killing", "stopped"})
      /\ \/ waits' = waits
         \/ active \in Background /\ waits' = [waits EXCEPT ![r] = {active}]
      /\ worker' \in {worker, Terminated}
      /\ preempting' # preempting => pc'[r] = "preempting"
      /\ preempting' \in {preempting, "ending"}
  <2> HIDE DEF B
  <2>1. CASE active \notin Background
    <3>1. /\ pc' = [Killing(B) EXCEPT ![r] = "claimed"] /\ worker' \in {worker, Terminated}
          /\ UNCHANGED <<waits, preempting>>
      BY <2>1 DEF Claim, B
    <3> QED BY <1>3, <3>1 DEF PcState
  <2>2. CASE active \in Background \cap Graceful
    <3>1. /\ pc' = [Killing(B) EXCEPT ![r] = "yielding"] /\ worker' \in {worker, Terminated}
          /\ waits' = [waits EXCEPT ![r] = {active}] /\ UNCHANGED preempting
      BY <2>2 DEF Claim, B
    <3> QED BY <1>3, <2>2, <3>1 DEF PcState
  <2>3. CASE active \in Background \ Graceful
    <3>1. /\ pc' = [IF preempting = "no" THEN Stopped(Killing(B)) ELSE Killing(B) EXCEPT ![r] = "preempting"]
          /\ worker' \in {worker, Terminated}
          /\ preempting' = (IF preempting = "no" THEN "ending" ELSE preempting) /\ UNCHANGED waits
      BY <2>3 DEF Claim, B
    <3>2. /\ Stopped(Killing(B)) \in [Requests -> PcState]
          /\ \A s \in Requests : \/ Stopped(Killing(B))[s] = Killing(B)[s]
                                 \/ Killing(B)[s] = "sent" /\ Stopped(Killing(B))[s] = "stopped"
      BY <1>3 DEF Stopped, PcState
    <3> QED BY <1>3, <3>1, <3>2 DEF PcState
  <2> QED BY <2>1, <2>2, <2>3
<1>5. /\ claims' = [claims EXCEPT ![r] = @ + 1]
      /\ claims'[r] \in {1, 2} /\ \A s \in Requests : s # r => claims'[s] = claims[s]
      /\ cancelled' = cancelled \cup B /\ aborted' = aborted \cup B
      /\ phase' \in [Requests -> Phase]
      /\ UNCHANGED <<state, ackd, dispatched, asked, slot, gone, hold>>
  <2>1. /\ claims' = [claims EXCEPT ![r] = @ + 1] /\ cancelled' = cancelled \cup B /\ aborted' = aborted \cup B
        /\ phase' = [s \in Requests |-> IF s \notin B THEN phase[s]
                                        ELSE IF s \in dispatched THEN "running" ELSE "queued"]
        /\ UNCHANGED <<state, ackd, dispatched, asked, slot, gone, hold>>
    BY DEF Claim, Abort
  <2>2. phase' \in [Requests -> Phase]
    BY <2>1 DEF Phase, IInv, TypeOK
  <2> QED BY <1>2, <2>1, <2>2 DEF IInv, TypeOK
<1>6. /\ Live' = Live /\ r \in Live
      /\ \A s \in Requests : s # r => waits'[s] = waits[s]
      /\ waits' \in [Requests -> SUBSET Requests]
      /\ waits'[r] = waits[r] \/ (waits'[r] = {active} /\ active \in Requests)
  BY <1>2, <1>4, KindsAssumption DEF Live, IInv, TypeOK
<1> HIDE DEF B
<1>7. TypeOK'
  <2>1. worker' \in {"down", "starting", "up", "ending", "stuck"}
    BY <1>4 DEF Terminated, IInv, TypeOK
  <2>2. claims' \in [Requests -> 0..2] /\ preempting' \in {"no", "ending", "starting"}
    BY <1>4, <1>5 DEF IInv, TypeOK
  <2>3. cancelled' \in SUBSET Requests /\ aborted' \in SUBSET cancelled'
    BY <1>2, <1>5 DEF IInv, TypeOK
  <2> QED BY <1>4, <1>5, <1>6, <2>1, <2>2, <2>3 DEF IInv, TypeOK, slot, hold
<1>8. ASSUME NEW s \in Requests PROVE At(s, pc[s])'
  <2>1. At(s, pc[s])
    BY DEF IInv
  <2>2. CASE s = r
    BY <1>1, <1>2, <1>4, <1>5, <2>2 DEF At, ClaimsAt, Outside, Claiming, Starts, Executes
  <2>3. CASE s # r
    BY <1>1, <1>4, <1>5, <2>1, <2>3 DEF At, ClaimsAt, Outside, Claiming, Starts, Executes, slot
  <2> QED BY <2>2, <2>3
<1>9. BackgroundYields'
  BY <1>5, <1>6 DEF BackgroundYields, B
<1>10. Ordered'
  <2>1. \A s \in Requests : waits[s] \subseteq Requests
    BY DEF IInv, TypeOK
  <2>2. \A h \in Hosts : h \in Requests /\ h # r
    BY <1>2, KindsAssumption
  <2>3. \A s \in Requests : pc'[s] = "off" <=> pc[s] = "off"
    BY <1>2, <1>4
  <2>4. active \in Requests => pc[active] # "off"
    BY DEF IInv, At
  <2>5. \A s \in Requests : \A u \in waits'[s] : pc'[u] # "off"
    BY <1>6, <2>1, <2>3, <2>4 DEF IInv, Ordered
  <2>6. ASSUME NEW h \in Hosts \cap Live, NEW s \in Live \ Hosts
        PROVE  s \in waits'[h] \/ (pc'[s] = "hosts" /\ h \in waits'[s])
    <3>1. s \in waits[h] \/ (pc[s] = "hosts" /\ h \in waits[s])
      BY DEF IInv, Ordered
    <3> QED BY <1>2, <1>4, <1>6, <2>2, <3>1 DEF Live
  <2>7. \A h \in Hosts : pc'[h] \in {"turn", "host"} => WaitsOver(h)'
    BY <1>4, <1>6, <2>2 DEF IInv, Ordered, WaitsOver
  <2> QED BY <1>6, <2>5, <2>6, <2>7 DEF Ordered
<1>11. Launches'
  <2>1. \A s \in Requests : pc[s] \in {"starting", "preempting"} => pc'[s] = pc[s]
    BY <1>2, <1>4
  <2>2. worker' = "starting" => worker = "starting"
    BY <1>4 DEF Terminated
  <2> QED BY <1>4, <2>1, <2>2 DEF IInv, Launches
<1>12. AskedAborted'
  BY <1>5 DEF IInv, AskedAborted
<1>13. Kept'
  <2>1. InSlot' \subseteq InSlot
    BY <1>1, <1>4 DEF InSlot
  <2> QED BY <1>5, <2>1 DEF IInv, Kept, hold
<1> QED BY <1>7, <1>8, <1>9, <1>10, <1>11, <1>12, <1>13 DEF IInv

LEMMA CancelKeeps ==
  ASSUME IInv, NEW r \in Requests, CancelRequest(r) \/ SignalAbort(r)
  PROVE  IInv'
<1>1. /\ r \in Live /\ pc' = Killing({r}) /\ worker' \in {worker, Terminated}
      /\ cancelled' = cancelled \cup {r} /\ aborted' = aborted \cup {r}
      /\ UNCHANGED <<claims, ackd, waits, dispatched, slot, gone, preempting, hold>>
      /\ phase' \in [Requests -> Phase] /\ asked' \in [Requests -> Phase] /\ state' \in [Requests -> Activity]
      /\ \A s \in Requests : s # r => asked'[s] = asked[s]
  <2>1. CASE CancelRequest(r)
    BY <2>1 DEF CancelRequest, Abort, Phase, Activity, IInv, TypeOK
  <2>2. CASE SignalAbort(r)
    BY <2>2 DEF SignalAbort, Abort, Phase, Activity, IInv, TypeOK
  <2> QED BY <2>1, <2>2
<1>2. /\ pc' \in [Requests -> PcState]
      /\ \A s \in Requests : pc'[s] = pc[s] \/ (pc[s] = "sent" /\ pc'[s] = "killing")
  BY <1>1, Kills DEF IInv
<1>3. TypeOK'
  <2>1. worker' \in {"down", "starting", "up", "ending", "stuck"}
    BY <1>1 DEF Terminated, IInv, TypeOK
  <2> QED BY <1>1, <1>2, <2>1 DEF IInv, TypeOK, slot, hold
<1>4. \A s \in Requests : asked'[s] # "no" => s \in aborted'
  BY <1>1 DEF IInv, AskedAborted
<1>5. Launches'
  BY <1>1, <1>2 DEF Terminated, IInv, Launches
<1> QED BY <1>1, <1>2, <1>3, <1>4, <1>5, Shifted DEF IInv, Shifts, slot, hold

LEMMA TimerKeeps ==
  ASSUME IInv, NEW r \in Requests, Deadline(r) \/ ForceAfterGrace(r)
  PROVE  IInv'
<1>1. /\ pc[r] = "sent" /\ pc' \in [Requests -> PcState] /\ worker' = Terminated
      /\ \A s \in Requests : pc'[s] = pc[s] \/ (pc[s] = "sent" /\ pc'[s] \in {"refused", "killing"})
      /\ UNCHANGED <<claims, state, ackd, waits, flags, slot, gone, preempting, hold>>
  BY DEF Deadline, ForceAfterGrace, Move, IInv, TypeOK, PcState
<1>2. TypeOK'
  <2>1. worker' \in {"down", "starting", "up", "ending", "stuck"}
    BY <1>1 DEF Terminated, IInv, TypeOK
  <2> QED BY <1>1, <2>1 DEF IInv, TypeOK, flags, slot, hold
<1>3. Launches'
  BY <1>1 DEF Terminated, IInv, Launches
<1> QED BY <1>1, <1>2, <1>3, Shifted DEF IInv, AskedAborted, Shifts, flags, slot, hold
-----------------------------------------------------------------------------
(* Holds and the worker process.                                           *)

LEMMA HoldKeeps ==
  ASSUME IInv, Hold \/ Release
  PROVE  IInv'
<1>1. /\ pc' \in [Requests -> PcState]
      /\ \A s \in Requests : pc'[s] = pc[s] \/ (pc[s] = "parked" /\ pc'[s] = "woken")
      /\ held' \in BOOLEAN /\ holds' \in 0..MaxHolds /\ overtaken' \in BOOLEAN
      /\ held' /\ overtaken' => held /\ overtaken
      /\ UNCHANGED <<claims, state, ackd, waits, flags, slot, worker, gone, preempting>>
  <2>1. CASE Hold
    <3>1. holds' = holds + 1 /\ holds < MaxHolds /\ holds \in 0..MaxHolds
      BY <2>1 DEF Hold, IInv, TypeOK
    <3>2. holds' \in 0..MaxHolds
      BY <3>1, MaxHoldsAssumption
    <3> QED BY <2>1, <3>2 DEF Hold, IInv, TypeOK
  <2>2. CASE Release
    BY <2>2 DEF Release, IInv, TypeOK, PcState
  <2> QED BY <2>1, <2>2
<1>2. TypeOK'
  BY <1>1 DEF IInv, TypeOK, flags, slot
<1>3. Launches'
  BY <1>1 DEF IInv, Launches
<1> QED BY <1>1, <1>2, <1>3, Shifted DEF IInv, AskedAborted, Shifts, flags, slot

LEMMA LaunchSettlesKeeps ==
  ASSUME IInv, NEW ok \in BOOLEAN, LaunchSettles(ok)
  PROVE  IInv'
<1>1. /\ pc' \in [Requests -> PcState]
      /\ \A s \in Requests : \/ pc'[s] = pc[s]
                             \/ pc[s] = "starting" /\ pc'[s] \in {"started", "refused"}
                             \/ pc[s] = "preempting" /\ preempting = "starting" /\ pc'[s] = "claimed"
      /\ worker' \in {"up", "down"}
      /\ preempting' = IF preempting = "starting" THEN "no" ELSE preempting
      /\ UNCHANGED <<claims, state, ackd, waits, flags, slot, gone, hold>>
  <2>1. CASE preempting = "starting"
    BY <2>1 DEF LaunchSettles, Launched, Preempted, IInv, TypeOK, PcState
  <2>2. CASE preempting # "starting"
    BY <2>2 DEF LaunchSettles, Launched, IInv, TypeOK, PcState
  <2> QED BY <2>1, <2>2
<1>2. TypeOK'
  BY <1>1 DEF IInv, TypeOK, flags, slot, hold
<1>3. Launches'
  BY <1>1 DEF IInv, TypeOK, Launches
<1> QED BY <1>1, <1>2, <1>3, Shifted DEF IInv, AskedAborted, Shifts, flags, slot, hold

LEMMA PreemptionKeeps ==
  ASSUME IInv, PreemptionContinues
  PROVE  IInv'
<1>1. /\ pc' \in [Requests -> PcState] /\ preempting = "ending"
      /\ \A s \in Requests : pc'[s] = pc[s] \/ (pc[s] = "preempting" /\ pc'[s] \in {"claimed", "refused"})
      /\ \/ preempting' = "no" /\ worker' = worker /\ worker # "starting"
         \/ preempting' = "starting" /\ worker' = "starting" /\ pc' = pc
      /\ UNCHANGED <<claims, state, ackd, waits, flags, slot, gone, hold>>
  <2>1. CASE worker = "stuck"
    BY <2>1 DEF PreemptionContinues, Preempted, IInv, TypeOK, PcState
  <2>2. CASE worker = "up"
    BY <2>2 DEF PreemptionContinues, Preempted, IInv, TypeOK, PcState
  <2>3. CASE worker \notin {"stuck", "up"}
    BY <2>3 DEF PreemptionContinues, IInv, TypeOK
  <2> QED BY <2>1, <2>2, <2>3
<1>2. TypeOK'
  BY <1>1 DEF IInv, TypeOK, flags, slot, hold
<1>3. Launches'
  BY <1>1 DEF IInv, TypeOK, Launches
<1> QED BY <1>1, <1>2, <1>3, Shifted DEF IInv, AskedAborted, Shifts, flags, slot, hold

LEMMA WorkerKeeps ==
  ASSUME IInv, Exits \/ TerminationFails \/ Crash \/ Teardown
  PROVE  IInv'
<1>1. /\ pc' \in [Requests -> PcState]
      /\ \A s \in Requests : \/ pc'[s] = pc[s]
                             \/ pc[s] = "killing" /\ pc'[s] \in {"killed", "unacknowledged"}
                             \/ pc[s] = "sent" /\ pc'[s] \in {"refused", "stopped"}
      /\ worker' \in {"down", "stuck", "ending"}
      /\ gone' \in SUBSET dispatched
      /\ UNCHANGED <<claims, state, ackd, waits, flags, slot, preempting, hold>>
  <2>1. CASE Exits
    BY <2>1 DEF Exits, IInv, TypeOK, PcState
  <2>2. CASE TerminationFails
    BY <2>2 DEF TerminationFails, IInv, TypeOK, PcState
  <2>3. CASE Crash
    BY <2>3 DEF Crash, IInv, TypeOK, PcState
  <2>4. CASE Teardown
    BY <2>4 DEF Teardown, Stopped, Terminated, IInv, TypeOK, PcState
  <2> QED BY <2>1, <2>2, <2>3, <2>4
<1>2. TypeOK'
  BY <1>1 DEF IInv, TypeOK, flags, slot, hold
<1>3. Launches'
  BY <1>1 DEF IInv, Launches
<1> QED BY <1>1, <1>2, <1>3, Shifted DEF IInv, AskedAborted, Shifts, flags, slot, hold
-----------------------------------------------------------------------------
(* The theorems.                                                           *)

LEMMA InitKeeps == Init => IInv
<1> SUFFICES ASSUME Init PROVE IInv
  OBVIOUS
<1>1. ToSet(queue) = {} /\ queue \in Seq(Requests) /\ IsInjective(queue)
  BY DEF Init, ToSet, IsInjective
<1>2. Live = {} /\ InSlot = {}
  BY <1>1 DEF Init, Live, InSlot, InQueue
<1>3. TypeOK
  <2>1. /\ pc \in [Requests -> PcState] /\ claims \in [Requests -> 0..2] /\ state \in [Requests -> Activity]
        /\ phase \in [Requests -> Phase] /\ asked \in [Requests -> Phase]
        /\ waits \in [Requests -> SUBSET Requests]
    BY DEF Init, PcState, Activity, Phase
  <2>2. holds \in 0..MaxHolds
    BY MaxHoldsAssumption DEF Init
  <2> QED BY <1>1, <2>1, <2>2 DEF Init, TypeOK
<1>4. \A r \in Requests : At(r, pc[r])
  BY <1>1, KindsAssumption DEF Init, At, ClaimsAt, Outside, Claiming, Starts, Executes, InQueue
<1>5. BackgroundYields
  BY <1>2 DEF BackgroundYields
<1>6. Ordered
  BY <1>2, KindsAssumption DEF Init, Ordered
<1> QED BY <1>3, <1>4, <1>5, <1>6 DEF Init, IInv, Launches, AskedAborted, Kept

LEMMA StepKeeps == IInv /\ [Next]_vars => IInv'
<1> SUFFICES ASSUME IInv, [Next]_vars PROVE IInv'
  OBVIOUS
<1>1. ASSUME NEW r \in Requests, Call(r) \/ Reply(r) \/ Deadline(r) \/ CancelRequest(r) \/ SignalAbort(r)
      PROVE  IInv'
  BY <1>1, CallKeeps, AnswerKeeps, TimerKeeps, CancelKeeps
<1>2. ASSUME NEW r \in Requests, Step(r)
      PROVE  IInv'
  BY <1>2, AfterHostsKeeps, ClaimKeeps, YieldedKeeps, StartKeeps, EnterKeeps, ContinueKeeps, AnswerKeeps,
     TurnReadyKeeps, RunKeeps, DispatchKeeps, TimerKeeps, HostKeeps DEF Step
<1>3. CASE UNCHANGED vars
  <2>1. TypeOK'
    BY <1>3 DEF IInv, TypeOK, vars, flags, slot, hold
  <2>2. Launches'
    BY <1>3 DEF IInv, Launches, vars
  <2> QED BY <1>3, <2>1, <2>2, Shifted DEF IInv, TypeOK, AskedAborted, vars, flags, slot, hold
<1> QED BY <1>1, <1>2, <1>3, PreemptionKeeps, HoldKeeps, LaunchSettlesKeeps, WorkerKeeps DEF Next

(* What the queue, the claims, the waits, the launches and the flags of the*)
(* requests know of each other always holds, for any requests.             *)
THEOREM InvariantHolds == Spec => []IInv
BY InitKeeps, StepKeeps, PTL DEF Spec

(* The requests, the queue and the worker keep their types.                *)
THEOREM Typing == Spec => []TypeOK
<1>1. IInv => TypeOK
  BY DEF IInv
<1> QED BY <1>1, InvariantHolds, PTL

(* One request executes at a time and it is the active one, whatever is    *)
(* cancelled, parked or restarted, however many requests there are.        *)
THEOREM OneExecutes == Spec => []OneInSlot
<1>1. IInv => OneInSlot
  <2>1. SUFFICES ASSUME IInv PROVE OneInSlot
    OBVIOUS
  <2>2. ASSUME NEW r \in InSlot, NEW s \in InSlot PROVE r = s
    BY <2>1, OnlyHead DEF OwnsTurn
  <2>3. ASSUME NEW r \in InSlot, pc[r] \in {"before", "sent", "host", "killing"} PROVE active = r
    <3>1. At(r, pc[r])
      BY <2>1 DEF IInv, InSlot
    <3> QED BY <2>3, <3>1 DEF At, Executes
  <2> QED BY <2>2, <2>3 DEF OneInSlot
<1> QED BY <1>1, InvariantHolds, PTL

(* Once foreground work has claimed the worker, every background request   *)
(* that is left was told to stop.                                          *)
THEOREM BackgroundIsTold == Spec => []BackgroundYields
<1>1. IInv => BackgroundYields
  BY DEF IInv
<1> QED BY <1>1, InvariantHolds, PTL

(* While the main process computes, no worker is launched and no request   *)
(* executes, neither an earlier nor a later one.                           *)
THEOREM HostAlone == Spec => []HostComputesAlone
<1>1. IInv => HostComputesAlone
  <2>1. SUFFICES ASSUME IInv, NEW h \in Hosts, pc[h] = "host"
                 PROVE  worker # "starting" /\ \A r \in Requests : pc[r] # "sent"
    BY DEF HostComputesAlone
  <2>2. h \in Requests /\ h \in InSlot /\ h \in Live /\ WaitsOver(h)
    BY <2>1, KindsAssumption DEF IInv, Ordered, InSlot, Live
  <2>3. \A r \in Requests : pc[r] # "sent"
    <3>1. \A r \in Requests : pc[r] = "sent" => r \in InSlot
      BY DEF InSlot
    <3> QED BY <2>1, <2>2, <3>1, OnlyHead DEF OwnsTurn
  <2>4. worker # "starting"
    <3>1. SUFFICES ASSUME worker = "starting" PROVE FALSE
      OBVIOUS
    <3>2. PICK r \in Requests : pc[r] \in {"starting", "preempting"}
      BY <2>1, <3>1 DEF IInv, Launches
    <3>3. r \in Live \ Hosts
      BY <2>1, <3>2 DEF Live, IInv, At
    <3>4. r \in waits[h]
      BY <2>1, <2>2, <3>2, <3>3 DEF IInv, Ordered
    <3> QED BY <2>2, <3>3, <3>4 DEF WaitsOver
  <2> QED BY <2>3, <2>4
<1> QED BY <1>1, InvariantHolds, PTL

(* Only what was not told to stop is dispatched, from the hook of a request*)
(* or as a computation of the main process.                                *)
LEMMA Dispatches ==
  ASSUME IInv, [Next]_vars, NEW r \in dispatched' \ dispatched
  PROVE  r \in Requests /\ r \notin aborted /\ (pc[r] = "before" \/ r \in Hosts)
<1>1. ASSUME NEW s \in Requests, Call(s) \/ Reply(s) \/ Deadline(s) \/ CancelRequest(s) \/ SignalAbort(s)
      PROVE  dispatched' = dispatched
  BY <1>1 DEF Call, Reply, Goto, Deadline, CancelRequest, SignalAbort, flags
<1>2. ASSUME NEW s \in Requests, Step(s)
      PROVE  \/ dispatched' \subseteq dispatched
             \/ dispatched' = dispatched \cup {s} /\ s \notin aborted /\ (pc[s] = "before" \/ s \in Hosts)
  <2>1. \A how : Finish(s, how) => dispatched' \subseteq dispatched
    BY DEF Finish
  <2>2. \A label : Goto(s, label) => dispatched' = dispatched
    BY DEF Goto, flags
  <2>3. AfterHosts(s) \/ Yielded(s) \/ Continue(s) \/ Unpark(s) \/ End(s) \/ HostReturns(s)
          => dispatched' \subseteq dispatched
    BY <2>1, <2>2 DEF AfterHosts, Yielded, Continue, Unpark, End, HostReturns
  <2>4. Claim(s) \/ ForceAfterGrace(s) => dispatched' = dispatched
    BY DEF Claim, ForceAfterGrace, flags
  <2>5. Start(s) => dispatched' \subseteq dispatched
    <3>1. CASE worker = "up"
      BY <2>2, <3>1 DEF Start
    <3>2. CASE worker = "stuck"
      BY <2>1, <3>2 DEF Start
    <3>3. CASE worker \notin {"up", "stuck"}
      BY <3>3 DEF Start, flags
    <3> QED BY <3>1, <3>2, <3>3
  <2>6. Enter(s) \/ TurnReady(s) \/ HostReserve(s) => dispatched' \subseteq dispatched
    BY <2>1, <2>2 DEF Enter, TurnReady, HostReserve, Reserve, Park, flags
  <2>7. Run(s) => dispatched' \subseteq dispatched
    BY <2>1 DEF Run
  <2>8. Dispatch(s) => \/ dispatched' \subseteq dispatched
                       \/ dispatched' = dispatched \cup {s} /\ s \notin aborted /\ pc[s] = "before"
    BY <2>1 DEF Dispatch, Dispatched
  <2>9. HostRun(s) => \/ dispatched' \subseteq dispatched
                      \/ dispatched' = dispatched \cup {s} /\ s \notin aborted /\ s \in Hosts
    BY <2>1 DEF HostRun
  <2> QED BY <1>2, <2>3, <2>4, <2>5, <2>6, <2>7, <2>8, <2>9 DEF Step
<1>3. CASE \/ PreemptionContinues \/ Hold \/ Release \/ \E ok \in BOOLEAN : LaunchSettles(ok)
           \/ Exits \/ TerminationFails \/ Crash \/ Teardown \/ UNCHANGED vars
  <2>1. UNCHANGED dispatched
    BY <1>3 DEF PreemptionContinues, Hold, Release, LaunchSettles, Exits, TerminationFails, Crash, Teardown, vars, flags
  <2> QED BY <2>1
<1> QED BY <1>1, <1>2, <1>3 DEF Next

(* A request that was answered as cancelled while it was queued is never   *)
(* dispatched, and no cancellation or claim stops foreground work that is  *)
(* not its own.                                                            *)
THEOREM CancellationExact == Spec => CancellationIsExact
<1>1. IInv /\ [Next]_vars =>
        [/\ \A r \in Requests : asked[r] = "queued" /\ r \notin dispatched => r \notin dispatched'
         /\ (\E s \in Requests : CancelRequest(s) \/ SignalAbort(s) \/ Claim(s) \/ ForceAfterGrace(s))
              => \A r \in Requests \ Background : pc[r] = "sent" => pc'[r] # "stopped"]_vars
  <2>1. SUFFICES ASSUME IInv, [Next]_vars
                 PROVE  /\ \A r \in Requests : asked[r] = "queued" /\ r \notin dispatched => r \notin dispatched'
                        /\ (\E s \in Requests : CancelRequest(s) \/ SignalAbort(s) \/ Claim(s) \/ ForceAfterGrace(s))
                             => \A r \in Requests \ Background : pc[r] = "sent" => pc'[r] # "stopped"
    OBVIOUS
  <2>2. ASSUME NEW r \in Requests, asked[r] = "queued", r \notin dispatched PROVE r \notin dispatched'
    <3>1. r \in aborted
      BY <2>1, <2>2 DEF IInv, AskedAborted
    <3> QED BY <2>1, <2>2, <3>1, Dispatches
  <2>3. ASSUME NEW s \in Requests, NEW r \in Requests \ Background, pc[r] = "sent",
               CancelRequest(s) \/ SignalAbort(s) \/ Claim(s) \/ ForceAfterGrace(s)
        PROVE  pc'[r] # "stopped"
    <3>1. \A S : Killing(S)[r] \in {"sent", "killing"}
      BY <2>1, <2>3, Kills DEF IInv
    <3>2. CASE CancelRequest(s) \/ SignalAbort(s)
      BY <3>1, <3>2 DEF CancelRequest, SignalAbort
    <3>3. CASE ForceAfterGrace(s)
      BY <2>1, <2>3, <3>3 DEF ForceAfterGrace, Move, IInv, TypeOK
    <3>4. CASE Claim(s)
      <4>1. active = r /\ active \notin Background /\ r # s
        BY <2>1, <2>3, <3>4 DEF Claim, IInv, At, Executes
      <4>2. pc' = [Killing(Live \cap Background) EXCEPT ![s] = "claimed"]
        BY <3>4, <4>1 DEF Claim
      <4>3. Killing(Live \cap Background) \in [Requests -> PcState]
        BY <2>1, Kills DEF IInv
      <4> QED BY <3>1, <4>1, <4>2, <4>3
    <3> QED BY <2>3, <3>2, <3>3, <3>4
  <2> QED BY <2>2, <2>3
<1> QED BY <1>1, InvariantHolds, PTL DEF Spec, CancellationIsExact

(* Within a hold, nothing ordinary is dispatched behind the load or the    *)
(* resumption the hold was made for.                                       *)
THEOREM HoldOrder == Spec => HoldKeepsOrder
<1>1. IInv /\ [Next]_vars =>
        [\A r \in Requests \ (Exempt \cup Hosts) :
           held /\ overtaken /\ r \notin dispatched => r \notin dispatched']_vars
  <2>1. SUFFICES ASSUME IInv, [Next]_vars, NEW r \in Requests \ (Exempt \cup Hosts), held, overtaken,
                        r \notin dispatched, r \in dispatched'
                 PROVE  FALSE
    OBVIOUS
  <2>2. pc[r] = "before"
    BY <2>1, Dispatches
  <2>3. r \in InSlot
    BY <2>2 DEF InSlot
  <2> QED BY <2>1, <2>3 DEF IInv, Kept
<1> QED BY <1>1, InvariantHolds, PTL DEF Spec, HoldKeepsOrder
=============================================================================
