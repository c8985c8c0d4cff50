-------------------------- MODULE ActiveModeProofs --------------------------
(***************************************************************************)
(* Proofs about ActiveMode, for any brains, Builds, switches and times.    *)
(* A section of setActiveMode has every lock it asked for.  Those are the  *)
(* locks of all the brains that no Build has written since the start, so   *)
(* that sections that see one of these exclude each other, and an owner    *)
(* among them that is neither the target of an enabling section nor on its *)
(* list of owners to disable would have had to appear behind a lock.  A    *)
(* cycle on the worker has the lock of its brain, whose document is the    *)
(* copy it will save; a Build writes without a lock, but only to a brain   *)
(* no cycle can have entered.                                              *)
(***************************************************************************)
EXTENDS ActiveMode, FiniteSetTheorems, SequenceTheorems, WellFoundedInduction, TLAPS

CallType == [pc : {"none", "cancelling", "locking", "section", "done", "failed"},
             target : Brains \cup {None}, enabled : BOOLEAN, ids : SUBSET Brains, left : SUBSET Brains,
             active : BOOLEAN]
BuildType == [pc : {"none", "activating", "copied", "building", "resuming", "over"}, copy : BOOLEAN]
Seen == UNION {[S -> Doc] : S \in SUBSET Brains}
TickType == [pc : {"idle", "listing", "reading", "admitted", "worker", "acting"}, brain : Brains \cup {None},
             ids : Seq(Brains), seen : Seen, copy : BOOLEAN, preempted : BOOLEAN]

Documents ==
  /\ doc \in [Brains -> Doc \cup {None}]
  /\ writer \in [Brains -> Callers \cup {"cycle", None}]
  /\ app \in {"booting", "up", "dead"} /\ written \subseteq Brains /\ mishaps \in Nat
  /\ call \in [Callers -> CallType] /\ build \in [Brains -> BuildType] /\ tick \in TickType

Times == /\ quiet \in [Brains -> Nat] /\ due \in [Brains -> Nat] /\ backoff \in Nat
         /\ \A b \in Brains : due[b] <= quiet[b]

(* newest has every brain on disk once.                                    *)
Listed == /\ newest \in Seq(Brains) /\ IsInjective(newest)
          /\ Range(newest) = {b \in Brains : Exists(b)}

(* Calls, and what a section may rely on.                                  *)
Standing(c) ==
  /\ call[c].pc \in {"cancelling", "locking", "section"} => call[c].target \in Brains
  /\ call[c].pc \in {"locking", "section"} => call[c].target \in call[c].ids
  /\ call[c].pc = "section" => /\ call[c].left \subseteq call[c].ids
                               /\ \A b \in call[c].ids : writer[b] = c /\ Exists(b)
Calls == \A c \in Callers : Standing(c)

(* The tick, and what its cycle may rely on.                               *)
Cycle ==
  /\ InFlight => tick.brain \in Brains
  /\ tick.pc = "worker" => /\ writer[tick.brain] = "cycle" /\ Exists(tick.brain)
                           /\ doc[tick.brain] = [active |-> tick.copy, ready |-> TRUE]

(* A brain that is being built is not ready.                               *)
Constructing == {"activating", "copied", "building", "resuming"}
Builds == \A b \in Brains :
  /\ build[b].pc = "none" => ~Exists(b)
  /\ build[b].pc \in Constructing => (Exists(b) => ~doc[b].ready)

(* What is not under way before the application is up.                     *)
Start ==
  /\ app # "up" => /\ tick.pc = "idle" /\ \A b \in Brains : build[b].pc \notin Constructing
                   /\ \A c \in Callers \ {Boot} : call[c].pc \in {"none", "failed"}
  /\ app # "booting" => call[Boot].pc \in {"none", "done", "failed"}
  /\ call[Boot].pc # "cancelling"
  /\ call[Boot].pc \in {"locking", "section"} => call[Boot].enabled

(* The brains whose documents no Build has written since the start, and who*)
(* of them owns Active Mode.                                               *)
Kept == {b \in Brains : Exists(b)} \ written
KeptOwners == Owners \ written
AtMostOne == \A a, b \in KeptOwners : a = b
Lease ==
  /\ \A c \in Callers : call[c].pc \in {"locking", "section"} => Kept \subseteq call[c].ids
  /\ \A c \in Callers : call[c].pc = "section" /\ call[c].enabled =>
       KeptOwners \subseteq call[c].left \cup {call[c].target}
  /\ app = "up" \/ call[Boot].pc = "done" => AtMostOne

IInv == Documents /\ Times /\ Listed /\ Calls /\ Cycle /\ Builds /\ Start /\ Lease
-----------------------------------------------------------------------------
(* The list of brains.                                                     *)

LEMMA RemovedFirst ==
  ASSUME NEW S, NEW s \in Seq(S), NEW e, IsInjective(s)
  PROVE  /\ RemoveFirst(s, e) \in Seq(S) /\ IsInjective(RemoveFirst(s, e))
         /\ Range(RemoveFirst(s, e)) = Range(s) \ {e}
<1>1. CASE ~\E i \in 1 .. Len(s) : s[i] = e
  <2>1. RemoveFirst(s, e) = s /\ DOMAIN s = 1 .. Len(s)
    BY <1>1 DEF RemoveFirst
  <2> QED BY <1>1, <2>1 DEF Range
<1>2. CASE \E i \in 1 .. Len(s) : s[i] = e
  <2>1. PICK p \in 1 .. Len(s) : s[p] = e
    BY <1>2
  <2>2. DOMAIN s = 1 .. Len(s) /\ Len(s) \in Nat /\ p \in Nat
    BY <2>1
  <2>3. {i \in 1 .. Len(s) : s[i] = e} = {p}
    BY <2>1, <2>2 DEF IsInjective
  <2>4. SelectInSeq(s, LAMBDA v : v = e) = p
    BY <2>3 DEF SelectInSeq, Min
  <2> DEFINE a == SubSeq(s, 1, p - 1)
             z == SubSeq(s, p + 1, Len(s))
             r == a \o z
  <2>5. RemoveFirst(s, e) = r
    BY <1>2, <2>4 DEF RemoveFirst, RemoveAt
  <2>6. /\ a \in Seq(S) /\ Len(a) = p - 1 /\ \A i \in 1 .. p - 1 : a[i] = s[i]
        /\ z \in Seq(S) /\ Len(z) = Len(s) - p /\ \A i \in 1 .. Len(s) - p : z[i] = s[i + p]
    <3>1. p - 1 \in Int /\ p + 1 \in Int /\ Len(s) \in Int /\ (p - 1) - 1 + 1 = p - 1
      BY <2>1, <2>2
    <3>2. /\ a \in Seq(S) /\ Len(a) = IF 1 <= p - 1 THEN (p - 1) - 1 + 1 ELSE 0
          /\ \A i \in 1 .. (p - 1) - 1 + 1 : a[i] = s[1 + i - 1]
      BY <2>1, <2>2, <3>1, SubSeqProperties
    <3>3. /\ z \in Seq(S) /\ Len(z) = IF p + 1 <= Len(s) THEN Len(s) - (p + 1) + 1 ELSE 0
          /\ \A i \in 1 .. Len(s) - (p + 1) + 1 : z[i] = s[(p + 1) + i - 1]
      BY <2>1, <2>2, <3>1, SubSeqProperties
    <3> HIDE DEF a, z
    <3>4. Len(s) - (p + 1) + 1 = Len(s) - p /\ p >= 1 /\ p <= Len(s)
      BY <2>1, <2>2
    <3>5. Len(a) = p - 1 /\ Len(z) = Len(s) - p
      <4>1. Len(a) = IF 1 <= p - 1 THEN p - 1 ELSE 0
        BY <3>1, <3>2
      <4>2. Len(z) = IF p + 1 <= Len(s) THEN Len(s) - p ELSE 0
        BY <3>3, <3>4
      <4>3. p \in Int /\ Len(s) \in Int
        BY <2>2
      <4>4. Len(a) = p - 1
        BY <3>4, <4>1, <4>3
      <4>5. Len(z) = Len(s) - p
        <5>1. CASE p + 1 <= Len(s)
          BY <4>2, <5>1
        <5>2. CASE ~(p + 1 <= Len(s))
          <6>1. PICK n \in Int : n = Len(s)
            BY <4>3
          <6>2. p <= n /\ ~(p + 1 <= n)
            BY <3>4, <5>2, <6>1
          <6>3. n - p = 0
            BY <4>3, <6>2
          <6> QED BY <4>2, <5>2, <6>1, <6>3
        <5> QED BY <5>1, <5>2
      <4> QED BY <4>4, <4>5
    <3>6. ASSUME NEW i \in 1 .. p - 1 PROVE a[i] = s[i]
      <4>1. 1 + i - 1 = i
        OBVIOUS
      <4> QED BY <3>1, <3>2, <4>1
    <3>7. ASSUME NEW i \in 1 .. Len(s) - p PROVE z[i] = s[i + p]
      <4>1. (p + 1) + i - 1 = i + p
        BY <2>2
      <4> QED BY <3>3, <3>4, <4>1
    <3> QED BY <3>2, <3>3, <3>5, <3>6, <3>7
  <2> HIDE DEF a, z
  <2>7. /\ r \in Seq(S) /\ DOMAIN r = 1 .. Len(s) - 1
        /\ \A i \in 1 .. Len(s) - 1 : r[i] = IF i < p THEN s[i] ELSE s[i + 1]
    <3>1. r \in Seq(S) /\ Len(r) = Len(s) - 1 /\ DOMAIN r = 1 .. Len(s) - 1
      <4>1. r \in Seq(S) /\ Len(r) = Len(a) + Len(z)
        BY <2>6, ConcatProperties
      <4>2. Len(r) = Len(s) - 1
        BY <2>2, <2>6, <4>1
      <4> QED BY <4>1, <4>2
    <3>2. ASSUME NEW i \in 1 .. Len(s) - 1, i < p PROVE r[i] = s[i]
      <4>1. i \in 1 .. Len(a)
        BY <2>2, <2>6, <3>2
      <4>2. r[i] = a[i]
        BY <2>6, <4>1
      <4> QED BY <2>6, <4>1, <4>2
    <3>3. ASSUME NEW i \in 1 .. Len(s) - 1, ~(i < p) PROVE r[i] = s[i + 1]
      <4> DEFINE k == i - (p - 1)
      <4>1. k \in 1 .. Len(s) - p /\ i = k + Len(a) /\ k + p = i + 1 /\ i > Len(a)
        BY <2>2, <2>6, <3>3
      <4>2. r[i] = z[i - Len(a)] /\ i - Len(a) = k
        BY <2>6, <3>1, <4>1
      <4>3. z[k] = s[k + p]
        BY <2>6, <4>1
      <4> QED BY <4>1, <4>2, <4>3
    <3> QED BY <3>1, <3>2, <3>3
  <2> HIDE DEF r
  <2>8. IsInjective(r)
    <3>1. SUFFICES ASSUME NEW i \in DOMAIN r, NEW j \in DOMAIN r, r[i] = r[j] PROVE i = j
      BY DEF IsInjective
    <3> DEFINE at(k) == IF k < p THEN k ELSE k + 1
    <3>2. at(i) \in DOMAIN s /\ at(j) \in DOMAIN s /\ s[at(i)] = s[at(j)] /\ i \in Int /\ j \in Int
      BY <2>2, <2>7, <3>1
    <3>3. at(i) = at(j)
      BY <3>2 DEF IsInjective
    <3> QED BY <2>2, <3>2, <3>3
  <2>9. Range(r) = Range(s) \ {e}
    <3>1. ASSUME NEW x \in Range(r) PROVE x \in Range(s) \ {e}
      <4>1. PICK i \in DOMAIN r : x = r[i]
        BY <3>1 DEF Range
      <4>2. PICK k \in DOMAIN s : k # p /\ x = s[k]
        BY <2>2, <2>7, <4>1
      <4>3. x # e
        BY <2>1, <2>2, <4>2 DEF IsInjective
      <4> QED BY <4>2, <4>3 DEF Range
    <3>2. ASSUME NEW x \in Range(s) \ {e} PROVE x \in Range(r)
      <4>1. PICK k \in DOMAIN s : x = s[k]
        BY <3>2 DEF Range
      <4>2. k # p
        BY <2>1, <3>2, <4>1
      <4>3. CASE k < p
        <5>1. k \in DOMAIN r /\ r[k] = x
          BY <2>2, <2>7, <4>1, <4>3
        <5> QED BY <5>1 DEF Range
      <4>4. CASE k > p
        <5>1. k - 1 \in DOMAIN r /\ r[k - 1] = x
          BY <2>2, <2>7, <4>1, <4>4
        <5> QED BY <5>1 DEF Range
      <4> QED BY <2>2, <4>1, <4>2, <4>3, <4>4
    <3> QED BY <3>1, <3>2
  <2> QED BY <2>5, <2>7, <2>8, <2>9
<1> QED BY <1>1, <1>2

LEMMA Preceded ==
  ASSUME NEW S, NEW s \in Seq(S), NEW e \in S, IsInjective(s), e \notin Range(s)
  PROVE  /\ <<e>> \o s \in Seq(S) /\ IsInjective(<<e>> \o s)
         /\ Range(<<e>> \o s) = {e} \cup Range(s)
<1> DEFINE r == <<e>> \o s
<1>1. /\ r \in Seq(S) /\ DOMAIN r = 1 .. Len(s) + 1 /\ DOMAIN s = 1 .. Len(s) /\ Len(s) \in Nat
      /\ r[1] = e /\ \A i \in 1 .. Len(s) : r[i + 1] = s[i]
  OBVIOUS
<1> HIDE DEF r
<1>2. \A i \in DOMAIN r : i = 1 \/ (i - 1 \in DOMAIN s /\ r[i] = s[i - 1])
  <2>1. SUFFICES ASSUME NEW i \in DOMAIN r, i # 1 PROVE i - 1 \in DOMAIN s /\ r[i] = s[i - 1]
    OBVIOUS
  <2>2. i - 1 \in 1 .. Len(s) /\ (i - 1) + 1 = i
    BY <1>1, <2>1
  <2> QED BY <1>1, <2>2
<1>3. \A i \in DOMAIN s : s[i] # e
  BY DEF Range
<1>4. IsInjective(r)
  <2>1. SUFFICES ASSUME NEW i \in DOMAIN r, NEW j \in DOMAIN r, r[i] = r[j] PROVE i = j
    BY DEF IsInjective
  <2>2. CASE i # 1 /\ j # 1
    <3>1. i - 1 = j - 1
      BY <1>2, <2>1, <2>2 DEF IsInjective
    <3> QED BY <1>1, <3>1
  <2>3. CASE i = 1 \/ j = 1
    BY <1>1, <1>2, <1>3, <2>1, <2>3
  <2> QED BY <2>2, <2>3
<1>5. Range(r) = {e} \cup Range(s)
  <2>1. ASSUME NEW x \in Range(r) PROVE x \in {e} \cup Range(s)
    BY <1>1, <1>2, <2>1 DEF Range
  <2>2. ASSUME NEW x \in Range(s) PROVE x \in Range(r)
    <3>1. PICK i \in 1 .. Len(s) : x = s[i]
      BY <1>1, <2>2 DEF Range
    <3>2. i + 1 \in DOMAIN r /\ r[i + 1] = x
      BY <1>1, <3>1
    <3> QED BY <3>2 DEF Range
  <2>3. e \in Range(r)
    <3>1. 1 \in DOMAIN r
      BY <1>1
    <3> QED BY <1>1, <3>1 DEF Range
  <2> QED BY <2>1, <2>2, <2>3
<1> QED BY <1>1, <1>4, <1>5 DEF r

LEMMA Least ==
  ASSUME NEW S \in SUBSET Nat, S # {}
  PROVE  \E m \in S : \A n \in S : m <= n
<1> DEFINE R == {ss \in Nat \X Nat : ss[1] < ss[2]}
<1>1. IsWellFoundedOn(R, Nat)
  BY NatLessThanWellFounded DEF OpToRel
<1>2. PICK m \in S : \A n \in S : <<n, m>> \notin R
  <2> HIDE DEF R
  <2> QED BY <1>1, WFMin
<1>3. ASSUME NEW n \in S PROVE m <= n
  <2>1. ~(n < m)
    <3>1. <<n, m>> \notin R
      BY <1>2
    <3> QED BY <3>1
  <2> QED BY <2>1
<1> QED BY <1>3

(* The first of a set's members in an order.                               *)
LEMMA FirstOf ==
  ASSUME NEW S, NEW order \in Seq(S), NEW T, NEW x \in T, x \in Range(order)
  PROVE  First(order, T) \in T \cap Range(order)
<1> DEFINE I == {i \in DOMAIN order : order[i] \in T}
           P(i) == order[i] \in T /\ \A j \in 1 .. i - 1 : order[j] \notin T
<1>1. DOMAIN order = 1 .. Len(order) /\ Len(order) \in Nat
  OBVIOUS
<1>2. I \in SUBSET Nat /\ I # {}
  BY <1>1 DEF Range
<1>3. PICK m \in I : \A n \in I : m <= n
  <2> HIDE DEF I
  <2> QED BY <1>2, Least
<1>4. \A j \in 1 .. m - 1 : order[j] \notin T
  <2>1. SUFFICES ASSUME NEW j \in 1 .. m - 1, order[j] \in T PROVE FALSE
    OBVIOUS
  <2>2. j \in I /\ j < m /\ m \in Nat
    BY <1>1, <1>3, <2>1
  <2> QED BY <1>3, <2>2
<1>5. \E i \in DOMAIN order : P(i)
  BY <1>3, <1>4
<1>6. (CHOOSE i \in DOMAIN order : P(i)) \in DOMAIN order /\ P(CHOOSE i \in DOMAIN order : P(i))
  <2> HIDE DEF P
  <2> QED BY <1>5
<1> QED BY <1>6 DEF First, Range
-----------------------------------------------------------------------------
(* What the operators of the actions do.                                   *)

(* Brains on disk.                                                         *)
There == {b \in Brains : Exists(b)}

LEMMA Saves ==
  ASSUME Documents, Listed, NEW b \in Brains, NEW d \in Doc, Save(b, d)
  PROVE  /\ doc' \in [Brains -> Doc \cup {None}]
         /\ doc'[b] = d /\ d # None
         /\ \A x \in Brains \ {b} : doc'[x] = doc[x]
         /\ \A x \in Brains : Exists(x)' <=> x = b \/ Exists(x)
         /\ There' = There \cup {b}
         /\ Listed'
<1>1. /\ doc' \in [Brains -> Doc \cup {None}] /\ doc'[b] = d /\ d # None
      /\ \A x \in Brains \ {b} : doc'[x] = doc[x]
  BY ActiveModeAssumption DEF Documents, Save
<1>2. \A x \in Brains : Exists(x)' <=> x = b \/ Exists(x)
  BY <1>1 DEF Exists
<1>3. There' = There \cup {b}
  BY <1>2 DEF There
<1>4. /\ RemoveFirst(newest, b) \in Seq(Brains) /\ IsInjective(RemoveFirst(newest, b))
      /\ Range(RemoveFirst(newest, b)) = There \ {b}
  BY RemovedFirst DEF Listed, There
<1>5. /\ newest' \in Seq(Brains) /\ IsInjective(newest')
      /\ Range(newest') = {b} \cup (There \ {b})
  BY <1>4, Preceded DEF Save, ToFront
<1>6. Listed'
  BY <1>2, <1>5 DEF Listed, There
<1> QED BY <1>1, <1>2, <1>3, <1>6

LEMMA Deletes ==
  ASSUME Documents, Listed, NEW b \in Brains, doc' = [doc EXCEPT ![b] = None], newest' = RemoveFirst(newest, b)
  PROVE  /\ doc' \in [Brains -> Doc \cup {None}]
         /\ \A x \in Brains \ {b} : doc'[x] = doc[x]
         /\ \A x \in Brains : Exists(x)' <=> x # b /\ Exists(x)
         /\ Listed'
<1>1. /\ doc' \in [Brains -> Doc \cup {None}] /\ doc'[b] = None
      /\ \A x \in Brains \ {b} : doc'[x] = doc[x]
  BY DEF Documents
<1>2. \A x \in Brains : Exists(x)' <=> x # b /\ Exists(x)
  BY <1>1 DEF Exists
<1>3. /\ newest' \in Seq(Brains) /\ IsInjective(newest') /\ Range(newest') = There \ {b}
  BY RemovedFirst DEF Listed, There
<1> QED BY <1>1, <1>2, <1>3 DEF Listed, There

LEMMA Asks ==
  ASSUME Documents, NEW c \in Callers, NEW t \in Brains, NEW e \in BOOLEAN, Ask(c, t, e)
  PROVE  /\ call' \in [Callers -> CallType]
         /\ call'[c].pc = "locking" /\ call'[c].target = t /\ call'[c].enabled = e
         /\ call'[c].ids = {t} \cup There
         /\ \A x \in Callers \ {c} : call'[x] = call[x]
<1>1. [pc |-> "locking", target |-> t, enabled |-> e, ids |-> {t} \cup There, left |-> {}, active |-> FALSE] \in CallType
  BY DEF CallType, There
<1>2. call' = [call EXCEPT ![c] = [pc |-> "locking", target |-> t, enabled |-> e, ids |-> {t} \cup There, left |-> {}, active |-> FALSE]]
  BY DEF Ask, There
<1> QED BY <1>1, <1>2 DEF Documents

Outcomes == {"none", "cancelling", "locking", "section", "done", "failed"}

LEMMA Settles ==
  ASSUME Documents, NEW c \in Callers, NEW outcome \in Outcomes, Settled(c, outcome)
  PROVE  /\ call' \in [Callers -> CallType]
         /\ call'[c].pc = outcome
         /\ \A x \in Callers \ {c} : call'[x] = call[x]
<1>1. [NoCall EXCEPT !.pc = outcome] \in CallType /\ [NoCall EXCEPT !.pc = outcome].pc = outcome
  BY DEF CallType, NoCall, Outcomes
<1> QED BY <1>1 DEF Settled, Documents

LEMMA Releases ==
  ASSUME Documents, NEW who \in Callers \cup {"cycle"}, Release(who)
  PROVE  /\ writer' \in [Brains -> Callers \cup {"cycle", None}]
         /\ \A b \in Brains : writer[b] # who => writer'[b] = writer[b]
         /\ \A b \in Brains : writer'[b] = writer[b] \/ writer'[b] = None
BY DEF Documents, Release

LEMMA EndedBuildType == EndedBuild \in BuildType /\ EndedBuild.pc = "over"
BY DEF EndedBuild, NoBuild, BuildType

LEMMA NoTickType == NoTick \in TickType /\ NoTick.pc = "idle"
<1>1. <<>> \in Seen
  <2>1. <<>> \in [{} -> Doc]
    OBVIOUS
  <2> QED BY <2>1 DEF Seen
<1>2. <<>> \in Seq(Brains)
  OBVIOUS
<1> QED BY <1>1, <1>2 DEF NoTick, TickType

LEMMA TickFailsEffect ==
  ASSUME Times, TickFails
  PROVE  Times' /\ tick' \in TickType /\ tick'.pc = "idle"
<1>1. backoff' \in Nat
  BY ActiveModeAssumption DEF TickFails
<1> QED BY <1>1, NoTickType DEF Times, TickFails

LEMMA FinishEffect ==
  ASSUME Times, Finish, tick.brain \in Brains
  PROVE  Times' /\ tick' \in TickType /\ tick'.pc = "idle"
<1>1. Rest \in Nat
  BY ActiveModeAssumption
<1>2. quiet' \in [Brains -> Nat] /\ \A b \in Brains : quiet[b] <= quiet'[b]
  BY <1>1 DEF Times, Finish, Larger
<1>3. due' = due /\ backoff' = 0
  BY DEF Finish
<1>4. \A b \in Brains : due'[b] <= quiet'[b]
  BY <1>2, <1>3 DEF Times
<1> QED BY <1>2, <1>3, <1>4, NoTickType DEF Times, Finish

LEMMA ReserveEffect ==
  ASSUME Times, NEW b \in Brains, Reserve(b)
  PROVE  Times'
<1>1. Cooldown \in Nat
  BY ActiveModeAssumption
<1>2. quiet' \in [Brains -> Nat] /\ due' \in [Brains -> Nat] /\ backoff' = backoff
  BY <1>1 DEF Times, Reserve, Larger
<1>3. \A x \in Brains : due'[x] <= quiet'[x]
  BY <1>1 DEF Times, Reserve, Larger
<1> QED BY <1>2, <1>3 DEF Times

LEMMA CancelEffect ==
  ASSUME Documents, Times, CancelActive, InFlight => tick.brain \in Brains
  PROVE  /\ Times' /\ tick' \in TickType
         /\ tick'.pc = tick.pc /\ tick'.brain = tick.brain /\ tick'.copy = tick.copy
<1>1. CASE InFlight
  <2>1. tick' = [tick EXCEPT !.preempted = (tick.pc = "worker")] /\ Reserve(tick.brain)
    BY <1>1 DEF CancelActive
  <2>2. Times'
    BY <1>1, <2>1, ReserveEffect
  <2> QED BY <2>1, <2>2 DEF Documents, TickType
<1>2. CASE ~InFlight
  BY <1>2 DEF CancelActive, Documents, Times, timers
<1> QED BY <1>1, <1>2

(* A call whose locks and whose brains stay is where it was.               *)
LEMMA CallKept ==
  ASSUME Documents, NEW x \in Callers, Standing(x), call'[x] = call[x],
         \A b \in Brains : writer[b] = x => writer'[b] = x /\ (Exists(b) => Exists(b)')
  PROVE  Standing(x)'
<1>1. call[x] \in CallType
  BY DEF Documents
<1>2. call[x].ids \subseteq Brains
  BY <1>1 DEF CallType
<1>3. (call[x].pc = "section" => \A b \in call[x].ids : writer[b] = x /\ Exists(b))'
  BY <1>2 DEF Standing
<1> QED BY <1>3 DEF Standing

LEMMA BootCalls == Boot \in Callers /\ "cycle" \notin Callers /\ None \notin Callers /\ None # "cycle"
BY ActiveModeAssumption DEF Callers
-----------------------------------------------------------------------------
(* Steps that write no document.                                           *)

LEMMA ReconciledInvariant == ASSUME IInv, Reconciled PROVE IInv'
<1>1. Documents'
  BY DEF IInv, Documents, Reconciled, disk, timers
<1>2. Times'
  BY DEF IInv, Times, Documents, Reconciled, disk, timers
<1>3. Listed'
  BY DEF IInv, Listed, Exists, Documents, Reconciled, disk, timers
<1>4. Calls'
  BY DEF IInv, Calls, Standing, Exists, Documents, Reconciled, disk, timers
<1>5. Cycle'
  BY DEF IInv, Cycle, InFlight, Exists, Documents, Reconciled, disk, timers
<1>6. Builds'
  BY DEF IInv, Builds, Exists, Constructing, Documents, Reconciled, disk, timers
<1>7. Start'
  BY DEF IInv, Start, Constructing, Documents, Reconciled, disk, timers
<1>8. Lease'
  BY DEF IInv, Lease, AtMostOne, Kept, KeptOwners, Owners, Exists, Documents, Reconciled, disk, timers
<1> QED BY <1>1, <1>2, <1>3, <1>4, <1>5, <1>6, <1>7, <1>8 DEF IInv

LEMMA SwitchAsksInvariant == ASSUME IInv, NEW c \in Switches, SwitchAsks(c) PROVE IInv'
<1>a. c \in Callers /\ c # Boot /\ Boot \in Callers /\ call[c].target \in Brains /\ call[c].enabled \in BOOLEAN
  BY ActiveModeAssumption DEF IInv, Documents, Calls, Standing, CallType, SwitchAsks, Callers
<1>b. /\ call' \in [Callers -> CallType]
      /\ call'[c].pc = "locking" /\ call'[c].target = call[c].target
      /\ call'[c].ids = {call[c].target} \cup There
      /\ \A x \in Callers \ {c} : call'[x] = call[x]
  BY <1>a, Asks DEF IInv, SwitchAsks
<1>c. app = "up" /\ There' = There
  BY <1>a DEF IInv, Start, Constructing, SwitchAsks, There, Exists, disk
<1>1. Documents'
  BY <1>a, <1>b, <1>c DEF IInv, Documents, SwitchAsks, There, disk, timers
<1>2. Times'
  BY <1>a, <1>b, <1>c DEF IInv, Times, Documents, SwitchAsks, There, disk, timers
<1>3. Listed'
  BY <1>a, <1>b, <1>c DEF IInv, Listed, Exists, Documents, SwitchAsks, There, disk, timers
<1>4. Calls'
  BY <1>a, <1>b, <1>c DEF IInv, Calls, Standing, Exists, Documents, SwitchAsks, There, disk, timers
<1>5. Cycle'
  BY <1>a, <1>b, <1>c DEF IInv, Cycle, InFlight, Exists, Documents, SwitchAsks, There, disk, timers
<1>6. Builds'
  BY <1>a, <1>b, <1>c DEF IInv, Builds, Exists, Constructing, Documents, SwitchAsks, There, disk, timers
<1>7. Start'
  BY <1>a, <1>b, <1>c DEF IInv, Start, Constructing, Documents, SwitchAsks, There, disk, timers
<1>8. Lease'
  BY <1>a, <1>b, <1>c DEF IInv, Lease, AtMostOne, Kept, KeptOwners, Owners, Exists, Documents, SwitchAsks, There, disk, timers
<1> QED BY <1>1, <1>2, <1>3, <1>4, <1>5, <1>6, <1>7, <1>8 DEF IInv

LEMMA ActivateCreatedInvariant == ASSUME IInv, NEW b \in Fresh, ActivateCreated(b) PROVE IInv'
<1>a. b \in Callers /\ b # Boot /\ Boot \in Callers /\ b \in Brains
  BY ActiveModeAssumption DEF Callers, Brains
<1>b. /\ call' \in [Callers -> CallType]
      /\ call'[b].pc = "locking" /\ call'[b].target = b
      /\ call'[b].ids = {b} \cup There
      /\ \A x \in Callers \ {b} : call'[x] = call[x]
  BY <1>a, Asks DEF IInv, ActivateCreated
<1>c. app = "up" /\ There' = There
  BY <1>a DEF IInv, Start, Builds, Constructing, ActivateCreated, There, Exists, disk
<1>1. Documents'
  BY <1>a, <1>b, <1>c DEF IInv, Documents, ActivateCreated, There, disk, timers
<1>2. Times'
  BY <1>a, <1>b, <1>c DEF IInv, Times, Documents, ActivateCreated, There, disk, timers
<1>3. Listed'
  BY <1>a, <1>b, <1>c DEF IInv, Listed, Exists, Documents, ActivateCreated, There, disk, timers
<1>4. Calls'
  BY <1>a, <1>b, <1>c DEF IInv, Calls, Standing, Exists, Documents, ActivateCreated, There, disk, timers
<1>5. Cycle'
  BY <1>a, <1>b, <1>c DEF IInv, Cycle, InFlight, Exists, Documents, ActivateCreated, There, disk, timers
<1>6. Builds'
  BY <1>a, <1>b, <1>c DEF IInv, Builds, Exists, Constructing, Documents, ActivateCreated, There, disk, timers
<1>7. Start'
  BY <1>a, <1>b, <1>c DEF IInv, Start, Constructing, Documents, ActivateCreated, There, disk, timers
<1>8. Lease'
  BY <1>a, <1>b, <1>c DEF IInv, Lease, AtMostOne, Kept, KeptOwners, Owners, Exists, Documents, ActivateCreated, There, disk, timers
<1> QED BY <1>1, <1>2, <1>3, <1>4, <1>5, <1>6, <1>7, <1>8 DEF IInv

LEMMA ActivatedInvariant == ASSUME IInv, NEW b \in Fresh, Activated(b) PROVE IInv'
<1>a. /\ build' \in [Brains -> BuildType] /\ build'[b].pc \in {"over", "copied"} /\ b \in Brains
      /\ build[b].pc = "activating" /\ \A x \in Brains \ {b} : build'[x] = build[x]
  <2>1. PICK r \in BuildType : r.pc \in {"over", "copied"} /\ build' = [build EXCEPT ![b] = r]
    <3>1. PICK reread \in BOOLEAN : build' = [build EXCEPT ![b] =
            IF call[b].pc = "failed" \/ (reread /\ ~Exists(b)) THEN EndedBuild
            ELSE [pc |-> "copied", copy |-> IF reread THEN doc[b].active ELSE TRUE]]
      BY DEF Activated
    <3>2. EndedBuild \in BuildType /\ EndedBuild.pc = "over"
      BY DEF BuildType, NoBuild, EndedBuild
    <3>3. Exists(b) => doc[b].active \in BOOLEAN
      BY DEF IInv, Documents, Exists, Doc, Brains
    <3>4. CASE call[b].pc = "failed" \/ (reread /\ ~Exists(b))
      BY <3>1, <3>2, <3>4
    <3>5. CASE ~(call[b].pc = "failed" \/ (reread /\ ~Exists(b)))
      <4>1. PICK a \in BOOLEAN : a = IF reread THEN doc[b].active ELSE TRUE
        BY <3>3, <3>5
      <4>2. [pc |-> "copied", copy |-> a] \in BuildType
        BY DEF BuildType
      <4> QED BY <3>1, <3>5, <4>1, <4>2
    <3> QED BY <3>4, <3>5
  <2> QED BY <2>1 DEF IInv, Documents, Activated, Brains
<1>1. Documents'
  BY <1>a DEF IInv, Documents, Activated, disk, timers
<1>2. Times'
  BY <1>a DEF IInv, Times, Documents, Activated, disk, timers
<1>3. Listed'
  BY <1>a DEF IInv, Listed, Exists, Documents, Activated, disk, timers
<1>4. Calls'
  BY <1>a DEF IInv, Calls, Standing, Exists, Documents, Activated, disk, timers
<1>5. Cycle'
  BY <1>a DEF IInv, Cycle, InFlight, Exists, Documents, Activated, disk, timers
<1>6. Builds'
  BY <1>a DEF IInv, Builds, Exists, Constructing, Documents, Activated, disk, timers
<1>7. Start'
  BY <1>a DEF IInv, Start, Constructing, Documents, Activated, disk, timers
<1>8. Lease'
  BY <1>a DEF IInv, Lease, AtMostOne, Kept, KeptOwners, Owners, Exists, Documents, Activated, disk, timers
<1> QED BY <1>1, <1>2, <1>3, <1>4, <1>5, <1>6, <1>7, <1>8 DEF IInv

LEMMA BuildEndsInvariant == ASSUME IInv, NEW b \in Brains, BuildEnds(b) PROVE IInv'
<1>a. build' \in [Brains -> BuildType] /\ build'[b].pc = "over" /\ \A x \in Brains \ {b} : build'[x] = build[x]
  BY EndedBuildType DEF IInv, Documents, BuildEnds
<1>1. Documents'
  BY <1>a DEF IInv, Documents, BuildEnds, disk, timers
<1>2. Times'
  BY <1>a DEF IInv, Times, Documents, BuildEnds, disk, timers
<1>3. Listed'
  BY <1>a DEF IInv, Listed, Exists, Documents, BuildEnds, disk, timers
<1>4. Calls'
  BY <1>a DEF IInv, Calls, Standing, Exists, Documents, BuildEnds, disk, timers
<1>5. Cycle'
  BY <1>a DEF IInv, Cycle, InFlight, Exists, Documents, BuildEnds, disk, timers
<1>6. Builds'
  BY <1>a DEF IInv, Builds, Exists, Constructing, Documents, BuildEnds, disk, timers
<1>7. Start'
  BY <1>a DEF IInv, Start, Constructing, Documents, BuildEnds, disk, timers
<1>8. Lease'
  BY <1>a DEF IInv, Lease, AtMostOne, Kept, KeptOwners, Owners, Exists, Documents, BuildEnds, disk, timers
<1> QED BY <1>1, <1>2, <1>3, <1>4, <1>5, <1>6, <1>7, <1>8 DEF IInv

LEMMA ResumeInvariant == ASSUME IInv, NEW b \in Brains, Resume(b) PROVE IInv'
<1>a. /\ build' \in [Brains -> BuildType] /\ build'[b].pc = "resuming" /\ \A x \in Brains \ {b} : build'[x] = build[x]
      /\ app = "up" /\ Exists(b) /\ ~doc[b].ready
  <2>1. doc[b].active \in BOOLEAN
    BY DEF IInv, Documents, Exists, Doc, Resume
  <2>2. [pc |-> "resuming", copy |-> doc[b].active] \in BuildType
    BY <2>1 DEF BuildType
  <2> QED BY <2>2 DEF IInv, Documents, Resume
<1>1. Documents'
  BY <1>a DEF IInv, Documents, Resume, Mishap, disk, timers
<1>2. Times'
  BY <1>a DEF IInv, Times, Documents, Resume, Mishap, disk, timers
<1>3. Listed'
  BY <1>a DEF IInv, Listed, Exists, Documents, Resume, Mishap, disk, timers
<1>4. Calls'
  BY <1>a DEF IInv, Calls, Standing, Exists, Documents, Resume, Mishap, disk, timers
<1>5. Cycle'
  BY <1>a DEF IInv, Cycle, InFlight, Exists, Documents, Resume, Mishap, disk, timers
<1>6. Builds'
  BY <1>a DEF IInv, Builds, Exists, Constructing, Documents, Resume, Mishap, disk, timers
<1>7. Start'
  BY <1>a DEF IInv, Start, Constructing, Documents, Resume, Mishap, disk, timers
<1>8. Lease'
  BY <1>a DEF IInv, Lease, AtMostOne, Kept, KeptOwners, Owners, Exists, Documents, Resume, Mishap, disk, timers
<1> QED BY <1>1, <1>2, <1>3, <1>4, <1>5, <1>6, <1>7, <1>8 DEF IInv

LEMMA BeginInvariant == ASSUME IInv, Begin PROVE IInv'
<1>a. tick' \in TickType /\ tick'.pc = "listing"
  BY NoTickType DEF Begin, TickType, NoTick
<1>1. Documents'
  BY <1>a DEF IInv, Documents, Begin, disk, timers
<1>2. Times'
  BY <1>a DEF IInv, Times, Documents, Begin, disk, timers
<1>3. Listed'
  BY <1>a DEF IInv, Listed, Exists, Documents, Begin, disk, timers
<1>4. Calls'
  BY <1>a DEF IInv, Calls, Standing, Exists, Documents, Begin, disk, timers
<1>5. Cycle'
  BY <1>a DEF IInv, Cycle, InFlight, Exists, Documents, Begin, disk, timers
<1>6. Builds'
  BY <1>a DEF IInv, Builds, Exists, Constructing, Documents, Begin, disk, timers
<1>7. Start'
  BY <1>a DEF IInv, Start, Constructing, Documents, Begin, disk, timers
<1>8. Lease'
  BY <1>a DEF IInv, Lease, AtMostOne, Kept, KeptOwners, Owners, Exists, Documents, Begin, disk, timers
<1> QED BY <1>1, <1>2, <1>3, <1>4, <1>5, <1>6, <1>7, <1>8 DEF IInv

LEMMA ListInvariant == ASSUME IInv, List PROVE IInv'
<1>a. tick' \in TickType /\ tick'.pc \in {"idle", "reading"}
  BY NoTickType DEF IInv, Documents, Listed, List, TickType
<1>1. Documents'
  BY <1>a DEF IInv, Documents, List, disk, timers
<1>2. Times'
  BY <1>a DEF IInv, Times, Documents, List, disk, timers
<1>3. Listed'
  BY <1>a DEF IInv, Listed, Exists, Documents, List, disk, timers
<1>4. Calls'
  BY <1>a DEF IInv, Calls, Standing, Exists, Documents, List, disk, timers
<1>5. Cycle'
  BY <1>a DEF IInv, Cycle, InFlight, Exists, Documents, List, disk, timers
<1>6. Builds'
  BY <1>a DEF IInv, Builds, Exists, Constructing, Documents, List, disk, timers
<1>7. Start'
  BY <1>a DEF IInv, Start, Constructing, Documents, List, disk, timers
<1>8. Lease'
  BY <1>a DEF IInv, Lease, AtMostOne, Kept, KeptOwners, Owners, Exists, Documents, List, disk, timers
<1> QED BY <1>1, <1>2, <1>3, <1>4, <1>5, <1>6, <1>7, <1>8 DEF IInv

LEMMA ReadInvariant == ASSUME IInv, NEW b \in Brains, Read(b) PROVE IInv'
<1>a. tick' \in TickType /\ tick'.pc \in {"idle", "reading"} /\ Times'
  <2>1. CASE ~Exists(b)
    BY <2>1, TickFailsEffect DEF IInv, Read
  <2>2. CASE Exists(b)
    <3> DEFINE seen == [x \in DOMAIN tick.seen \cup {b} |-> IF x = b THEN doc[b] ELSE tick.seen[x]]
    <3>1. doc[b] \in Doc
      BY <2>2 DEF IInv, Documents, Exists
    <3>2. PICK S \in SUBSET Brains : tick.seen \in [S -> Doc]
      BY DEF IInv, Documents, TickType, Seen
    <3>3. seen \in [S \cup {b} -> Doc]
      BY <3>1, <3>2
    <3>4. seen \in Seen
      BY <3>3 DEF Seen
    <3>5. tick' = [tick EXCEPT !.seen = seen] /\ UNCHANGED timers
      BY <2>2 DEF Read
    <3> HIDE DEF seen
    <3> QED BY <3>4, <3>5 DEF IInv, Documents, Times, timers, TickType, Read
  <2> QED BY <2>1, <2>2
<1>1. Documents'
  BY <1>a DEF IInv, Documents, Read, disk, timers
<1>2. Times'
  BY <1>a
<1>3. Listed'
  BY <1>a DEF IInv, Listed, Exists, Documents, Read, disk, timers
<1>4. Calls'
  BY <1>a DEF IInv, Calls, Standing, Exists, Documents, Read, disk, timers
<1>5. Cycle'
  BY <1>a DEF IInv, Cycle, InFlight, Exists, Documents, Read, disk, timers
<1>6. Builds'
  BY <1>a DEF IInv, Builds, Exists, Constructing, Documents, Read, disk, timers
<1>7. Start'
  BY <1>a DEF IInv, Start, Constructing, Documents, Read, disk, timers
<1>8. Lease'
  BY <1>a DEF IInv, Lease, AtMostOne, Kept, KeptOwners, Owners, Exists, Documents, Read, disk, timers
<1> QED BY <1>1, <1>2, <1>3, <1>4, <1>5, <1>6, <1>7, <1>8 DEF IInv
LEMMA AdmitInvariant == ASSUME IInv, NEW work \in {"none", "learning", "chat"}, Admit(work) PROVE IInv'
<1>a. /\ tick' \in TickType /\ tick'.pc \in {"idle", "admitted"} /\ Times'
      /\ tick'.pc = "admitted" => tick'.brain \in Brains
  <2>1. CASE Leased = {}
    BY <2>1, NoTickType DEF IInv, Times, timers, Admit
  <2>2. CASE Leased # {}
    <3>1. PICK b \in Leased : b = First(tick.ids, Leased)
      <4>1. ToSet(tick.ids) = Range(tick.ids) /\ tick.ids \in Seq(Brains)
        BY DEF IInv, Documents, TickType, ToSet, Range
      <4>2. PICK x \in Leased : x \in Range(tick.ids)
        BY <2>2, <4>1 DEF Leased
      <4> QED BY <4>1, <4>2, FirstOf
    <3>2. b \in Brains
      BY <3>1 DEF IInv, Documents, TickType, Leased, ToSet
    <3>3. CASE ~tick.seen[b].ready \/ work = "learning"
      <4>1. Pause(b)
        BY <2>2, <3>1, <3>3 DEF Admit
      <4>2. Settle \in Nat
        BY ActiveModeAssumption
      <4>3. quiet' \in [Brains -> Nat] /\ due' \in [Brains -> Nat] /\ backoff' = backoff
        BY <3>2, <4>1, <4>2 DEF IInv, Times, Pause
      <4>4. \A x \in Brains : due'[x] <= quiet'[x]
        BY <3>2, <4>1, <4>2 DEF IInv, Times, Pause
      <4> QED BY <4>1, <4>3, <4>4, NoTickType DEF IInv, Times, Pause
    <3>4. CASE ~(~tick.seen[b].ready \/ work = "learning")
      <4> DEFINE r == [NoTick EXCEPT !.pc = "admitted", !.brain = b]
      <4>1. (tick' = NoTick \/ tick' = r) /\ UNCHANGED timers
        BY <2>2, <3>1, <3>4 DEF Admit
      <4>2. r \in TickType /\ r.pc = "admitted" /\ r.brain = b
        BY <3>2, NoTickType DEF NoTick, TickType
      <4> HIDE DEF r
      <4> QED BY <3>2, <4>1, <4>2, NoTickType DEF IInv, Times, timers
    <3> QED BY <3>3, <3>4
  <2> QED BY <2>1, <2>2
<1>1. Documents'
  BY <1>a DEF IInv, Documents, Admit, disk, timers
<1>2. Times'
  BY <1>a
<1>3. Listed'
  BY <1>a DEF IInv, Listed, Exists, Documents, Admit, disk, timers
<1>4. Calls'
  BY <1>a DEF IInv, Calls, Standing, Exists, Documents, Admit, disk, timers
<1>5. Cycle'
  BY <1>a DEF IInv, Cycle, InFlight, Exists, Documents, Admit, disk, timers
<1>6. Builds'
  BY <1>a DEF IInv, Builds, Exists, Constructing, Documents, Admit, disk, timers
<1>7. Start'
  BY <1>a DEF IInv, Start, Constructing, Documents, Admit, disk, timers
<1>8. Lease'
  BY <1>a DEF IInv, Lease, AtMostOne, Kept, KeptOwners, Owners, Exists, Documents, Admit, disk, timers
<1> QED BY <1>1, <1>2, <1>3, <1>4, <1>5, <1>6, <1>7, <1>8 DEF IInv

LEMMA CycleDeferredInvariant == ASSUME IInv, CycleDeferred PROVE IInv'
<1>a. Times' /\ tick' \in TickType /\ tick'.pc = "idle"
  BY FinishEffect DEF IInv, Cycle, InFlight, CycleDeferred
<1>b. /\ writer' \in [Brains -> Callers \cup {"cycle", None}]
      /\ \A b \in Brains : writer[b] # "cycle" => writer'[b] = writer[b]
  BY Releases DEF IInv, CycleDeferred
<1>1. Documents'
  BY <1>a, <1>b, BootCalls DEF IInv, Documents, CycleDeferred, disk, timers
<1>2. Times'
  BY <1>a
<1>3. Listed'
  BY <1>a, <1>b, BootCalls DEF IInv, Listed, Exists, Documents, CycleDeferred, disk, timers
<1>4. Calls'
  BY <1>b, BootCalls, CallKept DEF IInv, Calls, CycleDeferred, disk, Exists
<1>5. Cycle'
  BY <1>a, <1>b, BootCalls DEF IInv, Cycle, InFlight, Exists, Documents, CycleDeferred, disk, timers
<1>6. Builds'
  BY <1>a, <1>b, BootCalls DEF IInv, Builds, Exists, Constructing, Documents, CycleDeferred, disk, timers
<1>7. Start'
  BY <1>a, <1>b, BootCalls DEF IInv, Start, Constructing, Documents, CycleDeferred, disk, timers
<1>8. Lease'
  BY <1>a, <1>b, BootCalls DEF IInv, Lease, AtMostOne, Kept, KeptOwners, Owners, Exists, Documents, CycleDeferred, disk, timers
<1> QED BY <1>1, <1>2, <1>3, <1>4, <1>5, <1>6, <1>7, <1>8 DEF IInv

LEMMA CycleFailsInvariant == ASSUME IInv, CycleFails PROVE IInv'
<1>a. Times' /\ tick' \in TickType /\ tick'.pc = "idle"
  BY TickFailsEffect DEF IInv, CycleFails
<1>b. /\ writer' \in [Brains -> Callers \cup {"cycle", None}]
      /\ \A b \in Brains : writer[b] # "cycle" => writer'[b] = writer[b]
  BY Releases DEF IInv, CycleFails
<1>1. Documents'
  BY <1>a, <1>b, BootCalls DEF IInv, Documents, CycleFails, Mishap, disk, timers
<1>2. Times'
  BY <1>a
<1>3. Listed'
  BY <1>a, <1>b, BootCalls DEF IInv, Listed, Exists, Documents, CycleFails, Mishap, disk, timers
<1>4. Calls'
  BY <1>b, BootCalls, CallKept DEF IInv, Calls, CycleFails, disk, Exists
<1>5. Cycle'
  BY <1>a, <1>b, BootCalls DEF IInv, Cycle, InFlight, Exists, Documents, CycleFails, Mishap, disk, timers
<1>6. Builds'
  BY <1>a, <1>b, BootCalls DEF IInv, Builds, Exists, Constructing, Documents, CycleFails, Mishap, disk, timers
<1>7. Start'
  BY <1>a, <1>b, BootCalls DEF IInv, Start, Constructing, Documents, CycleFails, Mishap, disk, timers
<1>8. Lease'
  BY <1>a, <1>b, BootCalls DEF IInv, Lease, AtMostOne, Kept, KeptOwners, Owners, Exists, Documents, CycleFails, Mishap, disk, timers
<1> QED BY <1>1, <1>2, <1>3, <1>4, <1>5, <1>6, <1>7, <1>8 DEF IInv

LEMMA CycleEndsInvariant == ASSUME IInv, CycleEnds PROVE IInv'
<1>a. Times' /\ tick' \in TickType /\ tick'.pc = "idle"
  BY FinishEffect DEF IInv, Cycle, InFlight, CycleEnds
<1>1. Documents'
  BY <1>a DEF IInv, Documents, CycleEnds, disk, timers
<1>2. Times'
  BY <1>a
<1>3. Listed'
  BY <1>a DEF IInv, Listed, Exists, Documents, CycleEnds, disk, timers
<1>4. Calls'
  BY <1>a DEF IInv, Calls, Standing, Exists, Documents, CycleEnds, disk, timers
<1>5. Cycle'
  BY <1>a DEF IInv, Cycle, InFlight, Exists, Documents, CycleEnds, disk, timers
<1>6. Builds'
  BY <1>a DEF IInv, Builds, Exists, Constructing, Documents, CycleEnds, disk, timers
<1>7. Start'
  BY <1>a DEF IInv, Start, Constructing, Documents, CycleEnds, disk, timers
<1>8. Lease'
  BY <1>a DEF IInv, Lease, AtMostOne, Kept, KeptOwners, Owners, Exists, Documents, CycleEnds, disk, timers
<1> QED BY <1>1, <1>2, <1>3, <1>4, <1>5, <1>6, <1>7, <1>8 DEF IInv

LEMMA EnterCycleInvariant == ASSUME IInv, EnterCycle PROVE IInv'
<1>a. tick.brain \in Brains
  BY DEF IInv, Cycle, InFlight, EnterCycle
<1>b. /\ tick' \in TickType /\ Times'
      /\ \/ tick'.pc = "idle" /\ writer' = writer
         \/ /\ tick'.pc = "worker" /\ tick'.brain = tick.brain
            /\ Exists(tick.brain) /\ doc[tick.brain].ready /\ tick'.copy = doc[tick.brain].active
            /\ writer' = [writer EXCEPT ![tick.brain] = "cycle"] /\ writer[tick.brain] = None
  <2>1. CASE ~Exists(tick.brain)
    BY <2>1, TickFailsEffect DEF IInv, EnterCycle
  <2>2. CASE Exists(tick.brain) /\ Finish /\ UNCHANGED writer
    BY <1>a, <2>2, FinishEffect DEF IInv
  <2>3. CASE /\ Exists(tick.brain) /\ doc[tick.brain].ready
             /\ tick' = [tick EXCEPT !.pc = "worker", !.copy = doc[tick.brain].active]
             /\ writer' = [writer EXCEPT ![tick.brain] = "cycle"] /\ UNCHANGED timers
    <3>1. doc[tick.brain].active \in BOOLEAN
      BY <1>a, <2>3 DEF IInv, Documents, Doc, Exists
    <3> QED BY <1>a, <2>3, <3>1 DEF IInv, Documents, TickType, Times, timers, EnterCycle, Free
  <2> QED BY <2>1, <2>2, <2>3 DEF EnterCycle
<1>1. Documents'
  BY <1>a, <1>b DEF IInv, Documents, EnterCycle, Free, disk, timers
<1>2. Times'
  BY <1>b
<1>3. Listed'
  BY <1>a, <1>b DEF IInv, Listed, Exists, Documents, EnterCycle, Free, disk, timers
<1>4. Calls'
  <2>1. SUFFICES ASSUME NEW x \in Callers PROVE Standing(x)'
    BY DEF Calls
  <2>2. \A b \in Brains : writer[b] = x => writer'[b] = x
    BY <1>a, <1>b, <2>1, BootCalls DEF IInv, Documents
  <2> QED BY <2>1, <2>2, CallKept DEF IInv, Calls, EnterCycle, disk, Exists
<1>5. Cycle'
  <2>1. doc[tick.brain] \in Doc \cup {None}
    BY <1>a DEF IInv, Documents
  <2>2. Exists(tick.brain) => doc[tick.brain] = [active |-> doc[tick.brain].active, ready |-> doc[tick.brain].ready] /\ doc[tick.brain].ready \in BOOLEAN
    BY <2>1 DEF Exists, Doc
  <2> QED BY <1>a, <1>b, <2>2 DEF IInv, Documents, Cycle, InFlight, Exists, EnterCycle, disk
<1>6. Builds'
  BY <1>a, <1>b DEF IInv, Builds, Exists, Constructing, Documents, EnterCycle, Free, disk, timers
<1>7. Start'
  BY <1>a, <1>b DEF IInv, Start, Constructing, Documents, EnterCycle, Free, disk, timers
<1>8. Lease'
  BY <1>a, <1>b DEF IInv, Lease, AtMostOne, Kept, KeptOwners, Owners, Exists, Documents, EnterCycle, Free, disk, timers
<1> QED BY <1>1, <1>2, <1>3, <1>4, <1>5, <1>6, <1>7, <1>8 DEF IInv

LEMMA ElapseInvariant == ASSUME IInv, Elapse PROVE IInv'
<1>a. Times'
  <2>1. \A n \in Nat : Less(n) \in Nat
    BY DEF Less
  <2>2. quiet' \in [Brains -> Nat] /\ due' \in [Brains -> Nat] /\ backoff' \in Nat
    BY <2>1 DEF IInv, Times, Elapse
  <2>3. \A m, n \in Nat : m <= n => Less(m) <= Less(n)
    BY DEF Less
  <2>4. \A b \in Brains : due'[b] <= quiet'[b]
    BY <2>3 DEF IInv, Times, Elapse
  <2> QED BY <2>2, <2>4 DEF Times
<1>1. Documents'
  BY <1>a DEF IInv, Documents, Elapse, disk, timers
<1>2. Times'
  BY <1>a
<1>3. Listed'
  BY <1>a DEF IInv, Listed, Exists, Documents, Elapse, disk, timers
<1>4. Calls'
  BY <1>a DEF IInv, Calls, Standing, Exists, Documents, Elapse, disk, timers
<1>5. Cycle'
  BY <1>a DEF IInv, Cycle, InFlight, Exists, Documents, Elapse, disk, timers
<1>6. Builds'
  BY <1>a DEF IInv, Builds, Exists, Constructing, Documents, Elapse, disk, timers
<1>7. Start'
  BY <1>a DEF IInv, Start, Constructing, Documents, Elapse, disk, timers
<1>8. Lease'
  BY <1>a DEF IInv, Lease, AtMostOne, Kept, KeptOwners, Owners, Exists, Documents, Elapse, disk, timers
<1> QED BY <1>1, <1>2, <1>3, <1>4, <1>5, <1>6, <1>7, <1>8 DEF IInv

LEMMA UserCancelsInvariant == ASSUME IInv, UserCancels PROVE IInv'
<1>b. /\ Times' /\ tick' \in TickType
      /\ tick'.pc = tick.pc /\ tick'.brain = tick.brain /\ tick'.copy = tick.copy
  BY CancelEffect DEF IInv, Cycle, UserCancels
<1>1. Documents'
  BY <1>b DEF IInv, Documents, UserCancels, Mishap, disk, timers
<1>2. Times'
  BY <1>b
<1>3. Listed'
  BY <1>b DEF IInv, Listed, Exists, Documents, UserCancels, Mishap, disk, timers
<1>4. Calls'
  BY <1>b DEF IInv, Calls, Standing, Exists, Documents, UserCancels, Mishap, disk, timers
<1>5. Cycle'
  BY <1>b DEF IInv, Cycle, InFlight, Exists, Documents, UserCancels, Mishap, disk, timers
<1>6. Builds'
  BY <1>b DEF IInv, Builds, Exists, Constructing, Documents, UserCancels, Mishap, disk, timers
<1>7. Start'
  BY <1>b DEF IInv, Start, Constructing, Documents, UserCancels, Mishap, disk, timers
<1>8. Lease'
  BY <1>b DEF IInv, Lease, AtMostOne, Kept, KeptOwners, Owners, Exists, Documents, UserCancels, Mishap, disk, timers
<1> QED BY <1>1, <1>2, <1>3, <1>4, <1>5, <1>6, <1>7, <1>8 DEF IInv

LEMMA SwitchInvariant == ASSUME IInv, NEW c \in Switches, NEW target \in Brains, NEW enabled \in BOOLEAN, Switch(c, target, enabled) PROVE IInv'
<1>a. c \in Callers /\ c # Boot /\ Boot \in Callers
  BY ActiveModeAssumption DEF Callers
<1>b. /\ Times' /\ tick' \in TickType
      /\ tick'.pc = tick.pc /\ tick'.brain = tick.brain /\ tick'.copy = tick.copy
  <2>1. CASE CancelActive
    BY <2>1, CancelEffect DEF IInv, Cycle
  <2>2. CASE UNCHANGED <<timers, tick>>
    BY <2>2 DEF IInv, Documents, Times, timers
  <2> QED BY <2>1, <2>2 DEF Switch
<1>c. /\ call' \in [Callers -> CallType] /\ call'[c].pc = "cancelling" /\ call'[c].target = target
      /\ \A x \in Callers \ {c} : call'[x] = call[x]
  <2> DEFINE r == [NoCall EXCEPT !.pc = "cancelling", !.target = target, !.enabled = enabled]
  <2>1. r \in CallType /\ r.pc = "cancelling" /\ r.target = target
    BY DEF CallType, NoCall
  <2>2. call' = [call EXCEPT ![c] = r]
    BY DEF Switch
  <2> HIDE DEF r
  <2> QED BY <1>a, <2>1, <2>2 DEF IInv, Documents
<1>1. Documents'
  BY <1>a, <1>b, <1>c DEF IInv, Documents, Switch, disk, timers
<1>2. Times'
  BY <1>b
<1>3. Listed'
  BY <1>a, <1>b, <1>c DEF IInv, Listed, Exists, Documents, Switch, disk, timers
<1>4. Calls'
  BY <1>a, <1>b, <1>c DEF IInv, Calls, Standing, Exists, Documents, Switch, disk, timers
<1>5. Cycle'
  BY <1>a, <1>b, <1>c DEF IInv, Cycle, InFlight, Exists, Documents, Switch, disk, timers
<1>6. Builds'
  BY <1>a, <1>b, <1>c DEF IInv, Builds, Exists, Constructing, Documents, Switch, disk, timers
<1>7. Start'
  BY <1>a, <1>b, <1>c DEF IInv, Start, Constructing, Documents, Switch, disk, timers
<1>8. Lease'
  BY <1>a, <1>b, <1>c DEF IInv, Lease, AtMostOne, Kept, KeptOwners, Owners, Exists, Documents, Switch, disk, timers
<1> QED BY <1>1, <1>2, <1>3, <1>4, <1>5, <1>6, <1>7, <1>8 DEF IInv

LEMMA ChatCancelledInvariant == ASSUME IInv, NEW b \in Brains, ChatCancelled(b) PROVE IInv'
<1>a. Times'
  BY ReserveEffect DEF IInv, ChatCancelled
<1>1. Documents'
  BY <1>a DEF IInv, Documents, ChatCancelled, Mishap, disk, timers
<1>2. Times'
  BY <1>a
<1>3. Listed'
  BY <1>a DEF IInv, Listed, Exists, Documents, ChatCancelled, Mishap, disk, timers
<1>4. Calls'
  BY <1>a DEF IInv, Calls, Standing, Exists, Documents, ChatCancelled, Mishap, disk, timers
<1>5. Cycle'
  BY <1>a DEF IInv, Cycle, InFlight, Exists, Documents, ChatCancelled, Mishap, disk, timers
<1>6. Builds'
  BY <1>a DEF IInv, Builds, Exists, Constructing, Documents, ChatCancelled, Mishap, disk, timers
<1>7. Start'
  BY <1>a DEF IInv, Start, Constructing, Documents, ChatCancelled, Mishap, disk, timers
<1>8. Lease'
  BY <1>a DEF IInv, Lease, AtMostOne, Kept, KeptOwners, Owners, Exists, Documents, ChatCancelled, Mishap, disk, timers
<1> QED BY <1>1, <1>2, <1>3, <1>4, <1>5, <1>6, <1>7, <1>8 DEF IInv

LEMMA SectionFailsInvariant == ASSUME IInv, NEW c \in Callers, SectionFails(c) PROVE IInv'
<1>a. /\ call' \in [Callers -> CallType] /\ call'[c].pc = "failed"
      /\ \A x \in Callers \ {c} : call'[x] = call[x]
  BY Settles DEF IInv, SectionFails, Outcomes
<1>b. /\ writer' \in [Brains -> Callers \cup {"cycle", None}]
      /\ \A b \in Brains : writer[b] # c => writer'[b] = writer[b]
  BY Releases DEF IInv, SectionFails
<1>1. Documents'
  BY <1>a, <1>b, BootCalls DEF IInv, Documents, SectionFails, Mishap, disk, timers
<1>2. Times'
  BY <1>a, <1>b, BootCalls DEF IInv, Times, Documents, SectionFails, Mishap, disk, timers
<1>3. Listed'
  BY <1>a, <1>b, BootCalls DEF IInv, Listed, Exists, Documents, SectionFails, Mishap, disk, timers
<1>4. Calls'
  <2>1. Standing(c)'
    BY <1>a DEF Standing
  <2>2. ASSUME NEW x \in Callers \ {c} PROVE Standing(x)'
    BY <1>a, <1>b, <2>2, CallKept DEF IInv, Calls, SectionFails, disk, Exists
  <2> QED BY <2>1, <2>2 DEF Calls
<1>5. Cycle'
  BY <1>a, <1>b, BootCalls DEF IInv, Cycle, InFlight, Exists, Documents, SectionFails, Mishap, disk, timers
<1>6. Builds'
  BY <1>a, <1>b, BootCalls DEF IInv, Builds, Exists, Constructing, Documents, SectionFails, Mishap, disk, timers
<1>7. Start'
  BY <1>a, <1>b, BootCalls DEF IInv, Start, Constructing, Documents, SectionFails, Mishap, disk, timers
<1>8. Lease'
  BY <1>a, <1>b, BootCalls DEF IInv, Lease, AtMostOne, Kept, KeptOwners, Owners, Exists, Documents, SectionFails, Mishap, disk, timers
<1> QED BY <1>1, <1>2, <1>3, <1>4, <1>5, <1>6, <1>7, <1>8 DEF IInv
-----------------------------------------------------------------------------
(* Start, and sections.                                                    *)

LEMMA RestartInvariant == ASSUME IInv, Restart PROVE IInv'
<1>a. /\ call' \in [Callers -> CallType] /\ call'[Boot].pc = "none"
      /\ \A x \in Callers : call'[x].pc \in {"none", "failed"}
  <2>1. NoCall \in CallType /\ [NoCall EXCEPT !.pc = "failed"] \in CallType
        /\ NoCall.pc = "none" /\ [NoCall EXCEPT !.pc = "failed"].pc = "failed"
    BY DEF NoCall, CallType
  <2> QED BY <2>1, BootCalls DEF Restart
<1>b. /\ build' \in [Brains -> BuildType]
      /\ \A b \in Brains : build'[b].pc = "over" \/ (build'[b].pc = "none" /\ build[b].pc = "none")
  <2>1. NoBuild \in BuildType /\ EndedBuild \in BuildType
        /\ NoBuild.pc = "none" /\ EndedBuild.pc = "over"
    BY DEF NoBuild, EndedBuild, BuildType
  <2> QED BY <2>1 DEF Restart
<1>1. Documents'
  <2>1. writer' \in [Brains -> Callers \cup {"cycle", None}] /\ mishaps' \in Nat
    BY DEF IInv, Documents, Restart, Mishap
  <2>2. tick' \in TickType /\ app' = "booting" /\ written' = {} /\ doc' = doc
    BY NoTickType DEF Restart, disk
  <2> QED BY <1>a, <1>b, <2>1, <2>2 DEF IInv, Documents
<1>2. Times'
  BY <1>a, <1>b, NoTickType, BootCalls DEF IInv, Times, Documents, Restart, Mishap, disk, timers
<1>3. Listed'
  BY <1>a, <1>b, NoTickType, BootCalls DEF IInv, Listed, Exists, Documents, Restart, Mishap, disk, timers
<1>4. Calls'
  BY <1>a, <1>b, NoTickType, BootCalls DEF IInv, Calls, Standing, Exists, Documents, Restart, Mishap, disk, timers
<1>5. Cycle'
  BY <1>a, <1>b, NoTickType, BootCalls DEF IInv, Cycle, InFlight, Exists, Documents, Restart, Mishap, disk, timers
<1>6. Builds'
  BY <1>a, <1>b, NoTickType, BootCalls DEF IInv, Builds, Exists, Constructing, Documents, Restart, Mishap, disk, timers
<1>7. Start'
  BY <1>a, <1>b, NoTickType, BootCalls DEF IInv, Start, Constructing, Documents, Restart, Mishap, disk, timers
<1>8. Lease'
  BY <1>a, <1>b, NoTickType, BootCalls DEF IInv, Lease, AtMostOne, Kept, KeptOwners, Owners, Exists, Documents, Restart, Mishap, disk, timers
<1> QED BY <1>1, <1>2, <1>3, <1>4, <1>5, <1>6, <1>7, <1>8 DEF IInv

LEMMA ReconcileInvariant == ASSUME IInv, Reconcile PROVE IInv'
<1>a. IsFiniteSet(Owners)
  <2>1. IsFiniteSet(Brains) /\ Owners \subseteq Brains
    BY ActiveModeAssumption DEF Owners
  <2> QED BY <2>1, FS_Subset
<1>b. \/ app' = "up" /\ call' = call /\ AtMostOne
      \/ /\ app' = app /\ call' \in [Callers -> CallType]
         /\ call'[Boot].pc = "locking" /\ call'[Boot].target \in Brains /\ call'[Boot].enabled
         /\ call'[Boot].ids = {call'[Boot].target} \cup There
         /\ \A x \in Callers \ {Boot} : call'[x] = call[x]
  <2>1. CASE Cardinality(Owners) <= 1
    <3>1. ASSUME NEW a \in Owners, NEW b \in Owners, a # b PROVE FALSE
      <4>1. {a, b} \subseteq Owners /\ Cardinality({a, b}) = 2
        <5>1. IsFiniteSet({a}) /\ Cardinality({a}) = 1
          BY FS_Singleton
        <5>2. Cardinality({a} \cup {b}) = Cardinality({a}) + 1
          <6>1. b \notin {a}
            BY <3>1
          <6> QED BY <5>1, <6>1, FS_AddElement
        <5>3. {a} \cup {b} = {a, b}
          OBVIOUS
        <5> QED BY <3>1, <5>1, <5>2, <5>3
      <4>2. Cardinality({a, b}) <= Cardinality(Owners)
        BY <1>a, <4>1, FS_Subset
      <4> QED BY <1>a, <2>1, <4>1, <4>2, FS_CardinalityType
    <3> QED BY <2>1, <3>1 DEF Reconcile, AtMostOne, KeptOwners
  <2>2. CASE ~(Cardinality(Owners) <= 1)
    <3>1. Owners # {}
      <4>1. Cardinality({}) = 0
        BY FS_EmptySet
      <4> QED BY <2>2, <4>1
    <3>2. PICK b \in Owners : b = First(newest, Owners)
      <4>1. PICK x \in Owners : x \in Range(newest)
        BY <3>1 DEF IInv, Listed, Owners
      <4> QED BY <4>1, FirstOf DEF IInv, Listed
    <3>3. b \in Brains
      BY <3>2 DEF Owners
    <3>4. Ask(Boot, b, TRUE) /\ app' = app
      BY <2>2, <3>2 DEF Reconcile, Newest
    <3> QED BY <3>3, <3>4, Asks, BootCalls DEF IInv
  <2> QED BY <2>1, <2>2
<1>1. Documents'
  BY <1>a, <1>b, BootCalls DEF IInv, Documents, Reconcile, disk, timers
<1>2. Times'
  BY <1>a, <1>b, BootCalls DEF IInv, Times, Documents, Reconcile, disk, timers
<1>3. Listed'
  BY <1>a, <1>b, BootCalls DEF IInv, Listed, Exists, Documents, Reconcile, disk, timers
<1>4. Calls'
  BY <1>a, <1>b, BootCalls DEF IInv, Calls, Standing, Exists, Documents, Reconcile, disk, timers
<1>5. Cycle'
  BY <1>a, <1>b, BootCalls DEF IInv, Cycle, InFlight, Exists, Documents, Reconcile, disk, timers
<1>6. Builds'
  BY <1>a, <1>b, BootCalls DEF IInv, Builds, Exists, Constructing, Documents, Reconcile, disk, timers
<1>7. Start'
  BY <1>a, <1>b, BootCalls DEF IInv, Start, Constructing, Documents, Reconcile, disk, timers
<1>8. Lease'
  <2>1. There' = There /\ Owners' = Owners /\ written' = written
    BY DEF Reconcile, disk, There, Owners, Exists
  <2>2. (AtMostOne => AtMostOne') /\ Kept' = Kept /\ KeptOwners' = KeptOwners /\ Kept \subseteq There
    BY <2>1 DEF AtMostOne, Kept, KeptOwners, There
  <2>3. app = "booting" /\ call[Boot].pc = "none"
    BY DEF Reconcile
  <2> QED BY <1>b, <2>1, <2>2, <2>3, BootCalls DEF IInv, Lease, Start
<1> QED BY <1>1, <1>2, <1>3, <1>4, <1>5, <1>6, <1>7, <1>8 DEF IInv

LEMMA EnterSectionInvariant == ASSUME IInv, NEW c \in Callers, EnterSection(c) PROVE IInv'
<1>a. /\ call[c] \in CallType /\ call[c].ids \subseteq Brains /\ call[c].target \in call[c].ids
      /\ call[c].target \in Brains /\ call[c].pc = "locking" /\ \A b \in call[c].ids : writer[b] = None
  BY DEF IInv, Documents, CallType, Calls, Standing, EnterSection, Free
<1>b. \/ /\ call' \in [Callers -> CallType] /\ call'[c].pc = "failed" /\ writer' = writer
         /\ \A x \in Callers \ {c} : call'[x] = call[x]
      \/ /\ call' \in [Callers -> CallType] /\ call'[c].pc = "section"
         /\ call'[c].target = call[c].target /\ call'[c].ids = call[c].ids /\ call'[c].enabled = call[c].enabled
         /\ call'[c].left = IF call[c].enabled THEN (Owners \cap call[c].ids) \ {call[c].target} ELSE {}
         /\ \A x \in Callers \ {c} : call'[x] = call[x]
         /\ \A b \in call[c].ids : Exists(b)
         /\ writer' \in [Brains -> Callers \cup {"cycle", None}]
         /\ \A b \in Brains : writer'[b] = IF b \in call[c].ids THEN c ELSE writer[b]
  <2>1. CASE \A b \in call[c].ids : Exists(b)
    <3> DEFINE r == [call[c] EXCEPT !.pc = "section", !.active = doc[call[c].target].active,
                       !.left = IF call[c].enabled THEN (Owners \cap call[c].ids) \ {call[c].target} ELSE {}]
    <3>1. doc[call[c].target].active \in BOOLEAN
      BY <1>a, <2>1 DEF IInv, Documents, Doc, Exists
    <3>2. /\ r \in CallType /\ r.pc = "section" /\ r.target = call[c].target /\ r.ids = call[c].ids
          /\ r.enabled = call[c].enabled
          /\ r.left = IF call[c].enabled THEN (Owners \cap call[c].ids) \ {call[c].target} ELSE {}
      BY <1>a, <3>1 DEF CallType
    <3>3. call' = [call EXCEPT ![c] = r]
      BY <2>1 DEF EnterSection
    <3> HIDE DEF r
    <3>4. /\ call' \in [Callers -> CallType] /\ call'[c] = r /\ \A x \in Callers \ {c} : call'[x] = call[x]
      BY <3>2, <3>3 DEF IInv, Documents
    <3>5. /\ writer' \in [Brains -> Callers \cup {"cycle", None}]
          /\ \A b \in Brains : writer'[b] = IF b \in call[c].ids THEN c ELSE writer[b]
      BY <2>1 DEF EnterSection, IInv, Documents
    <3> QED BY <2>1, <3>2, <3>4, <3>5
  <2>2. CASE ~\A b \in call[c].ids : Exists(b)
    BY <2>2, Settles DEF IInv, EnterSection, Outcomes
  <2> QED BY <2>1, <2>2
<1>1. Documents'
  BY <1>a, <1>b, BootCalls DEF IInv, Documents, EnterSection, Free, disk, timers
<1>2. Times'
  BY <1>a, <1>b, BootCalls DEF IInv, Times, Documents, EnterSection, Free, disk, timers
<1>3. Listed'
  BY <1>a, <1>b, BootCalls DEF IInv, Listed, Exists, Documents, EnterSection, Free, disk, timers
<1>4. Calls'
  <2>1. Standing(c)'
    BY <1>a, <1>b DEF Standing, EnterSection, disk, Exists
  <2>2. ASSUME NEW x \in Callers \ {c} PROVE Standing(x)'
    <3>1. \A b \in Brains : writer[b] = x => writer'[b] = x
      BY <1>a, <1>b, <2>2, BootCalls DEF IInv, Documents
    <3> QED BY <1>b, <2>2, <3>1, CallKept DEF IInv, Calls, EnterSection, disk, Exists
  <2> QED BY <2>1, <2>2 DEF Calls
<1>5. Cycle'
  BY <1>a, <1>b, BootCalls DEF IInv, Cycle, InFlight, Exists, Documents, EnterSection, Free, disk, timers
<1>6. Builds'
  BY <1>a, <1>b, BootCalls DEF IInv, Builds, Exists, Constructing, Documents, EnterSection, Free, disk, timers
<1>7. Start'
  BY <1>a, <1>b, BootCalls DEF IInv, Start, Constructing, Documents, EnterSection, Free, disk, timers
<1>8. Lease'
  <2>1. There' = There /\ Owners' = Owners /\ written' = written /\ app' = app
    BY DEF EnterSection, disk, There, Owners, Exists
  <2>2. (AtMostOne => AtMostOne') /\ Kept' = Kept /\ KeptOwners' = KeptOwners
    BY <2>1 DEF AtMostOne, Kept, KeptOwners, There
  <2>3. KeptOwners \subseteq Kept /\ KeptOwners \subseteq Owners
    BY DEF Owners, Kept, KeptOwners
  <2> QED BY <1>a, <1>b, <2>1, <2>2, <2>3, BootCalls DEF IInv, Lease
<1> QED BY <1>1, <1>2, <1>3, <1>4, <1>5, <1>6, <1>7, <1>8 DEF IInv
-----------------------------------------------------------------------------
(* Steps that write a document.                                            *)

LEMMA CreateInvariant == ASSUME IInv, NEW b \in Fresh, Create(b) PROVE IInv'
<1>a. b \in Brains /\ [active |-> TRUE, ready |-> FALSE] \in Doc /\ ~Exists(b)
  BY DEF Brains, Doc, IInv, Builds, Create
<1>b. /\ doc' \in [Brains -> Doc \cup {None}] /\ doc'[b] = [active |-> TRUE, ready |-> FALSE] /\ [active |-> TRUE, ready |-> FALSE] # None
      /\ \A x \in Brains \ {b} : doc'[x] = doc[x]
      /\ \A x \in Brains : Exists(x)' <=> x = b \/ Exists(x)
      /\ There' = There \cup {b} /\ Listed'
  BY <1>a, Saves DEF IInv, Create
<1>1. Documents'
  BY <1>a, <1>b DEF IInv, Documents, Create, BuildType, disk, timers
<1>2. Times'
  BY <1>a, <1>b DEF IInv, Times, Documents, Create, BuildType, disk, timers
<1>3. Listed'
  BY <1>b
<1>4. Calls'
  <2>1. SUFFICES ASSUME NEW x \in Callers PROVE Standing(x)'
    BY DEF Calls
  <2> QED BY <1>a, <1>b, <2>1, CallKept DEF IInv, Calls, Create
<1>5. Cycle'
  BY <1>a, <1>b DEF IInv, Cycle, InFlight, Exists, Documents, Create, BuildType, disk, timers
<1>6. Builds'
  <2>1. build'[b].pc = "activating" /\ \A x \in Brains \ {b} : build'[x] = build[x]
    BY <1>a DEF IInv, Documents, BuildType, Create
  <2> QED BY <1>a, <1>b, <2>1 DEF IInv, Builds
<1>7. Start'
  BY <1>a, <1>b DEF IInv, Start, Constructing, Documents, Create, BuildType, disk, timers
<1>8. Lease'
  <2>1. Kept' = Kept /\ KeptOwners' = KeptOwners /\ app' = app /\ call' = call
    BY <1>a, <1>b DEF Create, Kept, KeptOwners, Owners
  <2> QED BY <2>1 DEF IInv, Lease, AtMostOne
<1> QED BY <1>1, <1>2, <1>3, <1>4, <1>5, <1>6, <1>7, <1>8 DEF IInv

(* Either save of a Build; its brain is not among the kept ones then.       *)
LEMMA BuildSavesInvariant == ASSUME IInv, NEW b \in Brains, SaveBuilt(b) \/ SaveResumed(b) PROVE IInv'
<1>1. PICK d : d = [active |-> build[b].copy, ready |-> FALSE]
  OBVIOUS
<1>2. d \in Doc /\ ~d.ready /\ build[b].pc \in Constructing /\ (Exists(b) => ~doc[b].ready)
  BY <1>1 DEF Doc, IInv, Documents, BuildType, Builds, Constructing, SaveBuilt, SaveResumed
<1>3. /\ Save(b, d) /\ written' = written \cup {b}
      /\ UNCHANGED <<writer, app, call, tick, timers, mishaps>>
  BY <1>1 DEF SaveBuilt, SaveResumed
<1>4. /\ build' \in [Brains -> BuildType] /\ build'[b].pc \in {"building", "over"}
      /\ \A x \in Brains \ {b} : build'[x] = build[x]
  <2>1. \A x \in BuildType : [x EXCEPT !.pc = "building"] \in BuildType /\ [x EXCEPT !.pc = "building"].pc = "building"
    BY DEF BuildType
  <2>2. build[b] \in BuildType
    BY DEF IInv, Documents
  <2>3. PICK e \in BuildType : e.pc \in {"building", "over"} /\ build' = [build EXCEPT ![b] = e]
    <3>1. CASE SaveResumed(b)
      BY <3>1, EndedBuildType DEF SaveResumed
    <3>2. CASE SaveBuilt(b)
      BY <2>1, <2>2, <3>2, EndedBuildType DEF SaveBuilt
    <3> QED BY <3>1, <3>2
  <2> QED BY <2>3 DEF IInv, Documents
<1>5. /\ doc' \in [Brains -> Doc \cup {None}] /\ doc'[b] = d /\ d # None
      /\ \A x \in Brains \ {b} : doc'[x] = doc[x]
      /\ \A x \in Brains : Exists(x)' <=> x = b \/ Exists(x)
      /\ There' = There \cup {b} /\ Listed'
  BY <1>2, <1>3, Saves DEF IInv
<1>6. Documents'
  BY <1>3, <1>4, <1>5 DEF IInv, Documents
<1>7. Times'
  BY <1>3 DEF IInv, Times, timers
<1>8. Calls'
  <2>1. SUFFICES ASSUME NEW x \in Callers PROVE Standing(x)'
    BY DEF Calls
  <2> QED BY <1>3, <1>5, <2>1, CallKept DEF IInv, Calls
<1>9. Cycle'
  BY <1>2, <1>3, <1>5 DEF IInv, Cycle, InFlight
<1>10. Builds'
  BY <1>2, <1>4, <1>5 DEF IInv, Builds
<1>11. Start'
  BY <1>2, <1>3, <1>4, <1>5 DEF IInv, Start
<1>12. Lease'
  <2>1. Kept' \subseteq Kept /\ KeptOwners' \subseteq KeptOwners
    BY <1>3, <1>5 DEF Kept, KeptOwners, Owners
  <2> QED BY <1>3, <2>1 DEF IInv, Lease, AtMostOne
<1> QED BY <1>5, <1>6, <1>7, <1>8, <1>9, <1>10, <1>11, <1>12 DEF IInv

LEMMA BecomeReadyInvariant == ASSUME IInv, NEW b \in Brains, BecomeReady(b) PROVE IInv'
<1> DEFINE d == [doc[b] EXCEPT !.ready = TRUE]
<1>a. b \in Brains /\ d \in Doc /\ d.active = doc[b].active /\ Exists(b) /\ writer[b] = None
  BY DEF Brains, Doc, IInv, Documents, Exists, BecomeReady, Free
<1>b. Save(b, d)
  BY DEF BecomeReady
<1> HIDE DEF d
<1>c. /\ doc' \in [Brains -> Doc \cup {None}] /\ doc'[b] = d /\ d # None
      /\ \A x \in Brains \ {b} : doc'[x] = doc[x]
      /\ \A x \in Brains : Exists(x)' <=> x = b \/ Exists(x)
      /\ There' = There \cup {b} /\ Listed'
  BY <1>a, <1>b, Saves DEF IInv
<1>1. Documents'
  BY <1>a, <1>b, <1>c, BootCalls DEF IInv, Documents, BecomeReady, Free, disk, timers
<1>2. Times'
  BY <1>a, <1>b, <1>c, BootCalls DEF IInv, Times, Documents, BecomeReady, Free, disk, timers
<1>3. Listed'
  BY <1>c
<1>4. Calls'
  <2>1. SUFFICES ASSUME NEW x \in Callers PROVE Standing(x)'
    BY DEF Calls
  <2> QED BY <1>a, <1>c, <2>1, CallKept DEF IInv, Calls, BecomeReady
<1>5. Cycle'
  BY <1>a, <1>b, <1>c, BootCalls DEF IInv, Cycle, InFlight, Exists, Documents, BecomeReady, Free, disk, timers
<1>6. Builds'
  <2>1. build[b].pc = "over" /\ build' = build
    BY DEF BecomeReady
  <2> QED BY <1>a, <1>c, <2>1 DEF IInv, Builds, Constructing
<1>7. Start'
  BY <1>a, <1>b, <1>c, BootCalls DEF IInv, Start, Constructing, Documents, BecomeReady, Free, disk, timers
<1>8. Lease'
  <2>1. There' = There /\ written' = written /\ app' = app /\ call' = call
    BY <1>a, <1>c DEF BecomeReady, There
  <2>2. Owners' = Owners
    BY <1>a, <1>c DEF Owners
  <2> QED BY <2>1, <2>2 DEF IInv, Lease, There, AtMostOne, Kept, KeptOwners
<1> QED BY <1>1, <1>2, <1>3, <1>4, <1>5, <1>6, <1>7, <1>8 DEF IInv

LEMMA DeleteInvariant == ASSUME IInv, NEW b \in Brains, Delete(b) PROVE IInv'
<1>a. /\ doc' \in [Brains -> Doc \cup {None}] /\ writer[b] = None
      /\ \A x \in Brains \ {b} : doc'[x] = doc[x]
      /\ \A x \in Brains : Exists(x)' <=> x # b /\ Exists(x)
      /\ Listed'
  BY Deletes DEF IInv, Delete, Free
<1>1. Documents'
  BY <1>a, BootCalls DEF IInv, Documents, Delete, Free, Mishap, disk, timers
<1>2. Times'
  BY <1>a, BootCalls DEF IInv, Times, Documents, Delete, Free, Mishap, disk, timers
<1>3. Listed'
  BY <1>a
<1>4. Calls'
  <2>1. SUFFICES ASSUME NEW x \in Callers PROVE Standing(x)'
    BY DEF Calls
  <2>2. \A y \in Brains : writer[y] = x => y # b
    BY <1>a, BootCalls
  <2> QED BY <1>a, <2>1, <2>2, CallKept DEF IInv, Calls, Delete
<1>5. Cycle'
  BY <1>a, BootCalls DEF IInv, Cycle, InFlight, Exists, Documents, Delete, Free, Mishap, disk, timers
<1>6. Builds'
  BY <1>a, BootCalls DEF IInv, Builds, Exists, Constructing, Documents, Delete, Free, Mishap, disk, timers
<1>7. Start'
  BY <1>a, BootCalls DEF IInv, Start, Constructing, Documents, Delete, Free, Mishap, disk, timers
<1>8. Lease'
  <2>1. /\ There' \subseteq There /\ Owners' \subseteq Owners
        /\ written' = written /\ app' = app /\ call' = call
    BY <1>a DEF Delete, There, Owners
  <2>2. Kept' \subseteq Kept /\ KeptOwners' \subseteq KeptOwners
    BY <2>1 DEF There, Kept, KeptOwners
  <2> QED BY <2>1, <2>2 DEF IInv, Lease, AtMostOne
<1> QED BY <1>1, <1>2, <1>3, <1>4, <1>5, <1>6, <1>7, <1>8 DEF IInv

LEMMA CycleSavesInvariant == ASSUME IInv, CycleSaves PROVE IInv'
<1> DEFINE b == tick.brain
           d == [active |-> tick.copy, ready |-> TRUE]
<1>a. b \in Brains /\ d \in Doc /\ doc[b] = d /\ Exists(b) /\ writer[b] = "cycle"
  BY DEF Doc, IInv, Documents, TickType, Cycle, InFlight, CycleSaves
<1>d. Save(b, d)
  BY DEF CycleSaves
<1> HIDE DEF b, d
<1>b. /\ doc' \in [Brains -> Doc \cup {None}] /\ doc'[b] = d /\ d # None
      /\ \A x \in Brains \ {b} : doc'[x] = doc[x]
      /\ \A x \in Brains : Exists(x)' <=> x = b \/ Exists(x)
      /\ There' = There \cup {b} /\ Listed'
  BY <1>a, <1>d, Saves DEF IInv
<1>c. /\ writer' \in [Brains -> Callers \cup {"cycle", None}]
      /\ \A x \in Brains : writer[x] # "cycle" => writer'[x] = writer[x]
  BY Releases DEF IInv, CycleSaves
<1>1. Documents'
  <2>1. tick' \in TickType
    BY DEF IInv, Documents, TickType, CycleSaves
  <2> QED BY <1>b, <1>c, <2>1 DEF IInv, Documents, CycleSaves
<1>2. Times'
  BY <1>a, <1>b, <1>c, BootCalls DEF IInv, Times, Documents, CycleSaves, disk, timers
<1>3. Listed'
  BY <1>b
<1>4. Calls'
  <2>1. SUFFICES ASSUME NEW x \in Callers PROVE Standing(x)'
    BY DEF Calls
  <2>2. \A y \in Brains : writer[y] = x => writer'[y] = x
    BY <1>c, BootCalls
  <2> QED BY <1>b, <2>1, <2>2, CallKept DEF IInv, Calls, CycleSaves
<1>5. Cycle'
  BY <1>a, <1>b, <1>c, BootCalls DEF IInv, Cycle, InFlight, Exists, Documents, CycleSaves, disk, timers
<1>6. Builds'
  BY <1>a, <1>b, <1>c, BootCalls DEF IInv, Builds, Exists, Constructing, Documents, CycleSaves, disk, timers
<1>7. Start'
  BY <1>a, <1>b, <1>c, BootCalls DEF IInv, Start, Constructing, Documents, CycleSaves, disk, timers
<1>8. Lease'
  <2>1. There' = There /\ written' = written /\ app' = app /\ call' = call
    BY <1>a, <1>b DEF CycleSaves, There
  <2>2. Owners' = Owners
    BY <1>a, <1>b DEF Owners
  <2> QED BY <2>1, <2>2 DEF IInv, Lease, There, AtMostOne, Kept, KeptOwners
<1> QED BY <1>1, <1>2, <1>3, <1>4, <1>5, <1>6, <1>7, <1>8 DEF IInv
LEMMA DisablePriorInvariant == ASSUME IInv, NEW c \in Callers, DisablePrior(c) PROVE IInv'
<1>1. PICK b \in call[c].left : /\ Save(b, [doc[b] EXCEPT !.active = FALSE])
                                /\ call' = [call EXCEPT ![c].left = @ \ {b}]
  BY DEF DisablePrior
<1>2. /\ call[c] \in CallType /\ call[c].pc = "section" /\ b \in call[c].ids
      /\ call[c].ids \subseteq Brains /\ call[c].left \subseteq call[c].ids
      /\ \A x \in call[c].ids : writer[x] = c /\ Exists(x)
      /\ call[c].target \in Brains /\ call[c].target \in call[c].ids
  BY <1>1 DEF IInv, Documents, CallType, Calls, Standing, DisablePrior
<1> DEFINE d == [doc[b] EXCEPT !.active = FALSE]
<1>3. b \in Brains /\ d \in Doc /\ d.active = FALSE /\ d.ready = doc[b].ready /\ Exists(b) /\ writer[b] = c
  BY <1>2 DEF IInv, Documents, Doc, Exists
<1>4. Save(b, d)
  BY <1>1
<1> HIDE DEF d
<1>5. /\ doc' \in [Brains -> Doc \cup {None}] /\ doc'[b] = d /\ d # None
      /\ \A x \in Brains \ {b} : doc'[x] = doc[x]
      /\ \A x \in Brains : Exists(x)' <=> x = b \/ Exists(x)
      /\ There' = There \cup {b} /\ Listed'
  BY <1>3, <1>4, Saves DEF IInv
<1>6. /\ call' \in [Callers -> CallType] /\ call'[c].pc = "section" /\ call'[c].target = call[c].target
      /\ call'[c].ids = call[c].ids /\ call'[c].enabled = call[c].enabled
      /\ call'[c].left = call[c].left \ {b}
      /\ \A x \in Callers \ {c} : call'[x] = call[x]
  <2>1. [call[c] EXCEPT !.left = @ \ {b}] \in CallType
    BY <1>2 DEF CallType
  <2>2. call' = [call EXCEPT ![c] = [call[c] EXCEPT !.left = @ \ {b}]]
    BY <1>1
  <2> QED BY <1>2, <2>1, <2>2 DEF IInv, Documents, CallType
<1>7. UNCHANGED <<writer, app, build, tick, timers, written, mishaps>>
  BY DEF DisablePrior
<1>8. Documents'
  BY <1>5, <1>6, <1>7 DEF IInv, Documents
<1>9. Times'
  BY <1>7 DEF IInv, Times, timers
<1>10. Calls'
  <2>1. Standing(c)'
    BY <1>2, <1>3, <1>5, <1>6, <1>7 DEF Standing
  <2>2. ASSUME NEW x \in Callers \ {c} PROVE Standing(x)'
    BY <1>5, <1>6, <1>7, <2>2, CallKept DEF IInv, Calls
  <2> QED BY <2>1, <2>2 DEF Calls
<1>11. Cycle'
  BY <1>3, <1>5, <1>7, BootCalls DEF IInv, Cycle, InFlight
<1>12. Builds'
  BY <1>3, <1>5, <1>7 DEF IInv, Builds
<1>13. Start'
  BY <1>2, <1>6, <1>7, BootCalls DEF IInv, Start
<1>14. Lease'
  <2>1. Kept' = Kept /\ KeptOwners' = KeptOwners \ {b}
    BY <1>3, <1>5, <1>7 DEF Kept, KeptOwners, Owners
  <2>2. AtMostOne => AtMostOne'
    BY <2>1 DEF AtMostOne
  <2>3. call[Boot].pc = "done" <=> call'[Boot].pc = "done"
    BY <1>2, <1>6, BootCalls
  <2> QED BY <1>2, <1>6, <1>7, <2>1, <2>2, <2>3 DEF IInv, Lease
<1> QED BY <1>5, <1>8, <1>9, <1>10, <1>11, <1>12, <1>13, <1>14 DEF IInv

LEMMA EnableTargetInvariant == ASSUME IInv, NEW c \in Callers, EnableTarget(c) PROVE IInv'
<1>1. PICK t : t = call[c].target
  OBVIOUS
<1>2. /\ call[c] \in CallType /\ call[c].pc = "section" /\ call[c].left = {}
      /\ call[c].ids \subseteq Brains /\ t \in call[c].ids /\ t \in Brains
      /\ \A x \in call[c].ids : writer[x] = c /\ Exists(x)
  BY <1>1 DEF IInv, Documents, CallType, Calls, Standing, EnableTarget
<1>3. doc[t] \in Doc /\ Exists(t) /\ writer[t] = c /\ call[c].enabled \in BOOLEAN
  BY <1>2 DEF IInv, Documents, Exists, CallType
<1>4. /\ doc' \in [Brains -> Doc \cup {None}] /\ Listed'
      /\ doc'[t].ready = doc[t].ready /\ (doc'[t].active => doc[t].active \/ call[c].enabled)
      /\ \A x \in Brains \ {t} : doc'[x] = doc[x]
      /\ \A x \in Brains : Exists(x)' <=> Exists(x)
  <2>1. CASE call[c].active # call[c].enabled
    <3> DEFINE d == [doc[t] EXCEPT !.active = call[c].enabled]
    <3>1. d \in Doc /\ d.ready = doc[t].ready /\ d.active = call[c].enabled
      BY <1>3 DEF Doc
    <3>2. Save(t, d)
      BY <1>1, <2>1 DEF EnableTarget
    <3> HIDE DEF d
    <3> QED BY <1>2, <1>3, <3>1, <3>2, Saves DEF IInv
  <2>2. CASE call[c].active = call[c].enabled
    BY <2>2 DEF EnableTarget, disk, Exists, IInv, Documents, Listed
  <2> QED BY <2>1, <2>2
<1>5. /\ call' \in [Callers -> CallType] /\ call'[c].pc = "done"
      /\ \A x \in Callers \ {c} : call'[x] = call[x]
  BY Settles DEF IInv, EnableTarget, Outcomes
<1>6. /\ writer' \in [Brains -> Callers \cup {"cycle", None}]
      /\ \A b \in Brains : writer[b] # c => writer'[b] = writer[b]
  BY Releases DEF IInv, EnableTarget
<1>7. UNCHANGED <<app, build, tick, timers, written, mishaps>>
  BY DEF EnableTarget
<1>8. Documents'
  BY <1>4, <1>5, <1>6, <1>7 DEF IInv, Documents
<1>9. Times'
  BY <1>7 DEF IInv, Times, timers
<1>10. Calls'
  <2>1. Standing(c)'
    BY <1>5 DEF Standing
  <2>2. ASSUME NEW x \in Callers \ {c} PROVE Standing(x)'
    BY <1>4, <1>5, <1>6, <2>2, CallKept DEF IInv, Calls
  <2> QED BY <2>1, <2>2 DEF Calls
<1>11. Cycle'
  BY <1>3, <1>4, <1>6, <1>7, BootCalls DEF IInv, Cycle, InFlight
<1>12. Builds'
  BY <1>4, <1>7 DEF IInv, Builds
<1>13. Start'
  BY <1>2, <1>5, <1>7, BootCalls DEF IInv, Start
<1>14. Lease'
  <2>1. /\ Kept' = Kept /\ KeptOwners' \subseteq KeptOwners \cup ({t} \ written)
        /\ ~call[c].enabled => KeptOwners' \subseteq KeptOwners
    BY <1>2, <1>3, <1>4, <1>7 DEF Kept, KeptOwners, Owners
  <2>2. ASSUME NEW x \in Callers, call'[x].pc = "section", call'[x].enabled
        PROVE  KeptOwners' \subseteq call'[x].left \cup {call'[x].target}
    <3>1. x # c /\ call'[x] = call[x]
      BY <1>5, <2>2
    <3>2. KeptOwners \subseteq call[x].left \cup {call[x].target}
      BY <2>2, <3>1 DEF IInv, Lease
    <3>3. CASE t \in written
      BY <2>1, <3>1, <3>2, <3>3
    <3>4. CASE t \notin written
      <4>1. t \in call[x].ids
        BY <1>2, <1>3, <2>2, <3>1, <3>4 DEF IInv, Lease, Kept
      <4>2. writer[t] = x
        BY <2>2, <3>1, <4>1 DEF IInv, Calls, Standing
      <4> QED BY <1>3, <3>1, <4>2
    <3> QED BY <3>3, <3>4
  <2>3. ASSUME app = "up" \/ call'[Boot].pc = "done" PROVE AtMostOne'
    <3>1. CASE call[c].enabled
      <4>1. KeptOwners \subseteq {t}
        BY <1>1, <1>2, <3>1 DEF IInv, Lease
      <4> QED BY <2>1, <4>1 DEF AtMostOne
    <3>2. CASE ~call[c].enabled
      <4>1. c # Boot
        BY <1>2, <3>2 DEF IInv, Start
      <4>2. AtMostOne
        BY <1>5, <2>3, <4>1, BootCalls DEF IInv, Lease
      <4> QED BY <2>1, <3>2, <4>2 DEF AtMostOne
    <3> QED BY <3>1, <3>2
  <2>4. \A x \in Callers : call'[x].pc \in {"locking", "section"} => Kept' \subseteq call'[x].ids
    BY <1>5, <2>1 DEF IInv, Lease
  <2> QED BY <1>7, <2>2, <2>3, <2>4 DEF Lease
<1> QED BY <1>4, <1>8, <1>9, <1>10, <1>11, <1>12, <1>13, <1>14 DEF IInv

-----------------------------------------------------------------------------
(* The initial states.                                                     *)

LEMMA InitInvariant == Init => IInv
<1> SUFFICES ASSUME Init PROVE IInv
  OBVIOUS
<1>1. doc \in [Brains -> Doc \cup {None}] /\ There = Saved /\ \A b \in Fresh : ~Exists(b)
  BY ActiveModeAssumption DEF Init, There, Exists, Brains
<1>2. Listed
  <2>1. IsFiniteSet(Saved) /\ Saved \subseteq Brains
    <3>1. Saved \subseteq Brains
      BY DEF Brains
    <3> QED BY <3>1, ActiveModeAssumption, FS_Subset
  <2>2. PICK n \in Nat : n = Cardinality(Saved)
    BY <2>1, FS_CardinalityType
  <2>3. newest \in [1 .. n -> Saved] /\ IsInjective(newest)
    BY <2>2 DEF Init, SetToSeqs, IsInjective
  <2>4. newest \in Seq(Brains)
    BY <2>1, <2>3
  <2>5. IsFiniteSet(1 .. n) /\ Cardinality(1 .. n) = n
    BY FS_Interval
  <2>6. newest \in Injection(1 .. n, Saved)
    BY <2>3 DEF Injection
  <2>7. newest \in Surjection(1 .. n, Saved)
    BY <2>1, <2>2, <2>5, <2>6, FS_Injection
  <2>8. Range(newest) = Saved
    BY <2>3, <2>7 DEF Surjection, Range
  <2> QED BY <1>1, <2>3, <2>4, <2>8 DEF Listed, There
<1>3. NoCall \in CallType /\ NoBuild \in BuildType /\ NoCall.pc = "none" /\ NoBuild.pc = "none"
  BY DEF NoCall, NoBuild, CallType, BuildType
<1>0. /\ build \in [Brains -> BuildType] /\ \A b \in Brains : build[b].pc \in {"none", "over"}
      /\ \A b \in Brains : build[b].pc = "none" => b \in Fresh
  BY <1>3, EndedBuildType DEF Init, Brains
<1>4. Documents
  BY <1>0, <1>1, <1>3, NoTickType DEF Init, Documents
<1>5. Times
  BY DEF Init, Times
<1>6. Calls
  BY <1>3 DEF Init, Calls, Standing
<1>7. Cycle
  BY NoTickType DEF Init, Cycle, InFlight
<1>8. Builds
  BY <1>0, <1>1 DEF Builds, Constructing
<1>9. Start
  BY <1>0, <1>3, NoTickType, BootCalls DEF Init, Start, Constructing
<1>10. Lease
  BY <1>3, BootCalls DEF Init, Lease
<1> QED BY <1>2, <1>4, <1>5, <1>6, <1>7, <1>8, <1>9, <1>10 DEF IInv

-----------------------------------------------------------------------------
(* Every step.                                                             *)

LEMMA StepInvariant == IInv /\ [Next]_vars => IInv'
<1> SUFFICES ASSUME IInv, [Next]_vars PROVE IInv'
  OBVIOUS
<1>1. CASE Reconcile \/ Reconciled \/ Restart
  BY <1>1, ReconcileInvariant, ReconciledInvariant, RestartInvariant
<1>2. CASE \E c \in Callers : SetActiveMode(c)
  BY <1>2, EnterSectionInvariant, DisablePriorInvariant, EnableTargetInvariant, SectionFailsInvariant
  DEF SetActiveMode
<1>3. CASE \E c \in Switches : SwitchAsks(c)
  BY <1>3, SwitchAsksInvariant
<1>4. CASE \E b \in Brains : BuildStep(b)
  BY <1>4, ActivateCreatedInvariant, ActivatedInvariant, BuildSavesInvariant, BuildEndsInvariant, BecomeReadyInvariant
  DEF BuildStep
<1>5. CASE Tick
  BY <1>5, BeginInvariant, ListInvariant, ReadInvariant, AdmitInvariant, EnterCycleInvariant,
     CycleSavesInvariant, CycleDeferredInvariant, CycleFailsInvariant, CycleEndsInvariant
  DEF Tick
<1>6. CASE Elapse
  BY <1>6, ElapseInvariant
<1>7. CASE UserStep
  BY <1>7, SwitchInvariant, CreateInvariant, ResumeInvariant, DeleteInvariant, ChatCancelledInvariant, UserCancelsInvariant
  DEF UserStep
<1>8. CASE UNCHANGED vars
  BY <1>8 DEF vars, disk, timers, IInv, Documents, Times, Listed, Calls, Standing, Cycle, InFlight, Builds,
              Constructing, Start, Lease, AtMostOne, Kept, KeptOwners, Owners, Exists
<1> QED BY <1>1, <1>2, <1>3, <1>4, <1>5, <1>6, <1>7, <1>8 DEF Next

-----------------------------------------------------------------------------
(* Theorems.                                                               *)

(* Everything above holds in every state that can be reached.              *)
THEOREM InvariantHolds == Spec => []IInv
BY InitInvariant, StepInvariant, PTL DEF Spec

(* Types, and no quiet time shorter than what is left of a cancel's.       *)
THEOREM Typing == Spec => []TypeOK
<1>1. IInv => TypeOK
  BY DEF IInv, Documents, Times, TickType, TypeOK
<1> QED BY <1>1, InvariantHolds, PTL

(* No owner, or one, among the brains whose documents no Build has written *)
(* since the start: through concurrent switches, failed saves, deletions   *)
(* and crashes in the middle of a switch, however many brains there are.   *)
THEOREM OwnerIsOne == Spec => []OneOwner
<1>1. IInv => OneOwner
  BY DEF IInv, Lease, AtMostOne, KeptOwners, OneOwner
<1> QED BY <1>1, InvariantHolds, PTL

Sticks == \A b \in Brains : Flag(b)' \notin {Flag(b), None} => Switching(b) \/ BuildWrites(b)

LEMMA FlagStep == IInv /\ [Next]_vars => [Sticks]_vars
<1> SUFFICES ASSUME IInv, [Next]_vars PROVE Sticks \/ UNCHANGED vars
  OBVIOUS
<1>1. ASSUME UNCHANGED disk PROVE Sticks
  BY <1>1 DEF disk, Sticks, Flag, Exists
<1>2. ASSUME NEW c \in Callers, DisablePrior(c) PROVE Sticks
  <2>1. PICK b \in call[c].left : Save(b, [doc[b] EXCEPT !.active = FALSE])
    BY <1>2 DEF DisablePrior
  <2>2. b \in Brains /\ writer[b] = c /\ call[c].pc = "section"
    BY <1>2, <2>1 DEF IInv, Documents, CallType, Calls, Standing, DisablePrior
  <2>3. \A x \in Brains \ {b} : doc'[x] = doc[x]
    BY <2>1 DEF Save, IInv, Documents
  <2> QED BY <1>2, <2>2, <2>3 DEF Sticks, Flag, Exists, Switching
<1>3. ASSUME NEW c \in Callers, EnableTarget(c) PROVE Sticks
  <2>1. PICK t \in Brains : t = call[c].target /\ writer[t] = c /\ call[c].pc = "section"
    BY <1>3 DEF IInv, Documents, CallType, Calls, Standing, EnableTarget
  <2>2. \A x \in Brains \ {t} : doc'[x] = doc[x]
    BY <1>3, <2>1 DEF EnableTarget, Save, disk, IInv, Documents
  <2> QED BY <1>3, <2>1, <2>2 DEF Sticks, Flag, Exists, Switching
<1>4. ASSUME NEW b \in Brains, (b \in Fresh /\ Create(b)) \/ SaveBuilt(b) \/ SaveResumed(b) PROVE Sticks
  <2>1. build'[b].pc # build[b].pc
    BY <1>4, EndedBuildType DEF IInv, Documents, BuildType, Create, SaveBuilt, SaveResumed
  <2>2. \A x \in Brains \ {b} : doc'[x] = doc[x]
    BY <1>4 DEF Create, SaveBuilt, SaveResumed, Save, IInv, Documents
  <2> QED BY <1>4, <2>1, <2>2 DEF Sticks, Flag, Exists, BuildWrites
<1>5. ASSUME NEW b \in Brains, BecomeReady(b) PROVE Sticks
  <2>1. Save(b, [doc[b] EXCEPT !.ready = TRUE]) /\ b \in Brains /\ Exists(b)
    BY <1>5 DEF BecomeReady, Brains
  <2>2. doc[b] \in Doc
    BY <2>1 DEF IInv, Documents, Exists
  <2>3. doc'[b].active = doc[b].active /\ \A x \in Brains \ {b} : doc'[x] = doc[x]
    BY <2>1, <2>2 DEF Save, IInv, Documents, Doc
  <2> QED BY <2>1, <2>3 DEF Sticks, Flag, Exists
<1>6. ASSUME NEW b \in Brains, Delete(b) PROVE Sticks
  BY <1>6 DEF Delete, Sticks, Flag, Exists, IInv, Documents
<1>7. CASE CycleSaves
  <2>1. PICK b \in Brains : b = tick.brain /\ doc[b] = [active |-> tick.copy, ready |-> TRUE]
    BY <1>7 DEF IInv, Cycle, InFlight, CycleSaves
  <2>2. doc' = doc
    BY <1>7, <2>1 DEF CycleSaves, Save, IInv, Documents
  <2> QED BY <2>2 DEF Sticks, Flag, Exists
<1>8. CASE Reconcile \/ Reconciled \/ Restart
  BY <1>1, <1>8 DEF Reconcile, Reconciled, Restart
<1>9. CASE \E c \in Callers : SetActiveMode(c)
  BY <1>1, <1>2, <1>3, <1>9 DEF SetActiveMode, EnterSection, SectionFails
<1>10. CASE \E c \in Switches : SwitchAsks(c)
  BY <1>1, <1>10 DEF SwitchAsks
<1>11. CASE \E b \in Brains : BuildStep(b)
  BY <1>1, <1>4, <1>5, <1>11 DEF BuildStep, ActivateCreated, Activated, BuildEnds
<1>12. CASE Tick
  BY <1>1, <1>7, <1>12 DEF Tick, Begin, List, Read, Admit, EnterCycle, CycleDeferred, CycleFails, CycleEnds
<1>13. CASE Elapse
  BY <1>1, <1>13 DEF Elapse
<1>14. CASE UserStep
  BY <1>1, <1>4, <1>6, <1>14 DEF UserStep, Switch, ChatCancelled, UserCancels, Resume, Brains
<1> QED BY <1>8, <1>9, <1>10, <1>11, <1>12, <1>13, <1>14 DEF Next

(* What a switch or a deletion wrote is undone by no idle cycle and by no  *)
(* other switch; the saves of the brain's own Build are excepted.          *)
THEOREM FlagKept == Spec => FlagSticks
<1>1. [Sticks]_vars <=> [\A b \in Brains : Flag(b)' \notin {Flag(b), None} => Switching(b) \/ BuildWrites(b)]_vars
  BY DEF Sticks
<1> QED BY <1>1, InvariantHolds, FlagStep, PTL DEF Spec, FlagSticks

Admitted(b) == tick.pc = "reading" /\ tick' = [NoTick EXCEPT !.pc = "admitted", !.brain = b]
IsQuiet == \A b \in Brains : Admitted(b) => due[b] = 0

LEMMA QuietStep == IInv /\ [Next]_vars => [IsQuiet]_vars
<1> SUFFICES ASSUME IInv, [Next]_vars, NEW b \in Brains, Admitted(b) PROVE due[b] = 0 \/ UNCHANGED vars
  BY DEF IsQuiet
<1>1. tick.pc = "reading" /\ tick'.pc = "admitted" /\ tick'.brain = b
  BY DEF Admitted, NoTick
<1>2. app = "up" /\ tick' # tick /\ ~InFlight
  BY <1>1 DEF IInv, Start, Constructing, InFlight
<1>3. ASSUME NEW work \in {"none", "learning", "chat"}, Admit(work) PROVE due[b] = 0
  <2>1. NoTick.pc = "idle"
    BY DEF NoTick
  <2>2. Leased # {} /\ ~(~tick.seen[First(tick.ids, Leased)].ready \/ work = "learning")
    BY <1>1, <1>3, <2>1 DEF Admit, Pause
  <2>3. PICK x : x = First(tick.ids, Leased)
    OBVIOUS
  <2>4. ~(quiet[x] > 0) /\ tick' = [NoTick EXCEPT !.pc = "admitted", !.brain = x]
    BY <1>1, <1>3, <2>1, <2>2, <2>3 DEF Admit
  <2>5. x = b
    BY <1>1, <2>4 DEF NoTick
  <2> QED BY <2>4, <2>5 DEF IInv, Times
<1>4. CASE Tick
  <2>1. ASSUME NEW x \in Brains, Read(x) PROVE FALSE
    BY <1>1, <2>1, NoTickType DEF Read, TickFails, IInv, Documents, TickType
  <2> QED BY <1>1, <1>3, <1>4, <2>1, NoTickType
         DEF Tick, Begin, List, EnterCycle, CycleSaves, CycleDeferred, CycleFails, CycleEnds
<1>5. CASE UserStep
  BY <1>2, <1>5 DEF UserStep, Switch, CancelActive, Create, Resume, Delete, ChatCancelled, UserCancels
<1>6. CASE Reconcile \/ Reconciled \/ Restart
  BY <1>1, <1>2, <1>6, NoTickType DEF Reconcile, Reconciled, Restart
<1>7. CASE \E c \in Callers : SetActiveMode(c)
  BY <1>2, <1>7 DEF SetActiveMode, EnterSection, DisablePrior, EnableTarget, SectionFails
<1>8. CASE (\E c \in Switches : SwitchAsks(c)) \/ Elapse
  BY <1>2, <1>8 DEF SwitchAsks, Elapse
<1>9. CASE \E x \in Brains : BuildStep(x)
  BY <1>2, <1>9 DEF BuildStep, ActivateCreated, Activated, SaveBuilt, SaveResumed, BuildEnds, BecomeReady
<1> QED BY <1>4, <1>5, <1>6, <1>7, <1>8, <1>9 DEF Next

(* No cycle is admitted in the quiet window of a cancelled brain, whatever *)
(* finishes, fails or is cancelled again meanwhile.                        *)
THEOREM QuietKept == Spec => CancelIsQuiet
<1>1. [IsQuiet]_vars <=> [\A b \in Brains : tick.pc = "reading" /\ tick' = [NoTick EXCEPT !.pc = "admitted", !.brain = b]
        => due[b] = 0]_vars
  BY DEF IsQuiet, Admitted
<1> QED BY <1>1, InvariantHolds, QuietStep, PTL DEF Spec, CancelIsQuiet
=============================================================================
