------------------------- MODULE PagedCheckpointProofs -------------------------
(***************************************************************************)
(* Proofs about PagedCheckpoint, for any rows, buckets, strengths and part *)
(* size and any number of changes, restarts and failures: what brain.json  *)
(* names can always be loaded, a journal that a plan may trust forgets     *)
(* nothing, and a save in parts is the save of AtomicSave in one step.     *)
(*                                                                         *)
(* The inductive invariant follows the save: the journal mirrors its base  *)
(* group by group, a plan that nothing has overtaken says of every row     *)
(* where it is to be, a group is either taken over or holds exactly the    *)
(* rows assigned to it, and so the sealed generation holds what the rows   *)
(* held.  Whatever a row does after the plan raises the revision above the *)
(* save's stamp, on which every fact about present contents depends.       *)
(***************************************************************************)
EXTENDS PagedCheckpoint, FiniteSetTheorems, WellFoundedInduction, TLAPS

Keys == {Bucket[r] : r \in Records} \X Nat
Partial(S, T) == UNION {[D -> T] : D \in SUBSET S}
Blobs == Partial(Records, Values)
Gens == [revision : 0..MaxChanges, shards : Partial(Keys, Blobs)]

Journals == [state : {"none", "building", "ready"}, base : Gens \cup {None}, part : Partial(Records, Nat),
             count : Partial(Keys, Int), dirty : SUBSET Records, full : BOOLEAN]
Saves == [pc : {"idle", "planning", "writing", "sealed", "committed", "dropped", "importing", "settled"},
          full : BOOLEAN, prior : Gens \cup {None}, stamp : Nat, left : SUBSET Records,
          part : Partial(Records, Nat \cup {None}), count : Partial(Keys, Int),
          todo : SUBSET Keys, shards : Partial(Keys, Blobs)]

Types ==
  /\ rows \in [Records -> Values \cup {None}] /\ revision \in 0..MaxChanges
  /\ journal \in Journals /\ save \in Saves
  /\ manifest \in Gens /\ committed \in Gens /\ blobs \subseteq Blobs
  /\ save.stamp <= revision

\* The part numbers of a set of groups are bounded.
Bounded(K) == \E n \in Nat : \A k \in K : k[2] <= n

Sound(g) == WellFormed(g) /\ Bounded(DOMAIN g.shards)
Stored(g) == Sound(g) /\ g \in generations /\ BlobsOf(g) \subseteq blobs

\* The generations a restart, a failed save or a plan goes back to are there.
GenerationsKept ==
  /\ Stored(committed) /\ Stored(manifest)
  /\ save.pc \in {"planning", "writing", "sealed"} => save.prior = committed
  /\ save.pc # "sealed" => manifest = committed

\* A journal tells of each row and each group of a generation where it is.
Mirrors(j, g) ==
  /\ Sound(g)
  /\ DOMAIN j.part = Members(g)
  /\ \A k \in DOMAIN g.shards :
       /\ k \in DOMAIN j.count /\ j.count[k] = Cardinality(DOMAIN g.shards[k])
       /\ \A r \in DOMAIN g.shards[k] : j.part[r] = k[2]
  /\ \A k \in DOMAIN j.count : j.count[k] <= PartSize
  /\ Bounded(DOMAIN j.count)

\* What is not marked is as in the generation; decay removes no row.
Marks(j, g) ==
  \A r \in Records :
    \/ r \in j.dirty \/ rows[r] = Content(g)[r]
    \/ j.full /\ r \in Neurons /\ rows[r] # None /\ Content(g)[r] # None

JournalMirrors ==
  /\ journal.state # "none" => journal.base \in Gens /\ Mirrors(journal, journal.base) /\ Marks(journal, journal.base)
  /\ save.pc = "importing" => journal.state # "none"

\* The part a plan leaves a row in or puts it to, or None.
Where(r) ==
  IF r \in DOMAIN save.part THEN save.part[r]
  ELSE IF ~save.full /\ r \in DOMAIN journal.part THEN journal.part[r] ELSE None
Old == IF save.full THEN Empty ELSE save.prior.shards
Rewritten == IF save.full THEN GroupsOf(save.part) ELSE DOMAIN save.count

\* The plan is one over the journal of the generation the save starts from.
PlanIncremental ==
  save.pc \in {"planning", "writing", "sealed", "committed"} /\ ~save.full =>
    /\ journal.state = "ready" /\ journal.base = save.prior
    /\ \A r \in DOMAIN save.part :
         IF r \in DOMAIN journal.part
         THEN save.part[r] = None /\ <<Bucket[r], journal.part[r]>> \in DOMAIN save.count
         ELSE save.part[r] \in Nat /\ <<Bucket[r], save.part[r]>> \in DOMAIN save.count
    /\ \A k \in DOMAIN save.count : save.count[k] <= PartSize
    /\ Bounded(DOMAIN save.count)
PlanWhole ==
  save.pc \in {"planning", "writing"} /\ save.full =>
    /\ save.pc = "writing" /\ \A r \in DOMAIN save.part : save.part[r] \in Nat
    /\ \A k \in GroupsOf(save.part) : Cardinality(RowsOf(save.part, k)) <= PartSize
    /\ Bounded(GroupsOf(save.part))

\* While nothing has changed, the plan has a part for just the rows there are,
\* and rewrites the group of every row that is not as it was.
Fits(r) ==
  /\ rows[r] = None <=> Where(r) = None
  /\ ~save.full /\ Where(r) # None /\ rows[r] # Content(save.prior)[r]
       => <<Bucket[r], Where(r)>> \in DOMAIN save.count
PlanFits ==
  /\ save.pc \in {"planning", "writing"} /\ revision = save.stamp => \A r \in Records \ save.left : Fits(r)
  /\ save.pc = "planning" => revision = save.stamp /\ save.left \cap DOMAIN save.part = {}
                             /\ save.shards = Old
  /\ save.pc = "writing" => save.left = {}

\* Group by group, the new generation takes over or holds what is assigned.
Holds(shards, k) ==
  /\ k \in DOMAIN shards <=> Assigned(k) # {}
  /\ k \in DOMAIN shards =>
       DOMAIN shards[k] = Assigned(k) /\ Cardinality(Assigned(k)) <= PartSize
  /\ ~save.full => Cardinality(Assigned(k)) = save.count[k]
WritesWhatIsPlanned ==
  save.pc = "writing" =>
    /\ save.todo \subseteq Rewritten
    /\ \A k \in Keys \ (Rewritten \ save.todo) :
         /\ k \in DOMAIN save.shards <=> k \in DOMAIN Old
         /\ k \in DOMAIN save.shards => save.shards[k] = Old[k]
    /\ \A k \in Rewritten \ save.todo :
         /\ Holds(save.shards, k)
         /\ revision = save.stamp /\ k \in DOMAIN save.shards =>
              \A r \in Assigned(k) : save.shards[k][r] = rows[r]

\* The sealed generation is the rows, and the journal after it is known.
SealedIsWhole ==
  /\ save.pc \in {"sealed", "committed", "dropped"} /\ revision = save.stamp => Content(manifest) = rows
  /\ save.pc \in {"sealed", "committed"} /\ ~save.full =>
       \A k \in Keys :
         /\ k \in DOMAIN manifest.shards <=> Assigned(k) # {}
         /\ k \in DOMAIN manifest.shards =>
              /\ DOMAIN manifest.shards[k] = Assigned(k)
              /\ k \in DOMAIN journal.count \cup DOMAIN save.count /\ Count(k) = Cardinality(Assigned(k))

IInv ==
  /\ Types /\ GenerationsKept /\ JournalMirrors /\ PlanIncremental /\ PlanWhole /\ PlanFits
  /\ WritesWhatIsPlanned /\ SealedIsWhole
-----------------------------------------------------------------------------
(* Natural numbers: least and greatest members.                            *)

\* A set of natural numbers has a least member.
LEMMA Least ==
  ASSUME NEW S \in SUBSET Nat, S # {}
  PROVE  \E m \in S : \A n \in S : m <= n
<1> DEFINE R == {ss \in Nat \X Nat : ss[1] < ss[2]}
<1>1. IsWellFoundedOn(R, Nat)
  BY NatLessThanWellFounded DEF OpToRel
<1>2. PICK m \in S : \A n \in S : <<n, m>> \notin R
  <2> HIDE DEF R
  <2> QED BY <1>1, WFMin
<1>3. ASSUME NEW n \in S PROVE m <= n
  <2>1. ~(n < m)
    <3>1. <<n, m>> \notin R
      BY <1>2
    <3> QED BY <3>1
  <2> QED BY <2>1
<1> QED BY <1>3

\* One that is bounded has a greatest member.
LEMMA Greatest ==
  ASSUME NEW S \in SUBSET Nat, S # {}, NEW b \in Nat, \A n \in S : n <= b
  PROVE  \E m \in S : \A n \in S : n <= m
<1> DEFINE T == {d \in Nat : b - d \in S}
<1>1. T \in SUBSET Nat /\ T # {}
  <2>1. PICK n \in S : TRUE
    OBVIOUS
  <2>2. b - n \in Nat /\ b - (b - n) = n
    OBVIOUS
  <2> QED BY <2>2
<1>2. PICK d \in T : \A e \in T : d <= e
  BY <1>1, Least
<1>3. ASSUME NEW n \in S PROVE n <= b - d
  <2>1. b - n \in T
    <3>1. b - n \in Nat /\ b - (b - n) = n
      OBVIOUS
    <3> QED BY <3>1
  <2>2. d <= b - n
    BY <1>2, <2>1
  <2> QED BY <2>2
<1> QED BY <1>2, <1>3
-----------------------------------------------------------------------------
(* Functions over some of the rows or of the groups.                       *)

LEMMA PartialFacts ==
  ASSUME NEW S, NEW T, NEW f
  PROVE  f \in Partial(S, T) <=> f \in [DOMAIN f -> T] /\ DOMAIN f \subseteq S
BY DEF Partial

LEMMA PutType ==
  ASSUME NEW S, NEW T, NEW f \in Partial(S, T), NEW k \in S, NEW v \in T
  PROVE  Put(f, k, v) \in Partial(S, T)
<1>1. f \in [DOMAIN f -> T] /\ DOMAIN f \subseteq S
  BY PartialFacts
<1>2. Put(f, k, v) \in [DOMAIN f \cup {k} -> T]
  BY <1>1 DEF Put
<1> QED BY <1>1, <1>2, PartialFacts

LEMMA EmptyType ==
  ASSUME NEW S, NEW T
  PROVE  Empty \in Partial(S, T) /\ DOMAIN Empty = {}
<1>1. DOMAIN Empty = {} /\ Empty \in [{} -> T]
  BY DEF Empty
<1> QED BY <1>1, PartialFacts

\* What bounds two sets of groups bounds both together.
LEMMA BoundedUnion ==
  ASSUME NEW K, NEW L, Bounded(K), Bounded(L), \A k \in K \cup L : k[2] \in Nat
  PROVE  Bounded(K \cup L)
<1>1. PICK m \in Nat : \A k \in K : k[2] <= m
  BY DEF Bounded
<1>2. PICK n \in Nat : \A k \in L : k[2] <= n
  BY DEF Bounded
<1>3. \A k \in K \cup L : k[2] <= m + n
  <2> SUFFICES ASSUME NEW k \in K \cup L PROVE k[2] <= m + n
    OBVIOUS
  <2>1. k[2] \in Nat /\ (k[2] <= m \/ k[2] <= n)
    BY <1>1, <1>2
  <2> QED BY <2>1
<1> QED BY <1>3 DEF Bounded

LEMMA BoundedSubset ==
  ASSUME NEW K, NEW L \in SUBSET K, Bounded(K)
  PROVE  Bounded(L)
BY DEF Bounded
-----------------------------------------------------------------------------
(* Generations.                                                            *)

LEMMA GenTypes ==
  ASSUME NEW g \in Gens
  PROVE  /\ g.revision \in 0..MaxChanges
         /\ g.shards \in Partial(Keys, Blobs)
         /\ DOMAIN g.shards \subseteq Keys
         /\ \A k \in DOMAIN g.shards :
              /\ g.shards[k] \in Blobs /\ k[1] \in {Bucket[r] : r \in Records} /\ k[2] \in Nat
              /\ k = <<k[1], k[2]>>
              /\ DOMAIN g.shards[k] \subseteq Records
              /\ \A r \in DOMAIN g.shards[k] : g.shards[k][r] \in Values
         /\ Members(g) \subseteq Records
<1>1. g.revision \in 0..MaxChanges /\ g.shards \in Partial(Keys, Blobs)
  BY DEF Gens
<1>2. g.shards \in [DOMAIN g.shards -> Blobs] /\ DOMAIN g.shards \subseteq Keys
  BY <1>1, PartialFacts
<1>3. ASSUME NEW k \in DOMAIN g.shards
      PROVE  /\ g.shards[k] \in Blobs /\ k[1] \in {Bucket[r] : r \in Records} /\ k[2] \in Nat
             /\ k = <<k[1], k[2]>>
             /\ DOMAIN g.shards[k] \subseteq Records
             /\ \A r \in DOMAIN g.shards[k] : g.shards[k][r] \in Values
  <2>1. g.shards[k] \in Blobs /\ k \in Keys
    BY <1>2
  <2>2. g.shards[k] \in [DOMAIN g.shards[k] -> Values] /\ DOMAIN g.shards[k] \subseteq Records
    BY <2>1, PartialFacts DEF Blobs
  <2> QED BY <2>1, <2>2 DEF Keys
<1> QED BY <1>1, <1>2, <1>3 DEF Members

\* In a generation with disjoint groups a row is in the group it is in.
LEMMA InGroup ==
  ASSUME NEW g \in Gens, Sound(g), NEW k \in DOMAIN g.shards, NEW r \in DOMAIN g.shards[k]
  PROVE  /\ Group(g, r) = k /\ r \in Members(g) /\ r \in Records
         /\ k = <<Bucket[r], k[2]>> /\ k[1] = Bucket[r] /\ k[2] \in Nat
         /\ Content(g)[r] = g.shards[k][r] /\ Content(g)[r] \in Values
<1>1. r \in Members(g) /\ r \in Records
  BY GenTypes DEF Members
<1>2. Group(g, r) \in DOMAIN g.shards /\ r \in DOMAIN g.shards[Group(g, r)]
  BY DEF Group
<1>3. Group(g, r) = k
  BY <1>2 DEF Sound, WellFormed
<1>4. k[1] = Bucket[r]
  BY DEF Sound, WellFormed
<1>5. k = <<k[1], k[2]>> /\ k[2] \in Nat /\ g.shards[k][r] \in Values
  BY GenTypes
<1> QED BY <1>1, <1>3, <1>4, <1>5 DEF Content

LEMMA GroupOfMember ==
  ASSUME NEW g, NEW r \in Members(g)
  PROVE  Group(g, r) \in DOMAIN g.shards /\ r \in DOMAIN g.shards[Group(g, r)]
BY DEF Group, Members

LEMMA ContentType ==
  ASSUME NEW g \in Gens, Sound(g)
  PROVE  /\ Content(g) \in [Records -> Values \cup {None}]
         /\ \A r \in Records : r \in Members(g) <=> Content(g)[r] # None
<1> SUFFICES ASSUME NEW r \in Records
             PROVE  /\ Content(g)[r] \in Values \cup {None}
                    /\ r \in Members(g) <=> Content(g)[r] # None
  BY DEF Content
<1>1. None \notin Values
  BY NoneAssumption, ValuesAssumption
<1>2. CASE r \in Members(g)
  BY <1>1, <1>2, GroupOfMember, InGroup
<1>3. CASE r \notin Members(g)
  BY <1>3 DEF Content
<1> QED BY <1>2, <1>3

\* The cardinality of a group is a number.
LEMMA GroupSize ==
  ASSUME NEW R \in SUBSET Records
  PROVE  IsFiniteSet(R) /\ Cardinality(R) \in Nat
BY RecordsAssumption, FS_Subset, FS_CardinalityType
-----------------------------------------------------------------------------
(* The journal and the save.                                               *)

LEMMA JournalTypes ==
  ASSUME NEW j \in Journals
  PROVE  /\ j.part \in Partial(Records, Nat) /\ DOMAIN j.part \subseteq Records
         /\ \A r \in DOMAIN j.part : j.part[r] \in Nat
         /\ j.count \in Partial(Keys, Int) /\ DOMAIN j.count \subseteq Keys
         /\ \A k \in DOMAIN j.count : j.count[k] \in Int /\ k[2] \in Nat
         /\ j.dirty \subseteq Records /\ j.full \in BOOLEAN
         /\ j.state \in {"none", "building", "ready"} /\ j.base \in Gens \cup {None}
<1>1. j.part \in Partial(Records, Nat) /\ j.count \in Partial(Keys, Int)
  BY DEF Journals
<1>2. j.part \in [DOMAIN j.part -> Nat] /\ DOMAIN j.part \subseteq Records
  BY <1>1, PartialFacts
<1>3. j.count \in [DOMAIN j.count -> Int] /\ DOMAIN j.count \subseteq Keys
  BY <1>1, PartialFacts
<1>4. \A k \in DOMAIN j.count : k[2] \in Nat
  BY <1>3 DEF Keys
<1>5. j.dirty \subseteq Records /\ j.full \in BOOLEAN /\ j.state \in {"none", "building", "ready"}
      /\ j.base \in Gens \cup {None}
  BY DEF Journals
<1> QED BY <1>1, <1>2, <1>3, <1>4, <1>5

LEMMA SaveTypes ==
  ASSUME NEW s \in Saves
  PROVE  /\ s.part \in Partial(Records, Nat \cup {None}) /\ DOMAIN s.part \subseteq Records
         /\ \A r \in DOMAIN s.part : s.part[r] \in Nat \cup {None}
         /\ s.count \in Partial(Keys, Int) /\ DOMAIN s.count \subseteq Keys
         /\ \A k \in DOMAIN s.count : s.count[k] \in Int /\ k[2] \in Nat
         /\ s.shards \in Partial(Keys, Blobs) /\ DOMAIN s.shards \subseteq Keys
         /\ s.left \subseteq Records /\ s.todo \subseteq Keys /\ s.stamp \in Nat /\ s.full \in BOOLEAN
         /\ s.prior \in Gens \cup {None}
         /\ s.pc \in {"idle", "planning", "writing", "sealed", "committed", "dropped", "importing", "settled"}
<1>1. /\ s.part \in Partial(Records, Nat \cup {None})
      /\ s.count \in Partial(Keys, Int) /\ s.shards \in Partial(Keys, Blobs)
  BY DEF Saves
<1>2. s.part \in [DOMAIN s.part -> Nat \cup {None}] /\ DOMAIN s.part \subseteq Records
  BY <1>1, PartialFacts
<1>3. s.count \in [DOMAIN s.count -> Int] /\ DOMAIN s.count \subseteq Keys
  BY <1>1, PartialFacts
<1>4. \A k \in DOMAIN s.count : k[2] \in Nat
  BY <1>3 DEF Keys
<1>5. DOMAIN s.shards \subseteq Keys
  BY <1>1, PartialFacts
<1>6. s.left \subseteq Records /\ s.todo \subseteq Keys /\ s.stamp \in Nat /\ s.full \in BOOLEAN
      /\ s.prior \in Gens \cup {None}
  BY DEF Saves
<1>7. s.pc \in {"idle", "planning", "writing", "sealed", "committed", "dropped", "importing", "settled"}
  BY DEF Saves
<1> QED BY <1>1, <1>2, <1>3, <1>4, <1>5, <1>6, <1>7

LEMMA NoSaveType == NoSave \in Saves
BY EmptyType DEF NoSave, Saves

LEMMA NoJournalType == NoJournal \in Journals
BY EmptyType DEF NoJournal, Journals

\* The journal built from the shards of a generation mirrors it.
LEMMA BuiltJournal ==
  ASSUME NEW g \in Gens, Sound(g), NEW state \in {"building", "ready"}
  PROVE  /\ JournalOf(g, state) \in Journals /\ Mirrors(JournalOf(g, state), g)
         /\ JournalOf(g, state).state = state /\ JournalOf(g, state).base = g
         /\ JournalOf(g, state).dirty = {} /\ JournalOf(g, state).full = FALSE
<1> DEFINE j == JournalOf(g, state)
<1>1. /\ j.state = state /\ j.base = g /\ j.dirty = {} /\ j.full = FALSE
      /\ j.part = [r \in Members(g) |-> Group(g, r)[2]]
      /\ j.count = [k \in DOMAIN g.shards |-> Cardinality(DOMAIN g.shards[k])]
      /\ j = [state |-> j.state, base |-> j.base, part |-> j.part, count |-> j.count,
              dirty |-> j.dirty, full |-> j.full]
  BY DEF JournalOf
<1> HIDE DEF j
<1>2. \A r \in Members(g) : Group(g, r)[2] \in Nat
  BY GroupOfMember, InGroup
<1>3. \A k \in DOMAIN g.shards : Cardinality(DOMAIN g.shards[k]) \in Nat
  BY GenTypes, GroupSize
<1>4. j.part \in Partial(Records, Nat)
  <2>1. j.part \in [Members(g) -> Nat] /\ Members(g) \subseteq Records
    BY <1>1, <1>2, GenTypes
  <2> QED BY <2>1, PartialFacts
<1>5. j.count \in Partial(Keys, Int)
  <2>1. j.count \in [DOMAIN g.shards -> Int] /\ DOMAIN g.shards \subseteq Keys
    BY <1>1, <1>3, GenTypes
  <2> QED BY <2>1, PartialFacts
<1>6. j \in Journals
  BY <1>1, <1>4, <1>5 DEF Journals
<1>7. Mirrors(j, g)
  <2>1. DOMAIN j.part = Members(g) /\ DOMAIN j.count = DOMAIN g.shards
    BY <1>1
  <2>2. ASSUME NEW k \in DOMAIN g.shards
        PROVE  /\ j.count[k] = Cardinality(DOMAIN g.shards[k]) /\ j.count[k] <= PartSize
               /\ \A r \in DOMAIN g.shards[k] : j.part[r] = k[2]
    <3>1. j.count[k] = Cardinality(DOMAIN g.shards[k]) /\ j.count[k] <= PartSize
      BY <1>1 DEF Sound, WellFormed
    <3>2. ASSUME NEW r \in DOMAIN g.shards[k] PROVE j.part[r] = k[2]
      BY <1>1, InGroup
    <3> QED BY <3>1, <3>2
  <2>3. Bounded(DOMAIN j.count)
    BY <2>1 DEF Sound
  <2> QED BY <2>1, <2>2, <2>3 DEF Mirrors
<1> QED BY <1>1, <1>6, <1>7 DEF j

\* What a mirror says of a row is the row's group.
LEMMA MirrorGroups ==
  ASSUME NEW g \in Gens, NEW j, Mirrors(j, g), NEW r \in DOMAIN j.part
  PROVE  LET k == <<Bucket[r], j.part[r]>>
         IN  k \in DOMAIN g.shards /\ r \in DOMAIN g.shards[k] /\ k \in DOMAIN j.count
             /\ Group(g, r) = k
<1>1. r \in Members(g) /\ Sound(g)
  BY DEF Mirrors
<1>2. PICK k \in DOMAIN g.shards : r \in DOMAIN g.shards[k]
  BY <1>1 DEF Members
<1>3. Group(g, r) = k /\ k = <<Bucket[r], k[2]>>
  BY <1>1, <1>2, InGroup
<1>4. k \in DOMAIN j.count /\ j.part[r] = k[2]
  BY <1>2 DEF Mirrors
<1> QED BY <1>2, <1>3, <1>4

LEMMA MirrorMembers ==
  ASSUME NEW g \in Gens, NEW j, Mirrors(j, g), NEW k \in DOMAIN g.shards, NEW r \in DOMAIN g.shards[k]
  PROVE  r \in Records /\ r \in DOMAIN j.part /\ j.part[r] = k[2] /\ k = <<Bucket[r], j.part[r]>>
<1>1. Sound(g)
  BY DEF Mirrors
<1>2. r \in Members(g) /\ r \in Records /\ k = <<Bucket[r], k[2]>>
  BY <1>1, InGroup
<1>3. j.part[r] = k[2] /\ r \in DOMAIN j.part
  BY <1>2 DEF Mirrors
<1> QED BY <1>2, <1>3
-----------------------------------------------------------------------------
(* What a plan assigns to a group.                                         *)

LEMMA AssignedWhere ==
  ASSUME save \in Saves, journal \in Journals, NEW k \in Keys
  PROVE  Assigned(k) = {r \in Records : Bucket[r] = k[1] /\ Where(r) = k[2]}
<1>1. k[2] # None
  BY NoneAssumption DEF Keys
<1>2. ASSUME NEW r \in Records
      PROVE  (IF r \in DOMAIN save.part THEN save.part[r] = k[2]
              ELSE ~save.full /\ r \in DOMAIN journal.part /\ journal.part[r] = k[2])
             <=> Where(r) = k[2]
  BY <1>1 DEF Where
<1> QED BY <1>2 DEF Assigned

LEMMA WhereType ==
  ASSUME save \in Saves, journal \in Journals, NEW r \in Records
  PROVE  /\ Where(r) \in Nat \cup {None}
         /\ Where(r) # None => /\ <<Bucket[r], Where(r)>> \in Keys
                               /\ r \in Assigned(<<Bucket[r], Where(r)>>)
<1>1. Where(r) \in Nat \cup {None}
  BY JournalTypes, SaveTypes DEF Where
<1>2. Where(r) # None => <<Bucket[r], Where(r)>> \in Keys
  BY <1>1 DEF Keys
<1> QED BY <1>1, <1>2, AssignedWhere

LEMMA AssignedOne ==
  ASSUME save \in Saves, journal \in Journals, NEW k \in Keys, NEW r \in Assigned(k)
  PROVE  r \in Records /\ k = <<Bucket[r], Where(r)>> /\ Where(r) \in Nat /\ Where(r) # None
<1>1. r \in Records /\ Bucket[r] = k[1] /\ Where(r) = k[2]
  BY AssignedWhere
<1>2. k = <<k[1], k[2]>> /\ k[2] \in Nat
  BY DEF Keys
<1> QED BY <1>1, <1>2, NoneAssumption

LEMMA CountType ==
  ASSUME save \in Saves, journal \in Journals, NEW k
  PROVE  Count(k) \in Int
BY JournalTypes, SaveTypes DEF Count

\* The last part of a bucket: the one after it is in no plan.
LEMMA TailIsLast ==
  ASSUME save \in Saves, journal \in Journals, Bounded(DOMAIN save.count), Bounded(DOMAIN journal.count),
         NEW b
  PROVE  /\ Tail(b) \in Nat
         /\ <<b, Tail(b) + 1>> \notin DOMAIN journal.count \cup DOMAIN save.count
         /\ Count(<<b, Tail(b) + 1>>) = 0
<1> DEFINE K == DOMAIN journal.count \cup DOMAIN save.count
<1>1. \A k \in K : k[2] \in Nat
  BY JournalTypes, SaveTypes
<1>2. PICK n \in Nat : \A k \in K : k[2] <= n
  BY <1>1, BoundedUnion DEF Bounded
<1>3. Parts(b) \in SUBSET Nat /\ \A p \in Parts(b) : p <= n
  BY <1>1, <1>2 DEF Parts
<1>4. Tail(b) \in Nat /\ \A p \in Parts(b) : p <= Tail(b)
  <2>1. CASE Parts(b) = {}
    BY <2>1 DEF Tail
  <2>2. CASE Parts(b) # {}
    <3>1. \E p \in Parts(b) : \A q \in Parts(b) : q <= p
      BY <1>3, <2>2, Greatest
    <3> QED BY <1>3, <2>2, <3>1 DEF Tail
  <2> QED BY <2>1, <2>2
<1>5. <<b, Tail(b) + 1>> \notin K
  <2> SUFFICES ASSUME <<b, Tail(b) + 1>> \in K PROVE FALSE
    OBVIOUS
  <2>1. Tail(b) + 1 \in Parts(b)
    BY DEF Parts
  <2> QED BY <1>4, <2>1
<1> QED BY <1>4, <1>5 DEF Count
-----------------------------------------------------------------------------
(* The initial states.                                                     *)

LEMMA PlacementFacts ==
  ASSUME NEW p \in Placements(Present)
  PROVE  /\ p \in [Present -> Nat] /\ DOMAIN p = Present /\ p \in Partial(Records, Nat \cup {None})
         /\ GroupsOf(p) \subseteq Keys /\ Bounded(GroupsOf(p))
         /\ \A k \in GroupsOf(p) : RowsOf(p, k) # {} /\ Cardinality(RowsOf(p, k)) <= PartSize
         /\ \A r \in Present : <<Bucket[r], p[r]>> \in GroupsOf(p) /\ r \in RowsOf(p, <<Bucket[r], p[r]>>)
<1>1. Present \subseteq Records /\ Cardinality(Present) \in Nat
  BY GroupSize DEF Present
<1>2. p \in [Present -> 0..Cardinality(Present)]
  BY DEF Placements
<1>3. DOMAIN p = Present /\ p \in [Present -> Nat]
  BY <1>1, <1>2
<1>4. p \in Partial(Records, Nat \cup {None})
  BY <1>1, <1>3, PartialFacts
<1>5. GroupsOf(p) \subseteq Keys
  BY <1>1, <1>3 DEF GroupsOf, Keys
<1>6. \A k \in GroupsOf(p) : k[2] <= Cardinality(Present)
  BY <1>1, <1>2 DEF GroupsOf
<1>7. Bounded(GroupsOf(p))
  BY <1>1, <1>6 DEF Bounded
<1>8. ASSUME NEW r \in Present
      PROVE  <<Bucket[r], p[r]>> \in GroupsOf(p) /\ r \in RowsOf(p, <<Bucket[r], p[r]>>)
  BY <1>3 DEF GroupsOf, RowsOf
<1>9. ASSUME NEW k \in GroupsOf(p)
      PROVE  RowsOf(p, k) # {} /\ Cardinality(RowsOf(p, k)) <= PartSize
  <2>1. PICK r \in Present : k = <<Bucket[r], p[r]>>
    BY <1>3 DEF GroupsOf
  <2>2. RowsOf(p, k) = {s \in Present : Bucket[s] = Bucket[r] /\ p[s] = p[r]}
    BY <1>3, <2>1 DEF RowsOf
  <2>3. Cardinality({s \in Present : Bucket[s] = Bucket[r] /\ p[s] = p[r]}) <= PartSize
    BY DEF Placements
  <2> QED BY <1>8, <2>1, <2>2, <2>3
<1> QED BY <1>3, <1>4, <1>5, <1>7, <1>8, <1>9

\* With no plan nor a write under way there is little to keep.
LEMMA NoPlanInvariant ==
  ASSUME save'.pc \in {"idle", "dropped", "importing", "settled"}
  PROVE  /\ PlanIncremental' /\ PlanWhole' /\ PlanFits' /\ WritesWhatIsPlanned'
         /\ save'.pc # "dropped" => SealedIsWhole'
BY DEF PlanIncremental, PlanWhole, PlanFits, WritesWhatIsPlanned, SealedIsWhole

\* The brain that was loaded is in well-formed groups and is what is in memory.
LEMMA InitialGeneration ==
  ASSUME Init
  PROVE  committed \in Gens /\ Sound(committed) /\ Content(committed) = rows
<1>1. rows \in [Records -> Values \cup {None}] /\ revision = 0 /\ save = NoSave
  BY ValuesAssumption DEF Init
<1>2. PICK p \in Placements(Present) :
        committed = [revision |-> 0, shards |-> [k \in GroupsOf(p) |-> [r \in RowsOf(p, k) |-> rows[r]]]]
  BY DEF Init
<1>3. /\ DOMAIN committed.shards = GroupsOf(p) /\ committed.revision = 0
      /\ \A k \in GroupsOf(p) : committed.shards[k] = [r \in RowsOf(p, k) |-> rows[r]]
      /\ committed = [revision |-> committed.revision, shards |-> committed.shards]
      /\ committed.shards = [k \in GroupsOf(p) |-> committed.shards[k]]
  BY <1>2
<1>4. \A k \in GroupsOf(p) :
        RowsOf(p, k) \subseteq Present /\ \A r \in RowsOf(p, k) : Bucket[r] = k[1] /\ p[r] = k[2]
  BY PlacementFacts DEF RowsOf
<1>5. \A r \in Present : r \in Records /\ rows[r] \in Values
  BY <1>1 DEF Present
<1>6. committed \in Gens
  <2>1. ASSUME NEW k \in GroupsOf(p) PROVE committed.shards[k] \in Blobs
    <3>1. committed.shards[k] = [r \in RowsOf(p, k) |-> rows[r]] /\ DOMAIN committed.shards[k] = RowsOf(p, k)
      BY <1>3
    <3>2. RowsOf(p, k) \subseteq Records /\ \A r \in RowsOf(p, k) : rows[r] \in Values
      BY <1>4, <1>5
    <3>3. committed.shards[k] \in [RowsOf(p, k) -> Values]
      BY <3>1, <3>2
    <3> QED BY <3>1, <3>2, <3>3, PartialFacts DEF Blobs
  <2>2. committed.shards \in [GroupsOf(p) -> Blobs] /\ GroupsOf(p) \subseteq Keys
    BY <1>3, <2>1, PlacementFacts
  <2>3. committed.shards \in Partial(Keys, Blobs)
    BY <1>3, <2>2, PartialFacts
  <2>4. committed.revision \in 0..MaxChanges
    BY <1>3, PartSizeAssumption
  <2> QED BY <1>3, <2>3, <2>4 DEF Gens
<1>7. Sound(committed)
  <2>1. ASSUME NEW k \in DOMAIN committed.shards
        PROVE  /\ DOMAIN committed.shards[k] # {} /\ Cardinality(DOMAIN committed.shards[k]) <= PartSize
               /\ \A r \in DOMAIN committed.shards[k] : Bucket[r] = k[1]
    <3>1. k \in GroupsOf(p) /\ DOMAIN committed.shards[k] = RowsOf(p, k)
      BY <1>3, <2>1
    <3>2. RowsOf(p, k) # {} /\ Cardinality(RowsOf(p, k)) <= PartSize
      BY <3>1, PlacementFacts
    <3> QED BY <1>4, <3>1, <3>2
  <2>2. ASSUME NEW j \in DOMAIN committed.shards, NEW k \in DOMAIN committed.shards, j # k
        PROVE  DOMAIN committed.shards[j] \cap DOMAIN committed.shards[k] = {}
    <3> SUFFICES ASSUME NEW r \in RowsOf(p, j), r \in RowsOf(p, k) PROVE FALSE
      BY <1>3
    <3>1. j \in Keys /\ k \in Keys
      BY <1>3, PlacementFacts
    <3>2. j = <<Bucket[r], p[r]>> /\ k = <<Bucket[r], p[r]>>
      BY <1>3, <1>4, <3>1 DEF Keys
    <3> QED BY <2>2, <3>2
  <2>3. Bounded(DOMAIN committed.shards)
    BY <1>3, PlacementFacts
  <2> QED BY <2>1, <2>2, <2>3 DEF Sound, WellFormed
<1>8. Content(committed) = rows
  <2> SUFFICES ASSUME NEW r \in Records PROVE Content(committed)[r] = rows[r]
    BY <1>1, <1>6, <1>7, ContentType
  <2>1. CASE r \in Present
    <3>1. PICK k \in GroupsOf(p) : r \in RowsOf(p, k)
      BY <2>1, PlacementFacts
    <3>2. committed.shards[k][r] = rows[r]
      BY <1>3, <3>1
    <3> QED BY <1>3, <1>6, <1>7, <3>1, <3>2, InGroup
  <2>2. CASE r \notin Present
    <3>1. \A k \in DOMAIN committed.shards : r \notin DOMAIN committed.shards[k]
      <4> TAKE k \in DOMAIN committed.shards
      <4>1. k \in GroupsOf(p) /\ DOMAIN committed.shards[k] = RowsOf(p, k)
        BY <1>3
      <4> QED BY <1>4, <2>2, <4>1
    <3>2. r \notin Members(committed)
      BY <3>1 DEF Members
    <3> QED BY <2>2, <3>2 DEF Content, Present
  <2> QED BY <2>1, <2>2
<1> QED BY <1>6, <1>7, <1>8

LEMMA InitInvariant == Init => IInv
<1> SUFFICES ASSUME Init PROVE IInv
  OBVIOUS
<1>1. rows \in [Records -> Values \cup {None}] /\ revision = 0 /\ save = NoSave
  BY ValuesAssumption DEF Init
<1>2. committed \in Gens /\ Sound(committed) /\ Content(committed) = rows
  BY InitialGeneration
<1>3. /\ manifest = committed /\ journal = JournalOf(committed, "ready")
      /\ generations = {committed} /\ blobs = BlobsOf(committed)
  BY DEF Init
<1>4. Types
  <2>1. journal \in Journals /\ save \in Saves
    BY <1>1, <1>2, <1>3, BuiltJournal, NoSaveType
  <2>2. blobs \subseteq Blobs
    BY <1>2, <1>3, GenTypes DEF BlobsOf
  <2>3. save.stamp <= revision /\ revision \in 0..MaxChanges
    BY <1>1, PartSizeAssumption DEF NoSave
  <2> QED BY <1>1, <1>2, <1>3, <2>1, <2>2, <2>3 DEF Types
<1>5. GenerationsKept
  BY <1>1, <1>2, <1>3 DEF GenerationsKept, Stored, NoSave
<1>6. JournalMirrors
  <2>1. journal.base = committed /\ Mirrors(journal, committed)
    BY <1>2, <1>3, BuiltJournal
  <2>2. committed \in Gens
    BY <1>2
  <2>3. Marks(journal, committed)
    BY <1>2 DEF Marks
  <2> QED BY <1>1, <2>1, <2>2, <2>3 DEF JournalMirrors, NoSave
<1>7. PlanIncremental /\ PlanWhole /\ PlanFits /\ WritesWhatIsPlanned /\ SealedIsWhole
  BY <1>1 DEF NoSave, PlanIncremental, PlanWhole, PlanFits, WritesWhatIsPlanned, SealedIsWhole
<1> QED BY <1>4, <1>5, <1>6, <1>7 DEF IInv
-----------------------------------------------------------------------------
(* Learning.  A change outdates what a plan says of the present, and the   *)
(* journal marks it.                                                       *)

LEMMA ChangeInvariant ==
  ASSUME IInv, ~Locked, revision < MaxChanges, revision' = revision + 1,
         rows' \in [Records -> Values \cup {None}],
         journal' \in Journals,
         journal'.state = journal.state, journal'.base = journal.base,
         journal'.part = journal.part, journal'.count = journal.count,
         journal.state # "none" => Marks(journal, journal.base)',
         UNCHANGED <<manifest, committed, store, save, mishaps>>
  PROVE  IInv'
<1>1. UNCHANGED <<manifest, committed, generations, blobs, save>>
  BY DEF store
<1>2. Types /\ save \in Saves /\ journal \in Journals /\ save.stamp \in Nat /\ save.stamp <= revision
      /\ revision \in 0..MaxChanges
  BY SaveTypes DEF IInv, Types
<1>3. revision' # save.stamp /\ save.stamp <= revision' /\ revision' \in 0..MaxChanges
  BY <1>2, PartSizeAssumption
<1>4. Types'
  BY <1>1, <1>2, <1>3 DEF Types
<1>5. GenerationsKept'
  BY <1>1 DEF IInv, GenerationsKept, Stored
<1>6. JournalMirrors'
  <2>1. journal.state # "none" => Mirrors(journal', journal.base)
    BY DEF IInv, JournalMirrors, Mirrors
  <2>2. save.pc = "importing" => journal.state # "none"
    BY DEF IInv, JournalMirrors
  <2>3. journal.state # "none" => journal.base \in Gens
    BY DEF IInv, JournalMirrors
  <2>4. journal'.state # "none" =>
          journal'.base \in Gens /\ Mirrors(journal, journal.base)' /\ Marks(journal, journal.base)'
    BY <2>1, <2>3
  <2> QED BY <1>1, <2>2, <2>4 DEF JournalMirrors
<1>7. PlanIncremental' /\ PlanWhole'
  BY <1>1 DEF IInv, PlanIncremental, PlanWhole
<1>8. PlanFits'
  BY <1>1, <1>3 DEF IInv, PlanFits, Locked
<1>9. \A k : Assigned(k)' = Assigned(k) /\ Count(k)' = Count(k)
  BY <1>1 DEF Assigned, Count
<1>10. WritesWhatIsPlanned'
  <2>1. /\ Rewritten' = Rewritten /\ Old' = Old
        /\ \A k : Holds(save.shards, k)' = Holds(save.shards, k)
    BY <1>1, <1>9 DEF Rewritten, Old, Holds
  <2>2. SUFFICES ASSUME save.pc = "writing" PROVE WritesWhatIsPlanned'
    BY <1>1 DEF WritesWhatIsPlanned
  <2>3. WritesWhatIsPlanned
    BY DEF IInv
  <2>4. /\ save.todo \subseteq Rewritten
        /\ \A k \in Keys \ (Rewritten \ save.todo) :
             /\ k \in DOMAIN save.shards <=> k \in DOMAIN Old
             /\ k \in DOMAIN save.shards => save.shards[k] = Old[k]
        /\ \A k \in Rewritten \ save.todo : Holds(save.shards, k)
    BY <2>2, <2>3 DEF WritesWhatIsPlanned
  <2> QED BY <1>1, <1>3, <2>1, <2>4 DEF WritesWhatIsPlanned
<1>11. SealedIsWhole'
  BY <1>1, <1>3, <1>9 DEF IInv, SealedIsWhole
<1> QED BY <1>4, <1>5, <1>6, <1>7, <1>8, <1>10, <1>11 DEF IInv

LEMMA LearnInvariant ==
  ASSUME IInv, NEW r \in Records, NEW c \in Written, Learn(r, c)
  PROVE  IInv'
<1>1. rows \in [Records -> Values \cup {None}] /\ journal \in Journals /\ c \in Values \cup {None}
  BY ValuesAssumption DEF IInv, Types
<1>2. rows' = [rows EXCEPT ![r] = c] /\ rows' \in [Records -> Values \cup {None}]
  BY <1>1 DEF Learn
<1>3. /\ journal' \in Journals /\ journal'.state = journal.state /\ journal'.base = journal.base
      /\ journal'.part = journal.part /\ journal'.count = journal.count /\ journal'.full = journal.full
      /\ journal.state # "none" => journal'.dirty = journal.dirty \cup {r}
  <2>1. CASE Tracked
    <3>1. journal' = [journal EXCEPT !.dirty = @ \cup {r}]
      BY <2>1 DEF Learn, Mark
    <3> QED BY <1>1, <3>1 DEF Journals
  <2>2. CASE ~Tracked
    <3>1. journal' = journal /\ journal.state = "none"
      BY <2>2 DEF Learn, Mark, Tracked
    <3> QED BY <1>1, <3>1
  <2> QED BY <2>1, <2>2
<1>4. ASSUME journal.state # "none" PROVE Marks(journal, journal.base)'
  <2>1. Marks(journal, journal.base)
    BY <1>4 DEF IInv, JournalMirrors
  <2>2. \A s \in Records : s # r => rows'[s] = rows[s]
    BY <1>1, <1>2
  <2>3. journal'.dirty = journal.dirty \cup {r}
    BY <1>3, <1>4
  <2> QED BY <1>3, <2>1, <2>2, <2>3 DEF Marks
<1> QED BY <1>2, <1>3, <1>4, ChangeInvariant DEF Learn

LEMMA DecayedType ==
  ASSUME NEW m \in [Records -> Values \cup {None}]
  PROVE  /\ Decayed(m) \in [Records -> Values \cup {None}]
         /\ \A r \in Records : /\ r \notin Neurons => Decayed(m)[r] = m[r]
                               /\ Decayed(m)[r] = None <=> m[r] = None
<1> SUFFICES ASSUME NEW r \in Records
             PROVE  /\ Decayed(m)[r] \in Values \cup {None}
                    /\ r \notin Neurons => Decayed(m)[r] = m[r]
                    /\ Decayed(m)[r] = None <=> m[r] = None
  BY DEF Decayed
<1>1. None \notin Values /\ None \notin Nat /\ Values \subseteq Nat
  BY NoneAssumption, ValuesAssumption
<1>2. CASE r \in Neurons /\ m[r] \notin {None, 0}
  <2>1. m[r] \in Values /\ m[r] # 0
    BY <1>2
  <2>2. m[r] - 1 \in Values
    BY <2>1, ValuesAssumption
  <2>3. Decayed(m)[r] = m[r] - 1
    BY <1>2 DEF Decayed
  <2> QED BY <1>1, <1>2, <2>2, <2>3
<1>3. CASE ~(r \in Neurons /\ m[r] \notin {None, 0})
  BY <1>3 DEF Decayed
<1> QED BY <1>2, <1>3

LEMMA DecayInvariant ==
  ASSUME IInv, Decay
  PROVE  IInv'
<1>1. rows \in [Records -> Values \cup {None}] /\ journal \in Journals
  BY DEF IInv, Types
<1>2. rows' = Decayed(rows) /\ rows' \in [Records -> Values \cup {None}]
  BY <1>1, DecayedType DEF Decay
<1>3. /\ journal' \in Journals /\ journal'.state = journal.state /\ journal'.base = journal.base
      /\ journal'.part = journal.part /\ journal'.count = journal.count /\ journal'.dirty = journal.dirty
      /\ journal.state # "none" => journal'.full = TRUE
  <2>1. CASE Tracked
    <3>1. journal' = [journal EXCEPT !.full = TRUE]
      BY <2>1 DEF Decay, MarkAll
    <3> QED BY <1>1, <3>1 DEF Journals
  <2>2. CASE ~Tracked
    <3>1. journal' = journal /\ journal.state = "none"
      BY <2>2 DEF Decay, MarkAll, Tracked
    <3> QED BY <1>1, <3>1
  <2> QED BY <2>1, <2>2
<1>4. ASSUME journal.state # "none" PROVE Marks(journal, journal.base)'
  <2>1. Marks(journal, journal.base) /\ journal'.full = TRUE
    BY <1>3, <1>4 DEF IInv, JournalMirrors
  <2> SUFFICES ASSUME NEW r \in Records
               PROVE  \/ r \in journal.dirty \/ rows'[r] = Content(journal.base)[r]
                      \/ r \in Neurons /\ rows'[r] # None /\ Content(journal.base)[r] # None
    BY <1>3, <2>1 DEF Marks
  <2>2. /\ r \notin Neurons => rows'[r] = rows[r]
        /\ rows'[r] = None <=> rows[r] = None
    BY <1>1, <1>2, DecayedType
  <2>3. \/ r \in journal.dirty \/ rows[r] = Content(journal.base)[r]
        \/ r \in Neurons /\ rows[r] # None /\ Content(journal.base)[r] # None
    BY <2>1 DEF Marks
  <2> QED BY <2>2, <2>3
<1> QED BY <1>2, <1>3, <1>4, ChangeInvariant DEF Decay
-----------------------------------------------------------------------------
(* Planning.                                                               *)

\* A step of the planning touches the save alone.
LEMMA SaveStep ==
  ASSUME IInv, UNCHANGED <<rows, revision, journal, manifest, committed, store>>, save.pc # "sealed",
         save' \in Saves, save'.stamp <= revision,
         save'.pc \in {"planning", "writing"}, save'.prior = committed
  PROVE  Types' /\ GenerationsKept' /\ JournalMirrors' /\ SealedIsWhole'
<1>1. Types'
  BY DEF IInv, Types, store
<1>2. GenerationsKept'
  <2>1. Stored(committed) /\ Stored(manifest) /\ manifest = committed
    BY DEF IInv, GenerationsKept
  <2>2. Stored(committed)' /\ Stored(manifest)'
    BY <2>1 DEF Stored, store
  <2> QED BY <2>1, <2>2 DEF GenerationsKept
<1>3. JournalMirrors'
  BY DEF IInv, JournalMirrors, Marks
<1>4. SealedIsWhole'
  BY DEF SealedIsWhole
<1> QED BY <1>1, <1>2, <1>3, <1>4

\* A journal over a generation, and what is not marked in it.
LEMMA UnmarkedFits ==
  ASSUME rows \in [Records -> Values \cup {None}], NEW g \in Gens, NEW j \in Journals,
         Mirrors(j, g), Marks(j, g), NEW r \in Records, r \notin j.dirty
  PROVE  /\ rows[r] = None <=> r \notin DOMAIN j.part
         /\ r \in DOMAIN j.part /\ rows[r] # Content(g)[r] => j.full /\ r \in Neurons
<1>1. r \in DOMAIN j.part <=> Content(g)[r] # None
  BY ContentType DEF Mirrors
<1>2. rows[r] = Content(g)[r] \/ (j.full /\ r \in Neurons /\ rows[r] # None /\ Content(g)[r] # None)
  BY DEF Marks
<1> QED BY <1>1, <1>2

LEMMA PlanInvariant ==
  ASSUME IInv, Plan
  PROVE  IInv'
<1>1. /\ rows \in [Records -> Values \cup {None}] /\ journal \in Journals /\ manifest \in Gens
      /\ revision \in Nat
  BY PartSizeAssumption DEF IInv, Types
<1>2. journal.state = "ready" /\ journal.base = manifest /\ save.pc = "idle"
  BY DEF Plan, Usable
<1>3. Mirrors(journal, manifest) /\ Marks(journal, manifest)
  BY <1>2 DEF IInv, JournalMirrors
<1>4. manifest = committed
  BY <1>2 DEF IInv, GenerationsKept
<1> DEFINE count == IF ~journal.full THEN Empty
                    ELSE [k \in {j \in DOMAIN journal.count : NeuronGroup(j)} |-> journal.count[k]]
<1>5. /\ DOMAIN count \subseteq DOMAIN journal.count
      /\ \A k \in DOMAIN count : count[k] = journal.count[k]
      /\ journal.full => \A k \in DOMAIN journal.count : NeuronGroup(k) => k \in DOMAIN count
  BY EmptyType
<1>6. count \in Partial(Keys, Int)
  <2>1. CASE ~journal.full
    BY <2>1, EmptyType
  <2>2. CASE journal.full
    <3>1. count = [k \in DOMAIN count |-> journal.count[k]]
      BY <2>2
    <3> HIDE DEF count
    <3>2. \A k \in DOMAIN count : journal.count[k] \in Int
      BY <1>1, <1>5, JournalTypes
    <3>3. count \in [DOMAIN count -> Int] /\ DOMAIN count \subseteq Keys
      BY <1>1, <1>5, <3>1, <3>2, JournalTypes
    <3> QED BY <3>3, PartialFacts
  <2> QED BY <2>1, <2>2
<1>7. save' = [NoSave EXCEPT !.pc = "planning", !.prior = manifest, !.stamp = revision,
                             !.left = journal.dirty, !.shards = manifest.shards, !.count = count]
  BY DEF Plan
<1> HIDE DEF count
<1>8. /\ save'.pc = "planning" /\ save'.prior = manifest /\ save'.stamp = revision
      /\ save'.left = journal.dirty /\ save'.shards = manifest.shards /\ save'.count = count
      /\ save'.full = FALSE /\ save'.part = Empty /\ save'.todo = {}
  BY <1>7 DEF NoSave
<1>9. save' \in Saves
  <2>1. manifest.shards \in Partial(Keys, Blobs) /\ journal.dirty \subseteq Records
    BY <1>1, GenTypes, JournalTypes
  <2> QED BY <1>1, <1>6, <1>7, <2>1, NoSaveType DEF Saves
<1>10. UNCHANGED <<rows, revision, journal, manifest, committed, store>>
  BY DEF Plan
<1>11. Types' /\ GenerationsKept' /\ JournalMirrors' /\ SealedIsWhole'
  BY <1>1, <1>2, <1>4, <1>8, <1>9, <1>10, SaveStep
<1>12. PlanIncremental'
  <2>1. \A k \in DOMAIN count : count[k] <= PartSize
    BY <1>3, <1>5 DEF Mirrors
  <2>2. Bounded(DOMAIN count)
    BY <1>3, <1>5, BoundedSubset DEF Mirrors
  <2> QED BY <1>2, <1>8, <1>10, <2>1, <2>2, EmptyType DEF PlanIncremental
<1>13. PlanWhole' /\ WritesWhatIsPlanned'
  BY <1>8 DEF PlanWhole, WritesWhatIsPlanned
<1>14. PlanFits'
  <2>1. ASSUME NEW r \in Records, r \notin journal.dirty PROVE Fits(r)'
    <3>1. Where(r)' = IF r \in DOMAIN journal.part THEN journal.part[r] ELSE None
      BY <1>8, <1>10, EmptyType DEF Where
    <3>2. /\ rows[r] = None <=> r \notin DOMAIN journal.part
          /\ r \in DOMAIN journal.part /\ rows[r] # Content(manifest)[r] => journal.full /\ r \in Neurons
      BY <1>1, <1>3, <2>1, UnmarkedFits
    <3>3. r \in DOMAIN journal.part => journal.part[r] # None
      BY <1>1, JournalTypes, NoneAssumption
    <3>4. ASSUME r \in DOMAIN journal.part, rows[r] # Content(manifest)[r]
          PROVE  <<Bucket[r], journal.part[r]>> \in DOMAIN count
      <4>1. <<Bucket[r], journal.part[r]>> \in DOMAIN journal.count
        BY <1>1, <1>3, <3>4, MirrorGroups
      <4>2. NeuronGroup(<<Bucket[r], journal.part[r]>>)
        BY <3>2, <3>4 DEF NeuronGroup
      <4> QED BY <1>5, <3>2, <3>4, <4>1, <4>2
    <3> QED BY <1>8, <1>10, <3>1, <3>2, <3>3, <3>4 DEF Fits
  <2>2. save'.shards = Old'
    BY <1>8 DEF Old
  <2> QED BY <1>8, <1>10, <2>1, <2>2, EmptyType DEF PlanFits
<1> QED BY <1>11, <1>12, <1>13, <1>14 DEF IInv

LEMMA PlanningFacts ==
  ASSUME IInv, save.pc = "planning"
  PROVE  /\ rows \in [Records -> Values \cup {None}] /\ journal \in Journals /\ save \in Saves
         /\ committed \in Gens /\ save.prior = committed /\ save.full = FALSE
         /\ journal.base = committed /\ Mirrors(journal, committed)
         /\ Bounded(DOMAIN journal.count) /\ Bounded(DOMAIN save.count)
         /\ \A k \in DOMAIN save.count : save.count[k] <= PartSize
         /\ revision = save.stamp /\ save.left \subseteq Records /\ save.left \cap DOMAIN save.part = {}
<1>1. /\ rows \in [Records -> Values \cup {None}] /\ journal \in Journals /\ save \in Saves
      /\ committed \in Gens /\ save.left \subseteq Records /\ save.full \in BOOLEAN
  BY SaveTypes DEF IInv, Types
<1>2. save.prior = committed
  BY DEF IInv, GenerationsKept
<1>3. save.full = FALSE
  BY <1>1 DEF IInv, PlanWhole
<1>4. journal.state = "ready" /\ journal.base = save.prior /\ Bounded(DOMAIN save.count)
      /\ \A k \in DOMAIN save.count : save.count[k] <= PartSize
  BY <1>3 DEF IInv, PlanIncremental
<1>5. Mirrors(journal, committed)
  BY <1>2, <1>4 DEF IInv, JournalMirrors
<1>6. Bounded(DOMAIN journal.count)
  BY <1>5 DEF Mirrors
<1>7. revision = save.stamp /\ save.left \cap DOMAIN save.part = {}
  BY DEF IInv, PlanFits
<1> QED BY <1>1, <1>2, <1>3, <1>4, <1>5, <1>6, <1>7

\* A row is placed: the others stay where they were, and no group shrinks out
\* of the plan.
LEMMA PlaceInvariant ==
  ASSUME IInv, NEW r, Take(r), UNCHANGED <<rows, revision, journal, manifest, committed, store, mishaps>>,
         save' \in Saves, save'.pc = save.pc, save'.full = save.full, save'.prior = save.prior,
         save'.stamp = save.stamp, save'.shards = save.shards, save'.left = save.left \ {r},
         DOMAIN save.part \subseteq DOMAIN save'.part, DOMAIN save'.part \subseteq DOMAIN save.part \cup {r},
         \A s \in DOMAIN save.part : s # r => save'.part[s] = save.part[s],
         r \in DOMAIN save'.part =>
           IF r \in DOMAIN journal.part
           THEN save'.part[r] = None /\ <<Bucket[r], journal.part[r]>> \in DOMAIN save'.count
           ELSE save'.part[r] \in Nat /\ <<Bucket[r], save'.part[r]>> \in DOMAIN save'.count,
         DOMAIN save.count \subseteq DOMAIN save'.count, Bounded(DOMAIN save'.count),
         \A k \in DOMAIN save'.count : save'.count[k] <= PartSize,
         Fits(r)'
  PROVE  IInv'
<1>1. save.pc = "planning" /\ r \in save.left
  BY DEF Take
<1>2. /\ save.full = FALSE /\ save.prior = committed /\ revision = save.stamp
      /\ save.left \subseteq Records /\ save.left \cap DOMAIN save.part = {}
      /\ save.stamp <= revision
  BY <1>1, PlanningFacts DEF IInv, Types
<1>3. Types' /\ GenerationsKept' /\ JournalMirrors' /\ SealedIsWhole'
  BY <1>1, <1>2, SaveStep
<1>4. PlanIncremental'
  <2>1. /\ journal.state = "ready" /\ journal.base = save.prior
        /\ \A s \in DOMAIN save.part :
             IF s \in DOMAIN journal.part
             THEN save.part[s] = None /\ <<Bucket[s], journal.part[s]>> \in DOMAIN save.count
             ELSE save.part[s] \in Nat /\ <<Bucket[s], save.part[s]>> \in DOMAIN save.count
    BY <1>1, <1>2 DEF IInv, PlanIncremental
  <2>2. ASSUME NEW s \in DOMAIN save'.part
        PROVE  IF s \in DOMAIN journal.part
               THEN save'.part[s] = None /\ <<Bucket[s], journal.part[s]>> \in DOMAIN save'.count
               ELSE save'.part[s] \in Nat /\ <<Bucket[s], save'.part[s]>> \in DOMAIN save'.count
    <3>1. CASE s = r
      BY <2>2, <3>1
    <3>2. CASE s # r
      <4>1. s \in DOMAIN save.part /\ save'.part[s] = save.part[s]
        BY <2>2, <3>2
      <4> QED BY <2>1, <4>1
    <3> QED BY <3>1, <3>2
  <2> QED BY <2>1, <2>2 DEF PlanIncremental
<1>5. PlanWhole' /\ WritesWhatIsPlanned'
  BY <1>1, <1>2 DEF PlanWhole, WritesWhatIsPlanned
<1>6. PlanFits'
  <2>1. ASSUME NEW s \in Records \ save'.left PROVE Fits(s)'
    <3>1. CASE s = r
      BY <3>1
    <3>2. CASE s # r
      <4>1. Where(s)' = Where(s)
        <5>1. s \in DOMAIN save'.part <=> s \in DOMAIN save.part
          BY <3>2
        <5>2. s \in DOMAIN save.part => save'.part[s] = save.part[s]
          BY <3>2
        <5> QED BY <5>1, <5>2 DEF Where
      <4>2. s \in Records \ save.left
        BY <2>1, <3>2
      <4>3. Fits(s)
        BY <1>1, <1>2, <4>2 DEF IInv, PlanFits
      <4> QED BY <4>1, <4>3 DEF Fits
    <3> QED BY <3>1, <3>2
  <2>2. save'.left \cap DOMAIN save'.part = {}
    BY <1>2
  <2>3. save'.shards = Old'
    <3>1. save.shards = Old
      BY <1>1 DEF IInv, PlanFits
    <3> QED BY <3>1 DEF Old
  <2> QED BY <1>1, <1>2, <2>1, <2>2, <2>3 DEF PlanFits
<1> QED BY <1>3, <1>4, <1>5, <1>6 DEF IInv

LEMMA PlaceKnownInvariant ==
  ASSUME IInv, NEW r \in Records, PlaceKnown(r)
  PROVE  IInv'
<1>1. Take(r) /\ save.pc = "planning" /\ r \in save.left /\ r \in DOMAIN journal.part
  BY DEF PlaceKnown, Take
<1>2. /\ journal \in Journals /\ save \in Saves /\ save.full = FALSE /\ r \notin DOMAIN save.part
      /\ committed \in Gens /\ Mirrors(journal, committed) /\ Bounded(DOMAIN save.count)
      /\ \A k \in DOMAIN save.count : save.count[k] <= PartSize
  BY <1>1, PlanningFacts
<1> DEFINE k == <<Bucket[r], journal.part[r]>>
           n == Count(k) - (IF rows[r] = None THEN 1 ELSE 0)
           part == IF rows[r] = None THEN Put(save.part, r, None) ELSE save.part
<1>3. save' = [save EXCEPT !.left = @ \ {r}, !.count = Put(@, k, n), !.part = part]
  BY DEF PlaceKnown
<1>4. k \in DOMAIN journal.count /\ k \in Keys /\ journal.part[r] \in Nat
  BY <1>1, <1>2, MirrorGroups, JournalTypes
<1>5. Count(k) <= PartSize /\ n \in Int /\ n <= PartSize
  <2>1. Count(k) \in Int
    BY <1>2, CountType
  <2>2. Count(k) <= PartSize
    BY <1>2, <1>4 DEF Count, Mirrors
  <2> QED BY <2>1, <2>2, PartSizeAssumption
<1>6. part \in Partial(Records, Nat \cup {None})
  BY <1>2, SaveTypes, PutType
<1>7. /\ DOMAIN save.part \subseteq DOMAIN part /\ DOMAIN part \subseteq DOMAIN save.part \cup {r}
      /\ \A s \in DOMAIN save.part : s # r => part[s] = save.part[s]
      /\ r \in DOMAIN part <=> rows[r] = None
      /\ r \in DOMAIN part => part[r] = None
  BY <1>2 DEF Put
<1> HIDE DEF k, n, part
<1>8. /\ DOMAIN Put(save.count, k, n) = DOMAIN save.count \cup {k}
      /\ Put(save.count, k, n) \in Partial(Keys, Int)
      /\ \A j \in DOMAIN Put(save.count, k, n) : Put(save.count, k, n)[j] <= PartSize
  <2>1. Put(save.count, k, n) \in Partial(Keys, Int)
    BY <1>2, <1>4, <1>5, SaveTypes, PutType
  <2> QED BY <1>2, <1>5, <2>1 DEF Put
<1>9. save' \in Saves
  BY <1>2, <1>3, <1>6, <1>8 DEF Saves
<1>10. /\ save'.pc = save.pc /\ save'.full = save.full /\ save'.prior = save.prior
       /\ save'.stamp = save.stamp /\ save'.shards = save.shards /\ save'.left = save.left \ {r}
       /\ save'.part = part /\ save'.count = Put(save.count, k, n)
  BY <1>2, <1>3 DEF Saves
<1>11. Bounded(DOMAIN save.count \cup {k})
  <2>1. Bounded({k})
    BY <1>4 DEF Bounded, k
  <2>2. \A j \in DOMAIN save.count \cup {k} : j[2] \in Nat
    BY <1>2, <1>4, SaveTypes DEF k
  <2> QED BY <1>2, <2>1, <2>2, BoundedUnion
<1>12. UNCHANGED <<rows, revision, journal, manifest, committed, store, mishaps>>
  BY DEF PlaceKnown
<1>13. Fits(r)'
  <2>1. Where(r)' = IF rows[r] = None THEN None ELSE journal.part[r]
    BY <1>1, <1>2, <1>7, <1>10, <1>12 DEF Where
  <2>2. journal.part[r] # None
    BY <1>4, NoneAssumption
  <2> QED BY <1>8, <1>10, <1>12, <2>1, <2>2 DEF Fits, k
<1>14. r \in DOMAIN part => IF r \in DOMAIN journal.part
         THEN part[r] = None /\ <<Bucket[r], journal.part[r]>> \in DOMAIN save'.count
         ELSE part[r] \in Nat /\ <<Bucket[r], part[r]>> \in DOMAIN save'.count
  BY <1>1, <1>7, <1>8, <1>10 DEF k
<1> QED BY <1>1, <1>7, <1>8, <1>9, <1>10, <1>11, <1>12, <1>13, <1>14, PlaceInvariant

LEMMA PlaceNewInvariant ==
  ASSUME IInv, NEW r \in Records, PlaceNew(r)
  PROVE  IInv'
<1>1. Take(r) /\ save.pc = "planning" /\ r \in save.left /\ r \notin DOMAIN journal.part
  BY DEF PlaceNew, Take
<1>2. /\ journal \in Journals /\ save \in Saves /\ save.full = FALSE /\ r \notin DOMAIN save.part
      /\ Mirrors(journal, committed) /\ Bounded(DOMAIN save.count) /\ Bounded(DOMAIN journal.count)
      /\ \A k \in DOMAIN save.count : save.count[k] <= PartSize
  BY <1>1, PlanningFacts
<1>3. UNCHANGED <<rows, revision, journal, manifest, committed, store, mishaps>>
  BY DEF PlaceNew
<1>4. CASE rows[r] = None
  <2>1. save' = [save EXCEPT !.left = @ \ {r}]
    BY <1>4 DEF PlaceNew
  <2>2. save' \in Saves /\ save' = [save EXCEPT !.left = save.left \ {r}]
    BY <1>2, <2>1 DEF Saves
  <2>3. /\ save'.pc = save.pc /\ save'.full = save.full /\ save'.prior = save.prior
        /\ save'.stamp = save.stamp /\ save'.shards = save.shards /\ save'.left = save.left \ {r}
        /\ save'.part = save.part /\ save'.count = save.count
    BY <1>2, <2>2 DEF Saves
  <2>4. Fits(r)'
    <3>1. Where(r)' = None
      BY <1>1, <1>2, <1>3, <2>3 DEF Where
    <3> QED BY <1>3, <1>4, <3>1 DEF Fits
  <2> QED BY <1>1, <1>2, <1>3, <2>2, <2>3, <2>4, PlaceInvariant
<1>5. CASE rows[r] # None
  <2> DEFINE b == Bucket[r]
             tail == <<b, Tail(b)>>
             k == <<b, PartFor(b)>>
             marked == Put(save.count, tail, Count(tail))
             count == Put(marked, k, Count(k) + 1)
             part == Put(save.part, r, PartFor(b))
  <2>1. save' = [save EXCEPT !.left = @ \ {r}, !.count = count, !.part = part]
    BY <1>5 DEF PlaceNew
  <2>2. Tail(b) \in Nat /\ Count(<<b, Tail(b) + 1>>) = 0 /\ Count(tail) \in Int /\ Count(k) \in Int
    BY <1>2, TailIsLast, CountType
  <2>3. PartFor(b) \in Nat /\ Count(tail) <= PartSize /\ Count(k) + 1 <= PartSize
    <3>1. Count(tail) <= PartSize
      BY <1>2, PartSizeAssumption DEF Count, Mirrors
    <3>2. CASE Count(tail) >= PartSize
      <4>1. PartFor(b) = Tail(b) + 1
        BY <3>2 DEF PartFor
      <4> QED BY <2>2, <3>1, <4>1, PartSizeAssumption
    <3>3. CASE ~(Count(tail) >= PartSize)
      <4>1. PartFor(b) = Tail(b)
        BY <3>3 DEF PartFor
      <4> QED BY <2>2, <3>1, <3>3, <4>1, PartSizeAssumption
    <3> QED BY <3>2, <3>3
  <2>4. tail \in Keys /\ k \in Keys /\ tail[2] \in Nat /\ k[2] \in Nat
    BY <2>2, <2>3 DEF Keys
  <2> HIDE DEF tail, k
  <2>5. /\ marked \in Partial(Keys, Int) /\ DOMAIN marked = DOMAIN save.count \cup {tail}
        /\ \A j \in DOMAIN marked : marked[j] <= PartSize
    <3>1. marked \in Partial(Keys, Int)
      BY <1>2, <2>2, <2>4, SaveTypes, PutType
    <3> QED BY <1>2, <2>3, <3>1 DEF Put
  <2> HIDE DEF marked
  <2>6. /\ count \in Partial(Keys, Int) /\ DOMAIN count = DOMAIN save.count \cup {tail, k}
        /\ \A j \in DOMAIN count : count[j] <= PartSize
    <3>1. count \in Partial(Keys, Int)
      BY <2>2, <2>4, <2>5, PutType
    <3>2. DOMAIN count = DOMAIN marked \cup {k} /\ count[k] = Count(k) + 1
          /\ \A j \in DOMAIN marked : j # k => count[j] = marked[j]
      BY DEF Put
    <3> QED BY <2>3, <2>5, <3>1, <3>2
  <2>7. part \in Partial(Records, Nat \cup {None})
    BY <1>2, <2>3, SaveTypes, PutType
  <2>8. /\ DOMAIN part = DOMAIN save.part \cup {r} /\ part[r] = PartFor(b)
        /\ \A s \in DOMAIN save.part : s # r => part[s] = save.part[s]
    BY DEF Put
  <2> HIDE DEF count, part
  <2>9. save' \in Saves
    BY <1>2, <2>1, <2>6, <2>7 DEF Saves
  <2>10. /\ save'.pc = save.pc /\ save'.full = save.full /\ save'.prior = save.prior
         /\ save'.stamp = save.stamp /\ save'.shards = save.shards /\ save'.left = save.left \ {r}
         /\ save'.part = part /\ save'.count = count
    BY <1>2, <2>1 DEF Saves
  <2>11. Bounded(DOMAIN count)
    <3>1. Bounded({tail, k})
      <4>1. \A j \in {tail, k} : j[2] <= tail[2] + k[2]
        BY <2>4
      <4> QED BY <2>4, <4>1 DEF Bounded
    <3>2. \A j \in DOMAIN save.count \cup {tail, k} : j[2] \in Nat
      BY <1>2, <2>4, SaveTypes
    <3> QED BY <1>2, <2>6, <3>1, <3>2, BoundedUnion
  <2>12. part[r] \in Nat /\ <<Bucket[r], part[r]>> \in DOMAIN count
    BY <2>3, <2>6, <2>8 DEF k
  <2>13. Fits(r)'
    <3>1. Where(r)' = part[r]
      BY <2>8, <2>10 DEF Where
    <3>2. part[r] # None
      BY <2>12, NoneAssumption
    <3> QED BY <1>3, <1>5, <2>10, <2>12, <3>1, <3>2 DEF Fits
  <2> QED BY <1>1, <1>3, <2>6, <2>8, <2>9, <2>10, <2>11, <2>12, <2>13, PlaceInvariant
<1> QED BY <1>4, <1>5

LEMMA PlannedInvariant ==
  ASSUME IInv, Planned
  PROVE  IInv'
<1>1. save.pc = "planning" /\ save.left = {} /\ save' = [save EXCEPT !.pc = "writing", !.todo = DOMAIN save.count]
  BY DEF Planned
<1>2. UNCHANGED <<rows, revision, journal, manifest, committed, store>>
  BY DEF Planned
<1>3. /\ save \in Saves /\ save.prior = committed /\ save.full = FALSE /\ revision = save.stamp
      /\ Bounded(DOMAIN save.count) /\ save.stamp <= revision
  BY <1>1, PlanningFacts DEF IInv, Types
<1>4. /\ save'.pc = "writing" /\ save'.full = save.full /\ save'.prior = save.prior
      /\ save'.stamp = save.stamp /\ save'.left = {} /\ save'.part = save.part
      /\ save'.count = save.count /\ save'.todo = DOMAIN save.count /\ save'.shards = save.shards
  BY <1>1, <1>3 DEF Saves
<1>5. save' \in Saves
  <2>1. DOMAIN save.count \subseteq Keys
    BY <1>3, SaveTypes
  <2> QED BY <1>1, <1>3, <2>1 DEF Saves
<1>6. Types' /\ GenerationsKept' /\ JournalMirrors' /\ SealedIsWhole'
  BY <1>1, <1>2, <1>3, <1>4, <1>5, SaveStep
<1>7. PlanIncremental' /\ PlanWhole'
  <2>1. PlanIncremental'
    BY <1>1, <1>2, <1>3, <1>4 DEF IInv, PlanIncremental
  <2> QED BY <1>3, <1>4, <2>1 DEF PlanWhole
<1>8. \A r : Where(r)' = Where(r)
  BY <1>2, <1>4 DEF Where
<1>9. PlanFits'
  <2>1. \A r \in Records \ save.left : Fits(r)
    BY <1>1, <1>3 DEF IInv, PlanFits
  <2>2. \A r \in Records : Fits(r)'
    BY <1>1, <1>2, <1>4, <1>8, <2>1 DEF Fits
  <2> QED BY <1>4, <2>2 DEF PlanFits
<1>10. WritesWhatIsPlanned'
  <2>1. Rewritten' = save'.todo /\ Old' = Old /\ save'.shards = Old
    BY <1>1, <1>3, <1>4 DEF Rewritten, Old, IInv, PlanFits
  <2> QED BY <1>4, <2>1 DEF WritesWhatIsPlanned
<1> QED BY <1>6, <1>7, <1>9, <1>10 DEF IInv

LEMMA PlanFullInvariant ==
  ASSUME IInv, PlanFull
  PROVE  IInv'
<1>1. save.pc = "idle" /\ UNCHANGED <<rows, revision, journal, manifest, committed, store>>
  BY DEF PlanFull
<1>2. /\ rows \in [Records -> Values \cup {None}] /\ journal \in Journals /\ manifest \in Gens
      /\ revision \in Nat /\ manifest = committed
  BY <1>1, PartSizeAssumption DEF IInv, Types, GenerationsKept
<1>3. PICK p \in Placements(Present) :
        save' = [NoSave EXCEPT !.pc = "writing", !.full = TRUE, !.prior = manifest,
                               !.stamp = revision, !.part = p, !.todo = GroupsOf(p)]
  BY DEF PlanFull
<1>4. /\ save'.pc = "writing" /\ save'.full = TRUE /\ save'.prior = manifest /\ save'.stamp = revision
      /\ save'.left = {} /\ save'.part = p /\ save'.count = Empty /\ save'.todo = GroupsOf(p)
      /\ save'.shards = Empty
  BY <1>3 DEF NoSave
<1>5. save' \in Saves
  <2>1. p \in Partial(Records, Nat \cup {None}) /\ GroupsOf(p) \subseteq Keys
    BY PlacementFacts
  <2> QED BY <1>2, <1>3, <2>1, NoSaveType DEF Saves
<1>6. Types' /\ GenerationsKept' /\ JournalMirrors' /\ SealedIsWhole'
  BY <1>1, <1>2, <1>4, <1>5, SaveStep
<1>7. PlanIncremental' /\ PlanWhole'
  <2>1. \A r \in DOMAIN p : p[r] \in Nat
    BY PlacementFacts
  <2> QED BY <1>4, <2>1, PlacementFacts DEF PlanIncremental, PlanWhole
<1>8. PlanFits'
  <2>1. ASSUME NEW r \in Records PROVE Fits(r)'
    <3>1. Where(r)' = IF r \in Present THEN p[r] ELSE None
      BY <1>4, PlacementFacts DEF Where
    <3>2. r \in Present => p[r] # None
      BY PlacementFacts, NoneAssumption
    <3> QED BY <1>1, <1>4, <3>1, <3>2 DEF Fits, Present
  <2> QED BY <1>4, <2>1 DEF PlanFits
<1>9. WritesWhatIsPlanned'
  <2>1. Rewritten' = save'.todo /\ Old' = Empty
    BY <1>4 DEF Rewritten, Old
  <2> QED BY <1>4, <2>1 DEF WritesWhatIsPlanned
<1> QED BY <1>6, <1>7, <1>8, <1>9 DEF IInv
-----------------------------------------------------------------------------
(* Writing.                                                                *)

\* A written group holds what the plan assigns to it, within the bound.
LEMMA WrittenGroup ==
  ASSUME IInv, NEW k \in save.todo, WriteGroup(k)
  PROVE  /\ k \in Keys /\ k \in Rewritten /\ Cardinality(Assigned(k)) <= PartSize
         /\ [r \in Assigned(k) |-> rows[r]] \in Blobs
<1>1. /\ save \in Saves /\ journal \in Journals /\ rows \in [Records -> Values \cup {None}]
      /\ save.pc = "writing"
  BY DEF IInv, Types, WriteGroup
<1>2. k \in Keys /\ k \in Rewritten
  BY <1>1, SaveTypes DEF IInv, WritesWhatIsPlanned
<1>3. Cardinality(Assigned(k)) <= PartSize
  <2>1. CASE save.full
    <3>1. k \in GroupsOf(save.part) /\ Cardinality(RowsOf(save.part, k)) <= PartSize
      BY <1>1, <1>2, <2>1 DEF IInv, PlanWhole, Rewritten
    <3>2. Assigned(k) = RowsOf(save.part, k)
      <4>1. DOMAIN save.part \subseteq Records
        BY <1>1, SaveTypes
      <4> QED BY <2>1, <4>1 DEF Assigned, RowsOf
    <3> QED BY <3>1, <3>2
  <2>2. CASE ~save.full
    <3>1. k \in DOMAIN save.count /\ save.count[k] <= PartSize
      BY <1>1, <1>2, <2>2 DEF IInv, PlanIncremental, Rewritten
    <3>2. Cardinality(Assigned(k)) = save.count[k]
      BY <2>2 DEF WriteGroup
    <3> QED BY <3>1, <3>2
  <2> QED BY <2>1, <2>2
<1>4. [r \in Assigned(k) |-> rows[r]] \in Blobs
  <2>1. \A r \in Assigned(k) : r \in Records /\ rows[r] \in Values
    BY <1>1 DEF WriteGroup, Assigned
  <2>2. [r \in Assigned(k) |-> rows[r]] \in [Assigned(k) -> Values] /\ Assigned(k) \subseteq Records
    BY <2>1
  <2> QED BY <2>2, PartialFacts DEF Blobs
<1> QED BY <1>2, <1>3, <1>4

LEMMA WriteGroupInvariant ==
  ASSUME IInv, NEW k \in save.todo, WriteGroup(k)
  PROVE  IInv'
<1> DEFINE blob == [r \in Assigned(k) |-> rows[r]]
<1>1. /\ save \in Saves /\ journal \in Journals /\ save.pc = "writing" /\ save.stamp <= revision
      /\ blobs \subseteq Blobs
  BY DEF IInv, Types, WriteGroup
<1>2. UNCHANGED <<rows, revision, journal, manifest, committed, generations, mishaps>>
  BY DEF WriteGroup
<1>3. k \in Keys /\ k \in Rewritten /\ Cardinality(Assigned(k)) <= PartSize /\ blob \in Blobs
  BY WrittenGroup
<1> DEFINE shards == IF Assigned(k) = {} THEN [j \in DOMAIN save.shards \ {k} |-> save.shards[j]]
                     ELSE Put(save.shards, k, blob)
<1>4. /\ save' = [save EXCEPT !.todo = @ \ {k}, !.shards = shards]
      /\ blobs' = blobs \/ blobs' = blobs \cup {blob}
  BY DEF WriteGroup
<1>5. /\ k \in DOMAIN shards <=> Assigned(k) # {}
      /\ k \in DOMAIN shards => shards[k] = blob
      /\ \A j : j # k => /\ j \in DOMAIN shards <=> j \in DOMAIN save.shards
                         /\ j \in DOMAIN shards => shards[j] = save.shards[j]
  BY DEF Put
<1>6. shards \in Partial(Keys, Blobs)
  <2>1. save.shards \in Partial(Keys, Blobs)
    BY <1>1, SaveTypes
  <2>2. CASE Assigned(k) = {}
    <3>1. save.shards \in [DOMAIN save.shards -> Blobs] /\ DOMAIN save.shards \subseteq Keys
      BY <2>1, PartialFacts
    <3>2. shards \in [DOMAIN save.shards \ {k} -> Blobs] /\ DOMAIN shards = DOMAIN save.shards \ {k}
      BY <2>2, <3>1
    <3> HIDE DEF shards
    <3> QED BY <3>1, <3>2, PartialFacts
  <2>3. CASE Assigned(k) # {}
    BY <1>3, <2>1, <2>3, PutType
  <2> QED BY <2>2, <2>3
<1> HIDE DEF shards
<1>7. /\ save' \in Saves /\ save'.pc = save.pc /\ save'.full = save.full /\ save'.prior = save.prior
      /\ save'.stamp = save.stamp /\ save'.left = save.left /\ save'.part = save.part
      /\ save'.count = save.count /\ save'.todo = save.todo \ {k} /\ save'.shards = shards
  BY <1>1, <1>4, <1>6 DEF Saves
<1>8. /\ \A j : Assigned(j)' = Assigned(j) /\ Where(j)' = Where(j)
      /\ Old' = Old /\ Rewritten' = Rewritten
  BY <1>2, <1>7 DEF Assigned, Where, Old, Rewritten
<1>9. Types'
  BY <1>1, <1>2, <1>3, <1>4, <1>7 DEF IInv, Types
<1>10. GenerationsKept'
  <2>1. Stored(committed) /\ Stored(manifest)
    BY DEF IInv, GenerationsKept
  <2>2. Stored(committed)' /\ Stored(manifest)'
    BY <1>2, <1>4, <2>1 DEF Stored
  <2> QED BY <1>2, <1>7, <2>2 DEF IInv, GenerationsKept
<1>11. JournalMirrors'
  BY <1>2, <1>7 DEF IInv, JournalMirrors, Marks
<1>12. PlanIncremental' /\ PlanWhole'
  BY <1>2, <1>7 DEF IInv, PlanIncremental, PlanWhole
<1>13. PlanFits'
  BY <1>1, <1>2, <1>7, <1>8 DEF IInv, PlanFits, Fits
<1>14. WritesWhatIsPlanned'
  <2>1. /\ save.todo \subseteq Rewritten
        /\ \A j \in Keys \ (Rewritten \ save.todo) :
             /\ j \in DOMAIN save.shards <=> j \in DOMAIN Old
             /\ j \in DOMAIN save.shards => save.shards[j] = Old[j]
        /\ \A j \in Rewritten \ save.todo :
             /\ Holds(save.shards, j)
             /\ revision = save.stamp /\ j \in DOMAIN save.shards =>
                  \A r \in Assigned(j) : save.shards[j][r] = rows[r]
    BY <1>1 DEF IInv, WritesWhatIsPlanned
  <2>2. ASSUME NEW j \in Keys \ (Rewritten \ save'.todo)
        PROVE  /\ j \in DOMAIN shards <=> j \in DOMAIN Old
               /\ j \in DOMAIN shards => shards[j] = Old[j]
    <3>1. j # k /\ j \in Keys \ (Rewritten \ save.todo)
      BY <1>3, <1>7
    <3> QED BY <1>5, <2>1, <3>1
  <2>3. ASSUME NEW j \in Rewritten \ save'.todo
        PROVE  /\ Holds(shards, j)
               /\ revision = save.stamp /\ j \in DOMAIN shards =>
                    \A r \in Assigned(j) : shards[j][r] = rows[r]
    <3>1. CASE j = k
      <4>1. ~save.full => Cardinality(Assigned(k)) = save.count[k]
        BY DEF WriteGroup
      <4> QED BY <1>3, <1>5, <3>1, <4>1 DEF Holds
    <3>2. CASE j # k
      <4>1. j \in Rewritten \ save.todo
        BY <1>7, <3>2
      <4> QED BY <1>5, <2>1, <3>2, <4>1 DEF Holds
    <3> QED BY <3>1, <3>2
  <2>4. \A j : Holds(save.shards, j)' <=> Holds(shards, j)
    BY <1>7, <1>8 DEF Holds
  <2> QED BY <1>2, <1>7, <1>8, <2>1, <2>2, <2>3, <2>4 DEF WritesWhatIsPlanned
<1>15. SealedIsWhole'
  BY <1>1, <1>7 DEF SealedIsWhole
<1> QED BY <1>9, <1>10, <1>11, <1>12, <1>13, <1>14, <1>15 DEF IInv
-----------------------------------------------------------------------------
(* Sealing.                                                                *)

\* A group the plan leaves alone has the rows it had, and while nothing has
\* changed they hold what they held.
LEMMA UntouchedGroup ==
  ASSUME IInv, save.pc = "writing", ~save.full, revision = save.stamp, NEW k \in Keys, k \notin DOMAIN save.count
  PROVE  /\ k \in DOMAIN Old <=> Assigned(k) # {}
         /\ k \in DOMAIN Old =>
              /\ DOMAIN Old[k] = Assigned(k) /\ Cardinality(Assigned(k)) <= PartSize
              /\ k \in DOMAIN journal.count /\ Count(k) = Cardinality(Assigned(k))
              /\ \A r \in Assigned(k) : Old[k][r] = rows[r]
<1>1. /\ save \in Saves /\ journal \in Journals /\ committed \in Gens
      /\ save.prior = committed /\ Old = committed.shards
  BY DEF IInv, Types, GenerationsKept, Old
<1>2. /\ journal.state = "ready" /\ journal.base = committed
      /\ \A r \in DOMAIN save.part :
           IF r \in DOMAIN journal.part
           THEN save.part[r] = None /\ <<Bucket[r], journal.part[r]>> \in DOMAIN save.count
           ELSE save.part[r] \in Nat /\ <<Bucket[r], save.part[r]>> \in DOMAIN save.count
  BY <1>1 DEF IInv, PlanIncremental
<1>3. Mirrors(journal, committed) /\ Sound(committed)
  BY <1>2 DEF IInv, JournalMirrors, Mirrors
<1>4. ASSUME NEW r \in Assigned(k) PROVE k \in DOMAIN Old /\ r \in DOMAIN Old[k]
  <2>1. r \in Records /\ k = <<Bucket[r], Where(r)>> /\ Where(r) # None
    BY <1>1, AssignedOne
  <2>2. r \notin DOMAIN save.part
    <3> SUFFICES ASSUME r \in DOMAIN save.part PROVE FALSE
      OBVIOUS
    <3>1. Where(r) = save.part[r]
      BY DEF Where
    <3> QED BY <1>2, <2>1, <3>1
  <2>3. r \in DOMAIN journal.part /\ Where(r) = journal.part[r]
    BY <2>1, <2>2 DEF Where
  <2> QED BY <1>1, <1>3, <2>1, <2>3, MirrorGroups
<1>5. ASSUME k \in DOMAIN Old, NEW r \in DOMAIN Old[k] PROVE r \in Assigned(k)
  <2>1. r \in Records /\ r \in DOMAIN journal.part /\ k = <<Bucket[r], journal.part[r]>>
    BY <1>1, <1>3, <1>5, MirrorMembers
  <2>2. r \notin DOMAIN save.part
    BY <1>2, <2>1
  <2>3. Where(r) = journal.part[r]
    BY <2>1, <2>2 DEF Where
  <2> QED BY <1>1, <2>1, <2>3, AssignedWhere
<1>6. ASSUME k \in DOMAIN Old
      PROVE  /\ DOMAIN Old[k] = Assigned(k) /\ Assigned(k) # {} /\ Cardinality(Assigned(k)) <= PartSize
             /\ k \in DOMAIN journal.count /\ Count(k) = Cardinality(Assigned(k))
  <2>1. DOMAIN Old[k] = Assigned(k)
    BY <1>4, <1>5, <1>6
  <2>2. DOMAIN Old[k] # {} /\ Cardinality(DOMAIN Old[k]) <= PartSize
    BY <1>1, <1>3, <1>6 DEF Sound, WellFormed
  <2>3. k \in DOMAIN journal.count /\ journal.count[k] = Cardinality(DOMAIN Old[k])
    BY <1>1, <1>3, <1>6 DEF Mirrors
  <2> QED BY <2>1, <2>2, <2>3 DEF Count
<1>7. ASSUME NEW r \in Assigned(k) PROVE Old[k][r] = rows[r]
  <2>1. r \in Records /\ k = <<Bucket[r], Where(r)>> /\ Where(r) # None
    BY <1>1, AssignedOne
  <2>2. Fits(r)
    <3>1. save.left = {}
      BY DEF IInv, PlanFits
    <3> QED BY <2>1, <3>1 DEF IInv, PlanFits
  <2>3. rows[r] = Content(committed)[r]
    BY <1>1, <2>1, <2>2 DEF Fits
  <2>4. Content(committed)[r] = committed.shards[k][r]
    BY <1>1, <1>3, <1>4, InGroup
  <2> QED BY <1>1, <2>3, <2>4
<1> QED BY <1>4, <1>6, <1>7

\* Once all is written every group, rewritten or taken over, has the rows
\* assigned to it and what they hold.
LEMMA WrittenGroups ==
  ASSUME IInv, save.pc = "writing", save.todo = {}, revision = save.stamp, NEW k \in Keys
  PROVE  /\ k \in DOMAIN save.shards <=> Assigned(k) # {}
         /\ k \in DOMAIN save.shards =>
              /\ DOMAIN save.shards[k] = Assigned(k) /\ Cardinality(Assigned(k)) <= PartSize
              /\ \A r \in Assigned(k) : save.shards[k][r] = rows[r]
              /\ ~save.full => /\ k \in DOMAIN journal.count \cup DOMAIN save.count
                               /\ Count(k) = Cardinality(Assigned(k))
<1>1. save \in Saves /\ journal \in Journals
  BY DEF IInv, Types
<1>2. /\ k \notin Rewritten => /\ k \in DOMAIN save.shards <=> k \in DOMAIN Old
                               /\ k \in DOMAIN save.shards => save.shards[k] = Old[k]
      /\ k \in Rewritten =>
           /\ Holds(save.shards, k)
           /\ k \in DOMAIN save.shards => \A r \in Assigned(k) : save.shards[k][r] = rows[r]
  BY DEF IInv, WritesWhatIsPlanned
<1>3. CASE k \in Rewritten
  <2>1. ~save.full => k \in DOMAIN save.count /\ Count(k) = Cardinality(Assigned(k))
    BY <1>2, <1>3 DEF Holds, Count, Rewritten
  <2> QED BY <1>2, <1>3, <2>1 DEF Holds
<1>4. CASE k \notin Rewritten /\ ~save.full
  <2>1. k \notin DOMAIN save.count
    BY <1>4 DEF Rewritten
  <2> QED BY <1>2, <1>4, <2>1, UntouchedGroup
<1>5. CASE k \notin Rewritten /\ save.full
  <2>1. Old = Empty
    BY <1>5 DEF Old
  <2>2. Assigned(k) = {}
    <3> SUFFICES ASSUME NEW r \in Assigned(k) PROVE FALSE
      OBVIOUS
    <3>1. r \in DOMAIN save.part /\ save.part[r] = k[2] /\ k = <<Bucket[r], k[2]>>
      BY <1>5 DEF Assigned, Keys
    <3>2. k \in GroupsOf(save.part)
      BY <3>1 DEF GroupsOf
    <3> QED BY <1>5, <3>2 DEF Rewritten
  <2> QED BY <1>2, <1>5, <2>1, <2>2, EmptyType
<1> QED BY <1>3, <1>4, <1>5

LEMMA SealedGeneration ==
  ASSUME IInv, Seal
  PROVE  /\ manifest' \in Gens /\ manifest'.shards = save.shards /\ manifest'.revision = revision
         /\ Sound(manifest') /\ Content(manifest') = rows
<1>1. /\ save \in Saves /\ journal \in Journals /\ rows \in [Records -> Values \cup {None}]
      /\ revision \in 0..MaxChanges /\ save.pc = "writing" /\ save.todo = {} /\ revision = save.stamp
  BY DEF IInv, Types, Seal, Unchanged
<1>2. manifest' = [revision |-> revision, shards |-> save.shards]
  BY DEF Seal
<1> DEFINE g == manifest'
<1>3. g.shards = save.shards /\ g.revision = revision
  BY <1>2
<1>4. g \in Gens
  BY <1>1, <1>2, SaveTypes DEF Gens
<1>5. DOMAIN save.shards \subseteq Keys
  BY <1>1, SaveTypes
<1>6. ASSUME NEW k \in DOMAIN save.shards
      PROVE  /\ k \in Keys /\ DOMAIN save.shards[k] = Assigned(k) /\ Assigned(k) # {}
             /\ Cardinality(Assigned(k)) <= PartSize
             /\ \A r \in Assigned(k) : save.shards[k][r] = rows[r]
             /\ \A r \in Assigned(k) : k = <<Bucket[r], Where(r)>>
  <2>1. k \in Keys
    BY <1>5
  <2> QED BY <1>1, <2>1, WrittenGroups, AssignedOne
<1>7. WellFormed(g)
  <2>1. ASSUME NEW k \in DOMAIN g.shards
        PROVE  /\ DOMAIN g.shards[k] # {} /\ Cardinality(DOMAIN g.shards[k]) <= PartSize
               /\ \A r \in DOMAIN g.shards[k] : Bucket[r] = k[1]
    BY <1>3, <1>6
  <2>2. ASSUME NEW j \in DOMAIN g.shards, NEW k \in DOMAIN g.shards, j # k
        PROVE  DOMAIN g.shards[j] \cap DOMAIN g.shards[k] = {}
    BY <1>3, <1>6, <2>2
  <2> QED BY <2>1, <2>2 DEF WellFormed
<1>8. Bounded(DOMAIN g.shards)
  <2>1. Bounded(DOMAIN Old)
    <3>1. CASE save.full
      BY <3>1, EmptyType DEF Old, Bounded
    <3>2. CASE ~save.full
      <4>1. Sound(committed) /\ Old = committed.shards
        BY <1>1, <3>2 DEF IInv, GenerationsKept, Stored, Old
      <4> QED BY <4>1 DEF Sound
    <3> QED BY <3>1, <3>2
  <2>2. Bounded(Rewritten) /\ Rewritten \subseteq Keys
    <3>1. CASE save.full
      <4>1. Bounded(Rewritten) /\ Rewritten = GroupsOf(save.part) /\ \A r \in DOMAIN save.part : save.part[r] \in Nat
        BY <1>1, <3>1 DEF IInv, PlanWhole, Rewritten
      <4>2. DOMAIN save.part \subseteq Records
        BY <1>1, SaveTypes
      <4> QED BY <4>1, <4>2 DEF GroupsOf, Keys
    <3>2. CASE ~save.full
      <4>1. Bounded(Rewritten) /\ Rewritten = DOMAIN save.count
        BY <1>1, <3>2 DEF IInv, PlanIncremental, Rewritten
      <4> QED BY <1>1, <4>1, SaveTypes
    <3> QED BY <3>1, <3>2
  <2>3. DOMAIN save.shards \subseteq (DOMAIN Old \cap Keys) \cup Rewritten
    BY <1>1, <1>5 DEF IInv, WritesWhatIsPlanned
  <2>4. Bounded(DOMAIN Old \cap Keys)
    BY <2>1, BoundedSubset
  <2>5. Bounded((DOMAIN Old \cap Keys) \cup Rewritten)
    <3>1. \A k \in (DOMAIN Old \cap Keys) \cup Rewritten : k[2] \in Nat
      BY <2>2 DEF Keys
    <3> QED BY <2>2, <2>4, <3>1, BoundedUnion
  <2> QED BY <1>3, <2>3, <2>5, BoundedSubset
<1>9. Sound(g)
  BY <1>7, <1>8 DEF Sound
<1>10. ASSUME NEW r \in Records PROVE Content(g)[r] = rows[r]
  <2>1. rows[r] = None <=> Where(r) = None
    <3>1. Fits(r)
      BY <1>1 DEF IInv, PlanFits
    <3> QED BY <3>1 DEF Fits
  <2>2. CASE Where(r) = None
    <3>1. r \notin Members(g)
      <4> SUFFICES ASSUME NEW k \in DOMAIN g.shards, r \in DOMAIN g.shards[k] PROVE FALSE
        BY DEF Members
      <4>1. r \in Assigned(k) /\ k \in Keys
        BY <1>3, <1>6
      <4> QED BY <1>1, <2>2, <4>1, AssignedOne
    <3> QED BY <2>1, <2>2, <3>1 DEF Content
  <2>3. CASE Where(r) # None
    <3> DEFINE k == <<Bucket[r], Where(r)>>
    <3>1. k \in Keys /\ r \in Assigned(k)
      BY <1>1, <2>3, WhereType
    <3> HIDE DEF k
    <3>2. k \in DOMAIN save.shards /\ r \in DOMAIN save.shards[k] /\ save.shards[k][r] = rows[r]
      BY <1>1, <3>1, WrittenGroups
    <3> HIDE DEF g
    <3> QED BY <1>3, <1>4, <1>9, <3>2, InGroup
  <2> QED BY <2>2, <2>3
<1>11. Content(g) = rows
  BY <1>1, <1>4, <1>9, <1>10, ContentType
<1> QED BY <1>3, <1>4, <1>9, <1>11

LEMMA SealInvariant ==
  ASSUME IInv, Seal
  PROVE  IInv'
<1>1. /\ save \in Saves /\ journal \in Journals /\ save.pc = "writing" /\ save.todo = {}
      /\ revision = save.stamp
  BY DEF IInv, Types, Seal, Unchanged
<1>2. /\ UNCHANGED <<rows, revision, journal, committed, blobs, mishaps>>
      /\ generations' = generations \cup {manifest'} /\ save' = [save EXCEPT !.pc = "sealed"]
      /\ {save.shards[k] : k \in DOMAIN save.shards} \subseteq blobs
  BY DEF Seal
<1>3. /\ manifest' \in Gens /\ manifest'.shards = save.shards /\ Sound(manifest')
      /\ Content(manifest') = rows
  BY SealedGeneration
<1>4. /\ save' \in Saves /\ save'.pc = "sealed" /\ save'.full = save.full /\ save'.prior = save.prior
      /\ save'.stamp = save.stamp /\ save'.left = save.left /\ save'.part = save.part
      /\ save'.count = save.count
  BY <1>1, <1>2 DEF Saves
<1>5. Types'
  BY <1>2, <1>3, <1>4 DEF IInv, Types
<1>6. GenerationsKept'
  <2>1. Stored(committed)'
    BY <1>2 DEF IInv, GenerationsKept, Stored
  <2>2. Stored(manifest)'
    BY <1>2, <1>3 DEF Stored, BlobsOf
  <2> QED BY <1>1, <1>2, <1>4, <2>1, <2>2 DEF IInv, GenerationsKept
<1>7. JournalMirrors'
  BY <1>1, <1>2, <1>4 DEF IInv, JournalMirrors, Marks
<1>8. PlanIncremental' /\ PlanWhole' /\ PlanFits' /\ WritesWhatIsPlanned'
  <2>1. PlanIncremental'
    BY <1>1, <1>2, <1>4 DEF IInv, PlanIncremental
  <2> QED BY <1>4, <2>1 DEF PlanWhole, PlanFits, WritesWhatIsPlanned
<1>9. SealedIsWhole'
  <2>1. \A k : Assigned(k)' = Assigned(k) /\ Count(k)' = Count(k)
    BY <1>2, <1>4 DEF Assigned, Count
  <2>2. \A k \in Keys :
          /\ k \in DOMAIN save.shards <=> Assigned(k) # {}
          /\ ~save.full /\ k \in DOMAIN save.shards =>
               /\ DOMAIN save.shards[k] = Assigned(k)
               /\ k \in DOMAIN journal.count \cup DOMAIN save.count /\ Count(k) = Cardinality(Assigned(k))
    BY <1>1, WrittenGroups
  <2> QED BY <1>2, <1>3, <1>4, <2>1, <2>2 DEF SealedIsWhole
<1> QED BY <1>5, <1>6, <1>7, <1>8, <1>9 DEF IInv
-----------------------------------------------------------------------------
(* The commit and what follows it.                                         *)

LEMMA CommitInvariant ==
  ASSUME IInv, Commit
  PROVE  IInv'
<1>1. save \in Saves /\ save.pc = "sealed" /\ manifest \in Gens
  BY DEF IInv, Types, Commit
<1>2. /\ UNCHANGED <<rows, revision, journal, manifest, store, mishaps>> /\ committed' = manifest
      /\ save' = [save EXCEPT !.pc = "committed"]
  BY DEF Commit
<1>3. /\ save' \in Saves /\ save'.pc = "committed" /\ save'.full = save.full /\ save'.prior = save.prior
      /\ save'.stamp = save.stamp /\ save'.part = save.part /\ save'.count = save.count
  BY <1>1, <1>2 DEF Saves
<1>4. Types'
  BY <1>1, <1>2, <1>3 DEF IInv, Types, store
<1>5. GenerationsKept'
  <2>1. Stored(manifest)
    BY DEF IInv, GenerationsKept
  <2>2. Stored(manifest)' /\ Stored(committed)'
    BY <1>2, <2>1 DEF Stored, store
  <2> QED BY <1>2, <1>3, <2>2 DEF GenerationsKept
<1>6. JournalMirrors'
  BY <1>1, <1>2, <1>3 DEF IInv, JournalMirrors, Marks
<1>7. PlanIncremental' /\ PlanWhole' /\ PlanFits' /\ WritesWhatIsPlanned'
  <2>1. PlanIncremental'
    BY <1>1, <1>2, <1>3 DEF IInv, PlanIncremental
  <2> QED BY <1>3, <2>1 DEF PlanWhole, PlanFits, WritesWhatIsPlanned
<1>8. SealedIsWhole'
  <2>1. \A k : Assigned(k)' = Assigned(k) /\ Count(k)' = Count(k)
    BY <1>2, <1>3 DEF Assigned, Count
  <2> QED BY <1>1, <1>2, <1>3, <2>1 DEF IInv, SealedIsWhole
<1> QED BY <1>4, <1>5, <1>6, <1>7, <1>8 DEF IInv

LEMMA SaveFailsInvariant ==
  ASSUME IInv, SaveFails
  PROVE  IInv'
<1>1. /\ UNCHANGED <<rows, revision, journal, committed, store>> /\ manifest' = save.prior /\ save' = NoSave
      /\ save.pc \in {"planning", "writing", "sealed"}
  BY DEF SaveFails
<1>2. save.prior = committed
  BY <1>1 DEF IInv, GenerationsKept
<1>3. save'.pc = "idle" /\ save'.stamp = 0 /\ save' \in Saves
  BY <1>1, NoSaveType DEF NoSave
<1>4. Types'
  BY <1>1, <1>2, <1>3, PartSizeAssumption DEF IInv, Types, store
<1>5. GenerationsKept'
  <2>1. Stored(committed)'
    BY <1>1 DEF IInv, GenerationsKept, Stored, store
  <2> QED BY <1>1, <1>2, <1>3, <2>1 DEF GenerationsKept, Stored
<1>6. JournalMirrors'
  BY <1>1, <1>3 DEF IInv, JournalMirrors, Marks
<1> QED BY <1>3, <1>4, <1>5, <1>6, NoPlanInvariant DEF IInv

\* The journal, brought up to the plan, mirrors the generation written by it.
LEMMA RebasedJournal ==
  ASSUME IInv, Rebase
  PROVE  /\ journal' \in Journals /\ journal'.state = "ready" /\ journal'.base = manifest
         /\ Mirrors(journal', manifest)
<1>1. /\ save \in Saves /\ journal \in Journals /\ manifest \in Gens /\ save.pc = "committed"
      /\ save.full = FALSE
  BY SaveTypes DEF IInv, Types, Rebase
<1> DEFINE kept == {r \in DOMAIN journal.part \cup DOMAIN save.part :
                      r \in DOMAIN save.part => save.part[r] # None}
           part == [r \in kept |-> IF r \in DOMAIN save.part THEN save.part[r] ELSE journal.part[r]]
           count == [k \in DOMAIN journal.count \cup DOMAIN save.count |-> Count(k)]
<1>2. journal' = [journal EXCEPT !.base = manifest, !.dirty = {}, !.full = FALSE,
                                 !.part = part, !.count = count]
  BY DEF Rebase
<1>3. /\ journal.state = "ready" /\ Bounded(DOMAIN save.count)
      /\ \A k \in DOMAIN save.count : save.count[k] <= PartSize
  BY <1>1 DEF IInv, PlanIncremental
<1>4. Bounded(DOMAIN journal.count) /\ \A k \in DOMAIN journal.count : journal.count[k] <= PartSize
  BY <1>3 DEF IInv, JournalMirrors, Mirrors
<1>5. /\ kept \subseteq Records
      /\ \A r : r \in kept <=> r \in Records /\ Where(r) # None
      /\ \A r \in kept : part[r] = Where(r) /\ Where(r) \in Nat
  <2>1. DOMAIN journal.part \subseteq Records /\ DOMAIN save.part \subseteq Records
    BY <1>1, JournalTypes, SaveTypes
  <2>2. \A r \in DOMAIN journal.part : journal.part[r] # None
    BY <1>1, JournalTypes, NoneAssumption
  <2>3. \A r : r \in kept <=> r \in Records /\ Where(r) # None
    BY <1>1, <2>1, <2>2 DEF Where
  <2>4. \A r \in kept : part[r] = Where(r)
    BY <1>1 DEF Where
  <2>5. \A r \in kept : Where(r) \in Nat
    BY <1>1, <2>3, WhereType
  <2> QED BY <2>3, <2>4, <2>5
<1>6. DOMAIN part = kept /\ DOMAIN count = DOMAIN journal.count \cup DOMAIN save.count
  OBVIOUS
<1>7. part \in Partial(Records, Nat)
  <2>1. part \in [kept -> Nat]
    BY <1>5
  <2> HIDE DEF kept, part
  <2> QED BY <1>5, <1>6, <2>1, PartialFacts
<1>8. count \in Partial(Keys, Int)
  <2>1. \A k : Count(k) \in Int
    BY <1>1, CountType
  <2>2. count \in [DOMAIN count -> Int] /\ DOMAIN count \subseteq Keys
    BY <1>1, <2>1, JournalTypes, SaveTypes
  <2> HIDE DEF count
  <2> QED BY <2>2, PartialFacts
<1>9. /\ \A k \in DOMAIN count : count[k] = Count(k) /\ count[k] <= PartSize
      /\ Bounded(DOMAIN count)
  <2>1. \A k \in DOMAIN count : count[k] = Count(k) /\ count[k] <= PartSize
    BY <1>3, <1>4 DEF Count
  <2>2. \A k \in DOMAIN count : k[2] \in Nat
    BY <1>1, JournalTypes, SaveTypes
  <2> QED BY <1>3, <1>4, <1>6, <2>1, <2>2, BoundedUnion
<1> HIDE DEF kept, part, count
<1>10. /\ journal' \in Journals /\ journal'.state = "ready" /\ journal'.base = manifest
       /\ journal'.part = part /\ journal'.count = count
  BY <1>1, <1>2, <1>3, <1>7, <1>8 DEF Journals
<1>11. Mirrors(journal', manifest)
  <2>1. Sound(manifest)
    BY DEF IInv, GenerationsKept, Stored
  <2>2. \A k \in Keys :
          /\ k \in DOMAIN manifest.shards <=> Assigned(k) # {}
          /\ k \in DOMAIN manifest.shards =>
               /\ DOMAIN manifest.shards[k] = Assigned(k)
               /\ k \in DOMAIN journal.count \cup DOMAIN save.count /\ Count(k) = Cardinality(Assigned(k))
    BY <1>1 DEF IInv, SealedIsWhole
  <2>3. ASSUME NEW k \in DOMAIN manifest.shards
        PROVE  /\ k \in DOMAIN count /\ count[k] = Cardinality(DOMAIN manifest.shards[k])
               /\ \A r \in DOMAIN manifest.shards[k] : r \in kept /\ part[r] = k[2]
    <3>1. k \in Keys
      BY <1>1, GenTypes
    <3>2. k \in DOMAIN count /\ count[k] = Cardinality(DOMAIN manifest.shards[k])
      BY <1>6, <1>9, <2>2, <3>1
    <3>3. ASSUME NEW r \in DOMAIN manifest.shards[k] PROVE r \in kept /\ part[r] = k[2]
      <4>1. r \in Assigned(k)
        BY <2>2, <3>1
      <4>2. r \in Records /\ Where(r) = k[2] /\ Where(r) # None
        BY <1>1, <3>1, <4>1, AssignedWhere, AssignedOne
      <4> QED BY <1>5, <4>2
    <3> QED BY <3>2, <3>3
  <2>4. ASSUME NEW r \in kept PROVE r \in Members(manifest)
    <3>1. <<Bucket[r], Where(r)>> \in Keys /\ r \in Assigned(<<Bucket[r], Where(r)>>)
      BY <1>1, <1>5, <2>4, WhereType
    <3> QED BY <2>2, <3>1 DEF Members
  <2>5. DOMAIN part = Members(manifest)
    BY <1>6, <2>3, <2>4 DEF Members
  <2> QED BY <1>9, <1>10, <2>1, <2>3, <2>5 DEF Mirrors
<1> QED BY <1>10, <1>11

LEMMA RebaseInvariant ==
  ASSUME IInv, Rebase
  PROVE  IInv'
<1>1. /\ save \in Saves /\ manifest \in Gens /\ save.pc = "committed" /\ revision = save.stamp
      /\ UNCHANGED <<rows, revision, manifest, committed, store, mishaps>>
      /\ save' = [save EXCEPT !.pc = "settled"]
  BY DEF IInv, Types, Rebase, Unchanged
<1>2. save' \in Saves /\ save'.pc = "settled" /\ save'.stamp = save.stamp /\ save'.prior = save.prior
  BY <1>1 DEF Saves
<1>3. /\ journal' \in Journals /\ journal'.state = "ready" /\ journal'.base = manifest
      /\ Mirrors(journal', manifest)
  BY RebasedJournal
<1>4. Types'
  BY <1>1, <1>2, <1>3 DEF IInv, Types, store
<1>5. GenerationsKept'
  BY <1>1, <1>2 DEF IInv, GenerationsKept, Stored, store
<1>6. JournalMirrors'
  <2>1. Content(manifest) = rows
    BY <1>1 DEF IInv, SealedIsWhole
  <2>2. Marks(journal, manifest)'
    BY <1>1, <2>1 DEF Marks
  <2> QED BY <1>1, <1>2, <1>3, <2>2 DEF JournalMirrors
<1> QED BY <1>2, <1>4, <1>5, <1>6, NoPlanInvariant DEF IInv

\* The other steps between the commit and the end of the save leave the
\* generations alone, and the journal as a valid one or none.
LEMMA SettlingInvariant ==
  ASSUME IInv, save.pc \in {"committed", "dropped", "importing", "settled"},
         UNCHANGED <<rows, revision, manifest, committed, store>>,
         save' \in Saves, save'.pc \in {"idle", "dropped", "importing", "settled"}, save'.stamp <= revision,
         journal' \in Journals, JournalMirrors',
         save'.pc = "dropped" /\ revision = save'.stamp => Content(manifest) = rows
  PROVE  IInv'
<1>1. Types'
  BY DEF IInv, Types, store
<1>2. GenerationsKept'
  BY DEF IInv, GenerationsKept, Stored, store
<1>3. SealedIsWhole'
  BY DEF SealedIsWhole
<1> QED BY <1>1, <1>2, <1>3, NoPlanInvariant DEF IInv

LEMMA DropJournalInvariant ==
  ASSUME IInv, DropJournal
  PROVE  IInv'
<1>1. /\ save \in Saves /\ save.pc = "committed" /\ revision = save.stamp /\ save.stamp <= revision
      /\ UNCHANGED <<rows, revision, manifest, committed, store, mishaps>>
      /\ save' = [save EXCEPT !.pc = "dropped"] /\ journal' = NoJournal
  BY DEF IInv, Types, DropJournal, Unchanged
<1>2. save' \in Saves /\ save'.pc = "dropped" /\ save'.stamp = save.stamp
  BY <1>1 DEF Saves
<1>3. journal' \in Journals /\ JournalMirrors'
  BY <1>1, <1>2, NoJournalType DEF JournalMirrors, NoJournal
<1>4. Content(manifest) = rows
  BY <1>1 DEF IInv, SealedIsWhole
<1> QED BY <1>1, <1>2, <1>3, <1>4, SettlingInvariant

LEMMA InstallJournalInvariant ==
  ASSUME IInv, InstallJournal
  PROVE  IInv'
<1>1. /\ save \in Saves /\ manifest \in Gens /\ save.pc = "dropped" /\ revision = save.stamp
      /\ save.stamp <= revision /\ UNCHANGED <<rows, revision, manifest, committed, store, mishaps>>
      /\ save' = [save EXCEPT !.pc = "importing"] /\ journal' = JournalOf(manifest, "building")
  BY DEF IInv, Types, InstallJournal, Unchanged
<1>2. save' \in Saves /\ save'.pc = "importing" /\ save'.stamp = save.stamp
  BY <1>1 DEF Saves
<1>3. Sound(manifest) /\ Content(manifest) = rows
  BY <1>1 DEF IInv, SealedIsWhole, GenerationsKept, Stored
<1>4. /\ journal' \in Journals /\ Mirrors(journal', manifest) /\ journal'.state = "building"
      /\ journal'.base = manifest
  BY <1>1, <1>3, BuiltJournal
<1>5. Marks(journal, manifest)'
  BY <1>1, <1>3 DEF Marks
<1>6. JournalMirrors'
  BY <1>1, <1>4, <1>5 DEF JournalMirrors
<1> QED BY <1>1, <1>2, <1>4, <1>6, SettlingInvariant

LEMMA ImportShardsInvariant ==
  ASSUME IInv, ImportShards
  PROVE  IInv'
<1>1. /\ save \in Saves /\ journal \in Journals /\ save.pc = "importing" /\ save.stamp <= revision
      /\ UNCHANGED <<rows, revision, manifest, committed, store, mishaps>>
      /\ save' = [save EXCEPT !.pc = "settled"] /\ journal' = [journal EXCEPT !.state = "ready"]
  BY DEF IInv, Types, ImportShards
<1>2. save' \in Saves /\ save'.pc = "settled" /\ save'.stamp = save.stamp
  BY <1>1 DEF Saves
<1>3. /\ journal' \in Journals /\ journal'.state = "ready" /\ journal'.base = journal.base
      /\ journal'.part = journal.part /\ journal'.count = journal.count
      /\ journal'.dirty = journal.dirty /\ journal'.full = journal.full
  BY <1>1 DEF Journals
<1>4. journal.base \in Gens /\ Mirrors(journal, journal.base) /\ Marks(journal, journal.base)
  BY <1>1 DEF IInv, JournalMirrors
<1>5. Mirrors(journal', journal.base)
  BY <1>3, <1>4 DEF Mirrors
<1>6. Marks(journal, journal.base)'
  BY <1>1, <1>3, <1>4 DEF Marks
<1>7. JournalMirrors'
  BY <1>2, <1>3, <1>4, <1>5, <1>6 DEF JournalMirrors
<1> QED BY <1>1, <1>2, <1>3, <1>7, SettlingInvariant

LEMMA MaintenanceStopsInvariant ==
  ASSUME IInv, MaintenanceStops
  PROVE  IInv'
<1>1. /\ save \in Saves /\ journal \in Journals /\ save.pc \in {"committed", "dropped", "importing"}
      /\ save.stamp <= revision
      /\ UNCHANGED <<rows, revision, journal, manifest, committed, store>>
      /\ save' = [save EXCEPT !.pc = "settled"]
  BY DEF IInv, Types, MaintenanceStops
<1>2. save' \in Saves /\ save'.pc = "settled" /\ save'.stamp = save.stamp
  BY <1>1 DEF Saves
<1>3. JournalMirrors'
  BY <1>1, <1>2 DEF IInv, JournalMirrors, Marks
<1> QED BY <1>1, <1>2, <1>3, SettlingInvariant

LEMMA PruneStopsInvariant ==
  ASSUME IInv, PruneStops
  PROVE  IInv'
<1>1. /\ save.pc = "settled" /\ journal \in Journals /\ revision \in Nat
      /\ UNCHANGED <<rows, revision, journal, manifest, committed, store>> /\ save' = NoSave
  BY PartSizeAssumption DEF IInv, Types, PruneStops
<1>2. save' \in Saves /\ save'.pc = "idle" /\ save'.stamp = 0
  BY <1>1, NoSaveType DEF NoSave
<1>3. JournalMirrors'
  BY <1>1, <1>2 DEF IInv, JournalMirrors, Marks
<1> QED BY <1>1, <1>2, <1>3, SettlingInvariant

LEMMA PruneInvariant ==
  ASSUME IInv, Prune
  PROVE  IInv'
<1>1. /\ save.pc = "settled" /\ manifest = committed /\ journal \in Journals /\ revision \in Nat
      /\ UNCHANGED <<rows, revision, journal, manifest, committed, mishaps>> /\ save' = NoSave
      /\ generations' = generations \cap Retained
      /\ blobs' = blobs \cap UNION {BlobsOf(g) : g \in Retained}
  BY PartSizeAssumption DEF IInv, Types, GenerationsKept, Prune
<1>2. save' \in Saves /\ save'.pc = "idle" /\ save'.stamp = 0
  BY <1>1, NoSaveType DEF NoSave
<1>3. Types'
  BY <1>1, <1>2 DEF IInv, Types
<1>4. GenerationsKept'
  <2>1. Stored(manifest) /\ manifest \in Retained
    BY DEF IInv, GenerationsKept, Retained
  <2>2. BlobsOf(manifest) \subseteq UNION {BlobsOf(g) : g \in Retained}
    BY <2>1
  <2>3. Stored(manifest)'
    BY <1>1, <2>1, <2>2 DEF Stored
  <2> QED BY <1>1, <1>2, <2>3 DEF GenerationsKept, Stored
<1>5. JournalMirrors'
  BY <1>1, <1>2 DEF IInv, JournalMirrors, Marks
<1> QED BY <1>2, <1>3, <1>4, <1>5, NoPlanInvariant DEF IInv

LEMMA RestartInvariant ==
  ASSUME IInv, Restart
  PROVE  IInv'
<1>1. /\ committed \in Gens /\ Sound(committed)
      /\ rows' = Content(committed) /\ revision' = committed.revision
      /\ journal' = JournalOf(committed, "ready") /\ manifest' = committed /\ save' = NoSave
      /\ UNCHANGED <<committed, store>>
  BY DEF IInv, Types, GenerationsKept, Stored, Restart
<1>2. save' \in Saves /\ save'.pc = "idle" /\ save'.stamp = 0
  BY <1>1, NoSaveType DEF NoSave
<1>3. /\ journal' \in Journals /\ Mirrors(journal', committed) /\ journal'.state = "ready"
      /\ journal'.base = committed
  BY <1>1, BuiltJournal
<1>4. rows' \in [Records -> Values \cup {None}] /\ revision' \in 0..MaxChanges
  BY <1>1, ContentType, GenTypes
<1>5. Types'
  BY <1>1, <1>2, <1>3, <1>4, PartSizeAssumption DEF IInv, Types, store
<1>6. GenerationsKept'
  <2>1. Stored(committed)'
    BY <1>1 DEF IInv, GenerationsKept, Stored, store
  <2> QED BY <1>1, <1>2, <2>1 DEF GenerationsKept, Stored
<1>7. JournalMirrors'
  <2>1. Marks(journal, committed)'
    BY <1>1 DEF Marks
  <2> QED BY <1>1, <1>2, <1>3, <2>1 DEF JournalMirrors
<1> QED BY <1>2, <1>5, <1>6, <1>7, NoPlanInvariant DEF IInv

LEMMA StepInvariant == IInv /\ [Next]_vars => IInv'
<1> SUFFICES ASSUME IInv, [Next]_vars PROVE IInv'
  OBVIOUS
<1>1. CASE UNCHANGED vars
  <2>1. UNCHANGED <<rows, revision, journal, manifest, committed, generations, blobs, save, mishaps>>
    BY <1>1 DEF vars
  <2>2. /\ \A k : Assigned(k)' = Assigned(k) /\ Count(k)' = Count(k) /\ Where(k)' = Where(k)
        /\ Old' = Old /\ Rewritten' = Rewritten
    BY <2>1 DEF Assigned, Count, Where, Old, Rewritten
  <2>3. Types' /\ GenerationsKept' /\ JournalMirrors' /\ PlanIncremental' /\ PlanWhole'
    BY <2>1 DEF IInv, Types, GenerationsKept, Stored, JournalMirrors, Marks, PlanIncremental, PlanWhole
  <2>4. PlanFits' /\ SealedIsWhole'
    BY <2>1, <2>2 DEF IInv, PlanFits, Fits, SealedIsWhole
  <2>5. WritesWhatIsPlanned'
    <3>1. \A k : Holds(save.shards, k)' <=> Holds(save.shards, k)
      BY <2>1, <2>2 DEF Holds
    <3> QED BY <2>1, <2>2, <3>1 DEF IInv, WritesWhatIsPlanned
  <2> QED BY <2>3, <2>4, <2>5 DEF IInv
<1>2. CASE \E r \in Records, c \in Written : Learn(r, c)
  BY <1>2, LearnInvariant
<1>3. CASE Decay
  BY <1>3, DecayInvariant
<1>4. CASE Plan \/ Planned \/ PlanFull
  BY <1>4, PlanInvariant, PlannedInvariant, PlanFullInvariant
<1>5. CASE \E r \in Records : PlaceKnown(r) \/ PlaceNew(r)
  BY <1>5, PlaceKnownInvariant, PlaceNewInvariant
<1>6. CASE \E k \in save.todo : WriteGroup(k)
  BY <1>6, WriteGroupInvariant
<1>7. CASE Seal \/ Commit \/ SaveFails
  BY <1>7, SealInvariant, CommitInvariant, SaveFailsInvariant
<1>8. CASE Rebase \/ DropJournal \/ InstallJournal \/ ImportShards \/ MaintenanceStops
  BY <1>8, RebaseInvariant, DropJournalInvariant, InstallJournalInvariant, ImportShardsInvariant,
     MaintenanceStopsInvariant
<1>9. CASE Prune \/ PruneStops \/ Restart
  BY <1>9, PruneInvariant, PruneStopsInvariant, RestartInvariant
<1> QED BY <1>1, <1>2, <1>3, <1>4, <1>5, <1>6, <1>7, <1>8, <1>9 DEF Next
-----------------------------------------------------------------------------
(* What the invariant says.                                                *)

LEMMA Implied == IInv => TypeOK /\ CommittedLoadable /\ JournalCovers
<1> SUFFICES ASSUME IInv PROVE TypeOK /\ CommittedLoadable /\ JournalCovers
  OBVIOUS
<1>1. /\ rows \in [Records -> Values \cup {None}] /\ revision \in 0..MaxChanges
      /\ journal \in Journals /\ save \in Saves /\ manifest \in Gens /\ committed \in Gens
  BY DEF IInv, Types
<1>2. TypeOK
  <2>1. committed \in [revision : 0..MaxChanges, shards : {committed.shards}]
    BY <1>1 DEF Gens
  <2> QED BY <1>1, <2>1, JournalTypes, SaveTypes DEF TypeOK
<1>3. CommittedLoadable
  BY DEF IInv, GenerationsKept, Stored, Sound, CommittedLoadable
<1>4. JournalCovers
  <2> SUFFICES ASSUME Usable
               PROVE  /\ DOMAIN journal.part = Members(manifest)
                      /\ \A r \in Members(manifest) : journal.part[r] = Group(manifest, r)[2]
                      /\ \A k \in DOMAIN manifest.shards :
                           journal.count[k] = Cardinality(DOMAIN manifest.shards[k])
                      /\ \A r \in Records : rows[r] = Content(manifest)[r] \/ r \in journal.dirty
                                            \/ (journal.full /\ r \in Neurons)
    BY DEF JournalCovers
  <2>1. Mirrors(journal, manifest) /\ Marks(journal, manifest)
    BY DEF Usable, IInv, JournalMirrors
  <2>2. ASSUME NEW r \in Members(manifest) PROVE journal.part[r] = Group(manifest, r)[2]
    BY <2>1, GroupOfMember DEF Mirrors
  <2> QED BY <2>1, <2>2 DEF Mirrors, Marks
<1> QED BY <1>2, <1>3, <1>4

\* Initially the memory, what is on disk and what the abstract save starts
\* from agree, and there is no snapshot.
LEMMA InitRefines == Init => Abstract!AInit
<1> SUFFICES ASSUME Init PROVE Abstract!AInit
  OBVIOUS
<1>1. IInv
  BY InitInvariant
<1>2. rows \in [Records -> Values \cup {None}] /\ save.pc = "idle" /\ manifest = committed
  BY <1>1 DEF IInv, Types, Init, NoSave
<1>3. Content(committed) = rows
  BY InitialGeneration
<1> QED BY <1>2, <1>3 DEF Abstract!AInit

\* Each step takes the snapshot, commits it, gives it up, changes the memory,
\* restarts, or is not seen at all.
LEMMA StepRefines == IInv /\ [Next]_vars => [Abstract!ANext]_(Abstract!avars)
<1> SUFFICES ASSUME IInv, [Next]_vars PROVE [Abstract!ANext]_(Abstract!avars)
  OBVIOUS
<1> DEFINE disk == Content(committed)
           snapshot == IF save.pc = "sealed" THEN Content(manifest) ELSE None
<1>1. /\ save \in Saves /\ manifest \in Gens /\ Sound(manifest)
      /\ rows \in [Records -> Values \cup {None}]
  BY DEF IInv, Types, GenerationsKept, Stored
<1>2. ASSUME UNCHANGED <<rows, committed, manifest>>, save.pc # "sealed", save'.pc # "sealed"
      PROVE  UNCHANGED Abstract!avars
  BY <1>2 DEF Abstract!avars
<1>3. CASE UNCHANGED vars
  BY <1>3 DEF vars, Abstract!avars
<1>4. CASE \E r \in Records, c \in Written : Learn(r, c)
  <2>1. PICK r \in Records, c \in Written : Learn(r, c)
    BY <1>4
  <2>2. c \in Values \cup {None}
    BY ValuesAssumption
  <2>3. rows' = [rows EXCEPT ![r] = c] /\ UNCHANGED <<committed, manifest, save>>
    BY <2>1 DEF Learn
  <2>4. Abstract!Change(r, c)
    BY <2>3 DEF Abstract!Change
  <2> QED BY <2>2, <2>4 DEF Abstract!ANext
<1>5. CASE Decay
  <2>1. rows' = Decayed(rows) /\ UNCHANGED <<committed, manifest, save>>
    BY <1>5 DEF Decay
  <2>2. Abstract!Decay
    BY <2>1 DEF Abstract!Decay, Abstract!Decayed, Decayed
  <2> QED BY <2>2 DEF Abstract!ANext
<1>6. CASE Plan \/ Planned \/ PlanFull \/ (\E r \in Records : PlaceKnown(r) \/ PlaceNew(r))
  <2>1. /\ UNCHANGED <<rows, committed, manifest>> /\ save.pc \in {"idle", "planning"}
        /\ save'.pc \in {"planning", "writing"}
    <3>1. CASE Plan \/ PlanFull
      BY <3>1 DEF Plan, PlanFull, NoSave
    <3>2. CASE Planned
      BY <1>1, <3>2 DEF Planned, Saves
    <3>3. ASSUME NEW r \in Records, PlaceKnown(r) \/ PlaceNew(r)
          PROVE  /\ UNCHANGED <<rows, committed, manifest>> /\ save.pc = "planning" /\ save'.pc = "planning"
      BY <1>1, <3>3 DEF PlaceKnown, PlaceNew, Take, Saves
    <3> QED BY <1>6, <3>1, <3>2, <3>3
  <2> QED BY <1>2, <2>1
<1>7. CASE \E k \in save.todo : WriteGroup(k)
  <2>1. /\ UNCHANGED <<rows, committed, manifest>> /\ save.pc = "writing"
        /\ save'.pc = "writing"
    BY <1>1, <1>7 DEF WriteGroup, Saves
  <2> QED BY <1>2, <2>1
<1>8. CASE Seal
  <2>1. Content(manifest') = rows /\ UNCHANGED <<rows, committed>>
    BY <1>8, SealedGeneration DEF Seal
  <2>2. save'.pc = "sealed"
    BY <1>1, <1>8 DEF Seal, Saves
  <2>3. Abstract!Take
    BY <2>1, <2>2 DEF Abstract!Take
  <2> QED BY <2>3 DEF Abstract!ANext
<1>9. CASE Commit
  <2>1. save.pc = "sealed" /\ committed' = manifest /\ UNCHANGED <<rows, manifest>>
    BY <1>9 DEF Commit
  <2>2. save'.pc = "committed"
    BY <1>1, <1>9 DEF Commit, Saves
  <2>3. Content(manifest) # None
    BY <1>1, ContentType, NoneAssumption
  <2>4. Abstract!Commit
    BY <2>1, <2>2, <2>3 DEF Abstract!Commit
  <2> QED BY <2>4 DEF Abstract!ANext
<1>10. CASE SaveFails
  <2>1. UNCHANGED <<rows, committed>> /\ save'.pc = "idle"
    BY <1>10 DEF SaveFails, NoSave
  <2>2. Abstract!GiveUp
    BY <2>1 DEF Abstract!GiveUp
  <2> QED BY <2>2 DEF Abstract!ANext
<1>11. CASE Rebase \/ DropJournal \/ InstallJournal \/ ImportShards \/ MaintenanceStops
  <2>1. UNCHANGED <<rows, committed, manifest>> /\ save.pc \in {"committed", "dropped", "importing"}
    BY <1>11 DEF Rebase, DropJournal, InstallJournal, ImportShards, MaintenanceStops
  <2>2. save'.pc \in {"dropped", "importing", "settled"}
    BY <1>1, <1>11 DEF Rebase, DropJournal, InstallJournal, ImportShards, MaintenanceStops, Saves
  <2> QED BY <1>2, <2>1, <2>2
<1>12. CASE Prune \/ PruneStops
  <2>1. UNCHANGED <<rows, committed, manifest>> /\ save.pc = "settled" /\ save'.pc = "idle"
    BY <1>12 DEF Prune, PruneStops, NoSave
  <2> QED BY <1>2, <2>1
<1>13. CASE Restart
  <2>1. rows' = Content(committed) /\ committed' = committed /\ save'.pc = "idle"
    BY <1>13 DEF Restart, NoSave
  <2>2. Abstract!Restart
    BY <2>1 DEF Abstract!Restart
  <2> QED BY <2>2 DEF Abstract!ANext
<1> QED BY <1>3, <1>4, <1>5, <1>6, <1>7, <1>8, <1>9, <1>10, <1>11, <1>12, <1>13 DEF Next
-----------------------------------------------------------------------------
(* Theorems.                                                               *)

\* The inductive invariant holds: the journal mirrors its base, and a save
\* writes what it planned.
THEOREM InvariantHolds == Spec => []IInv
<1>1. Init => IInv
  BY InitInvariant
<1>2. IInv /\ [Next]_vars => IInv'
  BY StepInvariant
<1> QED BY <1>1, <1>2, PTL DEF Spec

\* Rows, journal, save and the committed generation keep their types.
THEOREM Typing == Spec => []TypeOK
<1>1. IInv => TypeOK
  BY Implied
<1> QED BY <1>1, InvariantHolds, PTL

\* What brain.json names can always be loaded: after any crash, failed save
\* or reclaim its generation and blobs are there, and its groups are bounded,
\* disjoint and rightly hashed.
THEOREM AlwaysLoadable == Spec => []CommittedLoadable
<1>1. IInv => CommittedLoadable
  BY Implied
<1> QED BY <1>1, InvariantHolds, PTL

\* A journal that the next incremental save may use says where every row of
\* the manifest is and marks every row that is not as the manifest has it.
THEOREM JournalForgetsNothing == Spec => []JournalCovers
<1>1. IInv => JournalCovers
  BY Implied
<1> QED BY <1>1, InvariantHolds, PTL

\* However little of it is written, a save is one of all the rows at one
\* moment, and what a crash leaves is the last one committed.
THEOREM SavesAreAtomic == Spec => ImplementsAtomicSave
<1>1. Init => Abstract!AInit
  BY InitRefines
<1>2. IInv /\ [Next]_vars => [Abstract!ANext]_(Abstract!avars)
  BY StepRefines
<1> QED BY <1>1, <1>2, InvariantHolds, PTL DEF Spec, ImplementsAtomicSave, Abstract!ASpec
=============================================================================
