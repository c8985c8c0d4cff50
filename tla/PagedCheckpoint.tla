--------------------------- MODULE PagedCheckpoint ---------------------------
(***************************************************************************)
(* How the rows of a paged brain reach the disk.  A save writes a          *)
(* generation: groups of rows in content-addressed blobs and a manifest    *)
(* that names them.  Only the groups that hold a changed row are written   *)
(* anew, on the word of a journal that SQLite triggers keep beside the     *)
(* rows; the others are taken over from the generation before.  The        *)
(* replacement of brain.json commits the generation, after which the       *)
(* journal is based on it and older generations are reclaimed              *)
(* (src/engine/omni_core/paged_dirty_journal.py, paged_substrate_writer.py,*)
(* the save of brain.py, prune_unreferenced of vsa.py).                    *)
(*                                                                         *)
(* The steps are those between which the process may end, or between which *)
(* a row may change although "the caller serializes live writes": the code *)
(* compares revisions to detect it.  Neurons and assemblies are kept alike *)
(* and never share a bucket; synapses, the files beside the rows and the   *)
(* growth of the store are left out.                                       *)
(***************************************************************************)
EXTENDS Integers, FiniteSets, FiniteSetsExt

CONSTANTS Records,     \* identifiers of rows, in their order
          Neurons,     \* the rows that decay
          Bucket,      \* the hash bucket of each row
          Values,      \* strengths of a row
          Written,     \* what learning may leave in a row, strengths or None
          PartSize,    \* recordsPerShard
          MaxChanges,  \* bounds the model: the revision
          MaxMishaps,  \* bounds the model: restarts and failures
          None

ASSUME RecordsAssumption == Records \subseteq Nat /\ IsFiniteSet(Records) /\ Neurons \subseteq Records
ASSUME BucketAssumption ==
  \A n \in Neurons, a \in Records \ Neurons : Bucket[n] # Bucket[a]
ASSUME ValuesAssumption == 
  /\ \A v \in Values : v \in Nat /\ (v # 0 => v - 1 \in Values)
  /\ Written \subseteq Values \cup {None}
ASSUME PartSizeAssumption == PartSize \in Nat \ {0} /\ MaxChanges \in Nat /\ MaxMishaps \in Nat
ASSUME NoneAssumption == None \notin Nat /\ None \notin [Records -> Values \cup {None}]

VARIABLES
  rows,         \* the SQLite cache: what each record holds
  revision,     \* substrate.state_revision and the revisions of the stores
  journal,      \* substrate_dirty_* and substrate_base_* of the cache
  manifest,     \* substrate.persistence_manifest: the generation in memory
  committed,    \* the generation brain.json names
  generations,  \* generations on disk
  blobs,        \* blobs on disk
  save,         \* the save under way
  mishaps       \* restarts and failures so far

store == <<generations, blobs>>
vars == <<rows, revision, journal, manifest, committed, generations, blobs, save, mishaps>>
-----------------------------------------------------------------------------
(* A blob is a function from the rows of a group to what they hold; a       *)
(* generation has the blob of each group, which is a bucket and a part.     *)
Put(f, k, v) == [x \in DOMAIN f \cup {k} |-> IF x = k THEN v ELSE f[x]]
Members(g) == UNION {DOMAIN g.shards[k] : k \in DOMAIN g.shards}
Group(g, r) == CHOOSE k \in DOMAIN g.shards : r \in DOMAIN g.shards[k]
Content(g) == [r \in Records |-> IF r \in Members(g) THEN g.shards[Group(g, r)][r] ELSE None]
BlobsOf(g) == {g.shards[k] : k \in DOMAIN g.shards}

Present == {r \in Records : rows[r] # None}
Decayed(m) == [r \in Records |-> IF r \in Neurons /\ m[r] \notin {None, 0} THEN m[r] - 1 ELSE m[r]]

(* What a journal built from the shards of a generation says: where each    *)
(* row is kept and how many a group has.                                    *)
Empty == [x \in {} |-> x]
NoJournal == [state |-> "none", base |-> None, part |-> Empty, count |-> Empty,
              dirty |-> {}, full |-> FALSE]
JournalOf(g, state) ==
  [state |-> state, base |-> g,
   part |-> [r \in Members(g) |-> Group(g, r)[2]],
   count |-> [k \in DOMAIN g.shards |-> Cardinality(DOMAIN g.shards[k])],
   dirty |-> {}, full |-> FALSE]

NoSave == [pc |-> "idle", full |-> FALSE, prior |-> None, stamp |-> 0, left |-> {},
           part |-> Empty, count |-> Empty, todo |-> {}, shards |-> Empty]

(* Whole rows over groups of bounded size.                                  *)
WellFormed(g) ==
  /\ \A k \in DOMAIN g.shards :
       /\ DOMAIN g.shards[k] # {} /\ Cardinality(DOMAIN g.shards[k]) <= PartSize
       /\ \A r \in DOMAIN g.shards[k] : Bucket[r] = k[1]
  /\ \A j, k \in DOMAIN g.shards : j # k => DOMAIN g.shards[j] \cap DOMAIN g.shards[k] = {}

(* Every way to give the rows that are there to parts of their buckets.     *)
Placements(S) ==
  {p \in [S -> 0 .. Cardinality(S)] :
     \A r \in S :
       /\ Cardinality({s \in S : Bucket[s] = Bucket[r] /\ p[s] = p[r]}) <= PartSize
       /\ p[r] > 0 => \E s \in S : Bucket[s] = Bucket[r] /\ p[s] = p[r] - 1}
GroupsOf(p) == {<<Bucket[r], p[r]>> : r \in DOMAIN p}
RowsOf(p, k) == {r \in DOMAIN p : Bucket[r] = k[1] /\ p[r] = k[2]}

(* A brain that has just been loaded: a new cache, whose journal is built   *)
(* from the generation of brain.json.                                       *)
Init ==
  /\ rows \in [Records -> Written]
  /\ revision = 0
  /\ \E p \in Placements(Present) :
       committed = [revision |-> 0,
                    shards |-> [k \in GroupsOf(p) |-> [r \in RowsOf(p, k) |-> rows[r]]]]
  /\ manifest = committed /\ journal = JournalOf(committed, "ready")
  /\ generations = {committed} /\ blobs = BlobsOf(committed)
  /\ save = NoSave /\ mishaps = 0
-----------------------------------------------------------------------------
(* Learning.                                                               *)

Mishap == mishaps < MaxMishaps /\ mishaps' = mishaps + 1

Locked == save.pc = "planning"
Tracked == journal.state # "none"

(* A row is written or deleted; the trigger marks it in the same transaction.*)
Mark(r) == journal' = IF Tracked THEN [journal EXCEPT !.dirty = @ \cup {r}] ELSE journal

Learn(r, c) ==
  /\ ~Locked /\ revision < MaxChanges /\ rows[r] # c
  /\ rows' = [rows EXCEPT ![r] = c]
  /\ revision' = revision + 1
  /\ Mark(r)
  /\ UNCHANGED <<manifest, committed, store, save, mishaps>>

(* Variant for mutation: decay that leaves no mark.                         *)
MarkAllUnseen == UNCHANGED journal

(* Decay changes what every neuron row means without touching the row.      *)
MarkAll == journal' = IF Tracked THEN [journal EXCEPT !.full = TRUE] ELSE journal

Decay ==
  /\ ~Locked /\ revision < MaxChanges
  /\ rows' = Decayed(rows)
  /\ revision' = revision + 1
  /\ MarkAll
  /\ UNCHANGED <<manifest, committed, store, save, mishaps>>
-----------------------------------------------------------------------------
(* The plan of an incremental save, in one transaction: the dirty rows in   *)
(* the order of their identifiers.                                          *)

Usable == journal.state = "ready" /\ journal.base = manifest

NeuronGroup(k) == \E n \in Neurons : Bucket[n] = k[1]

Plan ==
  /\ save.pc = "idle" /\ Usable
  /\ save' = [NoSave EXCEPT !.pc = "planning", !.prior = manifest, !.stamp = revision,
                            !.left = journal.dirty, !.shards = manifest.shards,
                            !.count = IF ~journal.full THEN Empty
                                      ELSE [k \in {j \in DOMAIN journal.count : NeuronGroup(j)} |-> journal.count[k]]]
  /\ UNCHANGED <<rows, revision, journal, manifest, committed, store, mishaps>>

Count(k) == IF k \in DOMAIN save.count THEN save.count[k]
            ELSE IF k \in DOMAIN journal.count THEN journal.count[k] ELSE 0
Parts(b) == {k[2] : k \in {j \in DOMAIN journal.count \cup DOMAIN save.count : j[1] = b}}
Tail(b) == IF Parts(b) = {} THEN 0 ELSE CHOOSE p \in Parts(b) : \A q \in Parts(b) : q <= p

Take(r) ==
  /\ save.pc = "planning" /\ r \in save.left /\ \A s \in save.left : r <= s

(* A row the base knows keeps its group, or leaves it when it was deleted.  *)
PlaceKnown(r) ==
  /\ Take(r) /\ r \in DOMAIN journal.part
  /\ LET k == <<Bucket[r], journal.part[r]>>
         gone == rows[r] = None
     IN save' = [save EXCEPT !.left = @ \ {r},
                             !.count = Put(@, k, Count(k) - (IF gone THEN 1 ELSE 0)),
                             !.part = IF gone THEN Put(@, r, None) ELSE @]
  /\ UNCHANGED <<rows, revision, journal, manifest, committed, store, mishaps>>

(* Variant for mutation: one row too late.                                  *)
PartForLate(b) == IF Count(<<b, Tail(b)>>) > PartSize THEN Tail(b) + 1 ELSE Tail(b)

PartFor(b) == IF Count(<<b, Tail(b)>>) >= PartSize THEN Tail(b) + 1 ELSE Tail(b)

(* A new row goes to the last part of its bucket, or to a new one when that *)
(* is full; one that is gone again goes nowhere.                            *)
PlaceNew(r) ==
  /\ Take(r) /\ r \notin DOMAIN journal.part
  /\ LET b == Bucket[r]
         tail == <<b, Tail(b)>>
         k == <<b, PartFor(b)>>
     IN save' = IF rows[r] = None THEN [save EXCEPT !.left = @ \ {r}]
                ELSE [save EXCEPT !.left = @ \ {r},
                                  !.count = Put(Put(@, tail, Count(tail)), k, Count(k) + 1),
                                  !.part = Put(@, r, PartFor(b))]
  /\ UNCHANGED <<rows, revision, journal, manifest, committed, store, mishaps>>

Planned ==
  /\ save.pc = "planning" /\ save.left = {}
  /\ save' = [save EXCEPT !.pc = "writing", !.todo = DOMAIN save.count]
  /\ UNCHANGED <<rows, revision, journal, manifest, committed, store, mishaps>>

(* A full save, when there is no journal, or one that is unfinished or       *)
(* based on another generation: all rows, in parts of no set order.          *)
PlanFull ==
  /\ save.pc = "idle" /\ ~Usable
  /\ \E p \in Placements(Present) :
       save' = [NoSave EXCEPT !.pc = "writing", !.full = TRUE, !.prior = manifest,
                              !.stamp = revision, !.part = p, !.todo = GroupsOf(p)]
  /\ UNCHANGED <<rows, revision, journal, manifest, committed, store, mishaps>>
-----------------------------------------------------------------------------
(* Writing.                                                                *)

(* The rows of a planned group: those of the base the plan leaves where     *)
(* they are, and those it puts there.                                       *)
Assigned(k) ==
  {r \in Records : Bucket[r] = k[1] /\
     IF r \in DOMAIN save.part THEN save.part[r] = k[2]
     ELSE ~save.full /\ r \in DOMAIN journal.part /\ journal.part[r] = k[2]}

(* In the order of buckets and parts, the rows are read as they are now.    *)
(* One that is gone fails the save.                                         *)
First(k) == \A j \in save.todo : k[1] < j[1] \/ (k[1] = j[1] /\ k[2] <= j[2])

WriteGroup(k) ==
  /\ save.pc = "writing" /\ k \in save.todo /\ First(k)
  /\ LET blob == [r \in Assigned(k) |-> rows[r]]
     IN /\ \A r \in Assigned(k) : rows[r] # None
        /\ ~save.full => Cardinality(Assigned(k)) = save.count[k]
        /\ IF Assigned(k) = {}
           THEN /\ save' = [save EXCEPT !.todo = @ \ {k},
                                        !.shards = [j \in DOMAIN @ \ {k} |-> @[j]]]
                /\ UNCHANGED blobs
           ELSE /\ save' = [save EXCEPT !.todo = @ \ {k}, !.shards = Put(@, k, blob)]
                /\ blobs' = blobs \cup {blob}
  /\ UNCHANGED <<rows, revision, journal, manifest, committed, generations, mishaps>>

Unchanged == revision = save.stamp

Observed(kind) ==
  MapThenSumSet(LAMBDA k : Cardinality(DOMAIN save.shards[k] \cap kind), DOMAIN save.shards)

(* Nothing changed since the plan, the number of rows is right, and what is *)
(* taken over is there: the manifest of the new generation is written.      *)

Seal ==
  /\ save.pc = "writing" /\ save.todo = {}
  /\ Unchanged
  /\ \A kind \in {Neurons, Records \ Neurons} : Observed(kind) = Cardinality(Present \cap kind)
  /\ {save.shards[k] : k \in DOMAIN save.shards} \subseteq blobs
  /\ manifest' = [revision |-> revision, shards |-> save.shards]
  /\ generations' = generations \cup {manifest'}
  /\ save' = [save EXCEPT !.pc = "sealed"]
  /\ UNCHANGED <<rows, revision, journal, committed, blobs, mishaps>>

(* brain.json is replaced, whatever was learned since.                      *)
Commit ==
  /\ save.pc = "sealed"
  /\ committed' = manifest
  /\ save' = [save EXCEPT !.pc = "committed"]
  /\ UNCHANGED <<rows, revision, journal, manifest, store, mishaps>>

(* A save that fails before it leaves the memory with the manifest it had.  *)
(* Rows that changed make it fail; the disk may make it fail otherwise.     *)
Fails == IF Unchanged THEN Mishap ELSE UNCHANGED mishaps

SaveFails ==
  /\ Fails
  /\ save.pc \in {"planning", "writing", "sealed"}
  /\ manifest' = save.prior
  /\ save' = NoSave
  /\ UNCHANGED <<rows, revision, journal, committed, store>>
-----------------------------------------------------------------------------
(* After the commit: maintenance of the journal, which may stop at any      *)
(* point without failing the save, and the reclaim of old generations.      *)

(* The plan becomes the base, if nothing has changed since it was made.     *)
Rebase ==
  /\ save.pc = "committed" /\ ~save.full /\ Unchanged
  /\ LET kept == {r \in DOMAIN journal.part \cup DOMAIN save.part :
                    r \in DOMAIN save.part => save.part[r] # None}
     IN journal' = [journal EXCEPT
          !.base = manifest, !.dirty = {}, !.full = FALSE,
          !.part = [r \in kept |-> IF r \in DOMAIN save.part THEN save.part[r] ELSE @[r]],
          !.count = [k \in DOMAIN @ \cup DOMAIN save.count |-> Count(k)]]
  /\ save' = [save EXCEPT !.pc = "settled"]
  /\ UNCHANGED <<rows, revision, manifest, committed, store, mishaps>>

(* After a full save the journal is dropped with its triggers, and made     *)
(* again from the new generation: first the triggers, then the shards.      *)
DropJournal ==
  /\ save.pc = "committed" /\ save.full /\ Unchanged
  /\ journal' = NoJournal
  /\ save' = [save EXCEPT !.pc = "dropped"]
  /\ UNCHANGED <<rows, revision, manifest, committed, store, mishaps>>

InstallJournal ==
  /\ save.pc = "dropped" /\ Unchanged
  /\ journal' = JournalOf(manifest, "building")
  /\ save' = [save EXCEPT !.pc = "importing"]
  /\ UNCHANGED <<rows, revision, manifest, committed, store, mishaps>>

ImportShards ==
  /\ save.pc = "importing"
  /\ journal' = [journal EXCEPT !.state = "ready"]
  /\ save' = [save EXCEPT !.pc = "settled"]
  /\ UNCHANGED <<rows, revision, manifest, committed, store, mishaps>>

MaintenanceStops ==
  /\ Fails
  /\ save.pc \in {"committed", "dropped", "importing"}
  /\ save' = [save EXCEPT !.pc = "settled"]
  /\ UNCHANGED <<rows, revision, journal, manifest, committed, store>>

(* The generation in memory and the one before it are kept.                 *)
Retained == {manifest, save.prior}

Prune ==
  /\ save.pc = "settled"
  /\ generations' = generations \cap Retained
  /\ blobs' = blobs \cap UNION {BlobsOf(g) : g \in Retained}
  /\ save' = NoSave
  /\ UNCHANGED <<rows, revision, journal, manifest, committed, mishaps>>

(* What follows the commit fails, or a retained generation cannot be read.  *)
PruneStops == Mishap /\ save.pc = "settled" /\ save' = NoSave /\ UNCHANGED <<rows, revision, journal, manifest, committed, store>>

(* The worker ends at any point; the next one loads what is committed into  *)
(* a new cache.                                                             *)
Restart ==
  /\ Mishap
  /\ rows' = Content(committed) /\ revision' = committed.revision
  /\ journal' = JournalOf(committed, "ready")
  /\ manifest' = committed
  /\ save' = NoSave
  /\ UNCHANGED <<committed, store>>

Next ==
  \/ \E r \in Records, c \in Written : Learn(r, c)
  \/ Decay
  \/ Plan \/ (\E r \in Records : PlaceKnown(r) \/ PlaceNew(r)) \/ Planned \/ PlanFull
  \/ (\E k \in save.todo : WriteGroup(k)) \/ Seal \/ Commit \/ SaveFails
  \/ Rebase \/ DropJournal \/ InstallJournal \/ ImportShards \/ MaintenanceStops
  \/ Prune \/ PruneStops \/ Restart

Spec == Init /\ [][Next]_vars
-----------------------------------------------------------------------------
(* Types.                                                                   *)
TypeOK ==
  /\ rows \in [Records -> Values \cup {None}]
  /\ revision \in 0 .. MaxChanges
  /\ journal.state \in {"none", "building", "ready"}
  /\ journal.dirty \subseteq Records /\ journal.full \in BOOLEAN
  /\ save.pc \in {"idle", "planning", "writing", "sealed", "committed", "dropped", "importing", "settled"}
  /\ save.left \subseteq Records /\ save.full \in BOOLEAN
  /\ committed \in [revision : 0 .. MaxChanges, shards : {committed.shards}]

(* What brain.json names can be loaded, after any crash, failed save or     *)
(* reclaim: its generation and all of its blobs are there, and its groups   *)
(* are the bounded, disjoint, rightly hashed ones the loader insists on.    *)
CommittedLoadable ==
  /\ committed \in generations /\ BlobsOf(committed) \subseteq blobs
  /\ WellFormed(committed)

(* A journal a plan may trust forgets nothing: what is not marked is in the *)
(* manifest, with its present content and in the group the journal says.    *)
JournalCovers ==
  Usable =>
    /\ DOMAIN journal.part = Members(manifest)
    /\ \A r \in Members(manifest) : journal.part[r] = Group(manifest, r)[2]
    /\ \A k \in DOMAIN manifest.shards : journal.count[k] = Cardinality(DOMAIN manifest.shards[k])
    /\ \A r \in Records : rows[r] = Content(manifest)[r] \/ r \in journal.dirty
                          \/ (journal.full /\ r \in Neurons)

(* However little of it is written, a save is one of all the rows at one    *)
(* moment, and a crash at any point leaves one such save.                   *)
Abstract == INSTANCE AtomicSave WITH
  memory <- rows, disk <- Content(committed),
  snapshot <- IF save.pc = "sealed" THEN Content(manifest) ELSE None
ImplementsAtomicSave == Abstract!ASpec
=============================================================================
