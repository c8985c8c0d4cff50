------------------------- MODULE LiveSensoryProofs -------------------------
(***************************************************************************)
(* Proofs about LiveSensory, for any packets, controls, turns and bounds.  *)
(* A request is in one hand at a time: on the wire, in the ordinary queue, *)
(* with the reader, in the inbox of its turn, in the hand of the drain or in *)
(* one of the two lists of rejected items; place says in which.  Everything*)
(* else follows a request through its place: its receipt and its bytes, what *)
(* may have been begun of it, and what may still be under way behind a     *)
(* retirement.                                                             *)
(***************************************************************************)
EXTENDS LiveSensory, FiniteSetTheorems, TLAPS

Kept == {"reader", "pending", "taken", "rejected"}
Holding == {"checking", "recording", "integrating", "conditioned"}
Draining == Holding \cup {"generating", "current", "closing", "stuck"}
ReaderPC == {"idle", "looked", "releasing", "retiring", "rejecting"}
AtHand == {"looked", "retiring", "rejecting"}
USE DEF ReaderPC, AtHand

InboxType == [open : BOOLEAN, registered : BOOLEAN, pending : Seq(Requests),
              bytes : Nat, retired : BOOLEAN, bound : SUBSET Packets]
MainType == [pc : MainPC, turn : Turns \cup {0}, item : Requests \cup {None}, rejected : Seq(Requests)]

(* Where each place is.                                                    *)
OnLines ==
  /\ IsInjective(wire) /\ IsInjective(queue)
  /\ \A r \in Requests : /\ place[r] = "wire" <=> r \in Range(wire)
                         /\ place[r] = "queue" <=> r \in Range(queue)

InInbox ==
  /\ \A t \in Turns : IsInjective(inbox[t].pending)
  /\ \A r \in Requests : place[r] = "pending" => turnOf[r] \in Turns
  /\ \A r \in Requests, t \in Turns :
       r \in Range(inbox[t].pending) <=> place[r] = "pending" /\ turnOf[r] = t

InHands ==
  /\ \A r \in Requests : place[r] = "reader" <=> reader.pc \in AtHand /\ reader.item = r
  /\ \A r \in Requests : place[r] = "taken" <=> main.pc \in Holding /\ main.item = r
  /\ reader.pc # "idle" => reader.item \in Requests /\ turnOf[reader.item] = main.turn /\ main.turn \in Turns
  /\ main.pc \in Holding => main.item \in Requests /\ turnOf[main.item] = main.turn
  /\ main.pc \in {"integrating", "conditioned"} => main.item \in Packets

Rejected ==
  /\ IsInjective(reader.rejected) /\ IsInjective(main.rejected)
  /\ Range(reader.rejected) \cap Range(main.rejected) = {}
  /\ \A r \in Requests :
       place[r] = "rejected" <=> r \in Range(reader.rejected) \cup Range(main.rejected)
  /\ reader.rejected # <<>> => reader.pc = "rejecting"
  /\ main.rejected # <<>> => main.pc = "rejecting"
  /\ \A r \in Range(reader.rejected) \cup Range(main.rejected) : turnOf[r] = main.turn

(* A turn has its inbox between its opening and its close.                 *)
TurnLife ==
  /\ main.pc # "idle" => main.turn \in Turns
  /\ \A t \in Turns :
       /\ inbox[t].registered => t = main.turn /\ main.pc # "idle"
       /\ inbox[t].open => t = main.turn /\ main.pc \in Draining
       /\ inbox[t].pending # <<>> => t = main.turn /\ main.pc \in Draining
       /\ inbox[t].bound # {} => t = main.turn /\ main.pc \notin {"idle", "starting", "leaving"}

(* What a request's place says of its answer, receipt and effects.         *)
Followed == \A r \in Requests :
  /\ answer[r] = None <=> place[r] # "over"
  /\ lease[r] = (IF place[r] \in Kept THEN 1 ELSE 0)
                + (IF reader.pc = "releasing" /\ reader.item = r THEN 1 ELSE 0)
  /\ r \in begun => \/ answer[r] \in {"ok", "unknown"}
                    \/ main.pc = "conditioned" /\ main.item = r

Held(t) == {p \in Packets : turnOf[p] = t /\ place[p] \in {"pending", "taken", "rejected"}}
Accounted == \A t \in Turns : /\ IsFiniteSet(Held(t))
                              /\ inbox[t].bytes = Cardinality(Held(t))

(* A retirement passes no packet sent before it and is passed by none.     *)
Retirements == {"retire", "stop"}
RetireOrder ==
  /\ \A r \in Retirements : place[r] \notin {"pending", "taken", "rejected"}
  /\ reader.pc \in {"retiring", "rejecting"} => reader.item \in Retirements
  /\ reader.pc = "looked" => reader.item \notin Retirements
  /\ host.state = "active" => place["retire"] = "unsent"
  /\ \A i, j \in DOMAIN wire : i < j /\ wire[i] = "retire" => wire[j] \notin Packets
  /\ place["retire"] = "reader" => \A p \in Packets : place[p] # "wire"
  /\ reader.pc = "rejecting" /\ reader.item = "retire" => \A p \in Packets : place[p] # "pending"
  /\ StopEmptiesQueue

IInv == /\ TypeOK /\ OnLines /\ InInbox /\ InHands /\ Rejected /\ TurnLife /\ Followed
        /\ Accounted /\ RetireOrder
-----------------------------------------------------------------------------
(* Sequences: what appending and taking do to the elements.                *)

LEMMA Appended ==
  ASSUME NEW S, NEW s \in Seq(S), NEW x \in S
  PROVE  /\ Append(s, x) \in Seq(S)
         /\ Range(Append(s, x)) = Range(s) \cup {x}
         /\ IsInjective(s) /\ x \notin Range(s) => IsInjective(Append(s, x))
<1> DEFINE a == Append(s, x)
<1>1. /\ a \in Seq(S) /\ DOMAIN a = 1 .. Len(s) + 1 /\ DOMAIN s = 1 .. Len(s) /\ Len(s) \in Nat
      /\ \A i \in 1 .. Len(s) : a[i] = s[i]
      /\ a[Len(s) + 1] = x
  OBVIOUS
<1>2. Range(a) = Range(s) \cup {x}
  <2>1. ASSUME NEW y \in Range(a) PROVE y \in Range(s) \cup {x}
    <3>1. PICK i \in 1 .. Len(s) + 1 : y = a[i]
      BY <1>1, <2>1 DEF Range
    <3>2. CASE i = Len(s) + 1
      BY <3>1, <3>2, <1>1
    <3>3. CASE i \in 1 .. Len(s)
      BY <3>1, <3>3, <1>1 DEF Range
    <3> QED BY <3>1, <3>2, <3>3, <1>1
  <2>2. ASSUME NEW y \in Range(s) PROVE y \in Range(a)
    <3>1. PICK i \in 1 .. Len(s) : y = s[i]
      BY <1>1, <2>2 DEF Range
    <3>2. i \in DOMAIN a /\ a[i] = y
      BY <3>1, <1>1
    <3> QED BY <3>2 DEF Range
  <2>3. x \in Range(a)
    <3>1. Len(s) + 1 \in DOMAIN a
      BY <1>1
    <3> QED BY <3>1, <1>1 DEF Range
  <2> QED BY <2>1, <2>2, <2>3
<1>3. ASSUME IsInjective(s), x \notin Range(s) PROVE IsInjective(a)
  <2>1. SUFFICES ASSUME NEW i \in DOMAIN a, NEW j \in DOMAIN a, a[i] = a[j] PROVE i = j
    BY DEF IsInjective
  <2>2. \A k \in 1 .. Len(s) : a[k] # x
    BY <1>1, <1>3 DEF Range
  <2>3. CASE i \in 1 .. Len(s) /\ j \in 1 .. Len(s)
    BY <1>1, <1>3, <2>1, <2>3 DEF IsInjective
  <2> QED BY <1>1, <2>1, <2>2, <2>3
<1> QED BY <1>1, <1>2, <1>3

LEMMA Taken ==
  ASSUME NEW S, NEW s \in Seq(S), s # <<>>
  PROVE  /\ Tail(s) \in Seq(S) /\ Head(s) \in S
         /\ Range(s) = {Head(s)} \cup Range(Tail(s))
         /\ IsInjective(s) => IsInjective(Tail(s)) /\ Head(s) \notin Range(Tail(s))
<1> DEFINE u == Tail(s)
<1>1. /\ u \in Seq(S) /\ Head(s) \in S /\ Head(s) = s[1] /\ Len(s) \in Nat \ {0}
      /\ DOMAIN s = 1 .. Len(s) /\ DOMAIN u = 1 .. Len(s) - 1
      /\ \A i \in 1 .. Len(s) - 1 : u[i] = s[i + 1]
  OBVIOUS
<1>2. Range(s) = {Head(s)} \cup Range(u)
  <2>1. ASSUME NEW y \in Range(s) PROVE y \in {Head(s)} \cup Range(u)
    <3>1. PICK i \in 1 .. Len(s) : y = s[i]
      BY <1>1, <2>1 DEF Range
    <3>2. CASE i = 1
      BY <3>1, <3>2, <1>1
    <3>3. CASE i # 1
      <4>1. i - 1 \in DOMAIN u /\ u[i - 1] = y
        BY <3>1, <3>3, <1>1
      <4> QED BY <4>1 DEF Range
    <3> QED BY <3>2, <3>3
  <2>2. ASSUME NEW y \in Range(u) PROVE y \in Range(s)
    <3>1. PICK i \in 1 .. Len(s) - 1 : y = u[i]
      BY <1>1, <2>2 DEF Range
    <3>2. i + 1 \in DOMAIN s /\ s[i + 1] = y
      BY <3>1, <1>1
    <3> QED BY <3>2 DEF Range
  <2>3. Head(s) \in Range(s)
    <3>1. 1 \in DOMAIN s
      BY <1>1
    <3> QED BY <3>1, <1>1 DEF Range
  <2> QED BY <2>1, <2>2, <2>3
<1>3. ASSUME IsInjective(s) PROVE IsInjective(u) /\ Head(s) \notin Range(u)
  <2>1. ASSUME NEW i \in DOMAIN u, NEW j \in DOMAIN u, u[i] = u[j] PROVE i = j
    <3>1. i + 1 \in DOMAIN s /\ j + 1 \in DOMAIN s /\ s[i + 1] = s[j + 1] /\ i \in Int /\ j \in Int
      BY <1>1, <2>1
    <3>2. i + 1 = j + 1
      BY <3>1, <1>3 DEF IsInjective
    <3> QED BY <3>1, <3>2
  <2>2. ASSUME Head(s) \in Range(u) PROVE FALSE
    <3>1. PICK i \in 1 .. Len(s) - 1 : Head(s) = u[i]
      BY <1>1, <2>2 DEF Range
    <3>2. 1 \in DOMAIN s /\ i + 1 \in DOMAIN s /\ s[1] = s[i + 1]
      BY <3>1, <1>1
    <3>3. i + 1 = 1
      BY <3>2, <1>3 DEF IsInjective
    <3> QED BY <3>1, <3>3
  <2> QED BY <2>1, <2>2 DEF IsInjective
<1> QED BY <1>1, <1>2, <1>3

LEMMA Nothing == Range(<<>>) = {} /\ IsInjective(<<>>)
BY DEF Range, IsInjective
-----------------------------------------------------------------------------
(* The bytes of a session: what its packets hold in the inbox of a turn.   *)

Inside == {"pending", "taken", "rejected"}

LEMMA HeldLeaves ==
  ASSUME TypeOK, Accounted, NEW p \in Packets, NEW t \in Turns, turnOf[p] = t, place[p] \in Inside,
         place' = [place EXCEPT ![p] = "over"], turnOf' = turnOf
  PROVE  /\ inbox[t].bytes - 1 \in Nat
         /\ IsFiniteSet(Held(t)') /\ Cardinality(Held(t)') = inbox[t].bytes - 1
         /\ \A u \in Turns \ {t} : Held(u)' = Held(u)
<1>1. p \in Held(t) /\ Packets \subseteq Requests
  BY DEF Held, Inside, Requests
<1>2. \A q \in Packets : place'[q] = IF q = p THEN "over" ELSE place[q]
  BY <1>1 DEF TypeOK
<1>3. Held(t)' = Held(t) \ {p}
  BY <1>2 DEF Held
<1>4. \A u \in Turns \ {t} : Held(u)' = Held(u)
  BY <1>2 DEF Held
<1>5. IsFiniteSet(Held(t)) /\ inbox[t].bytes = Cardinality(Held(t))
  BY DEF Accounted
<1>6. IsFiniteSet(Held(t) \ {p}) /\ Cardinality(Held(t) \ {p}) = Cardinality(Held(t)) - 1
  BY <1>1, <1>5, FS_RemoveElement
<1>7. Cardinality(Held(t) \ {p}) \in Nat
  BY <1>6, FS_CardinalityType
<1> QED BY <1>3, <1>4, <1>5, <1>6, <1>7

LEMMA HeldJoins ==
  ASSUME TypeOK, Accounted, NEW p \in Packets, NEW t \in Turns, turnOf[p] = t, place[p] = "reader",
         place' = [place EXCEPT ![p] = "pending"], turnOf' = turnOf
  PROVE  /\ IsFiniteSet(Held(t)') /\ Cardinality(Held(t)') = inbox[t].bytes + 1
         /\ \A u \in Turns \ {t} : Held(u)' = Held(u)
<1>1. p \notin Held(t) /\ Packets \subseteq Requests
  BY DEF Held, Requests
<1>2. \A q \in Packets : place'[q] = IF q = p THEN "pending" ELSE place[q]
  BY <1>1 DEF TypeOK
<1>3. Held(t)' = Held(t) \cup {p}
  BY <1>2 DEF Held
<1>4. \A u \in Turns \ {t} : Held(u)' = Held(u)
  BY <1>2 DEF Held
<1>5. IsFiniteSet(Held(t)) /\ inbox[t].bytes = Cardinality(Held(t))
  BY DEF Accounted
<1>6. IsFiniteSet(Held(t) \cup {p}) /\ Cardinality(Held(t) \cup {p}) = Cardinality(Held(t)) + 1
  BY <1>1, <1>5, FS_AddElement
<1> QED BY <1>3, <1>4, <1>5, <1>6

(* Moves that leave every packet where it counts.                          *)
LEMMA HeldSame ==
  ASSUME Accounted, turnOf' = turnOf \/ (\A p \in Packets : turnOf'[p] # turnOf[p] => place[p] \notin Inside),
         \A p \in Packets : place'[p] \in Inside <=> place[p] \in Inside,
         \A t \in Turns : inbox'[t].bytes = inbox[t].bytes
  PROVE  Accounted'
<1>1. \A t \in Turns : Held(t)' = Held(t)
  BY DEF Held, Inside
<1> QED BY <1>1 DEF Accounted
-----------------------------------------------------------------------------
(* Steps that move no request.                                             *)

(* The main thread moves on; its turn, its item and its list stay.         *)
LEMMA Moved ==
  ASSUME TypeOK, NEW pc, pc \in MainPC, Go(pc)
  PROVE  /\ main' \in MainType /\ main'.pc = pc
         /\ main'.turn = main.turn /\ main'.item = main.item /\ main'.rejected = main.rejected
<1>1. main \in MainType /\ main' = [main EXCEPT !.pc = pc]
  BY DEF TypeOK, MainType, Go
<1> QED BY <1>1 DEF MainType

(* The control points the actions name.                                    *)
LEMMA Labels ==
  {"starting", "generating", "current", "checking", "recording", "integrating", "conditioned", "closing",
   "rejecting", "leaving", "idle", "stuck"} \subseteq MainPC
BY DEF MainPC

LEMMA TypeKept ==
  ASSUME TypeOK, UNCHANGED <<traffic, host, session, reader, begun>>,
         current' \in SUBSET Turns, main' \in MainType, inbox' \in [Turns -> InboxType]
  PROVE  TypeOK'
BY DEF TypeOK, traffic, MainType, InboxType

LEMMA SamePending ==
  ASSUME InInbox, place' = place, turnOf' = turnOf,
         \A t \in Turns : inbox'[t].pending = inbox[t].pending
  PROVE  InInbox'
BY DEF InInbox

LEMMA StartTurnInvariant == ASSUME IInv, StartTurn PROVE IInv'
<1>1. TypeOK'
  <2>1. main \in MainType /\ "starting" \in MainPC
    BY Labels DEF IInv, TypeOK, MainType
  <2>2. main' \in MainType
    BY <2>1 DEF MainType, StartTurn
  <2> QED BY <2>2, TypeKept DEF IInv, TypeOK, InboxType, StartTurn
<1>2. OnLines'
  BY DEF IInv, TypeOK, OnLines, StartTurn, Drained, traffic
<1>3. InInbox'
  BY DEF IInv, TypeOK, InInbox, StartTurn, Drained, traffic
<1>4. InHands'
  BY DEF IInv, TypeOK, InHands, Holding, StartTurn, Drained, traffic
<1>5. Rejected'
  BY DEF IInv, TypeOK, Rejected, StartTurn, Drained, traffic
<1>6. TurnLife'
  BY DEF IInv, TypeOK, TurnLife, Draining, Holding, StartTurn, Drained, traffic
<1>7. Followed'
  BY DEF IInv, TypeOK, Followed, Kept, StartTurn, Drained, traffic
<1>8. Accounted'
  BY HeldSame DEF IInv, StartTurn, Drained, traffic
<1>9. RetireOrder'
  BY DEF IInv, TypeOK, RetireOrder, StopEmptiesQueue, Retirements, StartTurn, Drained, traffic
<1> QED BY <1>1, <1>2, <1>3, <1>4, <1>5, <1>6, <1>7, <1>8, <1>9 DEF IInv

LEMMA OpenInboxInvariant == ASSUME IInv, OpenInbox PROVE IInv'
<1>0. inbox' \in [Turns -> InboxType]
  <2>1. inbox \in [Turns -> InboxType] /\ main.turn \in Turns
    BY DEF IInv, TypeOK, InboxType, TurnLife, OpenInbox
  <2>2. inbox' = [inbox EXCEPT ![main.turn] = [inbox[main.turn] EXCEPT !.open = TRUE, !.registered = TRUE]]
    BY DEF OpenInbox
  <2>3. [inbox[main.turn] EXCEPT !.open = TRUE, !.registered = TRUE] \in InboxType
    BY <2>1 DEF InboxType
  <2> QED BY <2>1, <2>2, <2>3
<1>1. TypeOK'
  <2>1. main' \in MainType
    BY Moved, Labels DEF IInv, OpenInbox
  <2> QED BY <1>0, <2>1, TypeKept DEF IInv, TypeOK, OpenInbox
<1>2. OnLines'
  BY DEF IInv, TypeOK, OnLines, OpenInbox, Go, traffic
<1>3. InInbox'
  <2>1. \A t \in Turns : inbox'[t].pending = inbox[t].pending
    BY DEF IInv, TypeOK, OpenInbox
  <2> QED BY <2>1, SamePending DEF IInv, OpenInbox, traffic
<1>4. InHands'
  BY DEF IInv, TypeOK, InHands, Holding, OpenInbox, Go, traffic
<1>5. Rejected'
  BY DEF IInv, TypeOK, Rejected, OpenInbox, Go, traffic
<1>6. TurnLife'
  BY DEF IInv, TypeOK, TurnLife, Draining, Holding, OpenInbox, Go, traffic
<1>7. Followed'
  BY DEF IInv, TypeOK, Followed, Kept, OpenInbox, Go, traffic
<1>8. Accounted'
  <2>1. \A t \in Turns : inbox'[t].bytes = inbox[t].bytes
    BY DEF IInv, TypeOK, OpenInbox, Go, traffic
  <2> QED BY <2>1, HeldSame DEF IInv, OpenInbox, Go, traffic
<1>9. RetireOrder'
  BY DEF IInv, TypeOK, RetireOrder, StopEmptiesQueue, Retirements, OpenInbox, Go, traffic
<1> QED BY <1>1, <1>2, <1>3, <1>4, <1>5, <1>6, <1>7, <1>8, <1>9 DEF IInv

LEMMA TurnRetiresInvariant == ASSUME IInv, TurnRetires PROVE IInv'
<1>1. TypeOK'
  BY DEF IInv, TypeOK, Places, Answers, MainPC, Requests, Ending, TurnRetires, LockFree, traffic
<1>2. OnLines'
  BY DEF IInv, TypeOK, OnLines, TurnRetires, LockFree, traffic
<1>3. InInbox'
  BY DEF IInv, TypeOK, InInbox, TurnRetires, LockFree, traffic
<1>4. InHands'
  BY DEF IInv, TypeOK, InHands, Holding, TurnRetires, LockFree, traffic
<1>5. Rejected'
  BY DEF IInv, TypeOK, Rejected, TurnRetires, LockFree, traffic
<1>6. TurnLife'
  BY DEF IInv, TypeOK, TurnLife, Draining, Holding, TurnRetires, LockFree, traffic
<1>7. Followed'
  BY DEF IInv, TypeOK, Followed, Kept, TurnRetires, LockFree, traffic
<1>8. Accounted'
  BY HeldSame DEF IInv, TurnRetires, LockFree, traffic
<1>9. RetireOrder'
  BY DEF IInv, TypeOK, RetireOrder, StopEmptiesQueue, Retirements, TurnRetires, LockFree, traffic
<1> QED BY <1>1, <1>2, <1>3, <1>4, <1>5, <1>6, <1>7, <1>8, <1>9 DEF IInv

LEMMA BoundaryInvariant == ASSUME IInv, Boundary PROVE IInv'
<1>1. TypeOK'
  <2>1. main' \in MainType
    BY Moved, Labels DEF IInv, Boundary
  <2> QED BY <2>1, TypeKept DEF IInv, TypeOK, InboxType, Boundary
<1>2. OnLines'
  BY DEF IInv, TypeOK, OnLines, Boundary, Go, traffic
<1>3. InInbox'
  BY DEF IInv, TypeOK, InInbox, Boundary, Go, traffic
<1>4. InHands'
  BY DEF IInv, TypeOK, InHands, Holding, Boundary, Go, traffic
<1>5. Rejected'
  BY DEF IInv, TypeOK, Rejected, Boundary, Go, traffic
<1>6. TurnLife'
  BY DEF IInv, TypeOK, TurnLife, Draining, Holding, Boundary, Go, traffic
<1>7. Followed'
  BY DEF IInv, TypeOK, Followed, Kept, Boundary, Go, traffic
<1>8. Accounted'
  BY HeldSame DEF IInv, Boundary, Go, traffic
<1>9. RetireOrder'
  BY DEF IInv, TypeOK, RetireOrder, StopEmptiesQueue, Retirements, Boundary, Go, traffic
<1> QED BY <1>1, <1>2, <1>3, <1>4, <1>5, <1>6, <1>7, <1>8, <1>9 DEF IInv

LEMMA SignalInLockInvariant == ASSUME IInv, SignalInLock PROVE IInv'
<1>1. TypeOK'
  <2>1. main' \in MainType
    BY Moved, Labels DEF IInv, SignalInLock
  <2> QED BY <2>1, TypeKept DEF IInv, TypeOK, InboxType, SignalInLock
<1>2. OnLines'
  BY DEF IInv, TypeOK, OnLines, SignalInLock, Go, traffic
<1>3. InInbox'
  BY DEF IInv, TypeOK, InInbox, SignalInLock, Go, traffic
<1>4. InHands'
  BY DEF IInv, TypeOK, InHands, Holding, SignalInLock, Go, traffic
<1>5. Rejected'
  BY DEF IInv, TypeOK, Rejected, SignalInLock, Go, traffic
<1>6. TurnLife'
  BY DEF IInv, TypeOK, TurnLife, Draining, Holding, SignalInLock, Go, traffic
<1>7. Followed'
  BY DEF IInv, TypeOK, Followed, Kept, SignalInLock, Go, traffic
<1>8. Accounted'
  BY HeldSame DEF IInv, SignalInLock, Go, traffic
<1>9. RetireOrder'
  BY DEF IInv, TypeOK, RetireOrder, StopEmptiesQueue, Retirements, SignalInLock, Go, traffic
<1> QED BY <1>1, <1>2, <1>3, <1>4, <1>5, <1>6, <1>7, <1>8, <1>9 DEF IInv

LEMMA IntegrateInvariant == ASSUME IInv, Integrate PROVE IInv'
<1>1. TypeOK'
  <2>1. main' \in MainType
    <3>1. PICK pc \in {"integrating", "recording"} : Go(pc)
      BY DEF Integrate
    <3> QED BY <3>1, Moved, Labels DEF IInv
  <2> QED BY <2>1, TypeKept DEF IInv, TypeOK, InboxType, Integrate
<1>2. OnLines'
  BY DEF IInv, TypeOK, OnLines, Integrate, Go, traffic
<1>3. InInbox'
  BY DEF IInv, TypeOK, InInbox, Integrate, Go, traffic
<1>4. InHands'
  BY DEF IInv, TypeOK, InHands, Holding, Integrate, Go, traffic
<1>5. Rejected'
  BY DEF IInv, TypeOK, Rejected, Integrate, Go, traffic
<1>6. TurnLife'
  BY DEF IInv, TypeOK, TurnLife, Draining, Holding, Integrate, Go, traffic
<1>7. Followed'
  BY DEF IInv, TypeOK, Followed, Kept, Integrate, Go, traffic
<1>8. Accounted'
  BY HeldSame DEF IInv, Integrate, Go, traffic
<1>9. RetireOrder'
  BY DEF IInv, TypeOK, RetireOrder, StopEmptiesQueue, Retirements, Integrate, Go, traffic
<1> QED BY <1>1, <1>2, <1>3, <1>4, <1>5, <1>6, <1>7, <1>8, <1>9 DEF IInv

LEMMA EndTurnInvariant == ASSUME IInv, EndTurn PROVE IInv'
<1>0. inbox' \in [Turns -> InboxType]
  <2>1. inbox \in [Turns -> InboxType] /\ main.turn \in Turns
    BY DEF IInv, TypeOK, InboxType, TurnLife, EndTurn
  <2>2. inbox' = [inbox EXCEPT ![main.turn].registered = FALSE]
    BY DEF EndTurn
  <2> QED BY <2>1, <2>2 DEF InboxType
<1>1. TypeOK'
  <2>1. main' \in MainType
    BY Moved, Labels DEF IInv, EndTurn
  <2> QED BY <1>0, <2>1, TypeKept DEF IInv, TypeOK, EndTurn
<1>2. OnLines'
  BY DEF IInv, TypeOK, OnLines, EndTurn, Go, traffic
<1>3. InInbox'
  <2>1. \A t \in Turns : inbox'[t].pending = inbox[t].pending
    BY DEF IInv, TypeOK, EndTurn
  <2> QED BY <2>1, SamePending DEF IInv, EndTurn, traffic
<1>4. InHands'
  BY DEF IInv, TypeOK, InHands, Holding, EndTurn, Go, traffic
<1>5. Rejected'
  BY DEF IInv, TypeOK, Rejected, EndTurn, Go, traffic
<1>6. TurnLife'
  BY DEF IInv, TypeOK, TurnLife, Draining, Holding, EndTurn, Go, traffic
<1>7. Followed'
  BY DEF IInv, TypeOK, Followed, Kept, EndTurn, Go, traffic
<1>8. Accounted'
  <2>1. \A t \in Turns : inbox'[t].bytes = inbox[t].bytes
    BY DEF IInv, TypeOK, EndTurn, Go, traffic
  <2> QED BY <2>1, HeldSame DEF IInv, EndTurn, Go, traffic
<1>9. RetireOrder'
  BY DEF IInv, TypeOK, RetireOrder, StopEmptiesQueue, Retirements, EndTurn, Go, traffic
<1> QED BY <1>1, <1>2, <1>3, <1>4, <1>5, <1>6, <1>7, <1>8, <1>9 DEF IInv

LEMMA ReleaseBindingsInvariant == ASSUME IInv, ReleaseBindings PROVE IInv'
<1>0. inbox' \in [Turns -> InboxType]
  <2>1. inbox \in [Turns -> InboxType] /\ main.turn \in Turns
    BY DEF IInv, TypeOK, InboxType, TurnLife, ReleaseBindings
  <2>2. inbox' = [inbox EXCEPT ![main.turn].bound = {}]
    BY DEF ReleaseBindings
  <2> QED BY <2>1, <2>2 DEF InboxType
<1>1. TypeOK'
  <2>1. main' \in MainType
    BY Moved, Labels DEF IInv, ReleaseBindings
  <2> QED BY <1>0, <2>1, TypeKept DEF IInv, TypeOK, ReleaseBindings
<1>2. OnLines'
  BY DEF IInv, TypeOK, OnLines, ReleaseBindings, Go, traffic
<1>3. InInbox'
  <2>1. \A t \in Turns : inbox'[t].pending = inbox[t].pending
    BY DEF IInv, TypeOK, ReleaseBindings
  <2> QED BY <2>1, SamePending DEF IInv, ReleaseBindings, traffic
<1>4. InHands'
  BY DEF IInv, TypeOK, InHands, Holding, ReleaseBindings, Go, traffic
<1>5. Rejected'
  BY DEF IInv, TypeOK, Rejected, ReleaseBindings, Go, traffic
<1>6. TurnLife'
  BY DEF IInv, TypeOK, TurnLife, Draining, Holding, ReleaseBindings, Go, traffic
<1>7. Followed'
  BY DEF IInv, TypeOK, Followed, Kept, ReleaseBindings, Go, traffic
<1>8. Accounted'
  <2>1. \A t \in Turns : inbox'[t].bytes = inbox[t].bytes
    BY DEF IInv, TypeOK, ReleaseBindings, Go, traffic
  <2> QED BY <2>1, HeldSame DEF IInv, ReleaseBindings, Go, traffic
<1>9. RetireOrder'
  BY DEF IInv, TypeOK, RetireOrder, StopEmptiesQueue, Retirements, ReleaseBindings, Go, traffic
<1> QED BY <1>1, <1>2, <1>3, <1>4, <1>5, <1>6, <1>7, <1>8, <1>9 DEF IInv

LEMMA LeaveInvariant == ASSUME IInv, Leave PROVE IInv'
<1>0. inbox' \in [Turns -> InboxType]
  <2>1. inbox \in [Turns -> InboxType] /\ main.turn \in Turns
    BY DEF IInv, TypeOK, InboxType, TurnLife, Leave
  <2>2. inbox' = [inbox EXCEPT ![main.turn].registered = FALSE]
    BY DEF Leave
  <2> QED BY <2>1, <2>2 DEF InboxType
<1>1. TypeOK'
  <2>1. main' \in MainType
    BY Moved, Labels DEF IInv, Leave
  <2> QED BY <1>0, <2>1, TypeKept DEF IInv, TypeOK, Leave
<1>2. OnLines'
  BY DEF IInv, TypeOK, OnLines, Leave, Go, traffic
<1>3. InInbox'
  <2>1. \A t \in Turns : inbox'[t].pending = inbox[t].pending
    BY DEF IInv, TypeOK, Leave
  <2> QED BY <2>1, SamePending DEF IInv, Leave, traffic
<1>4. InHands'
  BY DEF IInv, TypeOK, InHands, Holding, Leave, Go, traffic
<1>5. Rejected'
  BY DEF IInv, TypeOK, Rejected, Leave, Go, traffic
<1>6. TurnLife'
  <2>1. \A t \in Turns : /\ inbox'[t].registered => inbox[t].registered /\ t # main.turn
                         /\ (inbox'[t].open => inbox[t].open) /\ inbox'[t].pending = inbox[t].pending
                         /\ inbox'[t].bound = inbox[t].bound
    BY DEF IInv, TypeOK, Leave
  <2>2. main'.pc = "idle" /\ main'.turn = main.turn /\ main.pc \in {"starting", "leaving"}
    BY DEF IInv, TypeOK, Leave, Go
  <2>3. \A t \in Turns : /\ ~inbox'[t].registered /\ ~inbox'[t].open
                         /\ inbox'[t].pending = <<>> /\ inbox'[t].bound = {}
    BY <2>1, <2>2 DEF IInv, TurnLife, Draining, Holding
  <2> QED BY <2>2, <2>3 DEF TurnLife
<1>7. Followed'
  BY DEF IInv, TypeOK, Followed, Kept, Leave, Go, traffic
<1>8. Accounted'
  <2>1. \A t \in Turns : inbox'[t].bytes = inbox[t].bytes
    BY DEF IInv, TypeOK, Leave, Go, traffic
  <2> QED BY <2>1, HeldSame DEF IInv, Leave, Go, traffic
<1>9. RetireOrder'
  BY DEF IInv, TypeOK, RetireOrder, StopEmptiesQueue, Retirements, Leave, Go, traffic
<1> QED BY <1>1, <1>2, <1>3, <1>4, <1>5, <1>6, <1>7, <1>8, <1>9 DEF IInv

LEMMA ConditionInvariant == ASSUME IInv, Condition PROVE IInv'
<1>1. TypeOK'
  <2>1. main.item \in Requests
    BY DEF IInv, InHands, Holding, Condition
  <2>2. main' \in MainType
    BY Moved, Labels DEF IInv, Condition
  <2> QED BY <2>1, <2>2 DEF IInv, TypeOK, MainType, Condition, traffic
<1>2. OnLines'
  BY DEF IInv, TypeOK, OnLines, Condition, Go, traffic
<1>3. InInbox'
  BY DEF IInv, TypeOK, InInbox, Condition, Go, traffic
<1>4. InHands'
  BY DEF IInv, TypeOK, InHands, Holding, Condition, Go, traffic
<1>5. Rejected'
  BY DEF IInv, TypeOK, Rejected, Condition, Go, traffic
<1>6. TurnLife'
  BY DEF IInv, TypeOK, TurnLife, Draining, Holding, Condition, Go, traffic
<1>7. Followed'
  BY DEF IInv, TypeOK, Followed, Kept, Condition, Go, traffic
<1>8. Accounted'
  BY HeldSame DEF IInv, Condition, Go, traffic
<1>9. RetireOrder'
  BY DEF IInv, TypeOK, RetireOrder, StopEmptiesQueue, Retirements, Condition, Go, traffic
<1> QED BY <1>1, <1>2, <1>3, <1>4, <1>5, <1>6, <1>7, <1>8, <1>9 DEF IInv

LEMMA GiveUpInvariant == ASSUME IInv, NEW r \in Requests, GiveUp(r) PROVE IInv'
<1>1. TypeOK'
  <2>1. gaveUp \in SUBSET Requests
    BY DEF IInv, TypeOK
  <2>2. gaveUp' = gaveUp \cup {r}
    BY DEF GiveUp
  <2>3. gaveUp' \in SUBSET Requests
    BY <2>1, <2>2
  <2>4. UNCHANGED <<place, turnOf, revision, answer, lease, wire, queue, host, session, current, inbox, reader,
                    main, begun>>
    BY DEF GiveUp
  <2> QED BY <2>3, <2>4 DEF IInv, TypeOK
<1>2. OnLines'
  BY DEF IInv, TypeOK, OnLines, GiveUp
<1>3. InInbox'
  BY DEF IInv, TypeOK, InInbox, GiveUp
<1>4. InHands'
  BY DEF IInv, TypeOK, InHands, Holding, GiveUp
<1>5. Rejected'
  BY DEF IInv, TypeOK, Rejected, GiveUp
<1>6. TurnLife'
  BY DEF IInv, TypeOK, TurnLife, Draining, Holding, GiveUp
<1>7. Followed'
  BY DEF IInv, TypeOK, Followed, Kept, GiveUp
<1>8. Accounted'
  BY HeldSame DEF IInv, GiveUp
<1>9. RetireOrder'
  BY DEF IInv, TypeOK, RetireOrder, StopEmptiesQueue, Retirements, GiveUp
<1> QED BY <1>1, <1>2, <1>3, <1>4, <1>5, <1>6, <1>7, <1>8, <1>9 DEF IInv
-----------------------------------------------------------------------------
(* The application sends.                                                  *)

LEMMA SendInvariant ==
  ASSUME IInv, NEW r \in Requests, NEW rev \in Nat, Send(r, rev),
         host' \in [state : {"active", "retiring", "cancelling", "stopped"}, revision : Nat],
         host'.state = "active" => host.state = "active" /\ r # "retire",
         r \in Packets => host.state = "active"
  PROVE  IInv'
<1>1. /\ place \in [Requests -> Places] /\ place[r] = "unsent" /\ wire \in Seq(Requests) /\ queue \in Seq(Requests)
      /\ r \notin Range(wire) /\ r \notin Range(queue) /\ answer[r] = None
      /\ answer \in [Requests -> Answers] /\ turnOf \in [Requests -> Turns \cup {0}]
  BY DEF IInv, TypeOK, OnLines, Followed, Send
<1>2. /\ Append(wire, r) \in Seq(Requests) /\ Range(Append(wire, r)) = Range(wire) \cup {r}
      /\ IsInjective(Append(wire, r))
  BY <1>1, Appended DEF IInv, OnLines
<1>3. /\ Append(queue, r) \in Seq(Requests) /\ Range(Append(queue, r)) = Range(queue) \cup {r}
      /\ IsInjective(Append(queue, r))
  BY <1>1, Appended DEF IInv, OnLines
<1>4. /\ revision' \in [Requests -> Nat] /\ UNCHANGED <<lease, gaveUp, session, current, inbox, reader, main, begun>>
  BY DEF Send, IInv, TypeOK
(* Where the request went, and that nothing else moved.                    *)
<1>5. PICK x \in {"wire", "over", "queue"} :
        /\ place' = [place EXCEPT ![r] = x]
        /\ wire' = (IF x = "wire" THEN Append(wire, r) ELSE wire)
        /\ queue' = (IF x = "queue" THEN Append(queue, r) ELSE queue)
        /\ answer' = (IF x = "over" THEN [answer EXCEPT ![r] = "refused"] ELSE answer)
        /\ turnOf' = (IF x = "wire" THEN [turnOf EXCEPT ![r] = main.turn] ELSE turnOf)
        /\ x = "wire" => main.pc # "idle"
        /\ x = "over" => r \notin Packets
  BY DEF Send
<1>6. \A q \in Requests : /\ place'[q] = IF q = r THEN x ELSE place[q]
                          /\ q # r => turnOf'[q] = turnOf[q] /\ answer'[q] = answer[q]
                          /\ q = r => answer'[q] = IF x = "over" THEN "refused" ELSE None
  BY <1>1, <1>5
<1>7. TypeOK'
  <2>1. place' \in [Requests -> Places] /\ answer' \in [Requests -> Answers]
    BY <1>1, <1>5 DEF Places, Answers
  <2>2. turnOf' \in [Requests -> Turns \cup {0}]
    BY <1>1, <1>5 DEF IInv, TurnLife
  <2>3. wire' \in Seq(Requests) /\ queue' \in Seq(Requests)
    BY <1>1, <1>2, <1>3, <1>5
  <2> QED BY <1>4, <2>1, <2>2, <2>3 DEF IInv, TypeOK
<1>8. OnLines'
  BY <1>1, <1>2, <1>3, <1>5, <1>6 DEF IInv, OnLines
<1>9. InInbox'
  BY <1>1, <1>4, <1>5, <1>6 DEF IInv, InInbox
<1>10. InHands'
  BY <1>1, <1>4, <1>5, <1>6 DEF IInv, InHands
<1>11. Rejected'
  <2>1. r \notin Range(reader.rejected) \cup Range(main.rejected)
    BY <1>1 DEF IInv, Rejected
  <2>2. Range(reader.rejected) \cup Range(main.rejected) \subseteq Requests
    BY SMTT(20) DEF IInv, TypeOK, Range
  <2> QED BY <1>1, <1>4, <1>5, <1>6, <2>1, <2>2 DEF IInv, Rejected
<1>12. TurnLife'
  BY <1>4 DEF IInv, TurnLife
<1>13. Followed'
  BY <1>1, <1>4, <1>5, <1>6 DEF IInv, Followed, Kept, None
<1>14. Accounted'
  <2>1. Packets \subseteq Requests
    BY DEF Requests
  <2>2. \A p \in Packets : /\ place'[p] \in Inside <=> place[p] \in Inside
                           /\ turnOf'[p] # turnOf[p] => place[p] \notin Inside
    BY <1>1, <1>5, <1>6, <2>1 DEF Inside
  <2> QED BY <1>4, <2>2, HeldSame DEF IInv
<1>15. RetireOrder'
  <2>1. Packets \subseteq Requests /\ "retire" \in Requests /\ Retirements \subseteq Requests
    BY DEF Requests, Ending, Retirements
  <2>2. r \in Packets => place["retire"] = "unsent" /\ r # "retire"
    BY RequestsAssumption DEF IInv, RetireOrder, Ending
  <2>3. \A i, j \in DOMAIN wire' : i < j /\ wire'[i] = "retire" => wire'[j] \notin Packets
    <3>1. CASE x # "wire"
      BY <3>1, <1>5 DEF IInv, RetireOrder
    <3>2. CASE x = "wire"
      <4>1. /\ DOMAIN wire' = 1 .. Len(wire) + 1 /\ DOMAIN wire = 1 .. Len(wire) /\ Len(wire) \in Nat
            /\ \A i \in 1 .. Len(wire) : wire'[i] = wire[i]
            /\ wire'[Len(wire) + 1] = r
        BY <3>2, <1>1, <1>5
      <4>2. r \in Packets => \A i \in 1 .. Len(wire) : wire[i] # "retire"
        BY <4>1, <2>1, <2>2, <1>1 DEF IInv, OnLines, Range
      <4> QED BY <4>1, <4>2, <2>2 DEF IInv, RetireOrder
    <3> QED BY <3>1, <3>2
  <2>4. StopEmptiesQueue'
    <3>1. answer'["retire"] = "ok" => answer["retire"] = "ok" /\ r \notin Packets
      BY <1>6, <2>1, <2>2, <1>1 DEF None, IInv, Followed
    <3> QED BY <3>1, <1>6, <2>1 DEF StopEmptiesQueue, IInv, RetireOrder
  <2>5. \A q \in Retirements : place'[q] \notin {"pending", "taken", "rejected"}
    BY <1>6, <2>1 DEF IInv, RetireOrder
  <2>6. host'.state = "active" => place'["retire"] = "unsent"
    BY <1>6, <2>1 DEF IInv, RetireOrder
  <2>7. place'["retire"] = "reader" => \A p \in Packets : place'[p] # "wire"
    BY <1>6, <2>1, <2>2 DEF IInv, RetireOrder
  <2>8. reader.pc = "rejecting" /\ reader.item = "retire" => \A p \in Packets : place'[p] # "pending"
    BY <1>6, <2>1 DEF IInv, RetireOrder
  <2> QED BY <1>4, <2>3, <2>4, <2>5, <2>6, <2>7, <2>8 DEF IInv, RetireOrder
<1> QED BY <1>7, <1>8, <1>9, <1>10, <1>11, <1>12, <1>13, <1>14, <1>15 DEF IInv

LEMMA ApplicationInvariant == ASSUME IInv, Application PROVE IInv'
<1> USE RequestsAssumption DEF Ending
<1>0. /\ host \in [state : {"active", "retiring", "cancelling", "stopped"}, revision : Nat]
      /\ Packets \subseteq Requests /\ Controls \subseteq Requests /\ Ending \subseteq Requests
  BY DEF IInv, TypeOK, Requests
<1>1. CASE \E p \in Packets : SendPacket(p)
  BY <1>0, <1>1, SendInvariant DEF SendPacket
<1>2. CASE \E c \in Controls : SendControl(c)
  BY <1>0, <1>2, SendInvariant DEF SendControl
<1>3. CASE Retire
  BY <1>0, <1>3, SendInvariant DEF Retire
<1>4. CASE CancelControls
  BY <1>0, <1>4, SendInvariant DEF CancelControls
<1>5. CASE Stop
  BY <1>0, <1>5, SendInvariant DEF Stop
<1>6. CASE \E r \in Requests : GiveUp(r)
  BY <1>6, GiveUpInvariant
<1> QED BY <1>1, <1>2, <1>3, <1>4, <1>5, <1>6 DEF Application
-----------------------------------------------------------------------------
(* A request is answered out of the drain or of a list of rejected items.  *)

LEMMA AnsweredOnce ==
  ASSUME IInv, NEW r \in Requests, NEW a, place[r] \in {"taken", "rejected"}, Finish(r, a, main.turn)
  PROVE  /\ answer' = [answer EXCEPT ![r] = a] /\ place' = [place EXCEPT ![r] = "over"]
         /\ lease' = [lease EXCEPT ![r] = @ - 1]
         /\ inbox' = [inbox EXCEPT ![main.turn].bytes = IF r \in Packets THEN @ - 1 ELSE @]
         /\ main.turn \in Turns /\ turnOf[r] = main.turn
<1>1. answer[r] = None
  BY DEF IInv, Followed
<1>2. CASE place[r] = "taken"
  <2>1. main.pc \in Holding /\ turnOf[r] = main.turn
    BY <1>2 DEF IInv, InHands
  <2>2. main.turn \in Turns
    BY <2>1 DEF IInv, TurnLife, Holding
  <2> QED BY <1>1, <2>1, <2>2 DEF Finish
<1>3. CASE place[r] = "rejected"
  <2>1. r \in Range(reader.rejected) \/ r \in Range(main.rejected)
    BY <1>3 DEF IInv, Rejected
  <2>2. turnOf[r] = main.turn
    BY <2>1 DEF IInv, Rejected
  <2>3. reader.rejected # <<>> \/ main.rejected # <<>>
    BY <2>1, Nothing
  <2>4. main.turn \in Turns
    BY <2>3 DEF IInv, Rejected, InHands, TurnLife
  <2> QED BY <1>1, <2>2, <2>4 DEF Finish
<1> QED BY <1>2, <1>3

LEMMA BytesReturned ==
  ASSUME IInv, NEW r \in Requests, place[r] \in {"taken", "rejected"}, place' = [place EXCEPT ![r] = "over"],
         turnOf' = turnOf, NEW t \in Turns, turnOf[r] = t,
         \A u \in Turns : inbox'[u].bytes = IF u = t /\ r \in Packets THEN inbox[u].bytes - 1 ELSE inbox[u].bytes
  PROVE  Accounted'
<1>1. CASE r \in Packets
  <2>1. /\ IsFiniteSet(Held(t)') /\ Cardinality(Held(t)') = inbox[t].bytes - 1
        /\ \A u \in Turns \ {t} : Held(u)' = Held(u)
    <3>1. TypeOK /\ Accounted /\ place[r] \in Inside
      BY DEF IInv, Inside
    <3> QED BY <1>1, <3>1, HeldLeaves
  <2>2. ASSUME NEW u \in Turns PROVE (IsFiniteSet(Held(u)) /\ inbox[u].bytes = Cardinality(Held(u)))'
    <3>1. CASE u = t
      BY <1>1, <2>1, <3>1
    <3>2. CASE u # t
      BY <1>1, <2>1, <3>2 DEF IInv, Accounted
    <3> QED BY <3>1, <3>2
  <2> QED BY <2>2 DEF Accounted
<1>2. CASE r \notin Packets
  <2>1. \A p \in Packets : place'[p] = place[p]
    BY <1>2 DEF IInv, TypeOK, Requests
  <2> QED BY <1>2, <2>1, HeldSame DEF IInv
<1> QED BY <1>1, <1>2

LEMMA BytesEnough ==
  ASSUME IInv, NEW r \in Packets, place[r] \in {"taken", "rejected"}, turnOf[r] = main.turn, main.turn \in Turns
  PROVE  inbox[main.turn].bytes - 1 \in Nat
<1>1. r \in Held(main.turn) /\ IsFiniteSet(Held(main.turn)) /\ inbox[main.turn].bytes = Cardinality(Held(main.turn))
  BY DEF IInv, Accounted, Held
<1>2. Cardinality(Held(main.turn)) \in Nat /\ Cardinality(Held(main.turn)) # 0
  BY <1>1, FS_CardinalityType, FS_EmptySet
<1> QED BY <1>1, <1>2

(* The one who answered goes on to the next item.                          *)
GoesOn(r) ==
  \/ /\ reader.rejected # <<>> /\ r = Head(reader.rejected)
     /\ reader' = [reader EXCEPT !.rejected = Tail(@)] /\ main' = main
  \/ /\ main.rejected # <<>> /\ r = Head(main.rejected)
     /\ main' = [main EXCEPT !.rejected = Tail(@)] /\ reader' = reader
  \/ /\ main.pc \in Holding /\ r = main.item
     /\ \E pc \in {"current", "closing"} : main' = [main EXCEPT !.pc = pc, !.item = None]
     /\ reader' = reader

LEMMA AnswerInvariant ==
  ASSUME IInv, NEW r \in Requests, NEW a \in Answers \ {None}, place[r] \in {"taken", "rejected"}, GoesOn(r),
         answer' = [answer EXCEPT ![r] = a], place' = [place EXCEPT ![r] = "over"],
         lease' = [lease EXCEPT ![r] = @ - 1], inbox' \in [Turns -> InboxType], Accounted',
         \A t \in Turns : /\ inbox'[t].open = inbox[t].open /\ inbox'[t].registered = inbox[t].registered
                          /\ inbox'[t].pending = inbox[t].pending
                          /\ inbox'[t].bound # {} => inbox[t].bound # {} \/ (t = main.turn /\ main'.pc = "current"),
         session' \in [registered : BOOLEAN, retired : BOOLEAN, revision : Nat],
         begun' \in SUBSET Requests, \A q \in begun' : q \in begun \/ q = r, r \in begun' => a \in {"ok", "unknown"},
         UNCHANGED <<turnOf, revision, gaveUp, wire, queue, host, current>>
  PROVE  IInv'
<1>1. /\ place \in [Requests -> Places] /\ answer \in [Requests -> Answers] /\ lease \in [Requests -> 0 .. 2]
      /\ reader.rejected \in Seq(Requests) /\ main.rejected \in Seq(Requests)
  BY DEF IInv, TypeOK
<1>2. \A q \in Requests : /\ place'[q] = IF q = r THEN "over" ELSE place[q]
                          /\ answer'[q] = IF q = r THEN a ELSE answer[q]
                          /\ lease'[q] = IF q = r THEN lease[q] - 1 ELSE lease[q]
  BY <1>1
<1>3. lease[r] \in {1, 2}
  BY DEF IInv, Followed, Kept
<1>4. /\ reader.rejected # <<>> =>
           /\ Tail(reader.rejected) \in Seq(Requests)
           /\ Range(reader.rejected) = {Head(reader.rejected)} \cup Range(Tail(reader.rejected))
           /\ IsInjective(Tail(reader.rejected)) /\ Head(reader.rejected) \notin Range(Tail(reader.rejected))
      /\ main.rejected # <<>> =>
           /\ Tail(main.rejected) \in Seq(Requests)
           /\ Range(main.rejected) = {Head(main.rejected)} \cup Range(Tail(main.rejected))
           /\ IsInjective(Tail(main.rejected)) /\ Head(main.rejected) \notin Range(Tail(main.rejected))
  BY <1>1, Taken DEF IInv, Rejected
<1>5. /\ reader'.pc = reader.pc /\ reader'.item = reader.item /\ main'.turn = main.turn
      /\ place[r] = "rejected" => main'.pc = main.pc /\ main'.item = main.item
      /\ place[r] = "taken" => /\ main.pc \in Holding /\ main.item = r
                               /\ main'.pc \in {"current", "closing"} /\ main'.item = None
                               /\ main'.rejected = main.rejected /\ reader' = reader
  <2>1. CASE reader.rejected # <<>> /\ r = Head(reader.rejected) /\ reader' = [reader EXCEPT !.rejected = Tail(@)] /\ main' = main
    BY <1>4, <2>1 DEF IInv, TypeOK, Rejected
  <2>2. CASE main.rejected # <<>> /\ r = Head(main.rejected) /\ main' = [main EXCEPT !.rejected = Tail(@)] /\ reader' = reader
    BY <1>4, <2>2 DEF IInv, TypeOK, Rejected
  <2>3. CASE /\ main.pc \in Holding /\ r = main.item /\ reader' = reader
             /\ \E pc \in {"current", "closing"} : main' = [main EXCEPT !.pc = pc, !.item = None]
    <3>1. place[r] = "taken"
      BY <2>3 DEF IInv, InHands
    <3>2. /\ main'.pc \in {"current", "closing"} /\ main'.item = None
          /\ main'.rejected = main.rejected /\ main'.turn = main.turn
      BY <2>3 DEF IInv, TypeOK
    <3> QED BY <2>3, <3>1, <3>2
  <2> QED BY <2>1, <2>2, <2>3 DEF GoesOn
<1>6. TypeOK'
  <2>1. place' \in [Requests -> Places] /\ answer' \in [Requests -> Answers] /\ lease' \in [Requests -> 0 .. 2]
    BY <1>1, <1>3 DEF Places
  <2>2. reader' \in [pc : ReaderPC, item : Requests \cup {None},
                     live : BOOLEAN, seen : Nat, rejected : Seq(Requests)]
    BY <1>4 DEF GoesOn, IInv, TypeOK
  <2>3. main' \in [pc : MainPC, turn : Turns \cup {0}, item : Requests \cup {None}, rejected : Seq(Requests)]
    <3>1. {"current", "closing"} \subseteq MainPC
      BY DEF MainPC
    <3>2. main \in [pc : MainPC, turn : Turns \cup {0}, item : Requests \cup {None}, rejected : Seq(Requests)]
      BY DEF IInv, TypeOK
    <3>3. CASE main' = main
      BY <3>2, <3>3
    <3>4. CASE main.rejected # <<>> /\ main' = [main EXCEPT !.rejected = Tail(@)]
      BY <1>4, <3>2, <3>4
    <3>5. ASSUME NEW pc \in {"current", "closing"}, main' = [main EXCEPT !.pc = pc, !.item = None]
          PROVE  main' \in [pc : MainPC, turn : Turns \cup {0}, item : Requests \cup {None},
                            rejected : Seq(Requests)]
      BY <3>1, <3>2, <3>5
    <3> QED BY <3>3, <3>4, <3>5 DEF GoesOn
  <2> QED BY <2>1, <2>2, <2>3 DEF IInv, TypeOK, InboxType
<1>7. OnLines'
  BY <1>2 DEF IInv, OnLines
<1>8. InInbox'
  BY <1>2 DEF IInv, InInbox
<1>9. InHands'
  <2>1. main'.pc \in Holding => main'.pc = main.pc /\ main'.item = main.item
    BY <1>5 DEF Holding
  <2>2. \A q \in Requests : place'[q] = "taken" <=> main'.pc \in Holding /\ main'.item = q
    <3>1. CASE place[r] = "taken"
      <4>1. main'.pc \notin Holding /\ main.item = r
        BY <1>5, <3>1 DEF Holding
      <4> QED BY <1>2, <4>1 DEF IInv, InHands
    <3>2. CASE place[r] = "rejected"
      BY <1>2, <1>5, <3>2 DEF IInv, InHands
    <3> QED BY <3>1, <3>2
  <2> QED BY <1>2, <1>5, <2>1, <2>2 DEF IInv, InHands
<1>10. Rejected'
  <2>1. CASE place[r] = "taken"
    <3>1. main.rejected = <<>>
      BY <1>5, <2>1 DEF IInv, Rejected, Holding
    <3> QED BY <1>2, <1>5, <2>1, <3>1 DEF IInv, Rejected
  <2>2. CASE reader.rejected # <<>> /\ r = Head(reader.rejected) /\ reader' = [reader EXCEPT !.rejected = Tail(@)] /\ main' = main
    <3>1. reader'.rejected = Tail(reader.rejected)
      BY <2>2 DEF IInv, TypeOK
    <3> QED BY <1>2, <1>4, <1>5, <2>2, <3>1 DEF IInv, Rejected
  <2>3. CASE main.rejected # <<>> /\ r = Head(main.rejected) /\ main' = [main EXCEPT !.rejected = Tail(@)] /\ reader' = reader
    <3>1. main'.rejected = Tail(main.rejected) /\ main'.pc = main.pc
      BY <2>3 DEF IInv, TypeOK
    <3> QED BY <1>2, <1>4, <1>5, <2>3, <3>1 DEF IInv, Rejected
  <2> QED BY <2>1, <2>2, <2>3, <1>5 DEF GoesOn, IInv, InHands
<1>11. TurnLife'
  <2>1. /\ main.pc \in Draining => main'.pc \in Draining
        /\ main'.pc = main.pc \/ (main.pc \in Holding /\ main'.pc \in {"current", "closing"})
    BY <1>5 DEF Draining
  <2> QED BY <1>5, <2>1 DEF IInv, TurnLife, Draining, Holding
<1>12. Followed'
  <2>1. \A q \in Requests \ {r} : main.pc = "conditioned" /\ main.item = q => main'.pc = "conditioned" /\ main'.item = q
    BY <1>5
  <2>2. reader'.pc = reader.pc /\ reader'.item = reader.item
    BY <1>5
  <2>3. lease'[r] = IF reader.pc = "releasing" /\ reader.item = r THEN 1 ELSE 0
    BY <1>2 DEF IInv, Followed, Kept
  <2> QED BY <1>2, <2>1, <2>2, <2>3 DEF IInv, Followed, Kept
<1>13. RetireOrder'
  <2>1. Packets \subseteq Requests /\ Retirements \subseteq Requests /\ "retire" \in Retirements
    BY DEF Requests, Retirements, Ending
  <2>2. r \notin Retirements
    BY DEF IInv, RetireOrder
  <2> QED BY <1>2, <1>5, <2>1, <2>2 DEF IInv, RetireOrder, StopEmptiesQueue
<1> QED BY <1>6, <1>7, <1>8, <1>9, <1>10, <1>11, <1>12, <1>13 DEF IInv
LEMMA InboxStays ==
  ASSUME IInv, NEW r \in Requests, NEW a, place[r] \in {"taken", "rejected"}, turnOf' = turnOf, Finish(r, a, main.turn)
  PROVE  /\ inbox' \in [Turns -> InboxType] /\ Accounted'
         /\ \A t \in Turns : /\ inbox'[t].open = inbox[t].open /\ inbox'[t].registered = inbox[t].registered
                             /\ inbox'[t].pending = inbox[t].pending /\ inbox'[t].bound = inbox[t].bound
<1>1. /\ inbox' = [inbox EXCEPT ![main.turn].bytes = IF r \in Packets THEN @ - 1 ELSE @]
      /\ main.turn \in Turns /\ turnOf[r] = main.turn /\ place' = [place EXCEPT ![r] = "over"]
  BY AnsweredOnce
<1>2. inbox \in [Turns -> InboxType]
  BY DEF IInv, TypeOK, InboxType
<1>3. r \in Packets => inbox[main.turn].bytes - 1 \in Nat
  BY <1>1, BytesEnough
<1>4. PICK t \in Turns : t = main.turn
  BY <1>1
<1>5. /\ inbox' \in [Turns -> InboxType]
      /\ \A u \in Turns : /\ inbox'[u].open = inbox[u].open /\ inbox'[u].registered = inbox[u].registered
                          /\ inbox'[u].pending = inbox[u].pending /\ inbox'[u].bound = inbox[u].bound
                          /\ inbox'[u].bytes = IF u = t /\ r \in Packets THEN inbox[u].bytes - 1 ELSE inbox[u].bytes
  <2>1. PICK b : b = IF r \in Packets THEN inbox[t].bytes - 1 ELSE inbox[t].bytes
    OBVIOUS
  <2>2. inbox[t] \in InboxType /\ b \in Nat
    BY <1>2, <1>3, <1>4, <2>1 DEF InboxType
  <2>3. [inbox[t] EXCEPT !.bytes = b] \in InboxType
    BY <2>2 DEF InboxType
  <2>4. inbox' = [inbox EXCEPT ![t] = [inbox[t] EXCEPT !.bytes = b]]
    BY <1>1, <1>4, <2>1
  <2> QED BY <1>2, <2>1, <2>2, <2>3, <2>4 DEF InboxType
<1>6. Accounted'
  <2>1. \A u \in Turns : inbox'[u].bytes = IF u = t /\ r \in Packets THEN inbox[u].bytes - 1 ELSE inbox[u].bytes
    BY <1>5
  <2> QED BY <1>1, <1>4, <2>1, BytesReturned
<1> QED BY <1>5, <1>6

LEMMA FinishInvariant ==
  ASSUME IInv, NEW r \in Requests, NEW a \in Answers \ {None}, place[r] \in {"taken", "rejected"},
         Finish(r, a, main.turn), GoesOn(r),
         session' \in [registered : BOOLEAN, retired : BOOLEAN, revision : Nat],
         begun' \in SUBSET Requests, \A q \in begun' : q \in begun \/ q = r, r \in begun' => a \in {"ok", "unknown"},
         UNCHANGED <<turnOf, revision, gaveUp, wire, queue, host, current>>
  PROVE  IInv'
<1>1. /\ answer' = [answer EXCEPT ![r] = a] /\ place' = [place EXCEPT ![r] = "over"]
      /\ lease' = [lease EXCEPT ![r] = @ - 1]
  <2>1. answer[r] = None
    BY DEF IInv, Followed
  <2> QED BY <2>1 DEF Finish
<1>2. /\ inbox' \in [Turns -> InboxType] /\ Accounted'
      /\ \A t \in Turns : /\ inbox'[t].open = inbox[t].open /\ inbox'[t].registered = inbox[t].registered
                          /\ inbox'[t].pending = inbox[t].pending /\ inbox'[t].bound = inbox[t].bound
  BY InboxStays
<1>3. \A t \in Turns : /\ inbox'[t].open = inbox[t].open /\ inbox'[t].registered = inbox[t].registered
                       /\ inbox'[t].pending = inbox[t].pending
                       /\ inbox'[t].bound # {} => inbox[t].bound # {} \/ (t = main.turn /\ main'.pc = "current")
  BY <1>2
<1> QED BY <1>1, <1>2, <1>3, AnswerInvariant

(* An item that is not yet integrated has left nothing in the brain.       *)
LEMMA NotBegun ==
  ASSUME IInv, NEW r \in Requests, place[r] \in {"taken", "rejected"}, r \in begun
  PROVE  main.pc = "conditioned" /\ main.item = r
<1>1. answer[r] = None
  BY DEF IInv, Followed
<1> QED BY <1>1 DEF IInv, Followed, None

LEMMA RejectRetiredInvariant == ASSUME IInv, RejectRetired PROVE IInv'
<1> DEFINE r == Head(reader.rejected)
<1>1. r \in Requests /\ r \in Range(reader.rejected) /\ reader.rejected # <<>> /\ reader.pc = "rejecting"
  BY Taken DEF IInv, TypeOK, RejectRetired
<1>2. place[r] = "rejected" /\ turnOf[reader.item] = main.turn
  BY <1>1 DEF IInv, Rejected, InHands
<1>3. r \notin begun
  <2>1. place[r] # "taken"
    BY <1>2
  <2> QED BY <1>1, <1>2, <2>1, NotBegun DEF IInv, InHands, Holding
<1>4. "retired" \in Answers \ {None} /\ session' = session /\ begun' = begun /\ GoesOn(r) /\ Finish(r, "retired", main.turn)
  BY <1>1, <1>2 DEF RejectRetired, Answers, None, GoesOn
<1>5. session \in [registered : BOOLEAN, retired : BOOLEAN, revision : Nat] /\ begun \in SUBSET Requests
  BY DEF IInv, TypeOK
<1>6. UNCHANGED <<turnOf, revision, gaveUp, wire, queue, host, current>>
  BY DEF RejectRetired
<1> QED BY <1>1, <1>2, <1>3, <1>4, <1>5, <1>6, FinishInvariant

LEMMA RejectClosedInvariant == ASSUME IInv, RejectClosed PROVE IInv'
<1> DEFINE r == Head(main.rejected)
<1>1. r \in Requests /\ r \in Range(main.rejected) /\ main.rejected # <<>>
  BY Taken DEF IInv, TypeOK, RejectClosed
<1>2. place[r] = "rejected" /\ main.pc = "rejecting"
  BY <1>1 DEF IInv, Rejected
<1>3. r \notin begun
  BY <1>1, <1>2, NotBegun
<1>4. "retired" \in Answers \ {None} /\ session' = session /\ begun' = begun /\ GoesOn(r) /\ Finish(r, "retired", main.turn)
  BY <1>1 DEF RejectClosed, Answers, None, GoesOn
<1>5. session \in [registered : BOOLEAN, retired : BOOLEAN, revision : Nat] /\ begun \in SUBSET Requests
  BY DEF IInv, TypeOK
<1>6. UNCHANGED <<turnOf, revision, gaveUp, wire, queue, host, current>>
  BY DEF RejectClosed
<1> QED BY <1>1, <1>2, <1>3, <1>4, <1>5, <1>6, FinishInvariant

(* An item in the hand of the drain.                                       *)
LEMMA InHand ==
  ASSUME IInv, main.pc \in Holding
  PROVE  /\ main.item \in Requests /\ place[main.item] = "taken" /\ turnOf[main.item] = main.turn
         /\ main.turn \in Turns /\ answer[main.item] = None
         /\ (main.item \in begun => main.pc = "conditioned")
<1>1. main.item \in Requests /\ place[main.item] = "taken" /\ turnOf[main.item] = main.turn
  BY DEF IInv, InHands
<1>2. main.turn \in Turns
  BY DEF IInv, TurnLife, Holding
<1> QED BY <1>1, <1>2, NotBegun DEF IInv, Followed, Kept

LEMMA RefuseItemInvariant == ASSUME IInv, RefuseItem PROVE IInv'
<1> PICK r : r = main.item
  OBVIOUS
<1>1. main.pc \in Holding /\ r \in Requests /\ place[r] = "taken" /\ r \notin begun
  BY InHand DEF RefuseItem, Holding
<1>2. "refused" \in Answers \ {None} /\ session' = session /\ begun' = begun /\ GoesOn(r) /\ Finish(r, "refused", main.turn)
  BY <1>1 DEF RefuseItem, Answers, None, GoesOn
<1>3. session \in [registered : BOOLEAN, retired : BOOLEAN, revision : Nat] /\ begun \in SUBSET Requests
  BY DEF IInv, TypeOK
<1>4. UNCHANGED <<turnOf, revision, gaveUp, wire, queue, host, current>>
  BY DEF RefuseItem
<1> QED BY <1>1, <1>2, <1>3, <1>4, FinishInvariant

LEMMA RecordInvariant == ASSUME IInv, Record PROVE IInv'
<1> PICK r : r = main.item
  OBVIOUS
<1>1. main.pc \in Holding /\ r \in Requests /\ place[r] = "taken"
  BY InHand DEF Record, Holding
<1>2. "ok" \in Answers \ {None} /\ begun' = begun \cup {r} /\ GoesOn(r) /\ Finish(r, "ok", main.turn)
  BY <1>1 DEF Record, Answers, None, GoesOn
<1>3. session' \in [registered : BOOLEAN, retired : BOOLEAN, revision : Nat] /\ begun \in SUBSET Requests
  BY <1>1 DEF IInv, TypeOK, Record, Advanced
<1>4. UNCHANGED <<turnOf, revision, gaveUp, wire, queue, host, current>>
  BY DEF Record
<1> QED BY <1>1, <1>2, <1>3, <1>4, FinishInvariant

LEMMA FailIntegrationInvariant == ASSUME IInv, FailIntegration PROVE IInv'
<1> PICK r : r = main.item
  OBVIOUS
<1>1. main.pc \in Holding /\ r \in Requests /\ place[r] = "taken"
  BY InHand DEF FailIntegration, Holding
<1>2. "unknown" \in Answers \ {None} /\ session' = session /\ begun' = begun /\ GoesOn(r) /\ Finish(r, "unknown", main.turn)
  BY <1>1 DEF FailIntegration, Answers, None, GoesOn
<1>3. session \in [registered : BOOLEAN, retired : BOOLEAN, revision : Nat] /\ begun \in SUBSET Requests
  BY DEF IInv, TypeOK
<1>4. UNCHANGED <<turnOf, revision, gaveUp, wire, queue, host, current>>
  BY DEF FailIntegration
<1> QED BY <1>1, <1>2, <1>3, <1>4, FinishInvariant

(* The same for an integrated packet, whose binding the turn keeps.        *)
LEMMA ConsumeInvariant == ASSUME IInv, Consume PROVE IInv'
<1> PICK r, t : r = main.item /\ t = main.turn
  OBVIOUS
<1>1. /\ main.pc \in Holding /\ r \in Requests /\ place[r] = "taken" /\ r \in Packets /\ t \in Turns
      /\ turnOf[r] = t
  BY InHand DEF Consume, Holding, IInv, InHands
<1>2. /\ answer' = [answer EXCEPT ![r] = "ok"] /\ place' = [place EXCEPT ![r] = "over"]
      /\ lease' = [lease EXCEPT ![r] = @ - 1] /\ "ok" \in Answers \ {None} /\ session' = session /\ begun' = begun
      /\ inbox' = [inbox EXCEPT ![t].bytes = @ - 1, ![t].bound = @ \cup {r}]
      /\ UNCHANGED <<turnOf, revision, gaveUp, wire, queue, host, current>>
  BY DEF Consume, Answers, None
<1>3. GoesOn(r) /\ main'.pc = "current"
  BY <1>1 DEF Consume, GoesOn, IInv, TypeOK
<1>4. inbox[t].bytes - 1 \in Nat
  BY <1>1, BytesEnough
<1>5. inbox \in [Turns -> InboxType]
  BY DEF IInv, TypeOK, InboxType
<1>6. /\ inbox' \in [Turns -> InboxType]
      /\ \A u \in Turns : /\ inbox'[u].open = inbox[u].open /\ inbox'[u].registered = inbox[u].registered
                          /\ inbox'[u].pending = inbox[u].pending
                          /\ u # t => inbox'[u].bound = inbox[u].bound
                          /\ inbox'[u].bytes = IF u = t /\ r \in Packets THEN inbox[u].bytes - 1 ELSE inbox[u].bytes
  <2>1. inbox[t] \in InboxType
    BY <1>1, <1>5
  <2>2. [inbox[t] EXCEPT !.bytes = @ - 1, !.bound = @ \cup {r}] \in InboxType
    BY <1>1, <1>4, <2>1 DEF InboxType
  <2>3. inbox' = [inbox EXCEPT ![t] = [inbox[t] EXCEPT !.bytes = @ - 1, !.bound = @ \cup {r}]]
    BY <1>2
  <2> QED BY <1>1, <1>5, <2>1, <2>2, <2>3 DEF InboxType
<1>7. Accounted'
  <2>1. \A u \in Turns : inbox'[u].bytes = IF u = t /\ r \in Packets THEN inbox[u].bytes - 1 ELSE inbox[u].bytes
    BY <1>6
  <2>2. turnOf' = turnOf /\ place' = [place EXCEPT ![r] = "over"]
    BY <1>2
  <2> QED BY <1>1, <2>1, <2>2, BytesReturned
<1>8. session \in [registered : BOOLEAN, retired : BOOLEAN, revision : Nat] /\ begun \in SUBSET Requests
  BY DEF IInv, TypeOK
<1>9. \A u \in Turns : inbox'[u].bound # {} => inbox[u].bound # {} \/ (u = main.turn /\ main'.pc = "current")
  BY <1>3, <1>6
<1>10. /\ session' \in [registered : BOOLEAN, retired : BOOLEAN, revision : Nat]
       /\ begun' \in SUBSET Requests /\ \A q \in begun' : q \in begun \/ q = r
  BY <1>2, <1>8
<1>11. \A u \in Turns :
         /\ inbox'[u].open = inbox[u].open /\ inbox'[u].registered = inbox[u].registered
         /\ inbox'[u].pending = inbox[u].pending
         /\ inbox'[u].bound # {} => inbox[u].bound # {} \/ (u = main.turn /\ main'.pc = "current")
  BY <1>6, <1>9
<1>12. inbox' \in [Turns -> InboxType] /\ place[r] \in {"taken", "rejected"}
  BY <1>1, <1>6
<1> QED BY <1>1, <1>2, <1>3, <1>7, <1>10, <1>11, <1>12, AnswerInvariant
-----------------------------------------------------------------------------
(* The reader thread.                                                      *)

(* The head of the line leaves it for the reader, or is answered at once.  *)
LEMMA LookInvariant == ASSUME IInv, Look PROVE IInv'
<1> PICK r, t : r = Head(wire) /\ t = turnOf[r]
  OBVIOUS
<1>1. /\ reader.pc = "idle" /\ wire # <<>> /\ wire \in Seq(Requests) /\ wire' = Tail(wire)
      /\ UNCHANGED <<turnOf, revision, gaveUp, queue, host, current, inbox, main, begun>>
  BY DEF Look, IInv, TypeOK
<1>2. /\ r \in Requests /\ r \in Range(wire) /\ Tail(wire) \in Seq(Requests)
      /\ Range(wire) = {r} \cup Range(Tail(wire)) /\ IsInjective(Tail(wire)) /\ r \notin Range(Tail(wire))
  BY <1>1, Taken DEF IInv, OnLines
<1>3. place[r] = "wire" /\ answer[r] = None /\ lease[r] = 0
  BY <1>1, <1>2 DEF IInv, OnLines, Followed, Kept
<1>4. reader.rejected = <<>>
  BY <1>1 DEF IInv, Rejected
<1>5. /\ place \in [Requests -> Places] /\ answer \in [Requests -> Answers] /\ lease \in [Requests -> 0 .. 2]
      /\ reader \in [pc : ReaderPC, item : Requests \cup {None},
                     live : BOOLEAN, seen : Nat, rejected : Seq(Requests)]
      /\ session \in [registered : BOOLEAN, retired : BOOLEAN, revision : Nat]
  BY DEF IInv, TypeOK
<1>6. \/ /\ answer' = [answer EXCEPT ![r] = "refused"] /\ place' = [place EXCEPT ![r] = "over"]
         /\ lease' = [lease EXCEPT ![r] = 0] /\ UNCHANGED <<session, reader>>
      \/ /\ inbox[t].registered /\ t \in current /\ r \in Retirements
         /\ session' = [session EXCEPT !.retired = TRUE]
         /\ reader' = [reader EXCEPT !.pc = "retiring", !.item = r]
         /\ place' = [place EXCEPT ![r] = "reader"] /\ lease' = [lease EXCEPT ![r] = 1] /\ answer' = answer
      \/ /\ inbox[t].registered /\ t \in current /\ r \notin Retirements
         /\ session' = session
         /\ reader' = [reader EXCEPT !.pc = "looked", !.item = r, !.seen = session.revision,
                                     !.live = session.registered /\ ~session.retired]
         /\ place' = [place EXCEPT ![r] = "reader"] /\ lease' = [lease EXCEPT ![r] = 1] /\ answer' = answer
  BY DEF Look, Reply, Retirements
<1>7. PICK x \in {"over", "reader"} :
        /\ \A q \in Requests :
             /\ place'[q] = IF q = r THEN x ELSE place[q]
             /\ lease'[q] = IF q = r THEN IF x = "over" THEN 0 ELSE 1 ELSE lease[q]
             /\ answer'[q] = IF q = r /\ x = "over" THEN "refused" ELSE answer[q]
        /\ place' \in [Requests -> Places] /\ answer' \in [Requests -> Answers] /\ lease' \in [Requests -> 0 .. 2]
        /\ x = "over" => reader' = reader
        /\ x = "reader" => /\ inbox[t].registered /\ t \in current /\ reader'.item = r /\ reader'.rejected = <<>>
                           /\ \/ reader'.pc = "retiring" /\ r \in Retirements
                              \/ reader'.pc = "looked" /\ r \notin Retirements
  <2>1. CASE /\ answer' = [answer EXCEPT ![r] = "refused"] /\ place' = [place EXCEPT ![r] = "over"]
             /\ lease' = [lease EXCEPT ![r] = 0] /\ UNCHANGED <<session, reader>>
    BY <1>2, <1>5, <2>1 DEF Places, Answers
  <2>2. CASE /\ inbox[t].registered /\ t \in current /\ r \in Retirements
             /\ reader' = [reader EXCEPT !.pc = "retiring", !.item = r]
             /\ place' = [place EXCEPT ![r] = "reader"] /\ lease' = [lease EXCEPT ![r] = 1] /\ answer' = answer
    <3>1. reader'.item = r /\ reader'.rejected = <<>> /\ reader'.pc = "retiring"
      BY <1>4, <1>5, <2>2
    <3> QED BY <1>2, <1>5, <2>2, <3>1 DEF Places
  <2>3. CASE /\ inbox[t].registered /\ t \in current /\ r \notin Retirements
             /\ reader' = [reader EXCEPT !.pc = "looked", !.item = r, !.seen = session.revision,
                                         !.live = session.registered /\ ~session.retired]
             /\ place' = [place EXCEPT ![r] = "reader"] /\ lease' = [lease EXCEPT ![r] = 1] /\ answer' = answer
    <3>1. reader'.item = r /\ reader'.rejected = <<>> /\ reader'.pc = "looked"
      BY <1>4, <1>5, <2>3
    <3> QED BY <1>2, <1>5, <2>3, <3>1 DEF Places
  <2> QED BY <1>6, <2>1, <2>2, <2>3
<1>8. /\ reader' \in [pc : ReaderPC, item : Requests \cup {None},
                      live : BOOLEAN, seen : Nat, rejected : Seq(Requests)]
      /\ session' \in [registered : BOOLEAN, retired : BOOLEAN, revision : Nat]
  <2>1. CASE UNCHANGED <<session, reader>>
    BY <1>5, <2>1
  <2>2. CASE /\ session' = [session EXCEPT !.retired = TRUE]
             /\ reader' = [reader EXCEPT !.pc = "retiring", !.item = r]
    BY <1>2, <1>5, <2>2
  <2>3. CASE /\ session' = session
             /\ reader' = [reader EXCEPT !.pc = "looked", !.item = r, !.seen = session.revision,
                                         !.live = session.registered /\ ~session.retired]
    <3>1. session.revision \in Nat /\ (session.registered /\ ~session.retired) \in BOOLEAN
      BY <1>5
    <3> QED BY <1>2, <1>5, <2>3, <3>1
  <2> QED BY <1>6, <2>1, <2>2, <2>3
<1>9. x = "reader" => t = main.turn /\ main.turn \in Turns
  BY <1>7 DEF IInv, TypeOK, TurnLife
<1>10. TypeOK'
  BY <1>1, <1>2, <1>7, <1>8 DEF IInv, TypeOK
<1>11. OnLines'
  BY <1>1, <1>2, <1>3, <1>7 DEF IInv, OnLines
<1>12. InInbox'
  <2>1. \A q \in Requests : place'[q] = "pending" <=> place[q] = "pending"
    BY <1>3, <1>7
  <2> QED BY <1>1, <2>1 DEF IInv, InInbox
<1>13. InHands'
  <2>1. /\ x = "over" => reader'.pc = "idle"
        /\ x = "reader" => reader'.pc \in AtHand /\ reader'.item = r
    BY <1>1, <1>7
  <2>2. \A q \in Requests : place[q] # "reader"
    BY <1>1 DEF IInv, InHands
  <2>3. \A q \in Requests : place'[q] = "reader" <=> reader'.pc \in AtHand /\ reader'.item = q
    BY <1>7, <2>1, <2>2
  <2>4. \A q \in Requests : place'[q] = "taken" <=> place[q] = "taken"
    BY <1>3, <1>7
  <2>5. reader'.pc # "idle" => reader'.item = r /\ turnOf[r] = main.turn /\ main.turn \in Turns
    BY <1>9, <2>1
  <2> QED BY <1>1, <1>2, <2>3, <2>4, <2>5 DEF IInv, InHands
<1>14. Rejected'
  <2>1. reader'.rejected = <<>>
    BY <1>4, <1>7
  <2> QED BY <1>1, <1>3, <1>4, <1>7, <2>1 DEF IInv, Rejected
<1>15. TurnLife'
  BY <1>1 DEF IInv, TurnLife
<1>16. Followed'
  BY <1>1, <1>3, <1>7 DEF IInv, Followed, Kept, None
<1>17. Accounted'
  <2>1. \A p \in Packets : place'[p] \in Inside <=> place[p] \in Inside
    BY <1>3, <1>7 DEF Inside, Requests
  <2> QED BY <1>1, <2>1, HeldSame DEF IInv
<1>18. RetireOrder'
  <2>1. Packets \subseteq Requests /\ "retire" \in Retirements /\ Retirements \subseteq Requests
    BY DEF Requests, Retirements, Ending
  <2>2. \A i, j \in DOMAIN wire' : i < j /\ wire'[i] = "retire" => wire'[j] \notin Packets
    <3>1. /\ DOMAIN wire' = 1 .. Len(wire) - 1 /\ DOMAIN wire = 1 .. Len(wire) /\ Len(wire) \in Nat
          /\ \A i \in 1 .. Len(wire) - 1 : wire'[i] = wire[i + 1]
      BY <1>1
    <3>2. \A i, j \in 1 .. Len(wire) - 1 : i < j => i + 1 \in DOMAIN wire /\ j + 1 \in DOMAIN wire /\ i + 1 < j + 1
      BY <3>1
    <3> QED BY <3>1, <3>2 DEF IInv, RetireOrder
  <2>3. place'["retire"] = "reader" => \A p \in Packets : place'[p] # "wire"
    <3>1. SUFFICES ASSUME place'["retire"] = "reader", NEW p \in Packets, place'[p] = "wire" PROVE FALSE
      OBVIOUS
    <3>2. r = "retire" /\ p \in Range(Tail(wire))
      BY <1>1, <1>2, <1>3, <1>7, <3>1, <2>1 DEF IInv, InHands, OnLines
    <3>3. PICK i \in 1 .. Len(wire) - 1 : p = wire[i + 1]
      BY <1>1, <3>2 DEF Range
    <3>4. 1 \in DOMAIN wire /\ i + 1 \in DOMAIN wire /\ 1 < i + 1 /\ wire[1] = "retire"
      BY <1>1, <3>2, <3>3
    <3> QED BY <3>3, <3>4 DEF IInv, RetireOrder
  <2>4. StopEmptiesQueue'
    <3>1. answer'["retire"] = "ok" => answer["retire"] = "ok"
      BY <1>7, <2>1
    <3>2. answer["retire"] = "ok" => r \notin Packets
      BY <1>3 DEF IInv, RetireOrder, StopEmptiesQueue
    <3> QED BY <3>1, <3>2, <1>7, <2>1 DEF StopEmptiesQueue, IInv, RetireOrder
  <2>5. \A q \in Retirements : place'[q] \notin {"pending", "taken", "rejected"}
    BY <1>7, <2>1 DEF IInv, RetireOrder
  <2>6. host.state = "active" => place'["retire"] = "unsent"
    BY <1>3, <1>7, <2>1 DEF IInv, RetireOrder
  <2>7. /\ reader'.pc # "rejecting"
        /\ reader'.pc = "retiring" => reader'.item \in Retirements
        /\ reader'.pc = "looked" => reader'.item \notin Retirements
    BY <1>1, <1>7
  <2> QED BY <1>1, <2>2, <2>3, <2>4, <2>5, <2>6, <2>7 DEF RetireOrder
<1> QED BY <1>10, <1>11, <1>12, <1>13, <1>14, <1>15, <1>16, <1>17, <1>18 DEF IInv

(* What the reader has in hand when it has one.                            *)
LEMMA AtReader ==
  ASSUME IInv, reader.pc \in AtHand
  PROVE  /\ reader.item \in Requests /\ place[reader.item] = "reader" /\ turnOf[reader.item] = main.turn
         /\ main.turn \in Turns /\ answer[reader.item] = None /\ lease[reader.item] = 1
         /\ reader.item \notin begun
<1>1. reader.item \in Requests /\ place[reader.item] = "reader" /\ turnOf[reader.item] = main.turn /\ main.turn \in Turns
  BY DEF IInv, InHands
<1>2. answer[reader.item] = None /\ lease[reader.item] = 1
  BY <1>1 DEF IInv, Followed, Kept
<1>3. ~(main.pc = "conditioned" /\ main.item = reader.item)
  BY <1>1 DEF IInv, InHands, Holding
<1> QED BY <1>1, <1>2, <1>3 DEF IInv, Followed, None

(* The reader answers what it has in hand.                                 *)
LEMMA ReplyInvariant ==
  ASSUME IInv, NEW a \in Answers \ {None}, reader.pc \in AtHand, reader.rejected = <<>>, reader' = Idle,
         Reply(reader.item, a), reader.item = "retire" /\ a = "ok" => reader.pc = "rejecting",
         session' \in [registered : BOOLEAN, retired : BOOLEAN, revision : Nat],
         UNCHANGED <<turnOf, revision, gaveUp, wire, queue, host, current, inbox, main, begun>>
  PROVE  IInv'
<1> PICK r : r = reader.item
  OBVIOUS
<1>1. r \in Requests /\ place[r] = "reader" /\ answer[r] = None /\ r \notin begun
  BY AtReader
<1>2. /\ place \in [Requests -> Places] /\ answer \in [Requests -> Answers] /\ lease \in [Requests -> 0 .. 2]
  BY DEF IInv, TypeOK
<1>3. /\ place' \in [Requests -> Places] /\ answer' \in [Requests -> Answers] /\ lease' \in [Requests -> 0 .. 2]
      /\ \A q \in Requests : /\ place'[q] = IF q = r THEN "over" ELSE place[q]
                             /\ answer'[q] = IF q = r THEN a ELSE answer[q]
                             /\ lease'[q] = IF q = r THEN 0 ELSE lease[q]
  BY <1>1, <1>2 DEF Reply, Places
<1>4. /\ reader' \in [pc : ReaderPC, item : Requests \cup {None},
                      live : BOOLEAN, seen : Nat, rejected : Seq(Requests)]
      /\ reader'.pc = "idle" /\ reader'.rejected = <<>>
  BY DEF Idle
<1>5. TypeOK'
  BY <1>3, <1>4 DEF IInv, TypeOK
<1>6. OnLines'
  BY <1>1, <1>3 DEF IInv, OnLines
<1>7. InInbox'
  BY <1>1, <1>3 DEF IInv, InInbox
<1>8. InHands'
  BY <1>1, <1>3, <1>4 DEF IInv, InHands
<1>9. Rejected'
  BY <1>1, <1>3, <1>4 DEF IInv, Rejected
<1>10. TurnLife'
  BY DEF IInv, TurnLife
<1>11. Followed'
  BY <1>1, <1>3, <1>4, SMTT(20) DEF IInv, Followed, Kept
<1>12. Accounted'
  <2>1. \A p \in Packets : place'[p] \in Inside <=> place[p] \in Inside
    BY <1>1, <1>3 DEF Inside, Requests
  <2> QED BY <2>1, HeldSame DEF IInv
<1>13. RetireOrder'
  <2>1. Packets \subseteq Requests /\ "retire" \in Retirements /\ Retirements \subseteq Requests
    BY DEF Requests, Retirements, Ending
  <2>2. StopEmptiesQueue'
    <3>1. ASSUME answer'["retire"] = "ok", NEW p \in Packets PROVE place'[p] \notin {"wire", "reader", "pending"}
      <4>1. CASE r = "retire"
        <5>1. reader.pc = "rejecting" /\ place["retire"] = "reader"
          BY <4>1, <3>1, <1>1, <1>3
        <5>2. place[p] \notin {"wire", "pending"}
          BY <4>1, <5>1 DEF IInv, RetireOrder
        <5>3. place[p] = "reader" => p = r
          BY <2>1 DEF IInv, InHands
        <5> QED BY <1>3, <2>1, <5>2, <5>3
      <4>2. CASE r # "retire"
        <5>1. answer["retire"] = "ok"
          BY <4>2, <3>1, <1>3, <2>1
        <5> QED BY <5>1, <1>3, <2>1 DEF IInv, RetireOrder, StopEmptiesQueue
      <4> QED BY <4>1, <4>2
    <3> QED BY <3>1 DEF StopEmptiesQueue
  <2> QED BY <1>1, <1>3, <1>4, <2>1, <2>2 DEF IInv, RetireOrder
<1> QED BY <1>5, <1>6, <1>7, <1>8, <1>9, <1>10, <1>11, <1>12, <1>13 DEF IInv

LEMMA AnswerRetirementInvariant == ASSUME IInv, AnswerRetirement PROVE IInv'
<1>1. session' \in [registered : BOOLEAN, retired : BOOLEAN, revision : Nat]
  BY DEF IInv, TypeOK, AnswerRetirement
<1>2. PICK a \in Answers \ {None} : Reply(reader.item, a)
  BY DEF AnswerRetirement, Answers, None
<1>3. /\ reader.pc = "rejecting" /\ reader.rejected = <<>> /\ reader' = Idle
      /\ UNCHANGED <<turnOf, revision, gaveUp, wire, queue, host, current, inbox, main, begun>>
  BY DEF AnswerRetirement
<1> QED BY <1>1, <1>2, <1>3, ReplyInvariant
(* An accepted request goes from the reader to the inbox of the turn.      *)
LEMMA OfferInvariant == ASSUME IInv, Offer PROVE IInv'
<1> PICK r, t : r = reader.item /\ t = main.turn
  OBVIOUS
<1>1. /\ r \in Requests /\ place[r] = "reader" /\ turnOf[r] = t /\ t \in Turns /\ r \notin begun /\ answer[r] = None
      /\ reader.pc = "looked" /\ reader.rejected = <<>> /\ r \notin Retirements
  BY AtReader DEF Offer, IInv, Rejected, RetireOrder
<1>2. CASE ~Acceptable(r, t)
  <2>1. Reply(r, "refused") /\ inbox' = inbox /\ "refused" \in Answers \ {None}
    BY <1>1, <1>2 DEF Offer, Answers, None
  <2>2. session \in [registered : BOOLEAN, retired : BOOLEAN, revision : Nat]
    BY DEF IInv, TypeOK
  <2>3. /\ reader' = Idle
        /\ UNCHANGED <<turnOf, revision, gaveUp, wire, queue, host, session, current, main, begun>>
    BY <1>1, <1>2 DEF Offer
  <2> QED BY <1>1, <2>1, <2>2, <2>3, ReplyInvariant
<1>3. CASE Acceptable(r, t)
  <2>1. /\ inbox' = [inbox EXCEPT ![t].pending = Append(@, r), ![t].bytes = IF r \in Packets THEN @ + 1 ELSE @]
        /\ place' = [place EXCEPT ![r] = "pending"] /\ lease' = [lease EXCEPT ![r] = @ + 1]
        /\ reader' = [Idle EXCEPT !.pc = "releasing", !.item = r]
        /\ UNCHANGED <<turnOf, revision, answer, gaveUp, wire, queue, host, session, current, main, begun>>
    BY <1>1, <1>3 DEF Offer
  <2>2. inbox[t].open /\ main.pc \in Draining
    BY <1>1, <1>3 DEF Acceptable, IInv, TurnLife
  <2>3. inbox \in [Turns -> InboxType] /\ place \in [Requests -> Places]
    BY DEF IInv, TypeOK, InboxType
  <2>4. /\ inbox[t].pending \in Seq(Requests) /\ r \notin Range(inbox[t].pending) /\ IsInjective(inbox[t].pending)
    BY <1>1, <2>3 DEF InboxType, IInv, InInbox
  <2>5. /\ Append(inbox[t].pending, r) \in Seq(Requests) /\ Append(inbox[t].pending, r) # <<>>
        /\ Range(Append(inbox[t].pending, r)) = Range(inbox[t].pending) \cup {r}
        /\ IsInjective(Append(inbox[t].pending, r))
    <3>1. Append(inbox[t].pending, r) # <<>>
      BY <1>1, <2>4
    <3> QED BY <3>1, <1>1, <2>4, Appended
  <2>6. PICK s, b : s = Append(inbox[t].pending, r) /\ b = IF r \in Packets THEN inbox[t].bytes + 1 ELSE inbox[t].bytes
    OBVIOUS
  <2>7. /\ inbox' = [inbox EXCEPT ![t] = [inbox[t] EXCEPT !.pending = s, !.bytes = b]]
        /\ [inbox[t] EXCEPT !.pending = s, !.bytes = b] \in InboxType
    <3>1. inbox[t] \in InboxType /\ b \in Nat /\ s \in Seq(Requests)
      BY <1>1, <2>3, <2>5, <2>6 DEF InboxType
    <3> QED BY <2>1, <2>6, <3>1 DEF InboxType
  <2>8. /\ inbox' \in [Turns -> InboxType]
        /\ \A u \in Turns : /\ inbox'[u].open = inbox[u].open /\ inbox'[u].registered = inbox[u].registered
                            /\ inbox'[u].bound = inbox[u].bound
                            /\ inbox'[u].pending = IF u = t THEN s ELSE inbox[u].pending
                            /\ inbox'[u].bytes = IF u = t /\ r \in Packets THEN inbox[u].bytes + 1 ELSE inbox[u].bytes
    BY <1>1, <2>3, <2>6, <2>7 DEF InboxType
  <2>9. \A q \in Requests : place'[q] = IF q = r THEN "pending" ELSE place[q]
    BY <2>1, <2>3
  <2>10. /\ reader' \in [pc : ReaderPC, item : Requests \cup {None},
                         live : BOOLEAN, seen : Nat, rejected : Seq(Requests)]
         /\ reader'.pc = "releasing" /\ reader'.item = r /\ reader'.rejected = <<>>
         /\ lease' \in [Requests -> 0 .. 2]
         /\ \A q \in Requests : lease'[q] = IF q = r THEN 2 ELSE lease[q]
    <3>1. lease \in [Requests -> 0 .. 2] /\ lease[r] = 1
      BY <1>1 DEF IInv, TypeOK, Followed, Kept
    <3>2. /\ lease' \in [Requests -> 0 .. 2]
          /\ \A q \in Requests : lease'[q] = IF q = r THEN 2 ELSE lease[q]
      BY <1>1, <2>1, <3>1
    <3>3. /\ reader' \in [pc : ReaderPC, item : Requests \cup {None},
                          live : BOOLEAN, seen : Nat, rejected : Seq(Requests)]
          /\ reader'.pc = "releasing" /\ reader'.item = r /\ reader'.rejected = <<>>
      <4>1. reader' = [pc |-> "releasing", item |-> r, live |-> FALSE, seen |-> 0, rejected |-> <<>>]
        BY <2>1 DEF Idle
      <4> QED BY <1>1, <4>1
    <3> QED BY <3>2, <3>3
  <2>11. TypeOK'
    <3>1. place' \in [Requests -> Places]
      BY <2>1, <2>3 DEF Places
    <3> QED BY <3>1, <2>1, <2>8, <2>10 DEF IInv, TypeOK, InboxType
  <2>12. OnLines'
    BY <1>1, <2>1, <2>9 DEF IInv, OnLines
  <2>13. InInbox'
    <3>1. \A u \in Turns : IsInjective(inbox'[u].pending)
      BY <2>5, <2>6, <2>8 DEF IInv, InInbox
    <3>2. \A q \in Requests : place'[q] = "pending" => turnOf'[q] \in Turns
      BY <1>1, <2>1, <2>9 DEF IInv, InInbox
    <3>3. ASSUME NEW q \in Requests, NEW u \in Turns
          PROVE  q \in Range(inbox'[u].pending) <=> place'[q] = "pending" /\ turnOf'[q] = u
      <4>1. CASE u = t
        <5>1. inbox'[u].pending = s /\ (q \in Range(s) <=> q \in Range(inbox[t].pending) \/ q = r)
          BY <4>1, <2>5, <2>6, <2>8
        <5>2. q \in Range(inbox[t].pending) <=> place[q] = "pending" /\ turnOf[q] = t
          BY <1>1 DEF IInv, InInbox
        <5> QED BY <4>1, <5>1, <5>2, <1>1, <2>1, <2>9
      <4>2. CASE u # t
        BY <4>2, <1>1, <2>1, <2>8, <2>9 DEF IInv, InInbox
      <4> QED BY <4>1, <4>2
    <3> QED BY <3>1, <3>2, <3>3 DEF InInbox
  <2>14. InHands'
    BY <1>1, <2>1, <2>9, <2>10 DEF IInv, InHands
  <2>15. Rejected'
    BY <1>1, <2>1, <2>9, <2>10 DEF IInv, Rejected
  <2>16. TurnLife'
    BY <1>1, <2>1, <2>2, <2>8 DEF IInv, TurnLife
  <2>17. Followed'
    BY <1>1, <2>1, <2>9, <2>10 DEF IInv, Followed, Kept
  <2>18. Accounted'
    <3>1. CASE r \in Packets
      <4>1. /\ IsFiniteSet(Held(t)') /\ Cardinality(Held(t)') = inbox[t].bytes + 1
            /\ \A u \in Turns \ {t} : Held(u)' = Held(u)
        BY <1>1, <2>1, <3>1, HeldJoins DEF IInv
      <4>2. ASSUME NEW u \in Turns PROVE (IsFiniteSet(Held(u)) /\ inbox[u].bytes = Cardinality(Held(u)))'
        <5>1. CASE u = t
          BY <2>8, <3>1, <4>1, <5>1
        <5>2. CASE u # t
          BY <2>8, <4>1, <5>2 DEF IInv, Accounted
        <5> QED BY <5>1, <5>2
      <4> QED BY <4>2 DEF Accounted
    <3>2. CASE r \notin Packets
      <4>1. \A p \in Packets : place'[p] \in Inside <=> place[p] \in Inside
        BY <3>2, <2>9 DEF Requests
      <4>2. \A u \in Turns : inbox'[u].bytes = inbox[u].bytes
        BY <3>2, <2>8
      <4> QED BY <2>1, <4>1, <4>2, HeldSame DEF IInv
    <3> QED BY <3>1, <3>2
  <2>19. RetireOrder'
    <3>1. Packets \subseteq Requests /\ "retire" \in Retirements /\ Retirements \subseteq Requests
      BY DEF Requests, Retirements, Ending
    <3>2. answer["retire"] = "ok" => r \notin Packets
      BY <1>1 DEF IInv, RetireOrder, StopEmptiesQueue
    <3>3. StopEmptiesQueue'
      BY <2>1, <2>9, <3>1, <3>2 DEF StopEmptiesQueue, IInv, RetireOrder
    <3>4. place'["retire"] = place["retire"]
      BY <1>1, <2>9, <3>1
    <3> QED BY <1>1, <2>1, <2>9, <2>10, <3>1, <3>3, <3>4 DEF IInv, RetireOrder
  <2> QED BY <2>11, <2>12, <2>13, <2>14, <2>15, <2>16, <2>17, <2>18, <2>19 DEF IInv
<1> QED BY <1>2, <1>3

(* The reader gives up its share of a receipt.                             *)
LEMMA ReleaseReceiptInvariant == ASSUME IInv, ReleaseReceipt PROVE IInv'
<1> PICK r : r = reader.item
  OBVIOUS
<1>1. /\ reader.pc = "releasing" /\ reader' = Idle /\ lease' = [lease EXCEPT ![r] = @ - 1]
      /\ UNCHANGED <<place, turnOf, revision, answer, gaveUp, wire, queue, host, session, current, inbox, main, begun>>
  BY DEF ReleaseReceipt
<1>2. r \in Requests /\ reader.rejected = <<>>
  BY <1>1 DEF IInv, InHands, Rejected
<1>3. lease \in [Requests -> 0 .. 2] /\ lease[r] \in {1, 2}
  <2>1. lease[r] = (IF place[r] \in Kept THEN 1 ELSE 0) + 1
    BY <1>1, <1>2 DEF IInv, Followed
  <2> QED BY <2>1 DEF IInv, TypeOK
<1>4. /\ lease' \in [Requests -> 0 .. 2]
      /\ \A q \in Requests : lease'[q] = IF q = r THEN lease[q] - 1 ELSE lease[q]
  BY <1>1, <1>2, <1>3
<1>5. /\ reader' \in [pc : ReaderPC, item : Requests \cup {None},
                      live : BOOLEAN, seen : Nat, rejected : Seq(Requests)]
      /\ reader'.pc = "idle" /\ reader'.rejected = <<>>
  BY <1>1 DEF Idle
<1>6. TypeOK'
  BY <1>1, <1>4, <1>5 DEF IInv, TypeOK
<1>7. OnLines' /\ InInbox'
  BY <1>1 DEF IInv, OnLines, InInbox
<1>8. InHands'
  BY <1>1, <1>5 DEF IInv, InHands
<1>9. Rejected'
  BY <1>1, <1>2, <1>5 DEF IInv, Rejected
<1>10. TurnLife'
  BY <1>1 DEF IInv, TurnLife
<1>11. Followed'
  BY <1>1, <1>2, <1>4, <1>5 DEF IInv, Followed
<1>12. Accounted'
  BY <1>1, HeldSame DEF IInv
<1>13. RetireOrder'
  BY <1>1, <1>5 DEF IInv, RetireOrder, StopEmptiesQueue
<1> QED BY <1>6, <1>7, <1>8, <1>9, <1>10, <1>11, <1>12, <1>13 DEF IInv

(* Which inbox has what is pending, and what it is.                        *)
LEMMA PendingHere ==
  ASSUME IInv
  PROVE  /\ \A t \in Turns : inbox[t].pending \in Seq(Requests) /\ Range(inbox[t].pending) \subseteq Requests
         /\ \A r \in Requests : place[r] = "pending" =>
              /\ main.turn \in Turns /\ r \in Range(inbox[main.turn].pending) /\ turnOf[r] = main.turn
              /\ main.pc \in Draining /\ r \notin Retirements /\ answer[r] = None /\ r \notin begun
<1>1. \A t \in Turns : inbox[t].pending \in Seq(Requests) /\ Range(inbox[t].pending) \subseteq Requests
  BY DEF IInv, TypeOK, Range
<1>2. ASSUME NEW r \in Requests, place[r] = "pending"
      PROVE  /\ main.turn \in Turns /\ r \in Range(inbox[main.turn].pending) /\ turnOf[r] = main.turn
             /\ main.pc \in Draining /\ r \notin Retirements /\ answer[r] = None /\ r \notin begun
  <2>1. turnOf[r] \in Turns /\ r \in Range(inbox[turnOf[r]].pending)
    BY <1>2 DEF IInv, InInbox
  <2>2. inbox[turnOf[r]].pending # <<>>
    BY <2>1, Nothing
  <2>3. turnOf[r] = main.turn /\ main.pc \in Draining
    BY <2>1, <2>2 DEF IInv, TurnLife
  <2>4. r \notin Retirements
    BY <1>2 DEF IInv, RetireOrder
  <2>5. answer[r] = None
    BY <1>2 DEF IInv, Followed, Kept
  <2>6. ~(main.pc = "conditioned" /\ main.item = r)
    BY <1>2 DEF IInv, InHands, Holding
  <2> QED BY <2>1, <2>3, <2>4, <2>5, <2>6 DEF IInv, Followed, None
<1> QED BY <1>1, <1>2

(* The reader, or the turn, takes everything that is pending to reject it. *)
LEMMA RejectsAll ==
  ASSUME IInv, NEW t \in Turns, t = main.turn,
         place' = [r \in Requests |-> IF r \in Range(inbox[t].pending) THEN "rejected" ELSE place[r]],
         \A u \in Turns : /\ inbox'[u].pending = IF u = t THEN <<>> ELSE inbox[u].pending
                          /\ inbox'[u].bytes = inbox[u].bytes,
         turnOf' = turnOf, answer' = answer, lease' = lease, begun' = begun, wire' = wire, queue' = queue,
         main.pc = "conditioned" => main'.pc = "conditioned" /\ main'.item = main.item,
         reader'.item = reader.item, reader'.pc = "releasing" <=> reader.pc = "releasing"
  PROVE  /\ place' \in [Requests -> Places]
         /\ \A r \in Requests : place'[r] = IF place[r] = "pending" THEN "rejected" ELSE place[r]
         /\ \A r \in Requests : r \in Range(inbox[t].pending) <=> place[r] = "pending"
         /\ OnLines' /\ InInbox' /\ Followed' /\ Accounted'
<1>1. /\ \A r \in Requests : r \in Range(inbox[t].pending) <=> place[r] = "pending"
      /\ place \in [Requests -> Places]
  BY PendingHere DEF IInv, InInbox, TypeOK
<1>2. \A r \in Requests : place'[r] = IF place[r] = "pending" THEN "rejected" ELSE place[r]
  BY <1>1
<1>3. place' \in [Requests -> Places]
  BY <1>1 DEF Places
<1>4. OnLines'
  BY <1>2 DEF IInv, OnLines
<1>5. InInbox'
  <2>1. \A r \in Requests : place'[r] # "pending"
    BY <1>2
  <2>2. \A u \in Turns : IsInjective(inbox'[u].pending)
    BY Nothing DEF IInv, InInbox
  <2>3. ASSUME NEW r \in Requests, NEW u \in Turns PROVE r \notin Range(inbox'[u].pending)
    <3>1. CASE u = t
      BY <3>1, Nothing
    <3>2. CASE u # t
      <4>1. inbox[u].pending = <<>>
        BY <3>2 DEF IInv, TurnLife
      <4> QED BY <3>2, <4>1, Nothing
    <3> QED BY <3>1, <3>2
  <2> QED BY <2>1, <2>2, <2>3 DEF InInbox
<1>6. Followed'
  BY <1>2 DEF IInv, Followed, Kept
<1>7. Accounted'
  <2>1. \A p \in Packets : place'[p] \in Inside <=> place[p] \in Inside
    BY <1>2 DEF Inside, Requests
  <2> QED BY <2>1, HeldSame DEF IInv
<1> QED BY <1>1, <1>2, <1>3, <1>4, <1>5, <1>6, <1>7

LEMMA RetireSessionInvariant == ASSUME IInv, RetireSession PROVE IInv'
<1> PICK t, s : t = main.turn /\ s = inbox[t].pending
  OBVIOUS
<1>1. /\ reader.pc = "retiring" /\ t \in Turns /\ turnOf[reader.item] = t /\ reader.item \in Requests
      /\ place[reader.item] = "reader" /\ reader.rejected = <<>> /\ reader.item \in Retirements
  BY AtReader DEF RetireSession, IInv, Rejected, RetireOrder
<1>2. /\ inbox' = [inbox EXCEPT ![t].retired = TRUE, ![t].pending = <<>>]
      /\ reader' = [reader EXCEPT !.pc = "rejecting", !.rejected = s]
      /\ place' = [r \in Requests |-> IF r \in Range(inbox[t].pending) THEN "rejected" ELSE place[r]]
      /\ UNCHANGED <<turnOf, revision, answer, lease, gaveUp, wire, queue, host, session, current, main, begun>>
  BY <1>1 DEF RetireSession
<1>3. inbox \in [Turns -> InboxType] /\ s \in Seq(Requests) /\ IsInjective(s)
  BY <1>1 DEF IInv, TypeOK, InboxType, InInbox
<1>4. inbox' \in [Turns -> InboxType]
  <2>1. inbox[t] \in InboxType
    BY <1>1, <1>3
  <2>2. [inbox[t] EXCEPT !.retired = TRUE, !.pending = <<>>] \in InboxType
    <3>1. PICK e \in Seq(Requests) : e = <<>>
      <4>1. <<>> \in Seq(Requests)
        OBVIOUS
      <4> QED BY <4>1
    <3>2. [inbox[t] EXCEPT !.retired = TRUE, !.pending = e] \in InboxType
      BY <2>1 DEF InboxType
    <3> QED BY <3>1, <3>2
  <2>3. inbox' = [inbox EXCEPT ![t] = [inbox[t] EXCEPT !.retired = TRUE, !.pending = <<>>]]
    BY <1>2
  <2> QED BY <1>1, <1>3, <2>2, <2>3
<1>5. \A u \in Turns : /\ inbox'[u].open = inbox[u].open /\ inbox'[u].registered = inbox[u].registered
                       /\ inbox'[u].bound = inbox[u].bound /\ inbox'[u].bytes = inbox[u].bytes
                       /\ inbox'[u].pending = IF u = t THEN <<>> ELSE inbox[u].pending
  BY <1>1, <1>2, <1>3 DEF InboxType
<1>6. /\ reader' \in [pc : ReaderPC, item : Requests \cup {None},
                      live : BOOLEAN, seen : Nat, rejected : Seq(Requests)]
      /\ reader'.pc = "rejecting" /\ reader'.rejected = s /\ reader'.item = reader.item
  BY <1>2, <1>3 DEF IInv, TypeOK
<1>7. /\ place' \in [Requests -> Places]
      /\ \A r \in Requests : place'[r] = IF place[r] = "pending" THEN "rejected" ELSE place[r]
      /\ \A r \in Requests : r \in Range(s) <=> place[r] = "pending"
      /\ OnLines' /\ InInbox' /\ Followed' /\ Accounted'
  <2>1. main.pc = "conditioned" => main'.pc = "conditioned" /\ main'.item = main.item
    BY <1>2
  <2>2. reader'.item = reader.item /\ (reader'.pc = "releasing" <=> reader.pc = "releasing")
    BY <1>1, <1>6
  <2>3. \A u \in Turns : /\ inbox'[u].pending = IF u = t THEN <<>> ELSE inbox[u].pending
                         /\ inbox'[u].bytes = inbox[u].bytes
    BY <1>5
  <2>4. turnOf' = turnOf /\ answer' = answer /\ lease' = lease /\ begun' = begun /\ wire' = wire /\ queue' = queue
    BY <1>2
  <2>5. place' = [r \in Requests |-> IF r \in Range(inbox[t].pending) THEN "rejected" ELSE place[r]]
    BY <1>2
  <2> QED BY <1>1, <2>1, <2>2, <2>3, <2>4, <2>5, RejectsAll
<1>8. TypeOK'
  BY <1>2, <1>4, <1>7, <1>6 DEF IInv, TypeOK, InboxType
<1>9. InHands'
  BY <1>1, <1>2, <1>7, <1>6 DEF IInv, InHands
<1>10. Rejected'
  <2>1. Range(reader.rejected) = {} /\ Range(s) \subseteq Requests /\ Range(main.rejected) \subseteq Requests
    BY <1>1, <1>3, Nothing DEF IInv, TypeOK, Range
  <2>2. \A r \in Range(s) : turnOf[r] = t
    BY <1>7, <2>1, PendingHere
  <2>3. \A r \in Requests : r \in Range(main.rejected) <=> place[r] = "rejected"
    BY <2>1 DEF IInv, Rejected
  <2>4. Range(s) \cap Range(main.rejected) = {}
    BY <1>7, <2>1, <2>3
  <2>5. \A r \in Requests : place'[r] = "rejected" <=> r \in Range(reader'.rejected) \cup Range(main'.rejected)
    BY <1>2, <1>6, <1>7, <2>3
  <2>6. /\ IsInjective(reader'.rejected) /\ IsInjective(main'.rejected)
        /\ Range(reader'.rejected) \cap Range(main'.rejected) = {}
        /\ reader'.rejected # <<>> => reader'.pc = "rejecting"
        /\ main'.rejected # <<>> => main'.pc = "rejecting"
    BY <1>2, <1>3, <1>6, <2>4 DEF IInv, Rejected
  <2>7. \A r \in Range(reader'.rejected) \cup Range(main'.rejected) : turnOf'[r] = main'.turn
    BY <1>2, <1>6, <2>2 DEF IInv, Rejected
  <2> QED BY <2>5, <2>6, <2>7 DEF Rejected
<1>11. TurnLife'
  BY <1>2, <1>5 DEF IInv, TurnLife
<1>12. RetireOrder'
  <2>1. Packets \subseteq Requests /\ "retire" \in Retirements /\ Retirements \subseteq Requests
    BY DEF Requests, Retirements, Ending
  <2> QED BY <1>1, <1>2, <1>7, <1>6, <2>1 DEF IInv, RetireOrder, StopEmptiesQueue
<1> QED BY <1>7, <1>8, <1>9, <1>10, <1>11, <1>12 DEF IInv

LEMMA CloseInboxInvariant == ASSUME IInv, CloseInbox PROVE IInv'
<1> PICK t, s : t = main.turn /\ s = inbox[t].pending
  OBVIOUS
<1>1. main.pc = "closing" /\ t \in Turns /\ main.rejected = <<>>
  BY DEF CloseInbox, IInv, TurnLife, Rejected
<1>2. /\ inbox' = [inbox EXCEPT ![t].open = FALSE, ![t].pending = <<>>]
      /\ main' = [main EXCEPT !.pc = "rejecting", !.rejected = s]
      /\ place' = [r \in Requests |-> IF r \in Range(inbox[t].pending) THEN "rejected" ELSE place[r]]
      /\ UNCHANGED <<turnOf, revision, answer, lease, gaveUp, wire, queue, host, session, current, reader, begun>>
  BY DEF CloseInbox
<1>3. inbox \in [Turns -> InboxType] /\ s \in Seq(Requests) /\ IsInjective(s)
  BY <1>1 DEF IInv, TypeOK, InboxType, InInbox
<1>4. inbox' \in [Turns -> InboxType]
  <2>1. inbox[t] \in InboxType
    BY <1>1, <1>3
  <2>2. [inbox[t] EXCEPT !.open = FALSE, !.pending = <<>>] \in InboxType
    <3>1. PICK e \in Seq(Requests) : e = <<>>
      <4>1. <<>> \in Seq(Requests)
        OBVIOUS
      <4> QED BY <4>1
    <3>2. [inbox[t] EXCEPT !.open = FALSE, !.pending = e] \in InboxType
      BY <2>1 DEF InboxType
    <3> QED BY <3>1, <3>2
  <2>3. inbox' = [inbox EXCEPT ![t] = [inbox[t] EXCEPT !.open = FALSE, !.pending = <<>>]]
    BY <1>2
  <2> QED BY <1>1, <1>3, <2>2, <2>3
<1>5. \A u \in Turns : /\ inbox'[u].registered = inbox[u].registered
                       /\ inbox'[u].bound = inbox[u].bound /\ inbox'[u].bytes = inbox[u].bytes
                       /\ inbox'[u].open = IF u = t THEN FALSE ELSE inbox[u].open
                       /\ inbox'[u].pending = IF u = t THEN <<>> ELSE inbox[u].pending
  BY <1>1, <1>2, <1>3 DEF InboxType
<1>6. /\ place' \in [Requests -> Places]
      /\ \A r \in Requests : place'[r] = IF place[r] = "pending" THEN "rejected" ELSE place[r]
      /\ \A r \in Requests : r \in Range(s) <=> place[r] = "pending"
      /\ OnLines' /\ InInbox' /\ Followed' /\ Accounted'
  BY <1>1, <1>2, <1>5, RejectsAll
<1>7. /\ main' \in [pc : MainPC, turn : Turns \cup {0}, item : Requests \cup {None}, rejected : Seq(Requests)]
      /\ main'.pc = "rejecting" /\ main'.rejected = s /\ main'.item = main.item /\ main'.turn = main.turn
  BY <1>2, <1>3 DEF IInv, TypeOK, MainPC
<1>8. TypeOK'
  BY <1>2, <1>4, <1>6, <1>7 DEF IInv, TypeOK, InboxType
<1>9. InHands'
  BY <1>1, <1>2, <1>6, <1>7 DEF IInv, InHands, Holding
<1>10. Rejected'
  <2>1. Range(main.rejected) = {} /\ Range(s) \subseteq Requests /\ Range(reader.rejected) \subseteq Requests
    BY <1>1, <1>3, Nothing DEF IInv, TypeOK, Range
  <2>2. \A r \in Range(s) : turnOf[r] = t
    BY <1>6, <2>1, PendingHere
  <2>3. \A r \in Requests : r \in Range(reader.rejected) <=> place[r] = "rejected"
    BY <2>1 DEF IInv, Rejected
  <2>4. Range(s) \cap Range(reader.rejected) = {}
    BY <1>6, <2>1, <2>3
  <2> QED BY <1>2, <1>3, <1>6, <1>7, <2>1, <2>2, <2>3, <2>4 DEF IInv, Rejected
<1>11. TurnLife'
  <2>1. main'.pc = "rejecting" /\ main'.turn = main.turn /\ main'.turn \in Turns
    BY <1>1, <1>7
  <2>2. ASSUME NEW u \in Turns
        PROVE  /\ inbox'[u].registered => u = main'.turn /\ main'.pc # "idle"
               /\ inbox'[u].open => u = main'.turn /\ main'.pc \in Draining
               /\ inbox'[u].pending # <<>> => u = main'.turn /\ main'.pc \in Draining
               /\ inbox'[u].bound # {} => u = main'.turn /\ main'.pc \notin {"idle", "starting", "leaving"}
    <3>1. CASE u = t
      BY <1>5, <2>1, <3>1
    <3>2. CASE u # t
      BY <1>5, <2>1, <3>2, <1>1 DEF IInv, TurnLife
    <3> QED BY <3>1, <3>2
  <2> QED BY <2>1, <2>2 DEF TurnLife
<1>12. RetireOrder'
  <2>1. Packets \subseteq Requests /\ "retire" \in Retirements /\ Retirements \subseteq Requests
    BY DEF Requests, Retirements, Ending
  <2> QED BY <1>1, <1>2, <1>6, <1>7, <2>1 DEF IInv, RetireOrder, StopEmptiesQueue
<1> QED BY <1>6, <1>8, <1>9, <1>10, <1>11, <1>12 DEF IInv
-----------------------------------------------------------------------------
(* The main thread.                                                        *)

LEMMA TakeInvariant == ASSUME IInv, Take PROVE IInv'
<1> PICK t : t = main.turn
  OBVIOUS
<1>1. main.pc = "current" /\ t \in Turns /\ main.rejected = <<>>
  BY DEF Take, IInv, TurnLife, Rejected
<1>2. CASE ~Available(t)
  <2>1. /\ main' = [main EXCEPT !.pc = "generating"]
        /\ UNCHANGED <<traffic, host, session, current, inbox, reader, begun>>
    BY <1>2 DEF Take, Go, traffic
  <2>2. TypeOK'
    BY <2>1 DEF IInv, TypeOK, MainPC, traffic
  <2>3. OnLines' /\ InInbox' /\ RetireOrder' /\ Accounted'
    <3>1. Accounted'
      BY <2>1, HeldSame DEF IInv, traffic
    <3> QED BY <2>1, <3>1 DEF IInv, OnLines, InInbox, RetireOrder, StopEmptiesQueue, traffic
  <2>4. main'.pc = "generating" /\ main'.turn = t /\ main'.item = main.item /\ main'.rejected = <<>>
    BY <1>1, <2>1 DEF IInv, TypeOK
  <2>5. InHands' /\ Rejected' /\ TurnLife' /\ Followed'
    BY <1>1, <2>1, <2>4 DEF IInv, InHands, Rejected, TurnLife, Followed, Holding, Draining, traffic
  <2> QED BY <2>2, <2>3, <2>5 DEF IInv
<1>3. CASE Available(t)
  <2> PICK r, s : r = Head(inbox[t].pending) /\ s = Tail(inbox[t].pending)
    OBVIOUS
  <2>1. /\ main' = [main EXCEPT !.pc = "checking", !.item = r]
        /\ place' = [place EXCEPT ![r] = "taken"] /\ inbox' = [inbox EXCEPT ![t].pending = s]
        /\ UNCHANGED <<turnOf, revision, answer, lease, gaveUp, wire, queue, host, session, current, reader, begun>>
    BY <1>3 DEF Take
  <2>2. inbox \in [Turns -> InboxType] /\ place \in [Requests -> Places] /\ inbox[t].pending \in Seq(Requests)
        /\ inbox[t].pending # <<>>
    BY <1>1, <1>3 DEF IInv, TypeOK, InboxType, Available
  <2>3. /\ r \in Requests /\ s \in Seq(Requests) /\ IsInjective(s) /\ r \notin Range(s)
        /\ Range(inbox[t].pending) = {r} \cup Range(s)
    BY <1>1, <2>2, Taken DEF IInv, InInbox
  <2>4. place[r] = "pending" /\ turnOf[r] = t
    BY <1>1, <2>3 DEF IInv, InInbox
  <2>5. r \notin Retirements /\ answer[r] = None /\ r \notin begun
    BY <2>3, <2>4, PendingHere
  <2>6. \A q \in Requests : place'[q] = IF q = r THEN "taken" ELSE place[q]
    BY <2>1, <2>2
  <2>7. inbox' \in [Turns -> InboxType]
    <3>1. inbox[t] \in InboxType
      BY <1>1, <2>2
    <3>2. [inbox[t] EXCEPT !.pending = s] \in InboxType
      BY <2>3, <3>1 DEF InboxType
    <3>3. inbox' = [inbox EXCEPT ![t] = [inbox[t] EXCEPT !.pending = s]]
      BY <2>1
    <3> QED BY <1>1, <2>2, <3>2, <3>3
  <2>8. \A u \in Turns : /\ inbox'[u].open = inbox[u].open /\ inbox'[u].registered = inbox[u].registered
                         /\ inbox'[u].bound = inbox[u].bound /\ inbox'[u].bytes = inbox[u].bytes
                         /\ inbox'[u].pending = IF u = t THEN s ELSE inbox[u].pending
    BY <1>1, <2>1, <2>2 DEF InboxType
  <2>9. /\ main' \in [pc : MainPC, turn : Turns \cup {0}, item : Requests \cup {None}, rejected : Seq(Requests)]
        /\ main'.pc = "checking" /\ main'.item = r /\ main'.turn = t /\ main'.rejected = <<>>
    BY <1>1, <2>1, <2>3 DEF IInv, TypeOK, MainPC
  <2>10. TypeOK'
    <3>1. place' \in [Requests -> Places]
      BY <2>1, <2>2 DEF Places
    <3> QED BY <3>1, <2>1, <2>7, <2>9 DEF IInv, TypeOK, InboxType
  <2>11. OnLines'
    BY <2>1, <2>4, <2>6 DEF IInv, OnLines
  <2>12. InInbox'
    <3>1. ASSUME NEW q \in Requests, NEW u \in Turns
          PROVE  q \in Range(inbox'[u].pending) <=> place'[q] = "pending" /\ turnOf'[q] = u
      <4>1. CASE u = t
        <5>1. inbox'[u].pending = s /\ (q \in Range(s) <=> q \in Range(inbox[t].pending) /\ q # r)
          BY <4>1, <2>3, <2>8
        <5>2. q \in Range(inbox[t].pending) <=> place[q] = "pending" /\ turnOf[q] = t
          BY <1>1 DEF IInv, InInbox
        <5> QED BY <4>1, <5>1, <5>2, <2>1, <2>6
      <4>2. CASE u # t
        BY <4>2, <2>1, <2>4, <2>6, <2>8 DEF IInv, InInbox
      <4> QED BY <4>1, <4>2
    <3>2. \A u \in Turns : IsInjective(inbox'[u].pending)
      BY <2>3, <2>8 DEF IInv, InInbox
    <3>3. \A q \in Requests : place'[q] = "pending" => turnOf'[q] \in Turns
      BY <2>1, <2>6 DEF IInv, InInbox
    <3> QED BY <3>1, <3>2, <3>3 DEF InInbox
  <2>13. InHands'
    <3>1. \A q \in Requests : place[q] # "taken"
      BY <1>1 DEF IInv, InHands, Holding
    <3>2. \A q \in Requests : place'[q] = "taken" <=> main'.pc \in Holding /\ main'.item = q
      BY <2>6, <2>9, <3>1 DEF Holding
    <3>3. \A q \in Requests : place'[q] = "reader" <=> place[q] = "reader"
      BY <2>4, <2>6
    <3>4. r \in Requests /\ turnOf'[r] = main'.turn /\ main'.item = r /\ main'.pc = "checking" /\ main'.turn = main.turn
      BY <2>1, <2>3, <2>4, <2>9
    <3> QED BY <2>1, <3>2, <3>3, <3>4 DEF IInv, InHands
  <2>14. Rejected'
    BY <1>1, <2>1, <2>4, <2>6, <2>9 DEF IInv, Rejected
  <2>15. TurnLife'
    BY <1>1, <1>3, <2>8, <2>9 DEF IInv, TurnLife, Draining, Holding, Available
  <2>16. Followed'
    BY <1>1, <2>1, <2>4, <2>5, <2>6 DEF IInv, Followed, Kept
  <2>17. Accounted'
    <3>1. \A p \in Packets : place'[p] \in Inside <=> place[p] \in Inside
      BY <2>4, <2>6 DEF Inside, Requests
    <3> QED BY <3>1, <2>1, <2>8, HeldSame DEF IInv
  <2>18. RetireOrder'
    <3>1. Packets \subseteq Requests /\ "retire" \in Retirements /\ Retirements \subseteq Requests
      BY DEF Requests, Retirements, Ending
    <3> QED BY <2>1, <2>4, <2>5, <2>6, <3>1 DEF IInv, RetireOrder, StopEmptiesQueue
  <2> QED BY <2>10, <2>11, <2>12, <2>13, <2>14, <2>15, <2>16, <2>17, <2>18 DEF IInv
<1> QED BY <1>2, <1>3

(* Between two replies nothing is pending and no line is open.             *)
LEMMA OrdinaryInvariant == ASSUME IInv, Ordinary PROVE IInv'
<1> PICK r : r = Head(queue)
  OBVIOUS
<1>1. /\ main.pc = "idle" /\ wire = <<>> /\ reader.pc = "idle" /\ queue # <<>> /\ queue' = Tail(queue)
      /\ queue \in Seq(Requests)
      /\ UNCHANGED <<turnOf, revision, lease, gaveUp, wire, host, current, inbox, reader, main>>
  BY DEF Ordinary, Drained, IInv, TypeOK
<1>2. /\ r \in Requests /\ r \in Range(queue) /\ Tail(queue) \in Seq(Requests)
      /\ Range(queue) = {r} \cup Range(Tail(queue)) /\ IsInjective(Tail(queue)) /\ r \notin Range(Tail(queue))
  BY <1>1, Taken DEF IInv, OnLines
<1>3. place[r] = "queue" /\ answer[r] = None /\ lease[r] = 0
  BY <1>1, <1>2 DEF IInv, OnLines, Followed, Kept
<1>4. /\ place \in [Requests -> Places] /\ answer \in [Requests -> Answers] /\ begun \in SUBSET Requests
      /\ session \in [registered : BOOLEAN, retired : BOOLEAN, revision : Nat] /\ revision \in [Requests -> Nat]
  BY DEF IInv, TypeOK
<1>5. PICK a \in {"ok", "refused"} :
        /\ answer' = [answer EXCEPT ![r] = a]
        /\ place' = [place EXCEPT ![r] = "over"]
        /\ begun' = begun \/ begun' = begun \cup {r}
        /\ r \in begun' => r \in begun \/ a = "ok"
        /\ session' = session \/
             session' = [Advanced(r) EXCEPT !.retired = @ \/ r \in {"retire", "stop"}, !.registered = r # "stop"]
  BY DEF Ordinary
<1>6. /\ \A q \in Requests : /\ place'[q] = IF q = r THEN "over" ELSE place[q]
                             /\ answer'[q] = IF q = r THEN a ELSE answer[q]
      /\ place' \in [Requests -> Places] /\ answer' \in [Requests -> Answers]
  BY <1>2, <1>4, <1>5 DEF Places, Answers
<1>7. session' \in [registered : BOOLEAN, retired : BOOLEAN, revision : Nat]
  BY <1>2, <1>4, <1>5 DEF Advanced
<1>8. \A q \in Requests : place[q] \notin {"wire", "reader", "pending"}
  <2>1. \A q \in Requests : place[q] # "wire"
    BY <1>1, Nothing DEF IInv, OnLines
  <2>2. \A q \in Requests : place[q] # "pending"
    BY <1>1, PendingHere DEF Draining, Holding
  <2>3. \A q \in Requests : place[q] # "reader"
    BY <1>1 DEF IInv, InHands
  <2> QED BY <2>1, <2>2, <2>3
<1>9. TypeOK'
  BY <1>1, <1>2, <1>4, <1>5, <1>6, <1>7 DEF IInv, TypeOK
<1>10. OnLines'
  BY <1>1, <1>2, <1>3, <1>6 DEF IInv, OnLines
<1>11. InInbox'
  BY <1>1, <1>3, <1>6 DEF IInv, InInbox
<1>12. InHands'
  BY <1>1, <1>3, <1>6 DEF IInv, InHands
<1>13. Rejected'
  BY <1>1, <1>3, <1>6 DEF IInv, Rejected
<1>14. TurnLife'
  BY <1>1 DEF IInv, TurnLife
<1>15. Followed'
  <2>1. r \notin begun
    BY <1>1, <1>3 DEF IInv, Followed, None
  <2> QED BY <1>1, <1>3, <1>5, <1>6, <2>1 DEF IInv, Followed, Kept, None
<1>16. Accounted'
  <2>1. \A p \in Packets : place'[p] \in Inside <=> place[p] \in Inside
    BY <1>3, <1>6 DEF Inside, Requests
  <2> QED BY <1>1, <2>1, HeldSame DEF IInv
<1>17. RetireOrder'
  <2>1. Packets \subseteq Requests /\ "retire" \in Retirements /\ Retirements \subseteq Requests
    BY DEF Requests, Retirements, Ending
  <2>2. \A q \in Requests : place'[q] \notin {"wire", "reader", "pending"}
    BY <1>6, <1>8
  <2> QED BY <1>1, <1>3, <1>6, <2>1, <2>2 DEF IInv, RetireOrder, StopEmptiesQueue
<1> QED BY <1>9, <1>10, <1>11, <1>12, <1>13, <1>14, <1>15, <1>16, <1>17 DEF IInv
-----------------------------------------------------------------------------
(* The invariant is inductive.                                             *)

LEMMA InitInvariant == Init => IInv
<1> SUFFICES ASSUME Init PROVE IInv
  OBVIOUS
<1>1. TypeOK
  <2>1. /\ place \in [Requests -> Places] /\ turnOf \in [Requests -> Turns \cup {0}]
        /\ revision \in [Requests -> Nat] /\ answer \in [Requests -> Answers] /\ lease \in [Requests -> 0 .. 2]
    BY DEF Init, Places, Answers
  <2>2. /\ gaveUp \in SUBSET Requests /\ wire \in Seq(Requests) /\ queue \in Seq(Requests)
        /\ current \in SUBSET Turns /\ begun \in SUBSET Requests
    BY DEF Init
  <2>3. /\ host \in [state : {"active", "retiring", "cancelling", "stopped"}, revision : Nat]
        /\ session \in [registered : BOOLEAN, retired : BOOLEAN, revision : Nat]
    BY DEF Init
  <2>4. inbox \in [Turns -> InboxType]
    <3>1. <<>> \in Seq(Requests)
      OBVIOUS
    <3>2. [open |-> FALSE, registered |-> FALSE, pending |-> <<>>, bytes |-> 0, retired |-> FALSE, bound |-> {}]
            \in InboxType
      BY <3>1 DEF InboxType
    <3> QED BY <3>2 DEF Init
  <2>5. /\ reader \in [pc : ReaderPC, item : Requests \cup {None},
                       live : BOOLEAN, seen : Nat, rejected : Seq(Requests)]
        /\ main \in [pc : MainPC, turn : Turns \cup {0}, item : Requests \cup {None}, rejected : Seq(Requests)]
    BY DEF Init, MainPC
  <2> QED BY <2>1, <2>2, <2>3, <2>4, <2>5 DEF TypeOK, InboxType
<1>2. /\ wire = <<>> /\ queue = <<>> /\ reader.rejected = <<>> /\ main.rejected = <<>>
      /\ reader.pc = "idle" /\ main.pc = "idle" /\ begun = {} /\ host.state = "active"
      /\ \A t \in Turns : /\ inbox[t].pending = <<>> /\ inbox[t].bytes = 0 /\ inbox[t].bound = {}
                          /\ ~inbox[t].registered /\ ~inbox[t].open
      /\ \A r \in Requests : place[r] = "unsent" /\ answer[r] = None /\ lease[r] = 0
  BY DEF Init
<1>3. OnLines /\ InInbox /\ InHands /\ Rejected
  BY <1>2, Nothing DEF OnLines, InInbox, InHands, Rejected, Holding
<1>4. TurnLife /\ Followed
  BY <1>2 DEF TurnLife, Followed, Kept
<1>5. Accounted
  <2>1. \A t \in Turns : Held(t) = {}
    BY <1>2 DEF Held, Requests
  <2> QED BY <1>2, <2>1, FS_EmptySet DEF Accounted
<1>6. RetireOrder
  <2>1. Retirements \subseteq Requests /\ Packets \subseteq Requests /\ "retire" \in Requests
    BY DEF Requests, Retirements, Ending
  <2> QED BY <1>2, <2>1 DEF RetireOrder, StopEmptiesQueue
<1> QED BY <1>1, <1>3, <1>4, <1>5, <1>6 DEF IInv

LEMMA StepInvariant == IInv /\ [Next]_vars => IInv'
<1> SUFFICES ASSUME IInv, [Next]_vars PROVE IInv'
  OBVIOUS
<1>1. CASE Application
  BY <1>1, ApplicationInvariant
<1>2. CASE ReaderThread
  BY <1>2, LookInvariant, OfferInvariant, ReleaseReceiptInvariant, RetireSessionInvariant, RejectRetiredInvariant, AnswerRetirementInvariant
     DEF ReaderThread
<1>3. CASE Drain
  BY <1>3, BoundaryInvariant, TakeInvariant, IntegrateInvariant, RefuseItemInvariant, RecordInvariant,
     ConditionInvariant, ConsumeInvariant, FailIntegrationInvariant DEF Drain
<1>4. CASE Turn
  BY <1>4, OpenInboxInvariant, EndTurnInvariant, CloseInboxInvariant, RejectClosedInvariant,
     ReleaseBindingsInvariant, LeaveInvariant DEF Turn
<1>5. CASE StartTurn \/ TurnRetires \/ SignalInLock \/ Ordinary
  BY <1>5, StartTurnInvariant, TurnRetiresInvariant, SignalInLockInvariant, OrdinaryInvariant
<1>6. CASE UNCHANGED vars
  <2>1. Accounted'
    BY <1>6, HeldSame DEF IInv, vars, traffic
  <2>2. TypeOK'
    BY <1>6 DEF vars, traffic, IInv, TypeOK
  <2>3. OnLines' /\ InInbox' /\ InHands'
    BY <1>6 DEF vars, traffic, IInv, OnLines, InInbox, InHands
  <2>4. Rejected' /\ TurnLife' /\ Followed'
    BY <1>6 DEF vars, traffic, IInv, Rejected, TurnLife, Followed
  <2>5. RetireOrder'
    BY <1>6 DEF vars, traffic, IInv, RetireOrder, StopEmptiesQueue
  <2> QED BY <2>1, <2>2, <2>3, <2>4, <2>5 DEF IInv
<1> QED BY <1>1, <1>2, <1>3, <1>4, <1>5, <1>6 DEF Next
-----------------------------------------------------------------------------
(* Theorems.                                                               *)

(* Each request is in one hand, and receipt, bytes, answer and effects     *)
(* follow it there.                                                        *)
THEOREM InvariantHolds == Spec => []IInv
<1>1. Init => IInv
  BY InitInvariant
<1>2. IInv /\ [Next]_vars => IInv'
  BY StepInvariant
<1> QED BY <1>1, <1>2, PTL DEF Spec

(* Requests, sessions, inboxes and both threads keep their types.          *)
THEOREM Typing == Spec => []TypeOK
<1>1. IInv => TypeOK
  BY DEF IInv
<1> QED BY <1>1, InvariantHolds, PTL

(* Who answers "refused" or "retired" has used nothing of the request, for *)
(* any interleaving of the drain, a retirement and the close of the inbox  *)
(* (live_sensory_queue.py:118-168).                                        *)
THEOREM RejectedUnused == Spec => []HonestAnswer
<1>1. IInv => HonestAnswer
  <2> SUFFICES ASSUME IInv, NEW r \in Requests, answer[r] \in {"refused", "retired"} PROVE r \notin begun
    BY DEF HonestAnswer
  <2>1. place[r] = "over"
    BY DEF IInv, Followed, None
  <2>2. ~(main.pc = "conditioned" /\ main.item = r)
    BY <2>1 DEF IInv, InHands, Holding
  <2> QED BY <2>2 DEF IInv, Followed
<1> QED BY <1>1, InvariantHolds, PTL

(* An acknowledged retirement leaves no packet of the session on its way to*)
(* the drain (worker_live_sensory.py:72-79).                               *)
THEOREM RetirementDrains == Spec => []StopEmptiesQueue
<1>1. IInv => StopEmptiesQueue
  BY DEF IInv, RetireOrder
<1> QED BY <1>1, InvariantHolds, PTL

(* Receipt and bytes are held exactly as long as the payload, whichever    *)
(* thread ends it (stdio_request_admission.py:103-124).                    *)
THEOREM ReceiptsFollow == Spec => []LeaseFollowsRequest
<1>1. IInv => LeaseFollowsRequest
  <2> SUFFICES ASSUME IInv PROVE LeaseFollowsRequest
    OBVIOUS
  <2>1. ASSUME NEW r \in Requests, NEW n, n = IF reader.pc = "releasing" /\ reader.item = r THEN 1 ELSE 0
        PROVE  /\ place[r] \in {"reader", "pending", "taken", "rejected"} => lease[r] = 1 + n
               /\ place[r] = "over" => lease[r] = n
    BY <2>1 DEF IInv, Followed, Kept
  <2>2. \A t \in Turns :
          /\ inbox[t].bytes = Cardinality({p \in Packets : /\ turnOf[p] = t
                                             /\ place[p] \in {"pending", "taken", "rejected"}})
          /\ main.pc = "idle" => inbox[t].bound = {}
    BY DEF IInv, Accounted, Held, TurnLife
  <2> QED BY <2>1, <2>2 DEF LeaseFollowsRequest
<1> QED BY <1>1, InvariantHolds, PTL
=============================================================================
