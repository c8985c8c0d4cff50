---------------------------- MODULE LiveSensory ----------------------------
(***************************************************************************)
(* Live capture during a reply: src/engine/live_sensory_queue.py,            *)
(* worker_live_sensory.py, the receipts of stdio_request_admission.py, the    *)
(* reader thread of worker_transport.py and the side of the application in    *)
(* src/src/main/brainService.ts.                                              *)
(*                                                                         *)
(* One capture session sends packets and controls to a brain.  While no      *)
(* reply runs they queue for the worker's main thread.  While one runs they  *)
(* pass it by: the reader thread offers them to the inbox of the turn, which  *)
(* the main thread drains at its own boundaries, and the answer is sent only  *)
(* when the request was integrated or rejected.  A packet may be rejected by  *)
(* the drain, by the reader that retires the session or by the turn that      *)
(* closes its inbox, at any point of the others' work.                        *)
(*                                                                         *)
(* The turn stops being current when it is steered, suspended, cancelled or   *)
(* past its last token; packets count one unit of the session's bytes each.   *)
(* The signal that tells the worker so may find the main thread inside the    *)
(* lock its handler takes: both threads then wait for ever.                   *)
(***************************************************************************)
EXTENDS Integers, Sequences, FiniteSets, Functions

CONSTANTS Packets,        \* frames the capture delivers (observe_packet)
          Controls,       \* resolved controls that advance the capture revision
          Turns,          \* the replies, 1 .. n
          MaxInFlight,    \* packets of a session awaiting an answer
          MaxTimeouts     \* bound: answers the application stops awaiting

ASSUME TurnsAssumption == Turns \subseteq Nat \ {0} /\ \A t \in Turns : 1 .. t \subseteq Turns
ASSUME MaxInFlightAssumption == MaxInFlight \in Nat \ {0}
ASSUME MaxTimeoutsAssumption == MaxTimeouts \in Nat

(* What finishObservation sends: retireOnly, the controls it cancels, stop. *)
Ending == {"retire", "cancel", "stop"}
ASSUME RequestsAssumption == /\ Packets \cap Controls = {}
                             /\ (Packets \cup Controls) \cap Ending = {}

Requests == Packets \cup Controls \cup Ending
None == "none"

VARIABLES
  place,     \* where each request is, from "unsent" to "over"
  turnOf,    \* turn each request was addressed to (0: the ordinary queue)
  revision,  \* capture revision each request carries
  answer,    \* the answer sent for each request
  lease,     \* count of each RequestAllocationReceipt
  gaveUp,    \* requests whose answer the application no longer awaits
  wire,      \* live requests on the worker's stdin
  queue,     \* ordinary requests before the main thread
  host,      \* state and capture revision of the application's record
  session,   \* the worker's session: registered, retired, revision
  current,   \* turns that still take input
  inbox,     \* LiveSensoryInbox of each turn
  reader,    \* the reader thread: control point, request, rejected items
  main,      \* the main thread: control point, turn, item, rejected items
  begun      \* history: requests whose effects on the brain have begun

traffic == <<place, turnOf, revision, answer, lease, gaveUp, wire, queue>>
vars == <<traffic, host, session, current, inbox, reader, main, begun>>

Places == {"unsent", "wire", "queue", "reader", "pending", "taken", "rejected", "over"}
Answers == {None, "ok", "refused", "retired", "unknown"}
MainPC == {"idle", "starting", "generating", "current", "checking", "recording", "integrating",
           "conditioned", "closing", "rejecting", "leaving", "stuck"}

TypeOK ==
  /\ place \in [Requests -> Places]
  /\ turnOf \in [Requests -> Turns \cup {0}]
  /\ revision \in [Requests -> Nat]
  /\ answer \in [Requests -> Answers]
  /\ lease \in [Requests -> 0 .. 2]
  /\ gaveUp \in SUBSET Requests
  /\ wire \in Seq(Requests) /\ queue \in Seq(Requests)
  /\ host \in [state : {"active", "retiring", "cancelling", "stopped"}, revision : Nat]
  /\ session \in [registered : BOOLEAN, retired : BOOLEAN, revision : Nat]
  /\ current \in SUBSET Turns
  /\ inbox \in [Turns -> [open : BOOLEAN, registered : BOOLEAN, pending : Seq(Requests),
                           bytes : Nat, retired : BOOLEAN, bound : SUBSET Packets]]
  /\ reader \in [pc : {"idle", "looked", "releasing", "retiring", "rejecting"}, item : Requests \cup {None},
                  live : BOOLEAN, seen : Nat, rejected : Seq(Requests)]
  /\ main \in [pc : MainPC, turn : Turns \cup {0}, item : Requests \cup {None}, rejected : Seq(Requests)]
  /\ begun \in SUBSET Requests

Init ==
  /\ place = [r \in Requests |-> "unsent"]
  /\ turnOf = [r \in Requests |-> 0]
  /\ revision = [r \in Requests |-> 0]
  /\ answer = [r \in Requests |-> None]
  /\ lease = [r \in Requests |-> 0]
  /\ gaveUp = {}
  /\ wire = <<>> /\ queue = <<>>
  /\ host = [state |-> "active", revision |-> 0]
  /\ session = [registered |-> TRUE, retired |-> FALSE, revision |-> 0]
  /\ current = {}
  /\ inbox = [t \in Turns |-> [open |-> FALSE, registered |-> FALSE, pending |-> <<>>,
                               bytes |-> 0, retired |-> FALSE, bound |-> {}]]
  /\ reader = [pc |-> "idle", item |-> None, live |-> FALSE, seen |-> 0, rejected |-> <<>>]
  /\ main = [pc |-> "idle", turn |-> 0, item |-> None, rejected |-> <<>>]
  /\ begun = {}
-----------------------------------------------------------------------------
(* The application.  It awaits every request it sent, live ones with a       *)
(* deadline; finishObservation retires the session, waits for the packets in  *)
(* flight, cancels the open controls and stops the session.                   *)
InFlight(r) == place[r] # "unsent" /\ answer[r] = None /\ r \notin gaveUp

(* requestLiveObservation: past the running reply, not at all when that reply  *)
(* is being cancelled, or behind whatever is queued.                          *)
Send(r, rev) ==
  /\ place[r] = "unsent"
  /\ revision' = [revision EXCEPT ![r] = rev]
  /\ \/ /\ main.pc # "idle"
        /\ turnOf' = [turnOf EXCEPT ![r] = main.turn]
        /\ wire' = Append(wire, r)
        /\ place' = [place EXCEPT ![r] = "wire"]
        /\ UNCHANGED <<answer, queue>>
     \/ /\ main.pc # "idle" /\ r \notin Packets
        /\ answer' = [answer EXCEPT ![r] = "refused"]
        /\ place' = [place EXCEPT ![r] = "over"]
        /\ UNCHANGED <<turnOf, wire, queue>>
     \/ /\ main.pc = "idle"
        /\ queue' = Append(queue, r)
        /\ place' = [place EXCEPT ![r] = "queue"]
        /\ UNCHANGED <<answer, turnOf, wire>>
  /\ UNCHANGED <<lease, gaveUp, session, current, inbox, reader, main, begun>>

SendPacket(p) == /\ host.state = "active"
                 /\ Cardinality({q \in Packets : InFlight(q)}) < MaxInFlight
                 /\ Send(p, host.revision)
                 /\ UNCHANGED host

(* resolveObservationControl advances its own revision before it asks. *)
SendControl(c) == /\ host.state = "active"
                  /\ Send(c, host.revision + 1)
                  /\ host' = [host EXCEPT !.revision = @ + 1]

PacketsSettled == \A p \in Packets : ~InFlight(p)
ControlsOpen == \E c \in Controls : place[c] # "unsent"

Retire == /\ host.state = "active"
          /\ Send("retire", 0)
          /\ host' = [host EXCEPT !.state = "retiring"]

CancelControls == /\ host.state = "retiring"
                  /\ ~InFlight("retire") /\ PacketsSettled /\ ControlsOpen
                  /\ Send("cancel", 0)
                  /\ host' = [host EXCEPT !.state = "cancelling"]

Stop == /\ \/ host.state = "retiring" /\ ~InFlight("retire") /\ PacketsSettled /\ ~ControlsOpen
           \/ host.state = "cancelling" /\ ~InFlight("cancel")
        /\ Send("stop", 0)
        /\ host' = [host EXCEPT !.state = "stopped"]

(* The deadline of a live request; the worker is left alone. *)
GiveUp(r) == /\ InFlight(r) /\ turnOf[r] # 0
             /\ Cardinality(gaveUp) < MaxTimeouts
             /\ gaveUp' = gaveUp \cup {r}
             /\ UNCHANGED <<place, turnOf, revision, answer, lease, wire, queue, host, session,
                            current, inbox, reader, main, begun>>
-----------------------------------------------------------------------------
(* The inbox.  Every operation holds its lock and asks whether the turn is    *)
(* current, under the worker's lock of the active request.                    *)
LockFree == main.pc \notin {"current", "stuck"}

(* finish: the first answer wins; the bytes and the receipt go with it, in    *)
(* one step with the answer that the same thread sends just before.           *)
Finish(r, a, t) ==
  IF answer[r] = None
  THEN /\ answer' = [answer EXCEPT ![r] = a]
       /\ place' = [place EXCEPT ![r] = "over"]
       /\ lease' = [lease EXCEPT ![r] = @ - 1]
       /\ inbox' = [inbox EXCEPT ![t].bytes = IF r \in Packets THEN @ - 1 ELSE @]
  ELSE UNCHANGED <<answer, place, lease, inbox>>

(* The reader answers by itself, and its receipt ends with the dispatch. *)
Reply(r, a) == /\ answer' = [answer EXCEPT ![r] = a]
               /\ place' = [place EXCEPT ![r] = "over"]
               /\ lease' = [lease EXCEPT ![r] = 0]

Idle == [pc |-> "idle", item |-> None, live |-> FALSE, seen |-> 0, rejected |-> <<>>]

(* live_sensory_control up to the lock of the inbox: the turn must have one   *)
(* and be current; retirement marks the session; a packet is bound to what    *)
(* the session is now.                                                        *)
Look ==
  /\ reader.pc = "idle" /\ wire # <<>> /\ LockFree
  /\ wire' = Tail(wire)
  /\ LET r == Head(wire)
         t == turnOf[r]
         owned == inbox[t].registered /\ t \in current
     IN \/ /\ owned => r \in {"retire", "stop"} /\ ~session.registered
           /\ Reply(r, "refused")
           /\ UNCHANGED <<session, reader>>
        \/ /\ owned /\ r \in {"retire", "stop"} /\ session.registered
           /\ session' = [session EXCEPT !.retired = TRUE]
           /\ reader' = [reader EXCEPT !.pc = "retiring", !.item = r]
           /\ place' = [place EXCEPT ![r] = "reader"]
           /\ lease' = [lease EXCEPT ![r] = 1]
           /\ UNCHANGED answer
        \/ /\ owned /\ r \notin {"retire", "stop"}
           /\ reader' = [reader EXCEPT !.pc = "looked", !.item = r, !.seen = session.revision,
                                       !.live = session.registered /\ ~session.retired]
           /\ place' = [place EXCEPT ![r] = "reader"]
           /\ lease' = [lease EXCEPT ![r] = 1]
           /\ UNCHANGED <<session, answer>>
  /\ UNCHANGED <<turnOf, revision, gaveUp, queue, host, current, inbox, main, begun>>

(* What offer() asks under the lock of the inbox. *)
Acceptable(r, t) ==
  /\ inbox[t].open /\ t \in current
  /\ inbox[t].retired => r = "cancel"
  /\ r \in Packets => /\ reader.live
                      /\ revision[r] = reader.seen
                      /\ inbox[t].bytes < MaxInFlight

(* Variant for mutation: the inbox borrows the receipt of the dispatch. *)
OfferBorrowed ==
  /\ reader.pc = "looked" /\ LockFree
  /\ LET r == reader.item
         t == turnOf[r]
     IN IF Acceptable(r, t)
        THEN /\ inbox' = [inbox EXCEPT ![t].pending = Append(@, r),
                                       ![t].bytes = IF r \in Packets THEN @ + 1 ELSE @]
             /\ place' = [place EXCEPT ![r] = "pending"]
             /\ reader' = [Idle EXCEPT !.pc = "releasing", !.item = r]
             /\ UNCHANGED <<answer, lease>>
        ELSE Reply(r, "refused") /\ reader' = Idle /\ UNCHANGED inbox
  /\ UNCHANGED <<turnOf, revision, gaveUp, wire, queue, host, session, current, main, begun>>

(* The inbox retains the receipt of an accepted request; nothing is answered.  *)
Offer ==
  /\ reader.pc = "looked" /\ LockFree
  /\ LET r == reader.item
         t == turnOf[r]
     IN \/ /\ Acceptable(r, t)
           /\ inbox' = [inbox EXCEPT ![t].pending = Append(@, r),
                                     ![t].bytes = IF r \in Packets THEN @ + 1 ELSE @]
           /\ place' = [place EXCEPT ![r] = "pending"]
           /\ lease' = [lease EXCEPT ![r] = @ + 1]
           /\ reader' = [Idle EXCEPT !.pc = "releasing", !.item = r]
           /\ UNCHANGED answer
        \/ /\ ~Acceptable(r, t)
           /\ Reply(r, "refused")
           /\ reader' = Idle
           /\ UNCHANGED inbox
  /\ UNCHANGED <<turnOf, revision, gaveUp, wire, queue, host, session, current, main, begun>>

(* The reader's own share ends with its dispatch, when the main thread may     *)
(* have finished the request.                                                  *)
ReleaseReceipt ==
  /\ reader.pc = "releasing"
  /\ lease' = [lease EXCEPT ![reader.item] = @ - 1]
  /\ reader' = Idle
  /\ UNCHANGED <<place, turnOf, revision, answer, gaveUp, wire, queue, host, session, current,
                 inbox, main, begun>>

(* Variant for mutation: the session is marked, its queue is left to the drain. *)
RetireSessionMarksOnly ==
  /\ reader.pc = "retiring" /\ LockFree
  /\ inbox' = [inbox EXCEPT ![turnOf[reader.item]].retired = TRUE]
  /\ reader' = [reader EXCEPT !.pc = "rejecting"]
  /\ UNCHANGED <<traffic, host, session, current, main, begun>>

(* retire_session: take what is queued under the lock ... *)
RetireSession ==
  /\ reader.pc = "retiring" /\ LockFree
  /\ LET t == turnOf[reader.item]
     IN /\ inbox' = [inbox EXCEPT ![t].retired = TRUE, ![t].pending = <<>>]
        /\ reader' = [reader EXCEPT !.pc = "rejecting", !.rejected = inbox[t].pending]
        /\ place' = [r \in Requests |-> IF r \in Range(inbox[t].pending) THEN "rejected" ELSE place[r]]
  /\ UNCHANGED <<turnOf, revision, answer, lease, gaveUp, wire, queue, host, session, current,
                 main, begun>>

(* ... and reject it, item by item. *)
RejectRetired ==
  /\ reader.pc = "rejecting" /\ reader.rejected # <<>> /\ LockFree
  /\ Finish(Head(reader.rejected), "retired", turnOf[reader.item])
  /\ reader' = [reader EXCEPT !.rejected = Tail(@)]
  /\ UNCHANGED <<turnOf, revision, gaveUp, wire, queue, host, session, current, main, begun>>

(* The answer of stop and retireOnly; stop forgets the session. *)
AnswerRetirement ==
  /\ reader.pc = "rejecting" /\ reader.rejected = <<>>
  /\ Reply(reader.item, IF session.registered THEN "ok" ELSE "refused")
  /\ session' = [session EXCEPT !.registered = @ /\ reader.item = "retire"]
  /\ reader' = Idle
  /\ UNCHANGED <<turnOf, revision, gaveUp, wire, queue, host, current, inbox, main, begun>>
-----------------------------------------------------------------------------
(* The main thread.  The reply is dispatched behind what its predecessor left *)
(* on stdin, owns an inbox from _chat on, and may fail before it.             *)
Drained == wire = <<>> /\ reader.pc = "idle"

Go(pc) == main' = [main EXCEPT !.pc = pc]

StartTurn ==
  /\ main.pc = "idle" /\ Drained /\ main.turn + 1 \in Turns
  /\ main' = [main EXCEPT !.pc = "starting", !.turn = @ + 1]
  /\ current' = current \cup {main.turn + 1}
  /\ UNCHANGED <<traffic, host, session, inbox, reader, begun>>

OpenInbox ==
  /\ main.pc = "starting"
  /\ inbox' = [inbox EXCEPT ![main.turn].open = TRUE, ![main.turn].registered = TRUE]
  /\ Go("generating")
  /\ UNCHANGED <<traffic, host, session, current, reader, begun>>

(* Steered, suspended, cancelled or past the last token: no more input. *)
TurnRetires ==
  /\ main.pc # "idle" /\ LockFree /\ main.turn \in current
  /\ current' = current \ {main.turn}
  /\ UNCHANGED <<traffic, host, session, inbox, reader, main, begun>>

(* A world boundary: has_pending and take() ask whether the turn is current. *)
Boundary ==
  /\ main.pc = "generating"
  /\ Go("current")
  /\ UNCHANGED <<traffic, host, session, current, inbox, reader, begun>>

(* SIGUSR1 (a steer, a suspension, a cancellation) is handled by the main      *)
(* thread between two bytecodes, and its handler takes the lock of the active   *)
(* request, which is not reentrant: inside that lock it waits for itself.       *)
SignalInLock ==
  /\ main.pc = "current"
  /\ Go("stuck")
  /\ UNCHANGED <<traffic, host, session, current, inbox, reader, begun>>

Available(t) == inbox[t].open /\ t \in current /\ inbox[t].pending # <<>>

(* Variant for mutation: the request stays queued until it is answered. *)
TakePeeks ==
  /\ main.pc = "current"
  /\ IF Available(main.turn)
     THEN main' = [main EXCEPT !.pc = "checking", !.item = Head(inbox[main.turn].pending)]
     ELSE Go("generating")
  /\ UNCHANGED <<traffic, host, session, current, inbox, reader, begun>>

Take ==
  /\ main.pc = "current"
  /\ \/ /\ Available(main.turn)
        /\ LET r == Head(inbox[main.turn].pending)
           IN /\ main' = [main EXCEPT !.pc = "checking", !.item = r]
              /\ place' = [place EXCEPT ![r] = "taken"]
        /\ inbox' = [inbox EXCEPT ![main.turn].pending = Tail(@)]
     \/ /\ ~Available(main.turn)
        /\ Go("generating")
        /\ UNCHANGED <<place, inbox>>
  /\ UNCHANGED <<turnOf, revision, answer, lease, gaveUp, wire, queue, host, session, current,
                 reader, begun>>

(* What is asked of an item before its integration starts. *)
Admissible(r) == /\ main.turn \in current
                 /\ r \in Packets => /\ session.registered /\ ~session.retired
                                     /\ revision[r] = session.revision

Integrate ==
  /\ main.pc = "checking" /\ Admissible(main.item)
  /\ Go(IF main.item \in Packets THEN "integrating" ELSE "recording")
  /\ UNCHANGED <<traffic, host, session, current, inbox, reader, begun>>

(* Refused before its integration: decoding and RAM may refuse any packet.    *)
RefuseItem ==
  /\ main.pc = "checking" /\ LockFree
  /\ main.item \in Packets \/ ~Admissible(main.item)
  /\ Finish(main.item, "refused", main.turn)
  /\ main' = [main EXCEPT !.pc = "current", !.item = None]
  /\ UNCHANGED <<turnOf, revision, gaveUp, wire, queue, host, session, current, reader, begun>>

(* resolve_observation_control: an applied control is the next revision. *)
Recordable(r) == session.registered /\ (r \in Controls => revision[r] = session.revision + 1)
Advanced(r) == [session EXCEPT !.revision = IF r \in Controls THEN revision[r] ELSE @]

Record ==
  /\ main.pc = "recording" /\ Recordable(main.item)
  /\ session' = Advanced(main.item)
  /\ begun' = begun \cup {main.item}
  /\ Finish(main.item, "ok", main.turn)
  /\ main' = [main EXCEPT !.pc = "current", !.item = None]
  /\ UNCHANGED <<turnOf, revision, gaveUp, wire, queue, host, current, reader>>

(* condition_live_packet polls the retirement before it touches the brain. *)
Live == main.turn \in current /\ ~session.retired

Condition ==
  /\ main.pc = "integrating" /\ Live
  /\ begun' = begun \cup {main.item}
  /\ Go("conditioned")
  /\ UNCHANGED <<traffic, host, session, current, inbox, reader>>

Consume ==
  /\ main.pc = "conditioned" /\ Live
  /\ answer[main.item] = None
  /\ answer' = [answer EXCEPT ![main.item] = "ok"]
  /\ place' = [place EXCEPT ![main.item] = "over"]
  /\ lease' = [lease EXCEPT ![main.item] = @ - 1]
  /\ inbox' = [inbox EXCEPT ![main.turn].bytes = @ - 1, ![main.turn].bound = @ \cup {main.item}]
  /\ main' = [main EXCEPT !.pc = "current", !.item = None]
  /\ UNCHANGED <<turnOf, revision, gaveUp, wire, queue, host, session, current, reader, begun>>

(* Any failure once the integration is said to have started: the effects are  *)
(* unknown, the inbox is closed and the reply aborted.                        *)
FailIntegration ==
  /\ \/ main.pc = "recording" /\ ~Recordable(main.item)
     \/ main.pc \in {"integrating", "conditioned"}
  /\ Finish(main.item, "unknown", main.turn)
  /\ main' = [main EXCEPT !.pc = "closing", !.item = None]
  /\ UNCHANGED <<turnOf, revision, gaveUp, wire, queue, host, session, current, reader, begun>>

(* The reply is over: close_live_sensory unregisters the inbox and closes it. *)
EndTurn ==
  /\ main.pc = "generating"
  /\ inbox' = [inbox EXCEPT ![main.turn].registered = FALSE]
  /\ Go("closing")
  /\ UNCHANGED <<traffic, host, session, current, reader, begun>>

(* Variant for mutation: what is queued is dropped with the inbox. *)
CloseInboxSilently ==
  /\ main.pc = "closing"
  /\ inbox' = [inbox EXCEPT ![main.turn].open = FALSE, ![main.turn].pending = <<>>]
  /\ Go("rejecting")
  /\ UNCHANGED <<traffic, host, session, current, reader, begun>>

CloseInbox ==
  /\ main.pc = "closing"
  /\ LET t == main.turn
     IN /\ inbox' = [inbox EXCEPT ![t].open = FALSE, ![t].pending = <<>>]
        /\ main' = [main EXCEPT !.pc = "rejecting", !.rejected = inbox[t].pending]
        /\ place' = [r \in Requests |-> IF r \in Range(inbox[t].pending) THEN "rejected" ELSE place[r]]
  /\ UNCHANGED <<turnOf, revision, answer, lease, gaveUp, wire, queue, host, session, current,
                 reader, begun>>

RejectClosed ==
  /\ main.pc = "rejecting" /\ main.rejected # <<>>
  /\ Finish(Head(main.rejected), "retired", main.turn)
  /\ main' = [main EXCEPT !.rejected = Tail(@)]
  /\ UNCHANGED <<turnOf, revision, gaveUp, wire, queue, host, session, current, reader, begun>>

ReleaseBindings ==
  /\ main.pc = "rejecting" /\ main.rejected = <<>>
  /\ inbox' = [inbox EXCEPT ![main.turn].bound = {}]
  /\ Go("leaving")
  /\ UNCHANGED <<traffic, host, session, current, reader, begun>>

(* The reply is answered, whether or not it ever had an inbox. *)
Leave ==
  /\ main.pc \in {"starting", "leaving"} /\ LockFree
  /\ inbox' = [inbox EXCEPT ![main.turn].registered = FALSE]
  /\ current' = current \ {main.turn}
  /\ Go("idle")
  /\ UNCHANGED <<traffic, host, session, reader, begun>>

(* A request of the ordinary queue, handled between two replies. *)
Granted(r) == CASE r \in Packets -> /\ session.registered /\ ~session.retired
                                    /\ revision[r] = session.revision
                [] r \in Controls \cup {"cancel"} -> Recordable(r)
                [] OTHER -> session.registered

Ordinary ==
  /\ main.pc = "idle" /\ Drained /\ queue # <<>>
  /\ queue' = Tail(queue)
  /\ LET r == Head(queue)
     IN /\ place' = [place EXCEPT ![r] = "over"]
        /\ \/ /\ Granted(r)
              /\ answer' = [answer EXCEPT ![r] = "ok"]
              /\ session' = [Advanced(r) EXCEPT !.retired = @ \/ r \in {"retire", "stop"},
                                                !.registered = r # "stop"]
              /\ begun' = begun \cup {r}
           \/ /\ ~Granted(r) \/ r \in Packets
              /\ answer' = [answer EXCEPT ![r] = "refused"]
              /\ UNCHANGED <<session, begun>>
  /\ UNCHANGED <<turnOf, revision, lease, gaveUp, wire, host, current, inbox, reader, main>>
-----------------------------------------------------------------------------
Application == \/ \E p \in Packets : SendPacket(p)
               \/ \E c \in Controls : SendControl(c)
               \/ Retire \/ CancelControls \/ Stop
               \/ \E r \in Requests : GiveUp(r)

ReaderThread == Look \/ Offer \/ ReleaseReceipt \/ RetireSession \/ RejectRetired \/ AnswerRetirement

Drain == Boundary \/ Take \/ Integrate \/ RefuseItem \/ Record \/ Condition \/ Consume
         \/ FailIntegration

Turn == OpenInbox \/ EndTurn \/ CloseInbox \/ RejectClosed \/ ReleaseBindings \/ Leave

Next == Application \/ ReaderThread \/ Drain \/ Turn \/ StartTurn \/ TurnRetires \/ SignalInLock
        \/ Ordinary

Spec == Init /\ [][Next]_vars

(* Both threads run, and a reply ends however often it stops at a boundary:   *)
(* its tokens are bounded.  The application owes nothing.                     *)
Fairness == /\ WF_vars(ReaderThread)
            /\ WF_vars(Drain) /\ WF_vars(Turn) /\ SF_vars(EndTurn)
            /\ WF_vars(Ordinary)

FairSpec == Spec /\ Fairness
-----------------------------------------------------------------------------
(* What is rejected was not used: a request answered as refused or retired    *)
(* never touches the brain, neither before nor after the answer, although     *)
(* the drain, the retirement of the session and the close of the inbox race   *)
(* for it (live_sensory_queue.py:118-168, worker_live_sensory.py:93-190).    *)
HonestAnswer == \A r \in Requests : answer[r] \in {"refused", "retired"} => r \notin begun

(* Retirement releases queued input before anybody waits for it: once it is   *)
(* acknowledged, no packet that was sent past a reply can be taken any more.   *)
(* One may be in the hand of the drain or about to be rejected, and what       *)
(* waited behind the reply still waits (worker_live_sensory.py:72-79).         *)
StopEmptiesQueue == answer["retire"] = "ok" =>
  \A p \in Packets : place[p] \notin {"wire", "reader", "pending"}

(* The RAM receipt and the session's bytes follow a request as long as its    *)
(* payload is kept, whichever of the two threads that share it releases last,   *)
(* and not longer (stdio_request_admission.py:103-124, worker_transport.py:136, *)
(* live_sensory_queue.py:124-136).                                             *)
LeaseFollowsRequest ==
  /\ \A r \in Requests :
       LET shared == IF reader.pc = "releasing" /\ reader.item = r THEN 1 ELSE 0
       IN  /\ place[r] \in {"reader", "pending", "taken", "rejected"} => lease[r] = 1 + shared
           /\ place[r] = "over" => lease[r] = shared
  /\ \A t \in Turns :
       /\ inbox[t].bytes = Cardinality({p \in Packets : /\ turnOf[p] = t
                                         /\ place[p] \in {"pending", "taken", "rejected"}})
       /\ main.pc = "idle" => inbox[t].bound = {}

(* Every request is answered in the end: no path between the two threads      *)
(* loses one, whatever retires the session or the turn meanwhile              *)
(* (live_sensory_queue.py:124-168).  The one exception is a signal that finds *)
(* the main thread in its lock, after which nothing moves.  Each request is    *)
(* sent once, so that the last answer leaves none outstanding for ever.        *)
AllAnswered == \A r \in Requests : place[r] # "unsent" => answer[r] # None
EveryRequestAnswered == <>[]AllAnswered \/ <>(main.pc = "stuck")

(* The same without the exception.  The code does not keep it: the handler of  *)
(* SIGUSR1 takes the lock its thread holds (worker_live_sensory.py:21,         *)
(* worker.py:565).                                                            *)
NoRequestStranded == <>[]AllAnswered

(* docs/v2/live-sensory-handoff.md:44: a refusal before the integration is  *)
(* reported as not started.  The code reports every refusal of a control, and  *)
(* a retirement during decoding, as unknown effects and aborts the reply.      *)
RefusalIsNotStarted == \A r \in Requests : answer[r] = "unknown" => r \in begun

(* With nothing outstanding, application and worker agree on the revision the  *)
(* next packet must carry.  A control that was refused leaves them apart for   *)
(* the rest of the session.                                                    *)
RevisionsAgree == host.state = "active" /\ (\A r \in Requests : ~InFlight(r))
                    => host.revision = session.revision
=============================================================================
