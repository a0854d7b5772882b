------------------------------- MODULE CuaKhauSo -------------------------------
(***************************************************************************)
(* What a synchronisation with the Cua Khau So site does to an              *)
(* organisation's declarations and trips: the work inside runAccountSync    *)
(* (syncOrganizationAccount, reconcileCompletedDeclarations) and the        *)
(* synchronisation of one declaration a user asks for (syncDeclaration).    *)
(*                                                                         *)
(* A flow is one such call.  CuaKhauSoRuns models the lock, the run row and *)
(* the account around a run; runs of two processes, of one process, and the *)
(* user's calls, which take no lock, can overlap there, so flows overlap    *)
(* freely here.  A run fetches declarations five at a time; they share      *)
(* nothing, so it takes them one after another, in any order.  createEvent  *)
(* is one step here; its own races are those of TripEvents.                 *)
(***************************************************************************)
EXTENDS CuaKhauSoMapper, TripTransitions

CONSTANTS
    Declarations,  \* declarations, and the trips that have their numbers as codes
    OtherTrips,    \* trips that have codes of their own
    Runs,          \* flows that synchronise the account
    Users,         \* flows that synchronise one declaration for a user
    Marks,         \* marks the authorities set
    Before,        \* the marks each of them waits for
    UserTypes,     \* types of the events users add to a trip themselves
    MaxIncidents   \* bound: users' events, calls that fail and flows that die

ASSUME CuaKhauSoAssumption ==
    /\ Runs \intersect Users = {}
    /\ "NONE" \notin Declarations \union OtherTrips
    /\ Marks \subseteq AllMarks /\ Before \in [Marks -> SUBSET Marks]
    /\ MaxIncidents \in Nat

VARIABLES
    present,   \* declarations the source still has
    marks,     \* the detail of each on the source
    aged,      \* created more than defaultRecentWindowDays ago
    mirror,    \* CustomsDeclaration.status, "NONE" before the first row
    trip,      \* Trip.currentStatus, "NONE" before the trip is made
    link,      \* Trip.customsDeclarationId
    recorded,  \* for each key of this integration, the trip that has its event
    linkedTo,  \* history: the declarations a trip has been linked to
    byUser,    \* history: trips a user's event completed or cancelled
    pc,        \* where each flow is
    phase,     \* "details" or "reconcile" of a run, "user" of a user's flow
    todo,      \* declarations the phase has left
    doc,       \* the declaration in hand
    detail,    \* its detail as fetched
    asked,     \* the trip a user asks for (tripId of syncDeclaration)
    linked,    \* the trip the base transaction linked it to
    base,      \* that trip's status there
    left,      \* its event candidates that are left: places in CandidateOrder
    incidents

source == <<present, marks, aged>>
trips == <<trip, link, recorded, linkedTo, byUser>>
mirrored == <<mirror, trips>>
item == <<doc, detail, asked, linked, base, left>>
flows == <<pc, phase, todo, item>>
vars == <<source, mirrored, flows, incidents>>

Flows == Runs \union Users
Terminal == {"COMPLETED", "CANCELLED"}
None == "NONE"

\* tripCode is unique in an organisation, so the trip that has a declaration's number
\* as its code goes by that declaration.
Trips == Declarations \union OtherTrips

\* The types of the events a synchronisation may record.
CandidateTypes == {CandidateOrder[i] : i \in DOMAIN CandidateOrder}

TypeOK ==
    /\ present \subseteq Declarations /\ aged \subseteq Declarations
    /\ marks \in [Declarations -> Details]
    /\ mirror \in [Declarations -> {None, "SUBMITTED", "APPROVED", "CANCELLED"}]
    /\ trip \in [Trips -> TripStatuses \union {None}]
    /\ link \in [Trips -> Declarations \union {None}]
    /\ recorded \in [Declarations -> [CandidateTypes -> Trips \union {None}]]
    /\ linkedTo \in [Trips -> SUBSET Declarations]
    /\ byUser \subseteq Trips
    /\ pc \in [Flows -> {"idle", "select", "batch", "base", "events", "remove",
                         "cancelTrips"}]
    /\ phase \in [Flows -> {"details", "reconcile", "user"}]
    /\ todo \in [Flows -> SUBSET Declarations]
    /\ doc \in [Flows -> Declarations \union {None}]
    /\ detail \in [Flows -> Details]
    /\ asked \in [Flows -> Trips \union {None}]
    /\ linked \in [Flows -> Trips \union {None}]
    /\ base \in [Flows -> TripStatuses \union {None}]
    /\ left \in [Flows -> SUBSET (1..9)]
    /\ incidents \in 0..MaxIncidents

Init ==
    /\ present = {} /\ aged = {}
    /\ marks = [d \in Declarations |-> NoMarks]
    /\ mirror = [d \in Declarations |-> None]
    /\ trip = [t \in Trips |-> None]
    /\ link = [t \in Trips |-> None]
    /\ recorded = [d \in Declarations |-> [type \in CandidateTypes |-> None]]
    /\ linkedTo = [t \in Trips |-> {}]
    /\ byUser = {}
    /\ pc = [f \in Flows |-> "idle"]
    /\ phase = [f \in Flows |-> IF f \in Users THEN "user" ELSE "details"]
    /\ todo = [f \in Flows |-> {}]
    /\ doc = [f \in Flows |-> None]
    /\ detail = [f \in Flows |-> NoMarks]
    /\ asked = [f \in Flows |-> None]
    /\ linked = [f \in Flows |-> None]
    /\ base = [f \in Flows |-> None]
    /\ left = [f \in Flows |-> {}]
    /\ incidents = 0

-----------------------------------------------------------------------------
(***************************************************************************)
(* The source and the users.                                               *)
(***************************************************************************)

Incident == incidents < MaxIncidents /\ incidents' = incidents + 1

\* A declaration is made, an authority sets a mark, the source deletes it.
Declare(d) ==
    /\ d \notin present /\ marks[d] = NoMarks /\ mirror[d] = None
    /\ present' = present \union {d}
    /\ UNCHANGED <<marks, aged, mirrored, flows, incidents>>

\* The time of the next mark: later than those set.
NextTime(shown) == Cardinality({m \in AllMarks : Has(shown, m)}) + 1

Mark(d, m) ==
    /\ d \in present /\ ~ Has(marks[d], m) /\ HasAll(marks[d], Before[m])
    /\ marks' = [marks EXCEPT ![d][m] = NextTime(marks[d])]
    /\ UNCHANGED <<present, aged, mirrored, flows, incidents>>

Delete(d) ==
    /\ d \in present /\ mirror[d] # None
    /\ present' = present \ {d}
    /\ UNCHANGED <<marks, aged, mirrored, flows, incidents>>

Age(d) ==
    /\ d \in present \ aged
    /\ aged' = aged \union {d}
    /\ UNCHANGED <<present, marks, mirrored, flows, incidents>>

\* createTrip: a user makes a trip, with a declaration's number as its code or
\* another, linked to a mirrored declaration or to none.
createTrip(t, d) ==
    /\ trip[t] = None /\ (d # None => mirror[d] # None)
    /\ trip' = [trip EXCEPT ![t] = "PLANNED"]
    /\ link' = [link EXCEPT ![t] = d]
    /\ linkedTo' = [linkedTo EXCEPT ![t] = @ \union ({d} \ {None})]
    /\ UNCHANGED <<source, mirror, recorded, byUser, flows, incidents>>

\* createEvent called by a user or the driver's app.
UserEvent(t, type) ==
    /\ Incident
    /\ trip[t] # None /\ CanApplyEvent(trip[t], type)
    /\ trip' = [trip EXCEPT ![t] = StatusAfter(@, type)]
    /\ byUser' = IF StatusAfter(trip[t], type) \in Terminal
                   THEN byUser \union {t} ELSE byUser
    /\ UNCHANGED <<source, mirror, link, recorded, linkedTo, flows>>

-----------------------------------------------------------------------------
(***************************************************************************)
(* syncOrganizationAccount: scan, select, fetch.                           *)
(***************************************************************************)

Goes(f, place) == pc' = [pc EXCEPT ![f] = place]

Finished(d) == isBusinessCompleted(marks[d])

\* What the pages of a list can hold of its declarations: all that are recent,
\* and old ones, which are scanned as long as they share a page with a recent
\* one (shouldStopScanningByFromDate).  CUA_KHAU_SO_POLL_MAX_PAGES pages of 50
\* declarations are taken to reach the end of the window.
Pages(list) == {S \in SUBSET list : list \ aged \subseteq S}

\* markSourceListScanned: a row for every declaration on the pages, whatever
\* its age, with the status of the list it was found in.
Scanned(S, status) ==
    mirror' = [d \in Declarations |-> IF d \in S THEN status ELSE mirror[d]]

\* The run is logged in.  Phase 1, the list of unfinished declarations.
ScanOpen(f) ==
    /\ f \in Runs /\ pc[f] = "idle"
    /\ \E S \in Pages({d \in present : ~ Finished(d)}) :
          /\ Scanned(S, "SUBMITTED")
          /\ todo' = [todo EXCEPT ![f] = S \ aged]
    /\ Goes(f, "select")
    /\ UNCHANGED <<source, trips, phase, item, incidents>>

LinkedTrips(d) == {t \in Trips : link[t] = d}

Linked(d) == \E t \in LinkedTrips(d) : trip[t] # "CANCELLED"

\* Mutant: finished declarations are not selected.
ScanFinishedOpenOnly(f) ==
    /\ pc[f] = "select"
    /\ \E S \in Pages({d \in present : Finished(d)}) : Scanned(S, "APPROVED")
    /\ Goes(f, "batch")
    /\ UNCHANGED <<source, trips, phase, todo, item, incidents>>

\* Phase 1, the list of finished ones, and phase 2: of the declarations in the
\* window, the unfinished ones and those linked to a trip that is not CANCELLED.
ScanFinished(f) ==
    /\ pc[f] = "select"
    /\ \E S \in Pages({d \in present : Finished(d)}) :
          /\ Scanned(S, "APPROVED")
          /\ todo' = [todo EXCEPT ![f] = @ \union {d \in S \ aged : Linked(d)}]
    /\ Goes(f, "batch")
    /\ UNCHANGED <<source, trips, phase, item, incidents>>

\* The flow is through with the declaration in hand; a user's call with it.
DoneWith(f) ==
    /\ Goes(f, IF phase[f] = "user" THEN "idle" ELSE "batch")
    /\ todo' = [todo EXCEPT ![f] = @ \ {doc[f]}]
    /\ doc' = [doc EXCEPT ![f] = None]
    /\ detail' = [detail EXCEPT ![f] = NoMarks]
    /\ asked' = [asked EXCEPT ![f] = None]
    /\ linked' = [linked EXCEPT ![f] = None]
    /\ base' = [base EXCEPT ![f] = None]
    /\ left' = [left EXCEPT ![f] = {}]
    /\ UNCHANGED phase

\* Phase 3 and the reconciliation: getDeclarationDetail answers.
Fetch(f, d) ==
    /\ pc[f] = "batch" /\ d \in todo[f]
    /\ d \in present
    /\ doc' = [doc EXCEPT ![f] = d]
    /\ \E e \in EnrichedDetails(marks[d]) : detail' = [detail EXCEPT ![f] = e]
    /\ Goes(f, "base")
    /\ UNCHANGED <<source, mirrored, phase, todo, asked, linked, base, left, incidents>>

\* No detail of d: phase 3 counts a failure, the reconciliation takes the
\* declaration for removed.
Missed(f, d) ==
    /\ pc[f] = "batch" /\ d \in todo[f]
    /\ IF phase[f] = "details"
         THEN todo' = [todo EXCEPT ![f] = @ \ {d}] /\ UNCHANGED <<pc, doc>>
         ELSE /\ doc' = [doc EXCEPT ![f] = d]
              /\ Goes(f, "remove")
              /\ UNCHANGED todo
    /\ UNCHANGED <<source, mirrored, phase, detail, asked, linked, base, left>>

\* The source answers without data.
FetchFindsNothing(f, d) == d \notin present /\ Missed(f, d) /\ UNCHANGED incidents

\* Timeouts, HTTP errors and an expired session (BadGatewayException or
\* UnauthorizedException) end the same way, though the declaration may be there.
FetchFails(f, d) ==
    /\ Incident
    /\ Missed(f, d)

-----------------------------------------------------------------------------
(***************************************************************************)
(* syncDeclarationDetail.                                                  *)
(***************************************************************************)

\* syncDeclaration: a user has one declaration fetched, for the trip t if it is one.
syncDeclaration(f, d, t) ==
    /\ pc[f] = "idle" /\ d \in present
    /\ \E e \in EnrichedDetails(marks[d]) : detail' = [detail EXCEPT ![f] = e]
    /\ doc' = [doc EXCEPT ![f] = d]
    /\ asked' = [asked EXCEPT ![f] = t]
    /\ Goes(f, "base")
    /\ UNCHANGED <<source, mirrored, phase, todo, linked, base, left, incidents>>

\* resolveLinkedTrip: the trip asked for, one that is linked to the declaration (any,
\* of several), or the one with its number as its code, which is made if it is not
\* there.
resolveLinkedTrip(f) ==
    CASE asked[f] # None -> {asked[f]}
      [] asked[f] = None /\ LinkedTrips(doc[f]) # {} -> LinkedTrips(doc[f])
      [] OTHER -> {doc[f]}

\* The base transaction: the mirror row of the detail and the trip, whatever its status
\* is and whatever it was linked to before.
Base(f) ==
    /\ pc[f] = "base"
    /\ \E t \in resolveLinkedTrip(f) :
          /\ t = asked[f] => trip[t] # None
          /\ trip' = [trip EXCEPT ![t] = IF @ = None THEN "PLANNED" ELSE @]
          /\ link' = [link EXCEPT ![t] = doc[f]]
          /\ linkedTo' = [linkedTo EXCEPT ![t] = @ \union {doc[f]}]
          /\ linked' = [linked EXCEPT ![f] = t]
          /\ base' = [base EXCEPT ![f] = trip'[t]]
    /\ mirror' = [mirror EXCEPT ![doc[f]] = mapDeclarationStatus(detail[f])]
    /\ left' = [left EXCEPT ![f] = buildEventCandidates(detail[f])]
    /\ Goes(f, "events")
    /\ UNCHANGED <<source, recorded, byUser, phase, todo, doc, detail, asked, incidents>>

\* The user asked for a trip that is not there: a BadRequest undoes the transaction.
BaseRefuses(f) ==
    /\ pc[f] = "base" /\ asked[f] # None /\ trip[asked[f]] = None
    /\ DoneWith(f)
    /\ UNCHANGED <<source, mirrored, incidents>>

\* What the base transaction or createEvent throws, and is not a BadRequest: phase 3
\* counts a failure, a user is told, and the reconciliation takes it for a removal of
\* the declaration.
Throws(f) ==
    IF phase[f] = "reconcile" THEN Goes(f, "remove") /\ UNCHANGED <<phase, todo, item>>
    ELSE DoneWith(f)

\* The place of the candidate createEvent is called for next.
IsNext(f, i) == i \in left[f] /\ ComesFirst(detail[f], i, left[f])

\* One candidate: createEvent returns the event its key already has, records it,
\* or refuses it with a BadRequest, which is skipped.
Record(f) ==
    /\ pc[f] = "events"
    /\ \E i \in left[f] :
          LET t == linked[f]
              type == CandidateOrder[i]
          IN  /\ IsNext(f, i)
              /\ recorded[doc[f]][type] \in {None, t}
              /\ IF recorded[doc[f]][type] = None /\ CanApplyEvent(trip[t], type)
                   THEN /\ recorded' = [recorded EXCEPT ![doc[f]][type] = t]
                        /\ trip' = [trip EXCEPT ![t] = StatusAfter(@, type)]
                   ELSE UNCHANGED <<recorded, trip>>
              /\ left' = [left EXCEPT ![f] = @ \ {i}]
    /\ UNCHANGED <<source, mirror, link, linkedTo, byUser, pc, phase, todo, doc, detail,
                   asked, linked, base, incidents>>

\* The key has its event on another trip: createEvent throws a ConflictException.
KeyTaken(f) ==
    /\ pc[f] = "events"
    /\ \E i \in left[f] :
          /\ IsNext(f, i)
          /\ recorded[doc[f]][CandidateOrder[i]] \notin {None, linked[f]}
    /\ Throws(f)
    /\ UNCHANGED <<source, mirrored, incidents>>

\* Mutants: a CANCELLED trip is completed too; a trip is reopened whatever its
\* declaration says.
StatusRevivesCancelled(f) ==
    IF mapDeclarationStatus(detail[f]) = "APPROVED" THEN "COMPLETED"
    ELSE IF base[f] = "COMPLETED" /\ trip[linked[f]] = "COMPLETED" THEN "IN_PROGRESS"
    ELSE trip[linked[f]]

StatusReopensAnyway(f) ==
    IF base[f] = "COMPLETED" /\ trip[linked[f]] = "COMPLETED" THEN "IN_PROGRESS"
    ELSE IF mapDeclarationStatus(detail[f]) = "APPROVED"
            /\ trip[linked[f]] \notin Terminal THEN "COMPLETED"
    ELSE trip[linked[f]]

\* markTripCompletedFromDeclaration and reopenTripFromDeclaration: the trip's
\* status is written whatever allowedTransitions says.  It is reopened if it
\* was COMPLETED in the base transaction and still is.
StatusFromDeclaration(f) ==
    LET status == trip[linked[f]]
        approved == mapDeclarationStatus(detail[f]) = "APPROVED"
    IN  IF approved /\ status \notin Terminal THEN "COMPLETED"
        ELSE IF ~ approved /\ base[f] = "COMPLETED" /\ status = "COMPLETED"
          THEN "IN_PROGRESS"
        ELSE status

FinishDetail(f) ==
    /\ pc[f] = "events" /\ left[f] = {}
    /\ trip' = [trip EXCEPT ![linked[f]] = StatusFromDeclaration(f)]
    /\ DoneWith(f)
    /\ UNCHANGED <<source, mirror, link, recorded, linkedTo, byUser, incidents>>

-----------------------------------------------------------------------------
(***************************************************************************)
(* reconcileCompletedDeclarations.                                         *)
(***************************************************************************)

\* The declarations whose mirror is neither APPROVED nor CANCELLED and that are linked
\* to a trip that is not CANCELLED are fetched once more.
StartReconciling(f) ==
    /\ pc[f] = "batch" /\ todo[f] = {} /\ phase[f] = "details"
    /\ phase' = [phase EXCEPT ![f] = "reconcile"]
    /\ todo' = [todo EXCEPT ![f] =
                  {d \in Declarations : mirror[d] = "SUBMITTED" /\ Linked(d)}]
    /\ UNCHANGED <<source, mirrored, pc, item, incidents>>

\* Mutant: the mirror gets the label of the source for a status.
RemoveMirrorLabelled(f) ==
    /\ pc[f] = "remove"
    /\ mirror' = [mirror EXCEPT ![doc[f]] = "REMOVED"]
    /\ Goes(f, "cancelTrips")
    /\ UNCHANGED <<source, trips, phase, todo, item, incidents>>

\* markDeclarationRemovedFromSource, its first statement.
RemoveMirror(f) ==
    /\ pc[f] = "remove"
    /\ mirror' = [mirror EXCEPT ![doc[f]] = "CANCELLED"]
    /\ Goes(f, "cancelTrips")
    /\ UNCHANGED <<source, trips, phase, todo, item, incidents>>

\* What follows it: the linked trips that have not ended are cancelled.
CancelTrips(f) ==
    /\ pc[f] = "cancelTrips"
    /\ trip' = [t \in Trips |-> IF t \in LinkedTrips(doc[f]) /\ trip[t] \notin Terminal
                                  THEN "CANCELLED" ELSE trip[t]]
    /\ DoneWith(f)
    /\ UNCHANGED <<source, mirror, link, recorded, linkedTo, byUser, incidents>>

EndRun(f) ==
    /\ pc[f] = "batch" /\ todo[f] = {} /\ phase[f] = "reconcile"
    /\ Goes(f, "idle")
    /\ phase' = [phase EXCEPT ![f] = "details"]
    /\ UNCHANGED <<source, mirrored, todo, item, incidents>>

\* A call to the database fails.  A failing removal is counted, or tried once more if
\* it was the first try that failed.
CallFails(f) ==
    /\ Incident
    /\ \/ pc[f] \in {"base", "events"} /\ Throws(f)
       \/ /\ pc[f] \in {"remove", "cancelTrips"} /\ phase[f] = "reconcile"
          /\ Goes(f, "remove") /\ UNCHANGED <<phase, todo, item>>
       \/ pc[f] \in {"remove", "cancelTrips"} /\ DoneWith(f)
    /\ UNCHANGED <<source, mirrored>>

\* A list cannot be had, or the process dies: the flow is over.
Abort(f) ==
    /\ Incident
    /\ pc[f] # "idle"
    /\ Goes(f, "idle")
    /\ phase' = [phase EXCEPT ![f] = IF f \in Users THEN "user" ELSE "details"]
    /\ todo' = [todo EXCEPT ![f] = {}]
    /\ doc' = [doc EXCEPT ![f] = None]
    /\ detail' = [detail EXCEPT ![f] = NoMarks]
    /\ asked' = [asked EXCEPT ![f] = None]
    /\ linked' = [linked EXCEPT ![f] = None]
    /\ base' = [base EXCEPT ![f] = None]
    /\ left' = [left EXCEPT ![f] = {}]
    /\ UNCHANGED <<source, mirrored>>

-----------------------------------------------------------------------------

Step(f) ==
    \/ ScanOpen(f) \/ ScanFinished(f)
    \/ \E d \in Declarations : Fetch(f, d) \/ FetchFindsNothing(f, d)
    \/ Base(f) \/ BaseRefuses(f) \/ Record(f) \/ KeyTaken(f) \/ FinishDetail(f)
    \/ StartReconciling(f) \/ RemoveMirror(f) \/ CancelTrips(f) \/ EndRun(f)

Next ==
    \/ \E d \in Declarations :
          \/ Declare(d) \/ Delete(d) \/ Age(d)
          \/ \E m \in Marks : Mark(d, m)
          \/ \E f \in Users, t \in Trips \union {None} : syncDeclaration(f, d, t)
          \/ \E f \in Flows : FetchFails(f, d)
    \/ \E t \in Trips :
          \/ \E d \in Declarations \union {None} : createTrip(t, d)
          \/ \E type \in UserTypes : UserEvent(t, type)
    \/ \E f \in Flows : Step(f) \/ CallFails(f) \/ Abort(f)

\* A process that lives goes on with its runs, and runs begin again and again
\* (SyncsGoOn of CuaKhauSoRuns).  Users' flows may stop for ever.
Fairness == \A f \in Runs : WF_vars(Step(f))

Spec == Init /\ [][Next]_vars /\ Fairness

-----------------------------------------------------------------------------
(***************************************************************************)
(* Properties                                                              *)
(***************************************************************************)

\* Events this integration recorded are backed by the source: an entry at the
\* gate by both authorities, an exit by the end of the procedure, whichever
\* flow recorded it and however old its detail was; and the trip that has one is
\* or was linked to the declaration the event is of.
RecordedIsOnSource ==
    \A d \in Declarations :
        /\ recorded[d]["BORDER_GATE_ENTRY_CONFIRMED"] # "NONE" =>
               /\ Has(marks[d], "checkBorderGuard")
               /\ Has(marks[d], "confirmArrivalVehicleCustoms")
        /\ recorded[d]["BORDER_GATE_EXIT_CONFIRMED"] # "NONE" =>
               Has(marks[d], "confirmFinish")
        /\ \A type \in CandidateTypes, t \in Trips :
               recorded[d][type] = t => d \in linkedTo[t]

\* A trip is COMPLETED only if the source has finished a declaration the trip is or
\* was linked to, or a user said so, although a trip that has ended may be linked to a
\* declaration that is under way.
CompletedIsFounded ==
    \A t \in Trips :
        trip[t] = "COMPLETED" =>
            t \in byUser \/ \E d \in linkedTo[t] : Has(marks[d], "confirmFinish")

\* No synchronisation brings a CANCELLED trip back, though two of them write
\* trip statuses without asking allowedTransitions.
CancelledIsFinal ==
    [][\A t \in Trips : trip[t] = "CANCELLED" => trip'[t] = "CANCELLED"]_vars

\* A trip leaves COMPLETED only by a flow that has a detail without the end of the
\* procedure: if the trip's declaration is finished on the source, a flow that fetched
\* it before, or one that fetched another declaration the trip was linked to.
OnlyAStaleDetailReopens ==
    [][\A t \in Trips :
          trip[t] = "COMPLETED" /\ trip'[t] # "COMPLETED" =>
             \E f \in Flows :
                 /\ linked[f] = t /\ doc[f] \in linkedTo[t]
                 /\ ~ Has(detail[f], "confirmFinish")]_vars

\* The trip is the only one of its declaration, as its link and its events have it.
HasAlone(t, d) ==
    /\ LinkedTrips(d) = {t}
    /\ \A type \in CandidateTypes : recorded[d][type] \in {"NONE", t}

\* The source has finished the declaration, which is recent and has a trip of its own,
\* and the trip has not ended.
TripIsDue(d) ==
    /\ Finished(d) /\ d \in present \ aged
    /\ \E t \in Trips : HasAlone(t, d) /\ trip[t] \notin Terminal

\* The trip of a declaration the source has finished ends, whatever overlaps,
\* fails or dies on the way, unless the declaration leaves the source or the
\* window of seven days first, or is no longer this trip's alone.
FinishedTripsEnd == \A d \in Declarations : TripIsDue(d) ~> ~ TripIsDue(d)

\* What the audit log says of a trip the reconciliation cancels ("To khai khong
\* con ton tai tren Cua khau so"): a declaration of the trip is gone from the source.
CancelledOnlyIfGone ==
    \A t \in Trips :
        trip[t] = "CANCELLED" => t \in byUser \/ \E d \in linkedTo[t] : d \notin present
=============================================================================
