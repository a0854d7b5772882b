---------------------------- MODULE TripOperations ----------------------------
(***************************************************************************)
(* TripOperationsService and the reads built on it: how late a trip is, what *)
(* is exceptional about it, which events an operator is offered for it, and  *)
(* the trip list that the web application reads page by page while events    *)
(* arrive and time goes by.  Times are minutes.                              *)
(***************************************************************************)
EXTENDS TripTransitions, Integers, FiniteSets, FiniteSetsExt

CONSTANTS
    Trips,
    PlannedStart,    \* [Trips -> time or NoTime]
    PlannedArrival,  \* [Trips -> time or NoTime]
    Created,         \* [Trips -> Nat], the order of creation, no two alike
    Kinds,           \* the choices of event types each trip may get
    Filters,         \* what the lists that are read are restricted to
    PageSize,        \* the page size
    Tick, MaxTime    \* bounds: how time goes by, and when it ends

VARIABLES
    kinds,    \* the choice made
    clock,
    status,   \* Trip.currentStatus
    since,    \* Trip.currentStatusUpdatedAt
    latest,   \* the trip's latest event, [type, at]
    reader    \* the list one browser has loaded so far

vars == <<kinds, clock, status, since, latest, reader>>

NoTime == -1
NoTrip == "none"
NoFilter == [status |-> "none", exception |-> "none"]

exceptionFilters == {"ATTENTION", "DELAYED", "BLOCKED", "STALE", "INSPECTION", "WAITING_YARD"}

\* What the proofs suppose of the constants.  Rows are created one after the other.
OperationsAssumption ==
    /\ IsFiniteSet(Trips) /\ NoTrip \notin Trips
    /\ PlannedStart \in [Trips -> Nat \union {NoTime}]
    /\ PlannedArrival \in [Trips -> Nat \union {NoTime}]
    /\ Created \in [Trips -> Nat]
    /\ \A t, u \in Trips : Created[t] = Created[u] => t = u
    /\ Kinds \subseteq [Trips -> SUBSET EventTypes]
    /\ Filters \subseteq [status : TripStatuses \union {"ALL"},
                           exception : exceptionFilters \union {"ALL"}]
    /\ PageSize \in Nat \ {0}
    /\ Tick \in Nat /\ MaxTime \in Nat

terminalStatuses == {"COMPLETED", "CANCELLED"}
attentionStatuses == {"WAITING_YARD_ENTRY", "INSPECTION_REQUIRED", "BLOCKED", "DELAYED"}

-----------------------------------------------------------------------------
(* The state of a trip for the operators.                                  *)

statusDelayThresholdMinutes ==
    [IN_PROGRESS |-> 240, WAITING_YARD_ENTRY |-> 45, IN_YARD |-> 180,
     AT_BORDER_GATE |-> 120, CUSTOMS_PROCESSING |-> 180,
     INSPECTION_REQUIRED |-> 120, BLOCKED |-> 0, DELAYED |-> 0]

manualActionsByStatus ==
    [PLANNED |-> {"DEPARTED", "TRIP_CANCELLED"},
     IN_PROGRESS |->
        {"ARRIVED_BORDER_AREA", "WAITING_YARD_ENTRY", "BORDER_GATE_ENTRY_CONFIRMED",
         "DECLARATION_SUBMITTED", "DRIVER_NOTE_ADDED", "TRIP_CANCELLED"},
     WAITING_YARD_ENTRY |->
        {"YARD_ENTRY_CONFIRMED", "DRIVER_REPORTED_YARD_ENTRY", "DRIVER_NOTE_ADDED",
         "TRIP_CANCELLED"},
     IN_YARD |->
        {"YARD_EXIT_CONFIRMED", "DECLARATION_SUBMITTED", "DRIVER_NOTE_ADDED",
         "TRIP_CANCELLED"},
     AT_BORDER_GATE |->
        {"BORDER_GATE_ENTRY_CONFIRMED", "DECLARATION_SUBMITTED", "CUSTOMS_PROCESSING",
         "INSPECTION_REQUIRED", "BORDER_GATE_EXIT_CONFIRMED", "TRIP_COMPLETED",
         "DRIVER_NOTE_ADDED"},
     CUSTOMS_PROCESSING |->
        {"DECLARATION_APPROVED", "DECLARATION_REJECTED", "INSPECTION_REQUIRED",
         "INSPECTION_COMPLETED", "FEE_PAID", "BORDER_GATE_EXIT_CONFIRMED",
         "TRIP_COMPLETED", "DRIVER_NOTE_ADDED"},
     INSPECTION_REQUIRED |->
        {"INSPECTION_COMPLETED", "DECLARATION_APPROVED", "FEE_PAID",
         "BORDER_GATE_EXIT_CONFIRMED", "DRIVER_NOTE_ADDED", "TRIP_CANCELLED"},
     BLOCKED |-> {"DRIVER_NOTE_ADDED", "DECLARATION_APPROVED", "TRIP_CANCELLED"},
     DELAYED |->
        {"DRIVER_NOTE_ADDED", "ARRIVED_BORDER_AREA", "YARD_ENTRY_CONFIRMED",
         "YARD_EXIT_CONFIRMED", "BORDER_GATE_EXIT_CONFIRMED", "TRIP_CANCELLED"},
     COMPLETED |-> {}, CANCELLED |-> {}]

AtLeastZero(n) == IF n > 0 THEN n ELSE 0

\* calculateElapsedMinutes
Elapsed(from) == AtLeastZero(clock - from)

\* Mutant: delays that run on after the end of a trip.
ArrivalDelayTerminalToo(t) ==
    IF PlannedArrival[t] = NoTime THEN 0 ELSE Elapsed(PlannedArrival[t])

\* calculateDelayDetails
ArrivalDelay(t) ==
    IF status[t] \in terminalStatuses \/ PlannedArrival[t] = NoTime THEN 0
    ELSE Elapsed(PlannedArrival[t])

PlannedStartDelay(t) ==
    IF status[t] # "PLANNED" \/ PlannedStart[t] = NoTime THEN 0
    ELSE AtLeastZero(clock - PlannedStart[t] - 30)

StatusDelay(t) ==
    IF status[t] \notin DOMAIN statusDelayThresholdMinutes THEN 0
    ELSE AtLeastZero(Elapsed(since[t]) - statusDelayThresholdMinutes[status[t]])

DelayMinutes(t) ==
    Max({ArrivalDelay(t), PlannedStartDelay(t), StatusDelay(t)})

exceptionCodes(t) ==
    {code \in {"ARRIVAL_OVERDUE", "PLANNED_START_OVERDUE", "STATUS_STALE", "BLOCKED",
               "DELAYED_STATUS", "INSPECTION_REQUIRED", "WAITING_YARD"} :
        \/ code = "ARRIVAL_OVERDUE" /\ ArrivalDelay(t) > 0
        \/ code = "PLANNED_START_OVERDUE" /\ PlannedStartDelay(t) > 0
        \/ code = "STATUS_STALE" /\ StatusDelay(t) > 0
        \/ code = status[t]
        \/ code = "DELAYED_STATUS" /\ status[t] = "DELAYED"
        \/ code = "WAITING_YARD" /\ status[t] = "WAITING_YARD_ENTRY"}

priorityRank == [HIGH |-> 0, MEDIUM |-> 1, NORMAL |-> 2]

priority(t) ==
    IF \/ status[t] \in {"BLOCKED", "DELAYED"}
       \/ DelayMinutes(t) >= 120
       \/ "ARRIVAL_OVERDUE" \in exceptionCodes(t)
      THEN "HIGH"
    ELSE IF \/ DelayMinutes(t) > 0
            \/ status[t] \in {"WAITING_YARD_ENTRY", "INSPECTION_REQUIRED"}
            \/ exceptionCodes(t) # {}
      THEN "MEDIUM"
    ELSE "NORMAL"

Delayed(t) == DelayMinutes(t) >= 120 \/ "ARRIVAL_OVERDUE" \in exceptionCodes(t)

\* getNextAction: its code and the events it suggests.
NextAction(t) ==
    LET suggest(code, types) == [code |-> code, types |-> types]
        checkDelay ==
            suggest("CHECK_DELAY",
                    {"DRIVER_NOTE_ADDED", "ARRIVED_BORDER_AREA", "YARD_ENTRY_CONFIRMED"})
        throughGate == latest[t].type \in {"YARD_EXIT_CONFIRMED", "BORDER_GATE_ENTRY_CONFIRMED"}
    IN CASE status[t] = "BLOCKED" ->
                suggest("RESOLVE_BLOCKER",
                        {"DRIVER_NOTE_ADDED", "DECLARATION_APPROVED", "TRIP_CANCELLED"})
         [] status[t] # "BLOCKED" /\ Delayed(t) -> checkDelay
         [] OTHER ->
            [PLANNED |-> suggest("WAIT_DEPARTURE", {"DEPARTED"}),
             IN_PROGRESS |->
                suggest("CONFIRM_BORDER_ARRIVAL", {"ARRIVED_BORDER_AREA", "WAITING_YARD_ENTRY"}),
             WAITING_YARD_ENTRY |->
                suggest("CONFIRM_YARD_ENTRY",
                        {"YARD_ENTRY_CONFIRMED", "DRIVER_REPORTED_YARD_ENTRY"}),
             IN_YARD |-> suggest("CONFIRM_YARD_EXIT", {"YARD_EXIT_CONFIRMED"}),
             AT_BORDER_GATE |->
                IF throughGate
                  THEN suggest("SUBMIT_DECLARATION",
                               {"DECLARATION_SUBMITTED", "CUSTOMS_PROCESSING"})
                  ELSE suggest("REQUEST_YARD_ENTRY",
                               {"WAITING_YARD_ENTRY", "BORDER_GATE_ENTRY_CONFIRMED"}),
             CUSTOMS_PROCESSING |->
                IF latest[t].type = "INSPECTION_COMPLETED"
                  THEN suggest("PAY_FEE",
                               {"FEE_PAID", "BORDER_GATE_EXIT_CONFIRMED", "TRIP_COMPLETED"})
                  ELSE suggest("PROCESS_CUSTOMS",
                               {"DECLARATION_APPROVED", "DECLARATION_REJECTED",
                                "INSPECTION_REQUIRED"}),
             INSPECTION_REQUIRED |->
                suggest("COMPLETE_INSPECTION", {"INSPECTION_COMPLETED", "DECLARATION_APPROVED"}),
             DELAYED |-> checkDelay,
             COMPLETED |-> suggest("REVIEW_COMPLETED", {}),
             CANCELLED |-> suggest("REVIEW_CANCELLED", {})][status[t]]

\* getAvailableManualActions: the events the trip's page offers.
availableManualActions(t) == NextAction(t).types \union manualActionsByStatus[status[t]]

matchesExceptionFilter(t, exception) ==
    LET codes == exceptionCodes(t)
        stale == codes \intersect {"PLANNED_START_OVERDUE", "STATUS_STALE"} # {}
    IN CASE exception = "ATTENTION" ->
                priority(t) # "NORMAL" \/ status[t] \in attentionStatuses
         [] exception = "DELAYED" ->
                \/ DelayMinutes(t) > 0
                \/ stale
                \/ codes \intersect {"ARRIVAL_OVERDUE", "DELAYED_STATUS"} # {}
         [] exception = "BLOCKED" -> "BLOCKED" \in codes
         [] exception = "STALE" -> stale
         [] exception = "INSPECTION" -> "INSPECTION_REQUIRED" \in codes
         [] exception = "WAITING_YARD" -> "WAITING_YARD" \in codes

-----------------------------------------------------------------------------
(* Orders.                                                                 *)

LexBefore(a, b) ==
    \E i \in DOMAIN a : a[i] < b[i] /\ \A j \in 1 .. i - 1 : a[j] = b[j]

\* orderBy plannedStartAt desc, createdAt desc: the database puts trips without
\* a planned start first.
DatabaseKey(t) ==
    <<IF PlannedStart[t] = NoTime THEN 0 ELSE 1, -PlannedStart[t], -Created[t]>>

\* sortTripsForOperations: a missing time is the least, and trips that it does not
\* tell apart, whose planned starts are the same then, stay as the database has them.
OperationsKey(t) ==
    LET ended == status[t] \in terminalStatuses
    IN <<IF ended THEN 1 ELSE 0, -PlannedStart[t], IF ended THEN since[t] ELSE 0,
         priorityRank[priority(t)], -DelayMinutes(t), since[t], -Created[t]>>

\* A list is a linear order: the pairs of its trips of which the second does not come
\* before the first.
Sorted(S, key(_)) == {p \in S \X S : p[1] = p[2] \/ LexBefore(key(p[1]), key(p[2]))}

Listed(list) == {t \in Trips : <<t, t>> \in list}

Position(t, list) == Cardinality({u \in Trips : <<u, t>> \in list})

\* The rows that listTripsUncached's where clause lets through.  It restricts the list
\* by the trip's status, and by other columns that change as a status does and have the
\* same effect: a trip that no longer meets the filter leaves the list, one that comes
\* to meet it joins the list.
where(filter) == {t \in Trips : filter.status \in {"ALL", status[t]}}

\* Without an exception parameter the database cuts the page.
CutByDatabase(filter) == filter.exception = "ALL"

\* What pages are cut from: the rows as the database orders them, or the exceptions
\* among them in the operators' order.
Listing(filter) ==
    IF CutByDatabase(filter) THEN Sorted(where(filter), DatabaseKey)
    ELSE Sorted({t \in where(filter) : matchesExceptionFilter(t, filter.exception)},
                OperationsKey)

\* Mutant: a cursor that has left the list ends it.
StartIndexGoneIsEnd(filter, list, cursor) ==
    CASE cursor = NoTrip -> 0
      [] cursor \in Listed(list) -> Position(cursor, list)
      [] OTHER -> Cardinality(Listed(list))

\* The index after which the page starts.  Exceptions are cut after the cursor, and
\* from the top when it is not there (any more).  The database goes to where the
\* cursor's row is in its order and skips one row: the cursor's own, or the first that
\* follows if the filter does not let the cursor through any more.
StartIndex(filter, list, cursor) ==
    CASE cursor = NoTrip -> 0
      [] cursor \in Listed(list) -> Position(cursor, list)
      [] OTHER ->
         IF CutByDatabase(filter)
           THEN 1 + Cardinality({t \in Listed(list) :
                                    LexBefore(DatabaseKey(t), DatabaseKey(cursor))})
           ELSE 0

\* The trips of one answer of listTrips.
Page(filter, list, cursor) ==
    LET start == StartIndex(filter, list, cursor)
    IN {t \in Listed(list) : Position(t, list) \in start + 1 .. start + PageSize}

\* The trip that is shown last: a page comes in the operators' order, into which one
\* of database rows is brought after it was cut.
LastShown(trips, otherwise) ==
    IF trips = {} THEN otherwise
    ELSE LET order == Sorted(trips, OperationsKey)
         IN CHOOSE t \in trips : \A u \in trips : <<u, t>> \in order

-----------------------------------------------------------------------------

NoReader ==
    [filter |-> NoFilter, allTrips |-> {}, last |-> NoTrip, asked |-> NoTrip, end |-> "more",
     overtaken |-> FALSE, list |-> {}, stayed |-> {}, reordered |-> FALSE,
     joined |-> FALSE, lost |-> FALSE, inVain |-> FALSE]

\* createTrip has recorded TRIP_CREATED for each trip.
Init ==
    /\ kinds \in Kinds
    /\ clock = 0
    /\ status = [t \in Trips |-> "PLANNED"]
    /\ since = [t \in Trips |-> 0]
    /\ latest = [t \in Trips |-> [type |-> "TRIP_CREATED", at |-> 0]]
    /\ reader = NoReader

TimePasses ==
    /\ clock + Tick <= MaxTime
    /\ clock' = clock + Tick
    /\ UNCHANGED <<kinds, status, since, latest, reader>>

\* createEvent: an event is reported at once or a tick late; getLatestEvent takes
\* the one that occurred last, of two at one time the one recorded last.
createEvent(t, type, at) ==
    /\ type # "TRIP_CREATED"
    /\ CanApplyEvent(status[t], type)
    /\ status' = [status EXCEPT ![t] = StatusAfter(@, type)]
    /\ since' = IF Projects(type) THEN [since EXCEPT ![t] = at] ELSE since
    /\ latest' = IF at >= latest[t].at
                   THEN [latest EXCEPT ![t] = [type |-> type, at |-> at]]
                   ELSE latest
    /\ UNCHANGED <<kinds, clock, reader>>

Report ==
    \E t \in Trips : \E type \in kinds[t] : \E at \in {clock, clock - Tick} :
        at >= 0 /\ createEvent(t, type, at)

\* Two trips that both lists hold have changed places between them, or one that is
\* shown had left and is back.
Reordered(before, after, seen) ==
    \/ \E t, u \in Trips : t # u /\ <<t, u>> \in before /\ <<u, t>> \in after
    \/ ~ seen \intersect Listed(after) \subseteq Listed(before)

\* The first page arrives, and what was shown is dropped: when the list is opened,
\* and again when the synchronisation the page has started is over.  A later page
\* may be on its way; that it is overtaken is history, as are the listing a page
\* was cut from, the trips that were in each of them, whether two of them have
\* changed places, whether a trip has joined them and whether a cursor was not there
\* any more.
FirstPage(filter) ==
    LET list == Listing(filter)
        page == Page(filter, list, NoTrip)
    IN reader' =
        [NoReader EXCEPT !.filter = filter, !.allTrips = page,
                         !.last = LastShown(page, NoTrip),
                         !.asked = reader.asked, !.overtaken = reader.asked # NoTrip,
                         !.list = list, !.stayed = Listed(list)]

OpenList ==
    /\ reader.filter = NoFilter
    /\ \E filter \in Filters : FirstPage(filter)
    /\ UNCHANGED <<kinds, clock, status, since, latest>>

triggerCksSync ==
    /\ reader.filter # NoFilter
    /\ FirstPage(reader.filter)
    /\ UNCHANGED <<kinds, clock, status, since, latest>>

\* loadMore asks for what comes after the last trip shown; without any there is
\* nothing more to ask for.
loadMore ==
    /\ reader.filter # NoFilter /\ reader.end = "more" /\ reader.asked = NoTrip
    /\ reader' = IF reader.last = NoTrip THEN [reader EXCEPT !.end = "reached"]
                 ELSE [reader EXCEPT !.asked = reader.last]
    /\ UNCHANGED <<kinds, clock, status, since, latest>>

\* The page arrives: what is shown already is dropped, and fewer trips than asked
\* for are the last.  It was in vain (history) if it is full and all repeats.
MoreArrives ==
    /\ reader.asked # NoTrip
    /\ LET list == Listing(reader.filter)
           page == Page(reader.filter, list, reader.asked)
           seen == reader.allTrips
       IN reader' =
            [reader EXCEPT
               !.allTrips = seen \union page,
               !.last = LastShown(page \ seen, @),
               !.asked = NoTrip,
               !.end = IF Cardinality(page) < PageSize THEN "reached" ELSE @,
               !.list = list,
               !.stayed = @ \intersect Listed(list),
               !.reordered = @ \/ Reordered(reader.list, list, seen),
               !.joined = @ \/ ~ Listed(list) \subseteq Listed(reader.list),
               !.lost = @ \/ reader.asked \notin Listed(list),
               !.inVain = Cardinality(page) = PageSize /\ page \subseteq seen]
    /\ UNCHANGED <<kinds, clock, status, since, latest>>

\* The request fails: hasMore becomes false all the same.
MoreFails ==
    /\ reader.asked # NoTrip
    /\ reader' = [reader EXCEPT !.asked = NoTrip, !.end = "failed"]
    /\ UNCHANGED <<kinds, clock, status, since, latest>>

Next ==
    \/ TimePasses \/ Report
    \/ OpenList \/ triggerCksSync \/ loadMore \/ MoreArrives \/ MoreFails

Spec == Init /\ [][Next]_vars

-----------------------------------------------------------------------------

TypeOK ==
    /\ kinds \in Kinds
    /\ clock \in 0 .. MaxTime
    /\ status \in [Trips -> TripStatuses]
    /\ since \in [Trips -> 0 .. MaxTime]
    /\ latest \in [Trips -> [type : EventTypes, at : 0 .. MaxTime]]
    /\ reader.filter \in Filters \union {NoFilter}
    /\ reader.end \in {"more", "reached", "failed"}
    /\ reader.allTrips \union reader.stayed \subseteq Trips
    /\ {reader.last, reader.asked} \subseteq Trips \union {NoTrip}

\* The events the trip's page offers are events that createEvent accepts in the
\* trip's status, with two exceptions: a trip at the border gate that has not been
\* through the yard is offered WAITING_YARD_ENTRY, and a late trip is offered
\* YARD_ENTRY_CONFIRMED wherever it is (trip-operations.service.ts against
\* trip-state-transition.service.ts).
OfferedIsAccepted ==
    \A t \in Trips : \A type \in availableManualActions(t) :
        \/ CanApplyEvent(status[t], type)
        \/ /\ NextAction(t).code = "REQUEST_YARD_ENTRY"
           /\ type = "WAITING_YARD_ENTRY"
        \/ /\ NextAction(t).code = "CHECK_DELAY"
           /\ type = "YARD_ENTRY_CONFIRMED"
           /\ status[t] \in {"IN_PROGRESS", "CUSTOMS_PROCESSING", "INSPECTION_REQUIRED"}

\* A list read to its end shows every trip that belonged to it at every page,
\* although each page is sorted anew, trips come and go and time changes priorities,
\* unless two of its trips changed places in between, one that was shown has left and
\* come back, a page was overtaken by a new first page, or the cursor has left a list
\* that the database cuts, which then skips a trip that was never shown.  Exceptions
\* survive the last (trips.service.ts:444-482, trips-client.tsx:90-99, 224-228,
\* 252-276).
MissedOnlyByRace ==
    reader.end = "reached" =>
        \/ reader.stayed \subseteq reader.allTrips
        \/ reader.reordered \/ reader.overtaken
        \/ CutByDatabase(reader.filter) /\ reader.lost

\* A full page brings something new, or the same page would be asked for again and
\* again, unless a cursor has left the exceptions, which starts them over (a trip that
\* is new at their top is then the next cursor, and what comes after it is known), a
\* trip has joined a list of which the database cuts pages that are shown in another
\* order (the cursor need not be the last of its page there), or one of these races
\* has happened.
StuckOnlyIfCursorLeft ==
    reader.inVain =>
        \/ reader.lost \/ reader.reordered \/ reader.overtaken
        \/ CutByDatabase(reader.filter) /\ reader.joined

ListGoesOn == MissedOnlyByRace /\ StuckOnlyIfCursorLeft
=============================================================================
