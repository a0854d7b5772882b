----------------------------- MODULE TripEvents -----------------------------
(***************************************************************************)
(* The write side of TripsService: createTrip, createEvent (for a user, the *)
(* driver app, or the CuaKhauSo integration through createSystemEvent) and, *)
(* as another writer of the same table, one command of applyCommands.       *)
(*                                                                         *)
(* A request is one HTTP call or internal call; a client that heard no      *)
(* answer repeats it as another request with the same Idempotency-Key.      *)
(* Keys and trips are those of one organisation.  The transaction runs at   *)
(* READ COMMITTED: the status it validates against is read at its start,    *)
(* without a lock, and written at its end, without a condition.             *)
(***************************************************************************)
EXTENDS TripTransitions, Integers, Sequences, FiniteSets

CONSTANTS
    Trips,         \* trips
    Requests,      \* calls of createEvent
    Keys,          \* idempotency keys
    NoKey,         \* a call without one
    None,          \* the arguments of a call not made yet
    Types,         \* event types the calls use
    MaxAutomated,  \* bound: events inserted by applyCommands
    MaxFaults      \* bound: failed transactions and deaths of the process

ASSUME TripEventsAssumption ==
    /\ IsFiniteSet(Trips) /\ Trips # {}
    /\ IsFiniteSet(Requests) /\ {"applyCommands", "createTrip"} \intersect Requests = {}
    /\ NoKey \notin Keys
    /\ None \notin Trips \union Types
    /\ Types \subseteq EventTypes
    /\ MaxAutomated \in Nat
    /\ MaxFaults \in Nat

VARIABLES
    status,    \* Trip.currentStatus, "ABSENT" before createTrip
    timeline,  \* TripEvent rows in the order of their commits
    pc,        \* where each request is
    trip,      \* its tripId
    type,      \* its dto.eventType
    key,       \* its normalised Idempotency-Key
    read,      \* the status its transaction has read
    answer,    \* the event it created or was given: an index into timeline, or 0
    outcome,   \* what its caller was told
    applied,   \* applied[i]: how far applyCommands is with timeline[i], or how it ended
    emitted,   \* emitted[i]: TripDomainEvents emitted for timeline[i]
    faults     \* faults so far

arguments == <<trip, type, key>>
requests == <<pc, arguments, read, answer, outcome>>
vars == <<status, timeline, requests, applied, emitted, faults>>

\* The author of an event that is not a request's.
Automated == "applyCommands"
Authors == Requests \union {Automated, "createTrip"}
Rows == [trip : Trips, type : EventTypes, key : Keys \union {NoKey},
         isCorrection : BOOLEAN, by : Authors]
Outcomes == {"none", "ok", "BadRequest", "NotFound", "Conflict", "Error", "Lost"}
MaxRows == Cardinality(Trips) + Cardinality(Requests) + MaxAutomated

TypeOK ==
    /\ status \in [Trips -> TripStatuses \union {"ABSENT"}]
    /\ timeline \in Seq(Rows) /\ Len(timeline) <= MaxRows
    /\ pc \in [Requests -> {"new", "begin", "validated", "committed", "answered"}]
    /\ trip \in [Requests -> Trips \union {None}]
    /\ type \in [Requests -> Types \union {None}]
    /\ key \in [Requests -> Keys \union {NoKey}]
    /\ read \in [Requests -> TripStatuses \union {"ABSENT"}]
    /\ answer \in [Requests -> 0..MaxRows]
    /\ outcome \in [Requests -> Outcomes]
    /\ applied \in [1..MaxRows -> {"none", "committed", "announced", "lost"}]
    /\ emitted \in [1..MaxRows -> Nat]
    /\ faults \in 0..MaxFaults

Init ==
    /\ status = [t \in Trips |-> "ABSENT"]
    /\ timeline = << >>
    /\ pc = [q \in Requests |-> "new"]
    /\ trip = [q \in Requests |-> None]
    /\ type = [q \in Requests |-> None]
    /\ key = [q \in Requests |-> NoKey]
    /\ read = [q \in Requests |-> "ABSENT"]
    /\ answer = [q \in Requests |-> 0]
    /\ outcome = [q \in Requests |-> "none"]
    /\ applied = [i \in 1..MaxRows |-> "none"]
    /\ emitted = [i \in 1..MaxRows |-> 0]
    /\ faults = 0

-----------------------------------------------------------------------------

\* The unique index (organizationId, idempotencyKey); NULLs do not collide.
RowsWith(k) == {i \in DOMAIN timeline : k # NoKey /\ timeline[i].key = k}

Goes(q, p) == pc' = [pc EXCEPT ![q] = p]

\* The transaction is over: what it has read is forgotten.
Forget(q) == read' = [read EXCEPT ![q] = "ABSENT"]

Tell(q, o) ==
    /\ Goes(q, "answered")
    /\ outcome' = [outcome EXCEPT ![q] = o]
    /\ Forget(q)

Refuse(q, o) == Tell(q, o) /\ UNCHANGED answer

\* What a request gets whose key has been used: that event, if it is its trip's,
\* whatever its type.
AnswerExisting(q, t, i) ==
    IF timeline[i].trip = t
      THEN /\ Tell(q, "ok")
           /\ answer' = [answer EXCEPT ![q] = i]
      ELSE Refuse(q, "Conflict")

\* Mutant: a trip code that is taken is not refused.
CreateTripAgain(t) ==
    /\ status' = [status EXCEPT ![t] = "PLANNED"]
    /\ timeline' = Append(timeline, [trip |-> t, type |-> "TRIP_CREATED",
                                     key |-> NoKey, isCorrection |-> FALSE,
                                     by |-> "createTrip"])
    /\ UNCHANGED <<requests, applied, emitted, faults>>

\* createTrip: the trip and its TRIP_CREATED event in one transaction; no
\* domain event.  Its transaction's failures leave nothing behind.
CreateTrip(t) ==
    /\ status[t] = "ABSENT"
    /\ status' = [status EXCEPT ![t] = "PLANNED"]
    /\ timeline' = Append(timeline, [trip |-> t, type |-> "TRIP_CREATED",
                                     key |-> NoKey, isCorrection |-> FALSE,
                                     by |-> "createTrip"])
    /\ UNCHANGED <<requests, applied, emitted, faults>>

\* Mutant: the event that is found is announced once more.
ArriveAnnounces(q, t, e, k) ==
    /\ pc[q] = "new"
    /\ trip' = [trip EXCEPT ![q] = t]
    /\ type' = [type EXCEPT ![q] = e]
    /\ key' = [key EXCEPT ![q] = k]
    /\ e # "TRIP_CREATED"
    /\ \/ \E i \in RowsWith(k) :
             /\ AnswerExisting(q, t, i)
             /\ emitted' = [emitted EXCEPT ![i] = @ + 1]
       \/ /\ RowsWith(k) = {}
          /\ Goes(q, "begin")
          /\ UNCHANGED <<read, answer, outcome, emitted>>
    /\ UNCHANGED <<status, timeline, applied, faults>>

\* createEventForActor up to its transaction: TRIP_CREATED is refused, a used
\* key is answered at once.
Arrive(q, t, e, k) ==
    /\ pc[q] = "new"
    /\ trip' = [trip EXCEPT ![q] = t]
    /\ type' = [type EXCEPT ![q] = e]
    /\ key' = [key EXCEPT ![q] = k]
    /\ \/ e = "TRIP_CREATED" /\ Refuse(q, "BadRequest")
       \/ /\ e # "TRIP_CREATED"
          /\ \E i \in RowsWith(k) : AnswerExisting(q, t, i)
       \/ /\ e # "TRIP_CREATED"
          /\ RowsWith(k) = {}
          /\ Goes(q, "begin")
          /\ UNCHANGED <<read, answer, outcome>>
    /\ UNCHANGED <<status, timeline, applied, emitted, faults>>

\* Mutant: the transition is not checked against the status just read.
ValidateNothing(q) ==
    /\ pc[q] = "begin"
    /\ IF status[trip[q]] = "ABSENT"
         THEN Refuse(q, "NotFound")
         ELSE /\ read' = [read EXCEPT ![q] = status[trip[q]]]
              /\ Goes(q, "validated")
              /\ UNCHANGED <<answer, outcome>>
    /\ UNCHANGED <<arguments, status, timeline, applied, emitted, faults>>

\* The transaction begins: assertTripExists, assertCanApplyEvent.
Validate(q) ==
    LET s == status[trip[q]] IN
    /\ pc[q] = "begin"
    /\ \/ s = "ABSENT" /\ Refuse(q, "NotFound")
       \/ s # "ABSENT" /\ ~ CanApplyEvent(s, type[q]) /\ Refuse(q, "BadRequest")
       \/ /\ s # "ABSENT" /\ CanApplyEvent(s, type[q])
          /\ read' = [read EXCEPT ![q] = s]
          /\ Goes(q, "validated")
          /\ UNCHANGED <<answer, outcome>>
    /\ UNCHANGED <<arguments, status, timeline, applied, emitted, faults>>

Row(q) == [trip |-> trip[q], type |-> type[q], key |-> key[q],
           isCorrection |-> FALSE, by |-> q]

\* Mutant: the key is checked but not stored with the event.
CommitWithoutKey(q) ==
    /\ pc[q] = "validated"
    /\ RowsWith(key[q]) = {}
    /\ timeline' = Append(timeline, [Row(q) EXCEPT !.key = NoKey])
    /\ status' = [status EXCEPT ![trip[q]] = StatusAfter(@, type[q])]
    /\ answer' = [answer EXCEPT ![q] = Len(timeline')]
    /\ Goes(q, "committed")
    /\ Forget(q)
    /\ UNCHANGED <<arguments, outcome, applied, emitted, faults>>

\* Mutant: the trip is updated although the event projects to no status.
CommitAlwaysUpdates(q) ==
    /\ pc[q] = "validated"
    /\ RowsWith(key[q]) = {}
    /\ timeline' = Append(timeline, Row(q))
    /\ status' = [status EXCEPT ![trip[q]] = StatusAfter(read[q], type[q])]
    /\ answer' = [answer EXCEPT ![q] = Len(timeline')]
    /\ Goes(q, "committed")
    /\ Forget(q)
    /\ UNCHANGED <<arguments, outcome, applied, emitted, faults>>

\* tripEvent.create, trip.update if the event projects to a status, and commit.
Commit(q) ==
    /\ pc[q] = "validated"
    /\ RowsWith(key[q]) = {}
    /\ timeline' = Append(timeline, Row(q))
    /\ status' = [status EXCEPT ![trip[q]] = StatusAfter(@, type[q])]
    /\ answer' = [answer EXCEPT ![q] = Len(timeline')]
    /\ Goes(q, "committed")
    /\ Forget(q)
    /\ UNCHANGED <<arguments, outcome, applied, emitted, faults>>

\* tripEvent.create fails with P2002: another writer committed the key since
\* Arrive.  The transaction is over; the event is looked up and answered.
CommitCollides(q) ==
    /\ pc[q] = "validated"
    /\ \E i \in RowsWith(key[q]) : AnswerExisting(q, trip[q], i)
    /\ UNCHANGED <<arguments, status, timeline, applied, emitted, faults>>

\* After the commit: emitTripDomainEventForManualFlow, and the answer.
Emit(q) ==
    /\ pc[q] = "committed"
    /\ emitted' = [emitted EXCEPT ![answer[q]] = @ + 1]
    /\ Tell(q, "ok")
    /\ UNCHANGED <<arguments, status, timeline, answer, applied, faults>>

\* The database refuses the transaction for another reason.
CommitFails(q) ==
    /\ pc[q] \in {"begin", "validated"}
    /\ faults < MaxFaults
    /\ faults' = faults + 1
    /\ Refuse(q, "Error")
    /\ UNCHANGED <<arguments, status, timeline, applied, emitted>>

\* The process dies or the answer is lost on the way: after the commit, the
\* event is there, but the caller does not know.
LoseRequest(q) ==
    /\ pc[q] \in {"begin", "validated", "committed"}
    /\ faults < MaxFaults
    /\ faults' = faults + 1
    /\ Refuse(q, "Lost")
    /\ UNCHANGED <<arguments, status, timeline, applied, emitted>>

AutomatedRows == {i \in DOMAIN timeline : timeline[i].by = Automated}

\* applyCommands: the event is inserted and committed; Trip.currentStatus is
\* neither consulted nor changed.  A key that is there is skipped.
ApplyCommand(t, e, k, isCorrection) ==
    /\ status[t] # "ABSENT"
    /\ Cardinality(AutomatedRows) < MaxAutomated
    /\ RowsWith(k) = {}
    /\ timeline' = Append(timeline, [trip |-> t, type |-> e, key |-> k,
                                     isCorrection |-> isCorrection, by |-> Automated])
    /\ applied' = [applied EXCEPT ![Len(timeline')] = "committed"]
    /\ UNCHANGED <<status, requests, emitted, faults>>

\* Mutant: corrections are announced like other events.
AnnounceCorrections(i) ==
    /\ i \in DOMAIN timeline /\ applied[i] = "committed"
    /\ applied' = [applied EXCEPT ![i] = "announced"]
    /\ emitted' = [emitted EXCEPT ![i] = @ + 1]
    /\ UNCHANGED <<status, timeline, requests, faults>>

\* After the commit: emitTripDomainEvent, which passes over a correction.
AnnounceCommand(i) ==
    /\ i \in DOMAIN timeline /\ applied[i] = "committed"
    /\ applied' = [applied EXCEPT ![i] = "announced"]
    /\ emitted' = [emitted EXCEPT ![i] = IF timeline[i].isCorrection THEN @ ELSE @ + 1]
    /\ UNCHANGED <<status, timeline, requests, faults>>

\* The process of the worker dies between the commit and the announcement.  The
\* run that is delivered again finds the key and announces nothing.
LoseCommand(i) ==
    /\ i \in DOMAIN timeline /\ applied[i] = "committed"
    /\ faults < MaxFaults
    /\ faults' = faults + 1
    /\ applied' = [applied EXCEPT ![i] = "lost"]
    /\ UNCHANGED <<status, timeline, requests, emitted>>

Next ==
    \/ \E t \in Trips : CreateTrip(t)
    \/ \E q \in Requests :
          \/ \E t \in Trips, e \in Types, k \in Keys \union {NoKey} :
                Arrive(q, t, e, k)
          \/ Validate(q)
          \/ Commit(q)
          \/ CommitCollides(q)
          \/ Emit(q)
          \/ CommitFails(q)
          \/ LoseRequest(q)
    \/ \E t \in Trips, e \in Types, k \in Keys, isCorrection \in BOOLEAN :
          ApplyCommand(t, e, k, isCorrection)
    \/ \E i \in 1..MaxRows : AnnounceCommand(i) \/ LoseCommand(i)

Spec == Init /\ [][Next]_vars

-----------------------------------------------------------------------------
(* Properties *)

Succeeded(q) == outcome[q] = "ok"

\* However a call is repeated and raced: calls for one trip that carry the same
\* key and succeed were all answered with the same event, one of that trip.
RetriesGetTheSameEvent ==
    \A p, q \in Requests :
        /\ Succeeded(p) /\ Succeeded(q)
        /\ trip[p] = trip[q]
        /\ key[p] = key[q] /\ key[p] # NoKey
        => answer[p] = answer[q]

\* Nor is a call answered with an event of another trip, and no call that was
\* refused or failed has left an event (only one whose answer was lost may).
AnswersAreTruthful ==
    /\ RetriesGetTheSameEvent
    /\ \A q \in Requests :
          /\ Succeeded(q) => timeline[answer[q]].trip = trip[q]
          /\ outcome[q] \in {"BadRequest", "NotFound", "Conflict", "Error"} =>
                \A i \in DOMAIN timeline : timeline[i].by # q

\* The events that may have set the status of trip t.
Projected(t) ==
    {i \in DOMAIN timeline : /\ timeline[i].trip = t
                             /\ timeline[i].by # Automated
                             /\ Projects(timeline[i].type)}
Latest(t) == CHOOSE i \in Projected(t) : \A j \in Projected(t) : j <= i

\* The status of a trip is the projection of its latest committed event that
\* has one: an event without one (a note) never undoes a concurrent change.
StatusFollowsTimeline ==
    \A t \in Trips :
        status[t] # "ABSENT" =>
            status[t] = eventStatusProjection[timeline[Latest(t)].type]

\* A transition the table does not allow happens only at a commit whose
\* transaction validated against a status that has been replaced since.
IllegalOnlyByOverlap ==
    [][\A t \in Trips :
          /\ status[t] # "ABSENT" /\ status'[t] # status[t]
          /\ status'[t] \notin allowedTransitions[status[t]]
          => \E q \in Requests :
                /\ pc[q] = "validated" /\ pc'[q] = "committed"
                /\ trip[q] = t /\ read[q] # status[t]]_vars

\* A domain event is emitted at most once for an event, whoever repeats the
\* call, never before the commit and never for a correction.  It is missing only
\* for a trip's creation, for a correction, while the request or the worker that
\* committed the event is on its way to announce it, or after its process died.
DomainEventOnce ==
    \A i \in 1..MaxRows :
        /\ emitted[i] <= 1
        /\ emitted[i] = 1 => i \in DOMAIN timeline /\ ~ timeline[i].isCorrection
        /\ i \in DOMAIN timeline /\ emitted[i] = 0 =>
              \/ timeline[i].by = "createTrip" \/ timeline[i].isCorrection
              \/ timeline[i].by = Automated /\ applied[i] \in {"committed", "lost"}
              \/ /\ timeline[i].by \in Requests
                 /\ \/ pc[timeline[i].by] = "committed"
                    \/ outcome[timeline[i].by] = "Lost"

-----------------------------------------------------------------------------
(* What a test says and the code does not do *)

\* trip-state-transition.service.spec.ts:33: "blocks status-changing events
\* after terminal status".  Two overlapping requests both pass the check.
TerminalIsFinal ==
    \A t \in Trips : \A i, j \in Projected(t) :
        i < j => eventStatusProjection[timeline[i].type] \notin {"COMPLETED", "CANCELLED"}
=============================================================================
