------------------------- MODULE TripEventsProofs -------------------------
(***************************************************************************)
(* Theorems about TripEvents, for all trips, requests, keys and event types *)
(* and any number of failures: callers are told the truth, the status of a  *)
(* trip follows its timeline, a domain event is emitted at most once, and   *)
(* an illegal transition takes an overlap of two transactions. And about    *)
(* Pages: the types, that the page of the declarations shows and            *)
(* synchronises what was asked for, and that a form records what it says it *)
(* has, once.                                                               *)
(***************************************************************************)
EXTENDS Pages, FiniteSetTheorems, TLAPS

\* What a request has in hand where it is.
CallOK(q) ==
    /\ pc[q] # "new" => trip[q] \in Trips /\ type[q] \in Types
    /\ pc[q] # "answered" => outcome[q] = "none"
    /\ pc[q] = "validated" =>
          status[trip[q]] # "ABSENT" /\ CanApplyEvent(read[q], type[q])
    /\ pc[q] = "committed" =>
          answer[q] \in DOMAIN timeline /\ timeline[answer[q]].by = q
    /\ outcome[q] = "ok" =>
          /\ answer[q] \in DOMAIN timeline
          /\ timeline[answer[q]].trip = trip[q]
          /\ key[q] # NoKey => timeline[answer[q]].key = key[q]

\* The row of a request is its only one, and its caller was not refused.
RowOK(i) ==
    \A q \in Requests :
        timeline[i].by = q =>
            /\ pc[q] \in {"committed", "answered"}
            /\ pc[q] = "answered" => outcome[q] \in {"ok", "Lost"}
            /\ answer[q] = i
            /\ timeline[i].trip = trip[q] /\ timeline[i].key = key[q]

CallInv == \A q \in Requests : CallOK(q)
RowInv == \A i \in DOMAIN timeline : RowOK(i)

\* The unique index.
KeyInv ==
    \A i, j \in DOMAIN timeline :
        timeline[i].key = timeline[j].key /\ timeline[i].key # NoKey => i = j

\* There is a row for each trip created, each request that committed, and each
\* automated event; so there are at most MaxRows.
Created == {t \in Trips : status[t] # "ABSENT"}
Committed == {q \in Requests : \E i \in DOMAIN timeline : timeline[i].by = q}
CountInv ==
    /\ IsFiniteSet(AutomatedRows) /\ Cardinality(AutomatedRows) <= MaxAutomated
    /\ Len(timeline) <= Cardinality(Created) + Cardinality(Committed)
                        + Cardinality(AutomatedRows)

\* Which events have been announced: those of applyCommands as far as it is with
\* them, those of a request when it says so.
Emission(i) ==
    /\ emitted[i] <= 1
    /\ i \notin DOMAIN timeline => emitted[i] = 0 /\ applied[i] = "none"
    /\ i \in DOMAIN timeline =>
          /\ timeline[i].isCorrection => emitted[i] = 0
          /\ timeline[i].by = Automated =>
                /\ applied[i] # "none"
                /\ applied[i] = "committed" => emitted[i] = 0
                /\ applied[i] = "announced" /\ ~ timeline[i].isCorrection => emitted[i] = 1
          /\ timeline[i].by # Automated =>
                applied[i] = "none" /\ ~ timeline[i].isCorrection
          /\ \A q \in Requests :
                timeline[i].by = q =>
                    /\ pc[q] = "committed" => emitted[i] = 0
                    /\ outcome[q] = "ok" => emitted[i] = 1
EmitInv == \A i \in 1..MaxRows : Emission(i)

\* A trip that is not there has no rows; the status of one that is there is
\* the projection of the last of its rows that has one.
StatusOK(t) ==
    /\ status[t] = "ABSENT" => \A i \in DOMAIN timeline : timeline[i].trip # t
    /\ status[t] # "ABSENT" =>
          \E i \in Projected(t) :
              /\ \A j \in Projected(t) : j <= i
              /\ status[t] = eventStatusProjection[timeline[i].type]
StatusInv == \A t \in Trips : StatusOK(t)

\* The inductive invariant.
IndInv ==
    /\ TypeOK
    /\ CallInv
    /\ RowInv
    /\ KeyInv
    /\ CountInv
    /\ EmitInv
    /\ StatusInv

-----------------------------------------------------------------------------
(* The tables, the rows and their number *)

\* The status an event projects to is one a trip can have.
LEMMA ProjectionType == \A e : Projects(e) => eventStatusProjection[e] \in TripStatuses
BY DEF Projects, eventStatusProjection, TripStatuses

LEMMA AfterType ==
    ASSUME NEW s \in TripStatuses, NEW e
    PROVE  StatusAfter(s, e) \in TripStatuses /\ StatusAfter(s, e) # "ABSENT"
<1>1. StatusAfter(s, e) \in TripStatuses
  BY ProjectionType DEF StatusAfter
<1>2. "ABSENT" \notin TripStatuses
  BY DEF TripStatuses
<1> QED
  BY <1>1, <1>2

\* What appending a row changes.
LEMMA RowAdded ==
    ASSUME timeline \in Seq(Rows), NEW r \in Rows, timeline' = Append(timeline, r)
    PROVE  /\ Len(timeline) \in Nat
           /\ timeline' \in Seq(Rows) /\ Len(timeline') = Len(timeline) + 1
           /\ DOMAIN timeline = 1..Len(timeline)
           /\ DOMAIN timeline' = DOMAIN timeline \union {Len(timeline')}
           /\ Len(timeline') \notin DOMAIN timeline
           /\ timeline'[Len(timeline')] = r
           /\ \A i \in DOMAIN timeline : timeline'[i] = timeline[i]
<1>1. /\ Len(timeline) \in Nat /\ DOMAIN timeline = 1..Len(timeline)
      /\ timeline' \in Seq(Rows) /\ Len(timeline') = Len(timeline) + 1
      /\ DOMAIN timeline' = 1..(Len(timeline) + 1)
      /\ timeline'[Len(timeline) + 1] = r
      /\ \A i \in 1..Len(timeline) : timeline'[i] = timeline[i]
  OBVIOUS
<1>2. 1..(Len(timeline) + 1) = (1..Len(timeline)) \union {Len(timeline) + 1}
  BY <1>1
<1> QED
  BY <1>1, <1>2

\* The rows of created trips, committed requests and automated events fit.
LEMMA RowsFit ==
    ASSUME NEW T \in SUBSET Trips, NEW Q \in SUBSET Requests,
           NEW a \in Nat, a <= MaxAutomated,
           NEW l \in Nat, l <= Cardinality(T) + Cardinality(Q) + a
    PROVE  l <= MaxRows
<1>1. IsFiniteSet(Trips) /\ IsFiniteSet(Requests) /\ MaxAutomated \in Nat
  BY TripEventsAssumption
<1>2. Cardinality(Trips) \in Nat /\ Cardinality(Requests) \in Nat
  BY <1>1, FS_CardinalityType
<1>3. IsFiniteSet(T) /\ Cardinality(T) <= Cardinality(Trips)
  BY <1>1, FS_Subset
<1>4. IsFiniteSet(Q) /\ Cardinality(Q) <= Cardinality(Requests)
  BY <1>1, FS_Subset
<1>5. Cardinality(T) \in Nat /\ Cardinality(Q) \in Nat
  BY <1>3, <1>4, FS_CardinalityType
<1> QED
  BY <1>1, <1>2, <1>3, <1>4, <1>5 DEF MaxRows

LEMMA MaxRowsType == MaxRows \in Nat
BY TripEventsAssumption, FS_CardinalityType DEF MaxRows

-----------------------------------------------------------------------------
(* The inductive invariant holds at the start *)

LEMMA InvInit == Init => IndInv
<1> SUFFICES ASSUME Init PROVE IndInv
  OBVIOUS
<1> USE TripEventsAssumption, MaxRowsType DEF Init
<1>1. DOMAIN timeline = {} /\ Len(timeline) = 0 /\ timeline \in Seq(Rows)
  OBVIOUS
<1>2. TypeOK
  BY <1>1 DEF TypeOK, Outcomes
<1>3. CallInv /\ RowInv /\ KeyInv
  BY <1>1 DEF CallInv, CallOK, RowInv, KeyInv
<1>4. CountInv
  <2>1. Created = {} /\ Committed = {} /\ AutomatedRows = {}
    BY <1>1 DEF Created, Committed, AutomatedRows
  <2> QED
    BY <1>1, <2>1, FS_EmptySet DEF CountInv
<1>5. EmitInv
  BY <1>1 DEF EmitInv, Emission
<1>6. StatusInv
  BY <1>1 DEF StatusInv, StatusOK
<1> QED
  BY <1>2, <1>3, <1>4, <1>5, <1>6 DEF IndInv

-----------------------------------------------------------------------------
(* What the steps do *)

\* The steps of a request that write no row.
Quiet(q) ==
    \/ \E t \in Trips, e \in Types, k \in Keys \union {NoKey} : Arrive(q, t, e, k)
    \/ Validate(q)
    \/ CommitCollides(q)
    \/ Emit(q)
    \/ CommitFails(q)
    \/ LoseRequest(q)

LEMMA NextCases ==
    Next <=> \/ \E t \in Trips : CreateTrip(t)
             \/ \E q \in Requests : Commit(q)
             \/ \E t \in Trips, e \in Types, k \in Keys, isCorrection \in BOOLEAN :
                   ApplyCommand(t, e, k, isCorrection)
             \/ \E q \in Requests : Quiet(q)
             \/ \E i \in 1..MaxRows : AnnounceCommand(i) \/ LoseCommand(i)
BY DEF Next, Quiet

LEMMA AnnouncingWritesNothing ==
    \A i : AnnounceCommand(i) \/ LoseCommand(i) => UNCHANGED <<status, timeline, requests>>
BY DEF AnnounceCommand, LoseCommand

LEMMA QuietWritesNothing == \A q : Quiet(q) => UNCHANGED <<status, timeline>>
BY DEF Quiet, Arrive, Validate, CommitCollides, Emit, CommitFails, LoseRequest

\* The rows the other steps write.
LEMMA CreateTripRow ==
    ASSUME TypeOK, NEW t \in Trips, CreateTrip(t)
    PROVE  \E r \in Rows :
              /\ timeline' = Append(timeline, r)
              /\ r.trip = t /\ r.type = "TRIP_CREATED" /\ r.key = NoKey
              /\ r.by = "createTrip" /\ ~ r.isCorrection
<1>1. "TRIP_CREATED" \in EventTypes
  BY DEF EventTypes, eventStatusProjection
<1> DEFINE r == [trip |-> t, type |-> "TRIP_CREATED", key |-> NoKey,
                isCorrection |-> FALSE, by |-> "createTrip"]
<1>2. r \in Rows
  BY <1>1 DEF Rows, Authors
<1> WITNESS r \in Rows
<1> QED
  BY DEF CreateTrip

LEMMA CommitRow ==
    ASSUME TypeOK, CallInv, NEW q \in Requests, Commit(q)
    PROVE  \E r \in Rows :
              /\ timeline' = Append(timeline, r)
              /\ r.trip = trip[q] /\ r.type = type[q] /\ r.key = key[q] /\ r.by = q
              /\ ~ r.isCorrection
<1>1. trip[q] \in Trips /\ type[q] \in EventTypes /\ key[q] \in Keys \union {NoKey}
  BY TripEventsAssumption DEF Commit, CallInv, CallOK, TypeOK
<1>2. Row(q) \in Rows
  BY <1>1 DEF Rows, Authors, Row
<1> WITNESS Row(q) \in Rows
<1> QED
  BY DEF Commit, Row

LEMMA ApplyCommandRow ==
    ASSUME TypeOK, NEW t \in Trips, NEW e \in Types, NEW k \in Keys, NEW isCorrection \in BOOLEAN,
             ApplyCommand(t, e, k, isCorrection)
    PROVE  \E r \in Rows :
              /\ timeline' = Append(timeline, r)
              /\ r.trip = t /\ r.type = e /\ r.key = k /\ r.by = Automated
              /\ r.isCorrection = isCorrection
<1> DEFINE r == [trip |-> t, type |-> e, key |-> k, isCorrection |-> isCorrection,
                by |-> Automated]
<1>1. r \in Rows
  BY TripEventsAssumption DEF Rows, Authors
<1> WITNESS r \in Rows
<1> QED
  BY DEF ApplyCommand

-----------------------------------------------------------------------------
(* Every step keeps it *)

LEMMA CountStep == IndInv /\ [Next]_vars => CountInv' /\ Len(timeline') <= MaxRows
<1> SUFFICES ASSUME IndInv, [Next]_vars PROVE CountInv' /\ Len(timeline') <= MaxRows
  OBVIOUS
<1> USE TripEventsAssumption DEF IndInv
<1>0. /\ timeline \in Seq(Rows) /\ Len(timeline) \in Nat /\ DOMAIN timeline = 1..Len(timeline)
      /\ IsFiniteSet(Created) /\ IsFiniteSet(Committed) /\ IsFiniteSet(AutomatedRows)
  <2>1. Created \in SUBSET Trips /\ Committed \in SUBSET Requests
    BY DEF Created, Committed
  <2>2. IsFiniteSet(Created) /\ IsFiniteSet(Committed)
    BY <2>1, FS_Subset
  <2> QED
    BY <2>2 DEF CountInv, TypeOK
<1>1. /\ Cardinality(Created) \in Nat /\ Cardinality(Committed) \in Nat
      /\ Cardinality(AutomatedRows) \in Nat
  BY <1>0, FS_CardinalityType
<1>2. ASSUME CountInv', Len(timeline') \in Nat PROVE Len(timeline') <= MaxRows
  <2>1. Created' \in SUBSET Trips /\ Committed' \in SUBSET Requests
    BY DEF Created, Committed
  <2>2. Cardinality(AutomatedRows') \in Nat
    BY <1>2, FS_CardinalityType DEF CountInv
  <2> QED
    BY <1>2, <2>1, <2>2, RowsFit DEF CountInv
<1>3. ASSUME UNCHANGED <<status, timeline>> PROVE CountInv' /\ Len(timeline') <= MaxRows
  BY <1>3 DEF CountInv, Created, Committed, AutomatedRows, TypeOK
<1>4. ASSUME NEW t \in Trips, CreateTrip(t) PROVE CountInv' /\ Len(timeline') <= MaxRows
  <2>1. PICK r \in Rows : timeline' = Append(timeline, r) /\ r.by = "createTrip"
    BY <1>4, CreateTripRow
  <2>2. AutomatedRows' = AutomatedRows /\ Committed' = Committed
    BY <1>0, <2>1, RowAdded DEF AutomatedRows, Automated, Committed
  <2>3. Created' = Created \union {t} /\ t \notin Created
    BY <1>4 DEF CreateTrip, Created, TypeOK
  <2>4. Cardinality(Created') = Cardinality(Created) + 1
    BY <1>0, <2>3, FS_AddElement
  <2>5. Len(timeline') = Len(timeline) + 1
    BY <1>0, <2>1, RowAdded
  <2>6. CountInv'
    BY <1>0, <1>1, <2>2, <2>4, <2>5 DEF CountInv
  <2> QED
    BY <1>0, <1>2, <2>5, <2>6
<1>5. ASSUME NEW q \in Requests, Commit(q) PROVE CountInv' /\ Len(timeline') <= MaxRows
  <2>1. PICK r \in Rows : timeline' = Append(timeline, r) /\ r.by = q
    BY <1>5, CommitRow
  <2>2. AutomatedRows' = AutomatedRows /\ Committed' = Committed \union {q}
    BY <1>0, <2>1, RowAdded DEF AutomatedRows, Automated, Committed
  <2>3. q \notin Committed
    BY <1>5 DEF Commit, Committed, RowInv, RowOK
  <2>4. Created' = Created
    <3>1. /\ trip[q] \in Trips /\ status[trip[q]] # "ABSENT"
          /\ status' = [status EXCEPT ![trip[q]] = StatusAfter(status[trip[q]], type[q])]
      BY <1>5 DEF Commit, CallInv, CallOK
    <3>2. status[trip[q]] \in TripStatuses
      BY <3>1 DEF TypeOK
    <3> QED
      BY <3>1, <3>2, AfterType DEF Created, TypeOK
  <2>5. Cardinality(Committed') = Cardinality(Committed) + 1
    BY <1>0, <2>2, <2>3, FS_AddElement
  <2>6. Len(timeline') = Len(timeline) + 1
    BY <1>0, <2>1, RowAdded
  <2>7. CountInv'
    BY <1>0, <1>1, <2>2, <2>4, <2>5, <2>6 DEF CountInv
  <2> QED
    BY <1>0, <1>2, <2>6, <2>7
<1>6. ASSUME NEW t \in Trips, NEW e \in Types, NEW k \in Keys, NEW isCorrection \in BOOLEAN,
             ApplyCommand(t, e, k, isCorrection)
      PROVE  CountInv' /\ Len(timeline') <= MaxRows
  <2>1. PICK r \in Rows : timeline' = Append(timeline, r) /\ r.by = Automated
    BY <1>6, ApplyCommandRow
  <2>2. /\ AutomatedRows' = AutomatedRows \union {Len(timeline')}
        /\ Len(timeline') \notin AutomatedRows /\ Committed' = Committed
    BY <1>0, <2>1, RowAdded DEF AutomatedRows, Automated, Committed
  <2>3. Created' = Created /\ Cardinality(AutomatedRows) < MaxAutomated
    BY <1>6 DEF ApplyCommand, Created
  <2>4. /\ Cardinality(AutomatedRows') = Cardinality(AutomatedRows) + 1
        /\ IsFiniteSet(AutomatedRows')
    BY <1>0, <2>2, FS_AddElement
  <2>5. Len(timeline') = Len(timeline) + 1
    BY <1>0, <2>1, RowAdded
  <2>6. CountInv'
    BY <1>0, <1>1, <2>2, <2>3, <2>4, <2>5 DEF CountInv
  <2> QED
    BY <1>0, <1>2, <2>5, <2>6
<1>7. CASE \E q \in Requests : Quiet(q)
  BY <1>3, <1>7, QuietWritesNothing
<1>8. CASE UNCHANGED vars
  BY <1>3, <1>8 DEF vars
<1>9. CASE \E i \in 1..MaxRows : AnnounceCommand(i) \/ LoseCommand(i)
  BY <1>3, <1>9, AnnouncingWritesNothing
<1> QED
  BY <1>4, <1>5, <1>6, <1>7, <1>8, <1>9, NextCases

\* The types of what an answer writes.
LEMMA TellType ==
    ASSUME TypeOK, NEW q \in Requests, NEW o \in Outcomes, Tell(q, o)
    PROVE  /\ pc' \in [Requests -> {"new", "begin", "validated", "committed", "answered"}]
           /\ outcome' \in [Requests -> Outcomes]
           /\ read' \in [Requests -> TripStatuses \union {"ABSENT"}]
BY DEF TypeOK, Tell, Goes, Forget

LEMMA ExistingType ==
    ASSUME TypeOK, NEW q \in Requests, NEW t, NEW k, NEW i \in RowsWith(k),
           i \in 0..MaxRows, AnswerExisting(q, t, i)
    PROVE  /\ pc' \in [Requests -> {"new", "begin", "validated", "committed", "answered"}]
           /\ outcome' \in [Requests -> Outcomes]
           /\ read' \in [Requests -> TripStatuses \union {"ABSENT"}]
           /\ answer' \in [Requests -> 0..MaxRows]
<1>1. \E o \in Outcomes : Tell(q, o)
  BY DEF AnswerExisting, Refuse, Outcomes
<1>2. answer' \in [Requests -> 0..MaxRows]
  BY DEF AnswerExisting, Refuse, TypeOK
<1> QED
  BY <1>1, <1>2, TellType

LEMMA TypeStep == IndInv /\ [Next]_vars => TypeOK'
<1> SUFFICES ASSUME IndInv, [Next]_vars PROVE TypeOK'
  OBVIOUS
<1> USE TripEventsAssumption, MaxRowsType DEF IndInv
<1>0. /\ TypeOK /\ Len(timeline') <= MaxRows
      /\ \A i \in DOMAIN timeline : i \in 1..MaxRows
  BY CountStep DEF TypeOK
<1>1. ASSUME NEW r \in Rows, timeline' = Append(timeline, r)
      PROVE  timeline' \in Seq(Rows) /\ Len(timeline') \in 1..MaxRows
  BY <1>0, <1>1, RowAdded DEF TypeOK
<1>2. ASSUME NEW t \in Trips, CreateTrip(t) PROVE TypeOK'
  <2>1. timeline' \in Seq(Rows)
    BY <1>0, <1>1, <1>2, CreateTripRow
  <2> QED
    BY <1>0, <1>2, <2>1 DEF CreateTrip, TypeOK, requests, arguments, TripStatuses
<1>3. ASSUME NEW q \in Requests, Commit(q) PROVE TypeOK'
  <2>1. timeline' \in Seq(Rows) /\ Len(timeline') \in 1..MaxRows
    BY <1>0, <1>1, <1>3, CommitRow
  <2>2. status' \in [Trips -> TripStatuses \union {"ABSENT"}]
    <3>1. trip[q] \in Trips /\ status[trip[q]] # "ABSENT"
      BY <1>3 DEF Commit, CallInv, CallOK
    <3>2. StatusAfter(status[trip[q]], type[q]) \in TripStatuses
      BY <1>0, <3>1, AfterType DEF TypeOK
    <3> QED
      BY <1>0, <1>3, <3>1, <3>2 DEF Commit, TypeOK
  <2> QED
    BY <1>0, <1>3, <2>1, <2>2 DEF Commit, Goes, Forget, TypeOK, arguments
<1>4. ASSUME NEW t \in Trips, NEW e \in Types, NEW k \in Keys, NEW isCorrection \in BOOLEAN,
             ApplyCommand(t, e, k, isCorrection)
      PROVE  TypeOK'
  <2>1. timeline' \in Seq(Rows) /\ Len(timeline') \in 1..MaxRows
    BY <1>0, <1>1, <1>4, ApplyCommandRow
  <2> QED
    BY <1>0, <1>4, <2>1 DEF ApplyCommand, TypeOK, requests, arguments
<1>5. ASSUME NEW q \in Requests, Quiet(q) PROVE TypeOK'
  <2> USE <1>0, <1>5 DEF TypeOK, Outcomes, arguments, Goes, Forget, Tell, Refuse
  <2>1. ASSUME NEW t \in Trips, NEW e \in Types, NEW k \in Keys \union {NoKey},
               Arrive(q, t, e, k)
        PROVE  TypeOK'
    <3>1. /\ trip' \in [Requests -> Trips \union {None}]
          /\ type' \in [Requests -> Types \union {None}]
          /\ key' \in [Requests -> Keys \union {NoKey}]
          /\ UNCHANGED <<status, timeline, applied, emitted, faults>>
      BY <2>1 DEF Arrive
    <3>2. CASE Refuse(q, "BadRequest")
      BY <3>1, <3>2
    <3>3. ASSUME NEW i \in RowsWith(k), AnswerExisting(q, t, i) PROVE TypeOK'
      <4>1. i \in 0..MaxRows
        BY DEF RowsWith
      <4> QED
        BY <3>1, <3>3, <4>1, ExistingType
    <3>4. CASE Goes(q, "begin") /\ UNCHANGED <<read, answer, outcome>>
      BY <3>1, <3>4
    <3> QED
      BY <2>1, <3>2, <3>3, <3>4 DEF Arrive
  <2>2. CASE Validate(q)
    <3>1. pc[q] # "new" /\ trip[q] \in Trips
      BY <2>2 DEF Validate, CallInv, CallOK
    <3> QED
      BY <2>2, <3>1 DEF Validate
  <2>3. CASE CommitCollides(q)
    <3>1. PICK i \in RowsWith(key[q]) : AnswerExisting(q, trip[q], i)
      BY <2>3 DEF CommitCollides
    <3>2. i \in 0..MaxRows
      BY DEF RowsWith
    <3> QED
      BY <2>3, <3>1, <3>2, ExistingType DEF CommitCollides
  <2>4. CASE Emit(q)
    <3>1. answer[q] \in 1..MaxRows
      BY <2>4 DEF Emit, CallInv, CallOK
    <3>2. emitted' \in [1..MaxRows -> Nat]
      BY <2>4, <3>1 DEF Emit
    <3> QED
      BY <2>4, <3>2 DEF Emit
  <2>5. CASE CommitFails(q) \/ LoseRequest(q)
    <3>1. /\ UNCHANGED <<arguments, status, timeline, applied, emitted, answer>>
          /\ faults' \in 0..MaxFaults
          /\ \E o \in Outcomes : Tell(q, o)
      BY <2>5 DEF CommitFails, LoseRequest
    <3> QED
      BY <3>1, TellType
  <2> QED
    BY <2>1, <2>2, <2>3, <2>4, <2>5 DEF Quiet
<1>6. CASE UNCHANGED vars
  BY <1>0, <1>6 DEF vars, requests, arguments, TypeOK
<1>7. CASE \E i \in 1..MaxRows : AnnounceCommand(i) \/ LoseCommand(i)
  <2>1. PICK i \in 1..MaxRows : AnnounceCommand(i) \/ LoseCommand(i)
    BY <1>7
  <2>2. UNCHANGED <<status, timeline, requests>>
    BY <2>1, AnnouncingWritesNothing
  <2>3. applied' \in [1..MaxRows -> {"none", "committed", "announced", "lost"}]
    BY <1>0, <2>1 DEF AnnounceCommand, LoseCommand, TypeOK
  <2>4. emitted' \in [1..MaxRows -> Nat]
    <3>1. emitted \in [1..MaxRows -> Nat]
      BY <1>0 DEF TypeOK
    <3>2. CASE AnnounceCommand(i) /\ timeline[i].isCorrection
      <4>1. emitted' = [emitted EXCEPT ![i] = emitted[i]]
        BY <3>2 DEF AnnounceCommand
      <4> QED
        BY <3>1, <4>1
    <3>3. CASE AnnounceCommand(i) /\ ~ timeline[i].isCorrection
      <4>1. emitted' = [emitted EXCEPT ![i] = emitted[i] + 1]
        BY <3>3 DEF AnnounceCommand
      <4> QED
        BY <3>1, <4>1
    <3>4. CASE LoseCommand(i)
      BY <3>1, <3>4 DEF LoseCommand
    <3> QED
      BY <2>1, <3>2, <3>3, <3>4
  <2>5. faults' \in 0..MaxFaults
    BY <1>0, <2>1 DEF AnnounceCommand, LoseCommand, TypeOK
  <2> QED
    BY <1>0, <2>2, <2>3, <2>4, <2>5 DEF TypeOK, requests, arguments
<1> QED
  BY <1>2, <1>3, <1>4, <1>5, <1>6, <1>7, NextCases

\* The unique index holds: a row is inserted only where its key is not found.
LEMMA KeyStep == IndInv /\ [Next]_vars => KeyInv'
<1> SUFFICES ASSUME IndInv, [Next]_vars PROVE KeyInv'
  OBVIOUS
<1> USE DEF IndInv
<1>0. TypeOK /\ timeline \in Seq(Rows)
  BY DEF TypeOK
<1>1. ASSUME NEW r \in Rows, timeline' = Append(timeline, r), RowsWith(r.key) = {}
      PROVE  KeyInv'
  <2>1. \A i \in DOMAIN timeline : r.key # NoKey => timeline[i].key # r.key
    BY <1>1 DEF RowsWith
  <2> QED
    BY <1>0, <1>1, <2>1, RowAdded DEF KeyInv
<1>2. ASSUME NEW t \in Trips, CreateTrip(t) PROVE KeyInv'
  <2>1. RowsWith(NoKey) = {}
    BY DEF RowsWith
  <2> QED
    BY <1>0, <1>1, <1>2, <2>1, CreateTripRow
<1>3. ASSUME NEW q \in Requests, Commit(q) PROVE KeyInv'
  <2>1. RowsWith(key[q]) = {}
    BY <1>3 DEF Commit
  <2> QED
    BY <1>0, <1>1, <1>3, <2>1, CommitRow
<1>4. ASSUME NEW t \in Trips, NEW e \in Types, NEW k \in Keys, NEW isCorrection \in BOOLEAN,
             ApplyCommand(t, e, k, isCorrection)
      PROVE  KeyInv'
  <2>1. RowsWith(k) = {}
    BY <1>4 DEF ApplyCommand
  <2> QED
    BY <1>0, <1>1, <1>4, <2>1, ApplyCommandRow
<1>5. CASE \E q \in Requests : Quiet(q)
  BY <1>5, QuietWritesNothing DEF KeyInv
<1>6. CASE UNCHANGED vars
  BY <1>6 DEF vars, KeyInv
<1>7. CASE \E i \in 1..MaxRows : AnnounceCommand(i) \/ LoseCommand(i)
  BY <1>7, AnnouncingWritesNothing DEF KeyInv
<1> QED
  BY <1>2, <1>3, <1>4, <1>5, <1>6, <1>7, NextCases

\* What a request that a row answers is told.
LEMMA AnsweredByRow ==
    ASSUME TypeOK, NEW q \in Requests, NEW t \in Trips, NEW k,
           NEW i \in RowsWith(k), AnswerExisting(q, t, i)
    PROVE  /\ i \in DOMAIN timeline /\ timeline[i].key = k
           /\ pc'[q] = "answered" /\ outcome'[q] \in {"ok", "Conflict"}
           /\ outcome'[q] = "ok" => answer'[q] = i /\ timeline[i].trip = t
           /\ \A p \in Requests \ {q} :
                 /\ pc'[p] = pc[p] /\ outcome'[p] = outcome[p]
                 /\ read'[p] = read[p] /\ answer'[p] = answer[p]
BY DEF AnswerExisting, Refuse, Tell, Goes, Forget, RowsWith, TypeOK

LEMMA CallStep == IndInv /\ [Next]_vars => CallInv'
<1> SUFFICES ASSUME IndInv, [Next]_vars, NEW p \in Requests PROVE CallOK(p)'
  BY DEF CallInv
<1> USE DEF IndInv
<1>0. TypeOK /\ timeline \in Seq(Rows) /\ CallOK(p)
  BY DEF TypeOK, CallInv
<1>1. ASSUME NEW r \in Rows, timeline' = Append(timeline, r),
             UNCHANGED requests,
             \A t \in Trips : status[t] # "ABSENT" => status'[t] # "ABSENT"
      PROVE  CallOK(p)'
  BY <1>0, <1>1, RowAdded DEF CallOK, requests, arguments
<1>2. ASSUME NEW t \in Trips, CreateTrip(t) PROVE CallOK(p)'
  <2>1. \A u \in Trips : status[u] # "ABSENT" => status'[u] # "ABSENT"
    BY <1>0, <1>2 DEF CreateTrip, TypeOK
  <2> QED
    BY <1>0, <1>1, <1>2, <2>1, CreateTripRow DEF CreateTrip
<1>3. ASSUME NEW q \in Requests, Commit(q) PROVE CallOK(p)'
  <2>1. PICK r \in Rows : timeline' = Append(timeline, r) /\ r.by = q
    BY <1>0, <1>3, CommitRow
  <2>2. trip[q] \in Trips /\ status[trip[q]] \in TripStatuses /\ outcome[q] = "none"
    BY <1>0, <1>3 DEF Commit, CallInv, CallOK, TypeOK
  <2>3. \A u \in Trips : status[u] # "ABSENT" => status'[u] # "ABSENT"
    BY <1>0, <1>3, <2>2, AfterType DEF Commit, TypeOK
  <2>4. /\ UNCHANGED <<arguments, outcome>>
        /\ pc' = [pc EXCEPT ![q] = "committed"]
        /\ answer' = [answer EXCEPT ![q] = Len(timeline')]
        /\ read' = [read EXCEPT ![q] = "ABSENT"]
    BY <1>3 DEF Commit, Goes, Forget
  <2>5. CASE p = q
    <3>1. Len(timeline') \in DOMAIN timeline' /\ timeline'[Len(timeline')].by = q
      BY <1>0, <2>1, RowAdded
    <3>2. pc'[p] = "committed" /\ answer'[p] = Len(timeline') /\ outcome'[p] = "none"
      BY <1>0, <2>2, <2>4, <2>5 DEF TypeOK
    <3> QED
      BY <1>0, <1>3, <2>4, <2>5, <3>1, <3>2 DEF CallOK, Commit, arguments
  <2>6. CASE p # q
    <3>1. pc'[p] = pc[p] /\ answer'[p] = answer[p] /\ read'[p] = read[p]
      BY <1>0, <2>4, <2>6 DEF TypeOK
    <3> QED
      BY <1>0, <2>1, <2>3, <2>4, <3>1, RowAdded DEF CallOK, arguments
  <2> QED
    BY <2>5, <2>6
<1>4. ASSUME NEW t \in Trips, NEW e \in Types, NEW k \in Keys, NEW isCorrection \in BOOLEAN,
             ApplyCommand(t, e, k, isCorrection)
      PROVE  CallOK(p)'
  BY <1>0, <1>1, <1>4, ApplyCommandRow DEF ApplyCommand
<1>5. ASSUME NEW q \in Requests, Quiet(q) PROVE CallOK(p)'
  <2>0. UNCHANGED <<status, timeline>> /\ CallOK(q)
    BY <1>5, QuietWritesNothing DEF CallInv
  <2> USE <1>0, <2>0
  <2>1. ASSUME NEW t \in Trips, NEW e \in Types, NEW k \in Keys \union {NoKey},
               Arrive(q, t, e, k)
        PROVE  CallOK(p)'
    <3>0. trip' = [trip EXCEPT ![q] = t] /\ type' = [type EXCEPT ![q] = e]
          /\ key' = [key EXCEPT ![q] = k] /\ pc[q] = "new" /\ outcome[q] = "none"
      BY <2>1 DEF Arrive, CallOK
    <3>1. CASE Refuse(q, "BadRequest")
      BY <3>0, <3>1 DEF Refuse, Tell, Goes, Forget, CallOK, TypeOK
    <3>2. ASSUME NEW i \in RowsWith(k), AnswerExisting(q, t, i) PROVE CallOK(p)'
      BY <3>0, <3>2, AnsweredByRow DEF CallOK, TypeOK
    <3>3. CASE Goes(q, "begin") /\ UNCHANGED <<read, answer, outcome>>
      BY <3>0, <3>3 DEF Goes, CallOK, TypeOK
    <3> QED
      BY <2>1, <3>1, <3>2, <3>3 DEF Arrive
  <2>2. CASE Validate(q)
    BY <2>2 DEF Validate, Refuse, Tell, Goes, Forget, CallOK, TypeOK, arguments
  <2>3. CASE CommitCollides(q)
    <3>0. /\ trip[q] \in Trips /\ type[q] \in Types
          /\ UNCHANGED arguments
          /\ \E i \in RowsWith(key[q]) : AnswerExisting(q, trip[q], i)
      BY <2>3 DEF CommitCollides, CallOK
    <3>1. PICK i \in RowsWith(key[q]) : AnswerExisting(q, trip[q], i)
      BY <3>0
    <3>2. /\ i \in DOMAIN timeline /\ timeline[i].key = key[q]
          /\ pc'[q] = "answered" /\ outcome'[q] \in {"ok", "Conflict"}
          /\ outcome'[q] = "ok" => answer'[q] = i /\ timeline[i].trip = trip[q]
          /\ p # q => /\ pc'[p] = pc[p] /\ outcome'[p] = outcome[p]
                      /\ read'[p] = read[p] /\ answer'[p] = answer[p]
      BY <3>0, <3>1, AnsweredByRow
    <3>3. CASE p = q
      BY <3>0, <3>2, <3>3 DEF CallOK, arguments
    <3>4. CASE p # q
      BY <3>0, <3>2, <3>4 DEF CallOK, arguments
    <3> QED
      BY <3>3, <3>4
  <2>4. CASE Emit(q)
    <3>1. /\ UNCHANGED <<arguments, answer>> /\ answer[q] \in DOMAIN timeline
          /\ timeline[answer[q]].by = q
      BY <2>4 DEF Emit, CallOK
    <3>2. timeline[answer[q]].trip = trip[q] /\ (key[q] # NoKey => timeline[answer[q]].key = key[q])
      BY <3>1 DEF RowInv, RowOK
    <3> QED
      BY <2>4, <3>1, <3>2 DEF Emit, Tell, Goes, Forget, CallOK, TypeOK, arguments
  <2>5. CASE CommitFails(q) \/ LoseRequest(q)
    BY <2>5 DEF CommitFails, LoseRequest, Refuse, Tell, Goes, Forget, CallOK, TypeOK, arguments
  <2> QED
    BY <1>5, <2>1, <2>2, <2>3, <2>4, <2>5 DEF Quiet
<1>6. CASE UNCHANGED vars
  BY <1>0, <1>6 DEF vars, requests, arguments, CallOK
<1>7. CASE \E i \in 1..MaxRows : AnnounceCommand(i) \/ LoseCommand(i)
  BY <1>0, <1>7, AnnouncingWritesNothing DEF requests, arguments, CallOK
<1> QED
  BY <1>2, <1>3, <1>4, <1>5, <1>6, <1>7, NextCases

\* A row keeps telling whose it is: its request is past its commit, and only its
\* own steps change what its caller is told.
LEMMA RowStep == IndInv /\ [Next]_vars => RowInv'
<1> SUFFICES ASSUME IndInv, [Next]_vars PROVE RowInv'
  OBVIOUS
<1> USE TripEventsAssumption DEF IndInv
<1>0. TypeOK /\ timeline \in Seq(Rows)
  BY DEF TypeOK
<1>1. ASSUME NEW r \in Rows, timeline' = Append(timeline, r), r.by \notin Requests,
             UNCHANGED requests
      PROVE  RowInv'
  BY <1>0, <1>1, RowAdded DEF RowInv, RowOK, requests, arguments
<1>2. ASSUME NEW t \in Trips, CreateTrip(t) PROVE RowInv'
  BY <1>0, <1>1, <1>2, CreateTripRow DEF CreateTrip
<1>3. ASSUME NEW q \in Requests, Commit(q) PROVE RowInv'
  <2>1. PICK r \in Rows : /\ timeline' = Append(timeline, r)
                          /\ r.trip = trip[q] /\ r.key = key[q] /\ r.by = q
    BY <1>0, <1>3, CommitRow
  <2>2. /\ UNCHANGED <<arguments, outcome>>
        /\ pc' = [pc EXCEPT ![q] = "committed"]
        /\ answer' = [answer EXCEPT ![q] = Len(timeline')]
    BY <1>3 DEF Commit, Goes
  <2>3. \A i \in DOMAIN timeline : timeline[i].by # q
    BY <1>3 DEF Commit, RowInv, RowOK
  <2>4. ASSUME NEW i \in DOMAIN timeline' PROVE RowOK(i)'
    <3>1. CASE i = Len(timeline')
      <4>1. timeline'[i] = r
        BY <1>0, <2>1, <3>1, RowAdded
      <4>2. pc'[q] = "committed" /\ answer'[q] = i
        BY <1>0, <2>2, <3>1 DEF TypeOK
      <4> QED
        BY <2>1, <2>2, <4>1, <4>2 DEF RowOK, arguments
    <3>2. CASE i # Len(timeline')
      <4>1. i \in DOMAIN timeline /\ timeline'[i] = timeline[i] /\ timeline[i].by # q
        BY <1>0, <2>1, <2>3, <3>2, RowAdded
      <4>2. \A p \in Requests \ {q} : pc'[p] = pc[p] /\ answer'[p] = answer[p]
        BY <1>0, <2>2 DEF TypeOK
      <4> QED
        BY <2>2, <4>1, <4>2 DEF RowInv, RowOK, arguments
    <3> QED
      BY <3>1, <3>2
  <2> QED
    BY <2>4 DEF RowInv
<1>4. ASSUME NEW t \in Trips, NEW e \in Types, NEW k \in Keys, NEW isCorrection \in BOOLEAN,
             ApplyCommand(t, e, k, isCorrection)
      PROVE  RowInv'
  <2>1. Automated \notin Requests
    BY DEF Automated
  <2> QED
    BY <1>0, <1>1, <1>4, <2>1, ApplyCommandRow DEF ApplyCommand
<1>5. ASSUME NEW q \in Requests, Quiet(q) PROVE RowInv'
  <2>0. UNCHANGED <<status, timeline>>
    BY <1>5, QuietWritesNothing
  <2>1. \A p \in Requests \ {q} : /\ pc'[p] = pc[p] /\ outcome'[p] = outcome[p]
                                  /\ answer'[p] = answer[p]
                                  /\ trip'[p] = trip[p] /\ key'[p] = key[p]
    BY <1>0, <1>5 DEF Quiet, Arrive, Validate, CommitCollides, Emit, CommitFails,
       LoseRequest, AnswerExisting, Refuse, Tell, Goes, Forget, TypeOK, arguments
  <2>2. ASSUME NEW i \in DOMAIN timeline, timeline[i].by = q PROVE RowOK(i)'
    <3>1. /\ pc[q] \in {"committed", "answered"} /\ answer[q] = i
          /\ timeline[i].trip = trip[q] /\ timeline[i].key = key[q]
      BY <2>2 DEF RowInv, RowOK
    <3>2. (Emit(q) \/ LoseRequest(q)) /\ pc[q] = "committed"
      BY <1>5, <3>1 DEF Quiet, Arrive, Validate, CommitCollides, CommitFails, Emit, LoseRequest
    <3>3. /\ UNCHANGED <<arguments, answer>>
          /\ pc'[q] = "answered" /\ outcome'[q] \in {"ok", "Lost"}
      BY <1>0, <3>2 DEF Emit, LoseRequest, Refuse, Tell, Goes, TypeOK
    <3> QED
      BY <2>0, <2>2, <3>1, <3>3 DEF RowOK, arguments
  <2>3. ASSUME NEW i \in DOMAIN timeline, timeline[i].by # q PROVE RowOK(i)'
    BY <2>0, <2>1, <2>3 DEF RowInv, RowOK
  <2> QED
    BY <2>0, <2>2, <2>3 DEF RowInv
<1>6. CASE UNCHANGED vars
  BY <1>6 DEF vars, requests, arguments, RowInv, RowOK
<1>7. CASE \E i \in 1..MaxRows : AnnounceCommand(i) \/ LoseCommand(i)
  BY <1>7, AnnouncingWritesNothing DEF requests, arguments, RowInv, RowOK
<1> QED
  BY <1>2, <1>3, <1>4, <1>5, <1>6, <1>7, NextCases

\* An event is announced by AnnounceCommand, once and if it is no correction, or by
\* its request's Emit; nothing else touches its count.
LEMMA EmitStep == IndInv /\ [Next]_vars => EmitInv'
<1> SUFFICES ASSUME IndInv, [Next]_vars, NEW i \in 1..MaxRows PROVE Emission(i)'
  BY DEF EmitInv, MaxRows
<1> USE TripEventsAssumption, MaxRowsType DEF IndInv
<1>0. /\ TypeOK /\ timeline \in Seq(Rows) /\ Emission(i)
      /\ emitted \in [1..MaxRows -> Nat]
      /\ applied \in [1..MaxRows -> {"none", "committed", "announced", "lost"}]
  BY DEF TypeOK, EmitInv
<1>1. ASSUME NEW r \in Rows, timeline' = Append(timeline, r), r.by \notin Requests,
             r.by # Automated, ~ r.isCorrection, UNCHANGED <<requests, applied, emitted>>
      PROVE  Emission(i)'
  BY <1>0, <1>1, RowAdded DEF Emission, requests
<1>2. ASSUME NEW t \in Trips, CreateTrip(t) PROVE Emission(i)'
  BY <1>0, <1>1, <1>2, CreateTripRow DEF CreateTrip, Automated
<1>3. ASSUME NEW q \in Requests, Commit(q) PROVE Emission(i)'
  <2>1. PICK r \in Rows : timeline' = Append(timeline, r) /\ r.by = q /\ ~ r.isCorrection
    BY <1>0, <1>3, CommitRow
  <2>2. /\ UNCHANGED <<outcome, applied, emitted>> /\ outcome[q] = "none"
        /\ pc' = [pc EXCEPT ![q] = "committed"]
    BY <1>3 DEF Commit, Goes, CallInv, CallOK
  <2>3. \A j \in DOMAIN timeline : timeline[j].by # q
    BY <1>3 DEF Commit, RowInv, RowOK
  <2>4. q # Automated
    BY DEF Automated
  <2>5. CASE i = Len(timeline')
    BY <1>0, <2>1, <2>2, <2>4, <2>5, RowAdded DEF Emission, TypeOK
  <2>6. CASE i # Len(timeline')
    <3>1. /\ i \in DOMAIN timeline' <=> i \in DOMAIN timeline
          /\ i \in DOMAIN timeline => timeline'[i] = timeline[i] /\ timeline[i].by # q
      BY <1>0, <2>1, <2>3, <2>6, RowAdded
    <3>2. \A p \in Requests \ {q} : pc'[p] = pc[p]
      BY <1>0, <2>2 DEF TypeOK
    <3> QED
      BY <1>0, <2>2, <3>1, <3>2 DEF Emission
  <2> QED
    BY <2>5, <2>6
<1>4. ASSUME NEW t \in Trips, NEW e \in Types, NEW k \in Keys, NEW isCorrection \in BOOLEAN,
             ApplyCommand(t, e, k, isCorrection)
      PROVE  Emission(i)'
  <2>1. PICK r \in Rows : timeline' = Append(timeline, r) /\ r.by = Automated
    BY <1>0, <1>4, ApplyCommandRow
  <2>2. /\ applied' = [applied EXCEPT ![Len(timeline')] = "committed"]
        /\ UNCHANGED <<requests, emitted>>
    BY <1>4 DEF ApplyCommand
  <2>3. Automated \notin Requests
    BY DEF Automated
  <2>4. CASE i = Len(timeline')
    <3>1. i \notin DOMAIN timeline /\ i \in DOMAIN timeline' /\ timeline'[i] = r
      BY <1>0, <2>1, <2>4, RowAdded
    <3>2. emitted'[i] = 0 /\ applied'[i] = "committed"
      BY <1>0, <2>2, <2>4, <3>1 DEF Emission
    <3> QED
      BY <2>1, <2>3, <3>1, <3>2 DEF Emission
  <2>5. CASE i # Len(timeline')
    <3>1. applied'[i] = applied[i]
      BY <1>0, <2>2, <2>5
    <3> QED
      BY <1>0, <2>1, <2>2, <2>5, <3>1, RowAdded DEF Emission, requests
  <2> QED
    BY <2>4, <2>5
<1>5. ASSUME NEW q \in Requests, Quiet(q) PROVE Emission(i)'
  <2>0. UNCHANGED <<status, timeline, applied>>
    BY <1>5, QuietWritesNothing DEF Quiet, Arrive, Validate, CommitCollides, Emit,
       CommitFails, LoseRequest
  <2>1. \A p \in Requests \ {q} : pc'[p] = pc[p] /\ outcome'[p] = outcome[p]
    BY <1>0, <1>5 DEF Quiet, Arrive, Validate, CommitCollides, Emit, CommitFails,
       LoseRequest, AnswerExisting, Refuse, Tell, Goes, TypeOK
  <2>2. CASE Emit(q)
    <3>1. /\ emitted' = [emitted EXCEPT ![answer[q]] = emitted[answer[q]] + 1]
          /\ pc[q] = "committed" /\ answer[q] \in DOMAIN timeline
          /\ timeline[answer[q]].by = q /\ pc'[q] = "answered"
      BY <1>0, <2>2 DEF Emit, Tell, Goes, CallInv, CallOK, TypeOK
    <3>2. CASE i = answer[q]
      <4>1. emitted[i] = 0 /\ emitted'[i] = 1
        BY <1>0, <3>1, <3>2 DEF Emission
      <4>2. \A p \in Requests : timeline[i].by = p => p = q
        BY <3>1, <3>2
      <4>3. timeline[i].by # Automated /\ ~ timeline[i].isCorrection
        BY <1>0, <3>1, <3>2 DEF Automated, Emission
      <4> QED
        BY <1>0, <2>0, <3>1, <3>2, <4>1, <4>2, <4>3 DEF Emission
    <3>3. CASE i # answer[q]
      <4>1. i \in DOMAIN timeline => timeline[i].by # q
        BY <3>3 DEF RowInv, RowOK
      <4>2. emitted'[i] = emitted[i]
        BY <1>0, <3>1, <3>3
      <4> QED
        BY <1>0, <2>0, <2>1, <4>1, <4>2 DEF Emission
    <3> QED
      BY <3>2, <3>3
  <2>3. CASE ~ Emit(q)
    <3>1. /\ UNCHANGED emitted
          /\ pc'[q] # "committed"
          /\ i \in DOMAIN timeline /\ timeline[i].by = q =>
                outcome'[q] = outcome[q] \/ outcome'[q] = "Lost"
      <4>1. CASE i \in DOMAIN timeline /\ timeline[i].by = q
        <5>1. pc[q] \in {"committed", "answered"}
          BY <4>1 DEF RowInv, RowOK
        <5>2. LoseRequest(q)
          BY <1>5, <2>3, <5>1 DEF Quiet, Arrive, Validate, CommitCollides, CommitFails
        <5> QED
          BY <1>0, <5>2 DEF LoseRequest, Refuse, Tell, Goes, TypeOK
      <4>2. UNCHANGED emitted /\ pc'[q] # "committed"
        BY <1>0, <1>5, <2>3 DEF Quiet, Arrive, Validate, CommitCollides, CommitFails,
           LoseRequest, AnswerExisting, Refuse, Tell, Goes, TypeOK
      <4> QED
        BY <4>1, <4>2
    <3> QED
      BY <1>0, <2>0, <2>1, <3>1 DEF Emission
  <2> QED
    BY <2>2, <2>3
<1>6. CASE UNCHANGED vars
  BY <1>0, <1>6 DEF vars, requests, Emission
<1>7. ASSUME NEW j \in 1..MaxRows, AnnounceCommand(j) \/ LoseCommand(j)
      PROVE  Emission(i)'
  <2>1. UNCHANGED <<timeline, pc, outcome>>
    BY <1>7, AnnouncingWritesNothing DEF requests
  <2>2. CASE i = j /\ AnnounceCommand(j)
    <3>1. /\ i \in DOMAIN timeline /\ applied[i] = "committed" /\ applied'[i] = "announced"
          /\ emitted'[i] = IF timeline[i].isCorrection THEN emitted[i] ELSE emitted[i] + 1
      BY <1>0, <2>2 DEF AnnounceCommand
    <3>2. timeline[i].by = Automated /\ Automated \notin Requests
      BY <1>0, <3>1 DEF Emission, Automated
    <3> QED
      BY <1>0, <2>1, <3>1, <3>2 DEF Emission
  <2>3. CASE i = j /\ LoseCommand(j)
    <3>1. /\ i \in DOMAIN timeline /\ applied[i] = "committed" /\ applied'[i] = "lost"
          /\ emitted'[i] = emitted[i]
      BY <1>0, <2>3 DEF LoseCommand
    <3> QED
      BY <1>0, <2>1, <3>1 DEF Emission
  <2>4. CASE i # j
    <3>1. applied'[i] = applied[i] /\ emitted'[i] = emitted[i]
      BY <1>0, <1>7, <2>4 DEF AnnounceCommand, LoseCommand
    <3> QED
      BY <1>0, <2>1, <3>1 DEF Emission
  <2> QED
    BY <1>7, <2>2, <2>3, <2>4
<1> QED
  BY <1>2, <1>3, <1>4, <1>5, <1>6, <1>7, NextCases

\* A row joins those that may have set its trip's status, if it is a person's
\* and projects to one.
LEMMA ProjectedAdded ==
    ASSUME timeline \in Seq(Rows), NEW r \in Rows, timeline' = Append(timeline, r), NEW t
    PROVE  /\ r.trip = t /\ r.by # Automated /\ Projects(r.type) =>
                 Projected(t)' = Projected(t) \union {Len(timeline')}
           /\ ~ (r.trip = t /\ r.by # Automated /\ Projects(r.type)) =>
                 Projected(t)' = Projected(t)
           /\ \A i \in Projected(t) :
                 i \in DOMAIN timeline /\ timeline'[i] = timeline[i] /\ i < Len(timeline')
           /\ timeline'[Len(timeline')] = r
BY RowAdded DEF Projected

LEMMA StatusStep == IndInv /\ [Next]_vars => StatusInv'
<1> SUFFICES ASSUME IndInv, [Next]_vars, NEW u \in Trips PROVE StatusOK(u)'
  BY DEF StatusInv
<1> USE TripEventsAssumption DEF IndInv
<1>0. /\ TypeOK /\ timeline \in Seq(Rows) /\ StatusOK(u)
      /\ status \in [Trips -> TripStatuses \union {"ABSENT"}]
  BY DEF TypeOK, StatusInv
\* A row that sets no status leaves it as it is.
<1>1. ASSUME NEW r \in Rows, timeline' = Append(timeline, r), status'[u] = status[u],
             ~ (r.trip = u /\ r.by # Automated /\ Projects(r.type)),
             status[u] = "ABSENT" => r.trip # u
      PROVE  StatusOK(u)'
  <2>1. CASE status[u] = "ABSENT"
    BY <1>0, <1>1, <2>1, RowAdded DEF StatusOK
  <2>2. CASE status[u] # "ABSENT"
    <3>1. PICK i \in Projected(u) : /\ \A j \in Projected(u) : j <= i
                                    /\ status[u] = eventStatusProjection[timeline[i].type]
      BY <1>0, <2>2 DEF StatusOK
    <3>2. Projected(u)' = Projected(u) /\ timeline'[i] = timeline[i]
      BY <1>0, <1>1, <3>1, ProjectedAdded
    <3> QED
      BY <1>1, <2>2, <3>1, <3>2 DEF StatusOK
  <2> QED
    BY <2>1, <2>2
\* A row that sets the status is the last one that does.
<1>2. ASSUME NEW r \in Rows, timeline' = Append(timeline, r),
             r.trip = u /\ r.by # Automated /\ Projects(r.type),
             status'[u] = eventStatusProjection[r.type]
      PROVE  StatusOK(u)'
  <2> DEFINE last == Len(timeline')
  <2>1. /\ Projected(u)' = Projected(u) \union {last}
        /\ \A i \in Projected(u) : i < last
        /\ timeline'[last] = r
    BY <1>0, <1>2, ProjectedAdded
  <2>2. last \in Nat /\ \A i \in Projected(u) : i \in Nat
    BY <1>0, <1>2, RowAdded DEF Projected
  <2>3. last \in Projected(u)' /\ \A j \in Projected(u)' : j <= last
    BY <2>1, <2>2
  <2>4. status'[u] # "ABSENT"
    BY <1>2, ProjectionType DEF TripStatuses
  <2> QED
    BY <1>2, <2>1, <2>3, <2>4 DEF StatusOK
<1>3. ASSUME NEW t \in Trips, CreateTrip(t) PROVE StatusOK(u)'
  <2>1. PICK r \in Rows : /\ timeline' = Append(timeline, r)
                          /\ r.trip = t /\ r.type = "TRIP_CREATED" /\ r.by = "createTrip"
    BY <1>0, <1>3, CreateTripRow
  <2>2. status' = [status EXCEPT ![t] = "PLANNED"]
    BY <1>3 DEF CreateTrip
  <2>3. CASE u = t
    <3>1. Projects(r.type) /\ eventStatusProjection[r.type] = "PLANNED"
      BY <2>1 DEF Projects, eventStatusProjection
    <3> QED
      BY <1>0, <1>2, <2>1, <2>2, <2>3, <3>1 DEF Automated
  <2>4. CASE u # t
    BY <1>0, <1>1, <2>1, <2>2, <2>4
  <2> QED
    BY <2>3, <2>4
<1>4. ASSUME NEW q \in Requests, Commit(q) PROVE StatusOK(u)'
  <2>1. PICK r \in Rows : /\ timeline' = Append(timeline, r)
                          /\ r.trip = trip[q] /\ r.type = type[q] /\ r.by = q
    BY <1>0, <1>4, CommitRow
  <2>2. /\ trip[q] \in Trips /\ status[trip[q]] # "ABSENT"
        /\ status' = [status EXCEPT ![trip[q]] = StatusAfter(status[trip[q]], type[q])]
    BY <1>4 DEF Commit, CallInv, CallOK
  <2>3. r.by # Automated
    BY <2>1 DEF Automated
  <2>4. CASE u = trip[q] /\ Projects(r.type)
    BY <1>0, <1>2, <2>1, <2>2, <2>3, <2>4 DEF StatusAfter
  <2>5. CASE u = trip[q] /\ ~ Projects(r.type)
    BY <1>0, <1>1, <2>1, <2>2, <2>5 DEF StatusAfter
  <2>6. CASE u # trip[q]
    BY <1>0, <1>1, <2>1, <2>2, <2>6
  <2> QED
    BY <2>4, <2>5, <2>6
<1>5. ASSUME NEW t \in Trips, NEW e \in Types, NEW k \in Keys, NEW isCorrection \in BOOLEAN,
             ApplyCommand(t, e, k, isCorrection)
      PROVE  StatusOK(u)'
  BY <1>0, <1>1, <1>5, ApplyCommandRow DEF ApplyCommand
<1>6. ASSUME UNCHANGED <<status, timeline>> PROVE StatusOK(u)'
  BY <1>0, <1>6 DEF StatusOK, Projected
<1>7. CASE \E q \in Requests : Quiet(q)
  BY <1>6, <1>7, QuietWritesNothing
<1>8. CASE UNCHANGED vars
  BY <1>6, <1>8 DEF vars
<1>9. CASE \E i \in 1..MaxRows : AnnounceCommand(i) \/ LoseCommand(i)
  BY <1>6, <1>9, AnnouncingWritesNothing
<1> QED
  BY <1>3, <1>4, <1>5, <1>7, <1>8, <1>9, NextCases

LEMMA InvStep == IndInv /\ [Next]_vars => IndInv'
BY TypeStep, CallStep, RowStep, KeyStep, CountStep, EmitStep, StatusStep DEF IndInv

-----------------------------------------------------------------------------
(* The theorems *)

\* The inductive invariant holds in every state.
THEOREM Invariance == Spec => []IndInv
BY InvInit, InvStep, PTL DEF Spec

\* Statuses, rows and answers keep their types, and there is at most one row for
\* each trip, request and automated event.
THEOREM TypeCorrect == Spec => []TypeOK
<1>1. IndInv => TypeOK
  BY DEF IndInv
<1> QED
  BY <1>1, Invariance, PTL

\* Whoever repeats a call with its key gets the event the first one created, an
\* event of the call's trip; and a call that was refused or failed left none.
THEOREM TellsTheTruth == Spec => []AnswersAreTruthful
<1>1. IndInv => AnswersAreTruthful
  <2> SUFFICES ASSUME IndInv PROVE AnswersAreTruthful
    OBVIOUS
  <2> USE DEF IndInv, CallInv, CallOK, Succeeded
  <2>1. RetriesGetTheSameEvent
    BY DEF RetriesGetTheSameEvent, KeyInv
  <2>2. \A q \in Requests : Succeeded(q) => timeline[answer[q]].trip = trip[q]
    OBVIOUS
  <2>3. ASSUME NEW q \in Requests, NEW i \in DOMAIN timeline, timeline[i].by = q
        PROVE  outcome[q] \in {"none", "ok", "Lost"}
    BY <2>3 DEF RowInv, RowOK
  <2> QED
    BY <2>1, <2>2, <2>3 DEF AnswersAreTruthful
<1> QED
  BY <1>1, Invariance, PTL

\* However requests overlap, a trip's status is the projection of the latest
\* committed event that has one.
THEOREM FollowsTimeline == Spec => []StatusFollowsTimeline
<1>1. IndInv => StatusFollowsTimeline
  <2> SUFFICES ASSUME IndInv, NEW t \in Trips, status[t] # "ABSENT"
               PROVE  status[t] = eventStatusProjection[timeline[Latest(t)].type]
    BY DEF StatusFollowsTimeline
  <2>1. PICK i \in Projected(t) : /\ \A j \in Projected(t) : j <= i
                                  /\ status[t] = eventStatusProjection[timeline[i].type]
    BY DEF IndInv, StatusInv, StatusOK
  <2>2. \A j \in Projected(t) : j \in Nat
    BY DEF IndInv, TypeOK, Projected
  <2>3. \A j \in Projected(t) : (\A k \in Projected(t) : k <= j) => j = i
    BY <2>1, <2>2
  <2>4. Latest(t) = i
    BY <2>1, <2>3 DEF Latest
  <2> QED
    BY <2>1, <2>4
<1> QED
  BY <1>1, Invariance, PTL

\* A domain event is emitted at most once for an event, never before its commit
\* and never for a correction; it is missing only for a trip's creation and for a
\* correction, while the request or the worker that committed the event is on its
\* way to announce it, or after its process died.
THEOREM EmitsOnce == Spec => []DomainEventOnce
<1>1. IndInv => DomainEventOnce
  <2> SUFFICES ASSUME IndInv, NEW i \in 1..MaxRows
               PROVE  /\ emitted[i] <= 1
                      /\ emitted[i] = 1 => i \in DOMAIN timeline /\ ~ timeline[i].isCorrection
                      /\ i \in DOMAIN timeline /\ emitted[i] = 0 =>
                            \/ timeline[i].by = "createTrip" \/ timeline[i].isCorrection
                            \/ /\ timeline[i].by = Automated
                               /\ applied[i] \in {"committed", "lost"}
                            \/ /\ timeline[i].by \in Requests
                               /\ \/ pc[timeline[i].by] = "committed"
                                  \/ outcome[timeline[i].by] = "Lost"
    BY DEF DomainEventOnce
  <2>1. Emission(i) /\ applied[i] \in {"none", "committed", "announced", "lost"}
    BY DEF IndInv, EmitInv, TypeOK
  <2>2. i \in DOMAIN timeline => timeline[i].by \in Requests \union {Automated, "createTrip"}
    <3>1. timeline \in Seq(Rows)
      BY DEF IndInv, TypeOK
    <3>2. i \in DOMAIN timeline => timeline[i] \in Rows
      BY <3>1
    <3> QED
      BY <3>2 DEF Rows, Authors
  <2>3. i \in DOMAIN timeline /\ timeline[i].by \in Requests =>
           \/ pc[timeline[i].by] = "committed"
           \/ outcome[timeline[i].by] \in {"ok", "Lost"}
    BY DEF IndInv, RowInv, RowOK
  <2> QED
    BY <2>1, <2>2, <2>3 DEF Emission
<1> QED
  BY <1>1, Invariance, PTL

\* A transition the table does not allow takes a commit whose transaction read a
\* status that has been replaced since: without overlap every transition is legal.
THEOREM OverlapOnly == Spec => IllegalOnlyByOverlap
<1>1. IndInv /\ [Next]_vars =>
        [\A t \in Trips :
            /\ status[t] # "ABSENT" /\ status'[t] # status[t]
            /\ status'[t] \notin allowedTransitions[status[t]]
            => \E q \in Requests :
                  /\ pc[q] = "validated" /\ pc'[q] = "committed"
                  /\ trip[q] = t /\ read[q] # status[t]]_vars
  <2> SUFFICES ASSUME IndInv, Next, NEW t \in Trips,
                      status[t] # "ABSENT", status'[t] # status[t],
                      status'[t] \notin allowedTransitions[status[t]]
               PROVE  \E q \in Requests :
                         /\ pc[q] = "validated" /\ pc'[q] = "committed"
                         /\ trip[q] = t /\ read[q] # status[t]
    OBVIOUS
  <2>0. TypeOK
    BY DEF IndInv
  <2>1. PICK q \in Requests : Commit(q)
    <3>1. ~ \E u \in Trips : CreateTrip(u)
      BY <2>0 DEF CreateTrip, TypeOK
    <3>2. ~ \E u \in Trips, e \in Types, k \in Keys, isCorrection \in BOOLEAN :
               ApplyCommand(u, e, k, isCorrection)
      BY DEF ApplyCommand
    <3>3. /\ ~ \E q \in Requests : Quiet(q)
          /\ ~ \E i \in 1..MaxRows : AnnounceCommand(i) \/ LoseCommand(i)
      BY QuietWritesNothing, AnnouncingWritesNothing
    <3> QED
      BY <3>1, <3>2, <3>3, NextCases
  <2>2. /\ pc[q] = "validated" /\ pc'[q] = "committed"
        /\ status' = [status EXCEPT ![trip[q]] = StatusAfter(status[trip[q]], type[q])]
    BY <2>0, <2>1 DEF Commit, Goes, TypeOK
  <2>3. CanApplyEvent(read[q], type[q])
    BY <2>2 DEF IndInv, CallInv, CallOK
  <2>4. trip[q] = t /\ status'[t] = StatusAfter(status[t], type[q])
    BY <2>0, <2>2 DEF TypeOK
  <2>5. Projects(type[q]) /\ status'[t] = eventStatusProjection[type[q]]
    BY <2>4 DEF StatusAfter
  <2>6. status'[t] \in allowedTransitions[read[q]]
    BY <2>3, <2>5 DEF CanApplyEvent
  <2>7. read[q] # status[t]
    BY <2>6
  <2> QED
    BY <2>2, <2>4, <2>7
<1> QED
  BY <1>1, Invariance, PTL DEF Spec, IllegalOnlyByOverlap
-----------------------------------------------------------------------------
\* The page of the declarations: a call whose answer would be of something else than
\* what is asked for now has been overtaken.
PageInv ==
    /\ Declared!TypeOK /\ Declared!SyncsTheSelected /\ Declared!ListIsAsFiltered
    /\ \A c \in Clicks :
          /\ clicked[c].does \in {"write", "reload"} =>
                clicked[c].filters = page.filters \/ clicked[c].overtaken
          /\ clicked[c].does = "openDetail" =>
                clicked[c].id = page.selected \/ clicked[c].overtaken

\* The forms: only one submission is under way unless a deletion has freed the
\* button, and what it has not recorded yet nobody has.
SubmittingInv ==
    /\ \A c \in Clicks :
          Saving!Submitting(c) =>
             /\ isSaving
             /\ \A d \in Clicks : Saving!Submitting(d) => d = c
    /\ ~ misled =>
          /\ rows <= 1
          /\ \A c \in Clicks : Saving!At(c, "saving") => rows = 0
          /\ rows = 1 /\ isFormOpen => \E c \in Clicks : Saving!At(c, "saved")

FormInv ==
    /\ Saving!TypeOK /\ Saving!NothingIsPretended
    /\ form = "event" => ~ freed /\ \A c \in Clicks : ~ Saving!At(c, "deleting")
    /\ form # "event" => shown <= rows
    /\ form = "vehicle" => rows <= 1
    /\ \A c \in Clicks :
          /\ Saving!Submitting(c) /\ form = "event" => call[c].previous <= rows
          /\ Saving!At(c, "saved") => rows > 0
    /\ ~ freed => SubmittingInv
-----------------------------------------------------------------------------

\* A behaviour of the composition is one of the trips and of each page.
LEMMA EachAlone ==
    PagesSpec => /\ Spec
                 /\ Declared!Init /\ [][Declared!Next]_pageVars
                 /\ Saving!Init /\ [][Saving!Next]_formVars
<1>1. PagesInit => Init /\ Declared!Init /\ Saving!Init
  BY DEF PagesInit
<1>2. [PagesNext]_allVars =>
         /\ [Next]_vars /\ [Declared!Next]_pageVars /\ [Saving!Next]_formVars
  BY DEF PagesNext, allVars
<1> QED
  BY <1>1, <1>2, PTL DEF PagesSpec, Spec
-----------------------------------------------------------------------------
(* The forms *)

LEMMA FormStep ==
    ASSUME FormInv, [Saving!Next]_formVars
    PROVE  FormInv'
<1> USE PagesAssumption DEF FormInv
<1>a. /\ form \in {"vehicle", "driver", "invitation", "event"}
      /\ isFormOpen \in BOOLEAN /\ isSaving \in BOOLEAN
      /\ shown \in 0..MaxSaved + 1 /\ rows \in 0..MaxSaved
      /\ call \in [Clicks -> [step : {"idle", "saving", "saved", "deleting"},
                              previous : 0..MaxSaved]]
      /\ misled \in BOOLEAN /\ freed \in BOOLEAN
  BY DEF Saving!TypeOK, Saving!AdminForms
<1>1. ASSUME NEW c \in Clicks, Saving!Submit(c) PROVE FormInv'
  BY <1>a, <1>1 DEF SubmittingInv, Saving!Submit, Saving!At, Saving!Submitting,
     Saving!TypeOK, Saving!AdminForms, Saving!NothingIsPretended
<1>2. ASSUME NEW c \in Clicks, Saving!Record(c) PROVE FormInv'
  BY <1>a, <1>2 DEF SubmittingInv, Saving!Record, Saving!Goes, Saving!At,
     Saving!Submitting, Saving!TypeOK, Saving!AdminForms, Saving!NothingIsPretended
<1>b. ASSUME NEW c \in Clicks, Saving!Ends(c)
      PROVE  /\ call' \in [Clicks -> [step : {"idle", "saving", "saved", "deleting"},
                                      previous : 0..MaxSaved]]
             /\ call'[c].step = "idle"
             /\ \A d \in Clicks \ {c} : call'[d] = call[d]
  BY <1>a, <1>b DEF Saving!Ends, Saving!Idle
<1>3. ASSUME NEW c \in Clicks, Saving!Refused(c) \/ Saving!SavedInVain(c) PROVE FormInv'
  <2>1. /\ call[c].step \in {"saving", "saved"} /\ ~ isSaving'
        /\ misled' \in BOOLEAN
        /\ misled' = (misled \/ call[c].step = "saved")
        /\ shown' = IF form = "event" THEN call[c].previous ELSE shown
        /\ UNCHANGED <<form, isFormOpen, rows, freed>>
        /\ Saving!Ends(c) /\ isSaving' = FALSE
    BY <1>a, <1>3 DEF Saving!Refused, Saving!SavedInVain, Saving!SaysFailed, Saving!At
  <2>2. call[c].previous \in 0..MaxSaved
    BY <1>a
  <2>3. shown' <= rows' /\ shown' \in 0..MaxSaved + 1
    BY <1>a, <2>1, <2>2 DEF Saving!Submitting, Saving!At
  <2>4. Saving!TypeOK' /\ Saving!NothingIsPretended'
    BY <1>a, <1>b, <2>1, <2>3
       DEF Saving!TypeOK, Saving!AdminForms, Saving!NothingIsPretended
  <2>5. ~ freed' => SubmittingInv'
    BY <1>a, <1>b, <2>1 DEF SubmittingInv, Saving!Submitting, Saving!At
  <2> QED
    BY <1>a, <1>b, <2>1, <2>3, <2>4, <2>5 DEF Saving!Submitting, Saving!At
<1>4. ASSUME NEW c \in Clicks, Saving!Succeeds(c) PROVE FormInv'
  <2>1. /\ call[c].step = "saved" /\ rows > 0
        /\ isFormOpen' = FALSE /\ isSaving' = FALSE
        /\ shown' = IF form = "invitation" THEN shown ELSE rows
        /\ UNCHANGED <<form, rows, misled, freed>>
        /\ Saving!Ends(c)
    BY <1>a, <1>4 DEF Saving!Succeeds, Saving!At
  <2>0. shown' \in 0..MaxSaved + 1 /\ shown' <= rows'
    BY <1>a, <2>1
  <2>2. Saving!TypeOK' /\ Saving!NothingIsPretended'
    BY <1>a, <1>b, <2>0, <2>1
       DEF Saving!TypeOK, Saving!AdminForms, Saving!NothingIsPretended
  <2>3. ~ freed' => SubmittingInv'
    BY <1>a, <1>b, <2>1 DEF SubmittingInv, Saving!Submitting, Saving!At
  <2> QED
    BY <1>a, <1>b, <2>1, <2>2, <2>3 DEF Saving!Submitting, Saving!At
<1>5. ASSUME NEW c \in Clicks, Saving!Remove(c) PROVE FormInv'
  BY <1>a, <1>5 DEF SubmittingInv, Saving!Remove, Saving!Goes, Saving!At,
     Saving!Submitting, Saving!TypeOK, Saving!AdminForms, Saving!NothingIsPretended
<1>6. ASSUME NEW c \in Clicks, Saving!Removed(c) PROVE FormInv'
  <2>1. /\ call[c].step = "deleting" /\ form # "event"
        /\ isSaving' = FALSE
        /\ shown' \in {shown, IF form = "invitation" THEN shown ELSE rows}
        /\ freed' = (freed \/ \E s \in Clicks : Saving!Submitting(s))
        /\ UNCHANGED <<form, isFormOpen, rows, misled>>
        /\ Saving!Ends(c)
    BY <1>6 DEF Saving!Removed, Saving!At
  <2>0. shown' \in 0..MaxSaved + 1 /\ shown' <= rows'
    BY <1>a, <2>1
  <2>2. Saving!TypeOK' /\ Saving!NothingIsPretended'
    BY <1>a, <1>b, <2>0, <2>1
       DEF Saving!TypeOK, Saving!AdminForms, Saving!NothingIsPretended
  <2>3. ~ freed' => SubmittingInv'
    BY <1>a, <1>b, <2>1 DEF SubmittingInv, Saving!Submitting, Saving!At
  <2> QED
    BY <1>a, <1>b, <2>1, <2>2, <2>3 DEF Saving!Submitting, Saving!At
<1>7. CASE UNCHANGED formVars
  BY <1>7 DEF formVars, SubmittingInv, Saving!At, Saving!Submitting, Saving!TypeOK,
     Saving!NothingIsPretended
<1> QED
  BY <1>1, <1>2, <1>3, <1>4, <1>5, <1>6, <1>7 DEF Saving!Next

LEMMA FormInvariance == PagesSpec => []FormInv
<1>1. Saving!Init => FormInv
  <2> SUFFICES ASSUME Saving!Init PROVE FormInv
    OBVIOUS
  <2>1. /\ call \in [Clicks -> [step : {"idle", "saving", "saved", "deleting"},
                                previous : 0..MaxSaved]]
        /\ \A c \in Clicks : call[c].step = "idle"
    BY PagesAssumption DEF Saving!Init, Saving!Idle
  <2>0. 0 \in 0..MaxSaved + 1 /\ 0 \in 0..MaxSaved
    BY PagesAssumption
  <2>2. Saving!TypeOK
    BY <2>0, <2>1, Zenon DEF Saving!Init, Saving!TypeOK
  <2>3. Saving!NothingIsPretended
    BY DEF Saving!Init, Saving!NothingIsPretended
  <2> QED
    BY <2>1, <2>2, <2>3, PagesAssumption DEF Saving!Init, FormInv, SubmittingInv, Saving!At, Saving!Submitting
<1>2. FormInv /\ [Saving!Next]_formVars => FormInv'
  BY FormStep
<1> QED
  BY <1>1, <1>2, EachAlone, PTL
-----------------------------------------------------------------------------
(* The page of the declarations *)

PageType ==
    [filters : Declared!Filters, isLoading : BOOLEAN,
     data : {None} \union [of : Declared!Filters, totalPage : 0..MaxPage],
     selected : Trips \union {None}, detail : Trips \union {None},
     isDetailLoading : BOOLEAN, outdated : BOOLEAN, misled : BOOLEAN]

\* Overtaking marks calls of the given kinds and changes nothing else of them.
LEMMA Overtaken ==
    ASSUME NEW calls \in [Clicks -> Declared!Calls],
           NEW kinds \in SUBSET {"openDetail", "write", "reload"},
           NEW c \in Clicks
    PROVE  /\ Declared!Overtake(calls, kinds)[c] \in Declared!Calls
           /\ Declared!Overtake(calls, kinds)[c].does = calls[c].does
           /\ calls[c].does \in kinds => Declared!Overtake(calls, kinds)[c].overtaken
           /\ calls[c].does \notin kinds =>
                 Declared!Overtake(calls, kinds)[c] = calls[c]
           /\ calls[c].does \in {"write", "reload"} =>
                 Declared!Overtake(calls, kinds)[c].filters = calls[c].filters
           /\ calls[c].does = "openDetail" =>
                 Declared!Overtake(calls, kinds)[c].id = calls[c].id
<1>1. calls[c] \in Declared!Calls
  OBVIOUS
<1>2. Declared!Overtake(calls, kinds)[c] =
         IF calls[c].does \in kinds THEN [calls[c] EXCEPT !.overtaken = TRUE]
         ELSE calls[c]
  BY DEF Declared!Overtake
<1>3. CASE calls[c] = Declared!Idle
  BY <1>1, <1>2, <1>3 DEF Declared!Idle
<1>4. CASE calls[c] \in [does : {"openDetail"}, id : Trips, overtaken : BOOLEAN]
  BY <1>1, <1>2, <1>4 DEF Declared!Calls
<1>5. CASE calls[c] \in [does : {"write", "reload"}, by : Declared!Writes \union {"refresh"},
                         filters : Declared!Filters, overtaken : BOOLEAN]
  BY <1>1, <1>2, <1>5 DEF Declared!Calls
<1> QED
  BY <1>1, <1>3, <1>4, <1>5 DEF Declared!Calls

LEMMA PageTyped == Declared!TypeOK <=> page \in PageType /\ clicked \in [Clicks -> Declared!Calls]
BY DEF Declared!TypeOK, PageType

\* New data, whatever asked for them: they are what is asked for now, or marked.
LEMMA ShowsStep ==
    ASSUME PageInv,
           NEW data \in [of : Declared!Filters, totalPage : 0..MaxPage],
           NEW isLoading \in BOOLEAN, NEW outdated \in BOOLEAN,
           NEW calls \in [Clicks -> Declared!Calls],
           \A c \in Clicks : calls[c] = clicked[c] \/ calls[c] = Declared!Idle,
           isLoading \/ outdated \/ data.of = page.filters,
           Declared!Shows(data, isLoading, outdated, calls)
    PROVE  PageInv'
<1> DEFINE beyond == data.totalPage > 0 /\ page.filters.pageNumber > data.totalPage
<1>a. page \in PageType /\ clicked \in [Clicks -> Declared!Calls]
  BY PageTyped DEF PageInv
<1>1. CASE beyond
  <2>1. /\ page' = [page EXCEPT !.data = data, !.outdated = outdated, !.isLoading = TRUE,
                                !.filters.pageNumber = data.totalPage]
        /\ clicked' = Declared!Overtake(calls, {"write", "reload"})
    BY <1>1, <1>a DEF Declared!Shows, PageType
  <2>2. data.totalPage \in 1..MaxPage
    BY <1>1
  <2>3. [page.filters EXCEPT !.pageNumber = data.totalPage] \in Declared!Filters
    BY <1>a, <2>2 DEF PageType, Declared!Filters
  <2>4. /\ page' \in PageType
        /\ page'.isLoading = TRUE /\ page'.selected = page.selected
        /\ page'.detail = page.detail /\ page'.misled = page.misled
        /\ page'.isDetailLoading = page.isDetailLoading
    BY <1>a, <2>1, <2>3 DEF PageType
  <2>5. clicked' \in [Clicks -> Declared!Calls]
    <3>1. \A c \in Clicks :
             Declared!Overtake(calls, {"write", "reload"})[c] \in Declared!Calls
      BY Overtaken
    <3> QED
      BY <2>1, <3>1 DEF Declared!Overtake
  <2>6. Declared!TypeOK'
    BY <2>4, <2>5 DEF Declared!TypeOK, PageType
  <2>7. ASSUME NEW c \in Clicks
        PROVE  /\ clicked'[c].does \in {"write", "reload"} => clicked'[c].overtaken
               /\ clicked'[c].does = "openDetail" =>
                     clicked'[c].id = page'.selected \/ clicked'[c].overtaken
    BY <2>1, <2>4, Overtaken DEF PageInv, Declared!Idle
  <2> QED
    BY <2>4, <2>6, <2>7
       DEF PageInv, Declared!SyncsTheSelected, Declared!ListIsAsFiltered
<1>2. CASE ~ beyond
  <2>1. /\ page' = [page EXCEPT !.data = data, !.outdated = outdated,
                                !.isLoading = isLoading \/ beyond,
                                !.filters.pageNumber = page.filters.pageNumber]
        /\ clicked' = calls
    BY <1>2 DEF Declared!Shows
  <2>2. [page.filters EXCEPT !.pageNumber = page.filters.pageNumber] = page.filters
    BY <1>a DEF PageType, Declared!Filters
  <2>3. (isLoading \/ beyond) = isLoading
    BY <1>2
  <2>4. /\ page' \in PageType
        /\ page'.filters = page.filters /\ page'.selected = page.selected
        /\ page'.detail = page.detail /\ page'.misled = page.misled
        /\ page'.isDetailLoading = page.isDetailLoading
        /\ page'.data = data /\ page'.isLoading = isLoading /\ page'.outdated = outdated
    BY <1>a, <2>1, <2>2, <2>3 DEF PageType
  <2>6. Declared!TypeOK'
    BY <2>1, <2>4 DEF Declared!TypeOK, PageType
  <2>7. ASSUME NEW c \in Clicks
        PROVE  /\ clicked'[c].does \in {"write", "reload"} =>
                     clicked'[c].filters = page'.filters \/ clicked'[c].overtaken
               /\ clicked'[c].does = "openDetail" =>
                     clicked'[c].id = page'.selected \/ clicked'[c].overtaken
    BY <2>1, <2>4 DEF PageInv, Declared!Idle
  <2> QED
    BY <2>4, <2>6, <2>7
       DEF PageInv, Declared!SyncsTheSelected, Declared!ListIsAsFiltered
<1> QED
  BY <1>1, <1>2

\* A step that leaves the page alone, starts or ends calls.
LEMMA CallsStep ==
    ASSUME PageInv, page' = page, clicked' \in [Clicks -> Declared!Calls],
           \A c \in Clicks :
              \/ clicked'[c] = clicked[c] \/ clicked'[c] = Declared!Idle
              \/ /\ clicked'[c].does \in {"write", "reload"}
                 /\ \/ clicked'[c].filters = page.filters
                    \/ /\ clicked[c].does \in {"write", "reload"}
                       /\ clicked'[c].filters = clicked[c].filters
                       /\ clicked'[c].overtaken = clicked[c].overtaken
    PROVE  PageInv'
<1>1. Declared!TypeOK'
  BY DEF PageInv, Declared!TypeOK
<1>2. ASSUME NEW c \in Clicks
      PROVE  /\ clicked'[c].does \in {"write", "reload"} =>
                   clicked'[c].filters = page'.filters \/ clicked'[c].overtaken
             /\ clicked'[c].does = "openDetail" =>
                   clicked'[c].id = page'.selected \/ clicked'[c].overtaken
  BY DEF PageInv, Declared!Idle
<1> QED
  BY <1>1, <1>2 DEF PageInv, Declared!SyncsTheSelected, Declared!ListIsAsFiltered

LEMMA PageStep ==
    ASSUME PageInv, [Declared!Next]_pageVars
    PROVE  PageInv'
<1>a. page \in PageType /\ clicked \in [Clicks -> Declared!Calls]
  BY PageTyped DEF PageInv
<1>1. ASSUME NEW query \in Queries, Declared!ChangeFilters(query) PROVE PageInv'
  <2>1. [query |-> query, pageNumber |-> 1] \in Declared!Filters
    BY PagesAssumption DEF Declared!Filters
  <2>2. /\ page' \in PageType /\ page'.isLoading = TRUE /\ page'.detail = None
    BY <1>a, <1>1, <2>1 DEF Declared!ChangeFilters, PageType
  <2>3. \A c \in Clicks :
           /\ clicked'[c] \in Declared!Calls
           /\ clicked'[c].does \in {"openDetail", "write", "reload"} => clicked'[c].overtaken
    BY <1>a, <1>1, Overtaken DEF Declared!ChangeFilters
  <2>4. clicked' \in [Clicks -> Declared!Calls]
    BY <1>1, <2>3 DEF Declared!ChangeFilters, Declared!Overtake
  <2>5. Declared!TypeOK'
    BY <2>2, <2>4 DEF Declared!TypeOK, PageType
  <2> QED
    BY <2>2, <2>3, <2>5 DEF PageInv, Declared!SyncsTheSelected, Declared!ListIsAsFiltered
<1>2. CASE Declared!TurnPage
  <2>1. PICK number \in 1..page.data.totalPage :
           page' = [page EXCEPT !.filters.pageNumber = number, !.isLoading = TRUE]
    BY <1>2 DEF Declared!TurnPage
  <2>2. number \in 1..MaxPage
    BY <1>2, <1>a, <2>1, PagesAssumption DEF Declared!TurnPage, Declared!ListIsThere, PageType
  <2>3. [page.filters EXCEPT !.pageNumber = number] \in Declared!Filters
    BY <1>a, <2>2 DEF PageType, Declared!Filters
  <2>4. /\ page' \in PageType
        /\ page'.isLoading = TRUE /\ page'.selected = page.selected
        /\ page'.detail = page.detail /\ page'.misled = page.misled
        /\ page'.isDetailLoading = page.isDetailLoading
    BY <1>a, <2>1, <2>3 DEF PageType
  <2>5. \A c \in Clicks :
           /\ clicked'[c] \in Declared!Calls
           /\ clicked'[c].does = clicked[c].does
           /\ clicked'[c].does \in {"write", "reload"} => clicked'[c].overtaken
           /\ clicked'[c].does = "openDetail" => clicked'[c] = clicked[c]
    BY <1>a, <1>2, Overtaken DEF Declared!TurnPage
  <2>6. clicked' \in [Clicks -> Declared!Calls]
    BY <1>2, <2>5 DEF Declared!TurnPage, Declared!Overtake
  <2>7. Declared!TypeOK'
    BY <2>4, <2>6 DEF Declared!TypeOK, PageType
  <2> QED
    BY <2>4, <2>5, <2>7 DEF PageInv, Declared!SyncsTheSelected, Declared!ListIsAsFiltered
<1>3. CASE Declared!LoadArrives
  <2>1. PICK total \in 0..MaxPage :
           Declared!Shows([of |-> page.filters, totalPage |-> total], FALSE, FALSE, clicked)
    BY <1>3 DEF Declared!LoadArrives
  <2> DEFINE data == [of |-> page.filters, totalPage |-> total]
  <2>2. data \in [of : Declared!Filters, totalPage : 0..MaxPage] /\ data.of = page.filters
    BY <1>a DEF PageType
  <2> HIDE DEF data
  <2>3. Declared!Shows(data, FALSE, FALSE, clicked)
    BY <2>1 DEF data
  <2> QED
    BY <1>a, <2>2, <2>3, ShowsStep
<1>4. CASE Declared!LoadFails
  <2>1. /\ page' \in PageType /\ page'.outdated = TRUE /\ page'.filters = page.filters
        /\ page'.selected = page.selected /\ page'.detail = page.detail
        /\ page'.misled = page.misled /\ page'.isDetailLoading = page.isDetailLoading
        /\ clicked' = clicked
    BY <1>a, <1>4 DEF Declared!LoadFails, PageType
  <2>2. Declared!TypeOK'
    BY <1>a, <2>1 DEF Declared!TypeOK, PageType
  <2> QED
    BY <2>1, <2>2 DEF PageInv, Declared!SyncsTheSelected, Declared!ListIsAsFiltered
<1>5. ASSUME NEW c \in Clicks, Declared!Click(c) PROVE PageInv'
  <2>1. PICK does \in {"write", "reload"}, by \in Declared!Writes \union {"refresh"} :
           clicked' = [clicked EXCEPT ![c] = [does |-> does, by |-> by,
                                              filters |-> page.filters,
                                              overtaken |-> FALSE]]
    BY <1>5 DEF Declared!Click, Declared!Starts
  <2> DEFINE new == [does |-> does, by |-> by, filters |-> page.filters, overtaken |-> FALSE]
  <2>2. new \in Declared!Calls /\ new.does \in {"write", "reload"}
        /\ new.filters = page.filters
    BY <1>a DEF Declared!Calls, PageType
  <2> HIDE DEF new
  <2>3. clicked' = [clicked EXCEPT ![c] = new]
    BY <2>1 DEF new
  <2>4. page' = page
    BY <1>5 DEF Declared!Click
  <2> QED
    BY <1>a, <2>2, <2>3, <2>4, CallsStep
<1>6. ASSUME NEW c \in Clicks, Declared!Written(c) PROVE PageInv'
  <2>1. clicked[c].does = "write" /\ clicked' = [clicked EXCEPT ![c].does = "reload"]
        /\ page' = page
    BY <1>6 DEF Declared!Written, Declared!Does
  <2>2. clicked[c] \in [does : {"write", "reload"}, by : Declared!Writes \union {"refresh"},
                        filters : Declared!Filters, overtaken : BOOLEAN]
    BY <1>a, <2>1 DEF Declared!Calls, Declared!Idle
  <2> DEFINE new == [clicked[c] EXCEPT !.does = "reload"]
  <2>3. /\ new \in Declared!Calls /\ new.does = "reload"
        /\ new.filters = clicked[c].filters /\ new.overtaken = clicked[c].overtaken
    BY <2>2 DEF Declared!Calls
  <2>4. clicked' = [clicked EXCEPT ![c] = new]
    BY <2>1
  <2> HIDE DEF new
  <2> QED
    BY <1>a, <2>1, <2>3, <2>4, CallsStep
<1>7. ASSUME NEW c \in Clicks, Declared!reload(c) PROVE PageInv'
  <2>1. PICK total \in 0..MaxPage :
           Declared!Shows([of |-> clicked[c].filters, totalPage |-> total], page.isLoading,
                          clicked[c].overtaken, [clicked EXCEPT ![c] = Declared!Idle])
    BY <1>7 DEF Declared!reload
  <2>2. clicked[c].does = "reload"
    BY <1>7 DEF Declared!reload, Declared!Does
  <2>3. clicked[c] \in [does : {"write", "reload"}, by : Declared!Writes \union {"refresh"},
                        filters : Declared!Filters, overtaken : BOOLEAN]
    BY <1>a, <2>2 DEF Declared!Calls, Declared!Idle
  <2> DEFINE data == [of |-> clicked[c].filters, totalPage |-> total]
             calls == [clicked EXCEPT ![c] = Declared!Idle]
  <2>4. data \in [of : Declared!Filters, totalPage : 0..MaxPage]
        /\ data.of = clicked[c].filters
    BY <2>3
  <2>5. /\ calls \in [Clicks -> Declared!Calls]
        /\ \A d \in Clicks : calls[d] = clicked[d] \/ calls[d] = Declared!Idle
    BY <1>a DEF Declared!Calls
  <2>6. page.isLoading \in BOOLEAN /\ clicked[c].overtaken \in BOOLEAN
    BY <1>a, <2>3 DEF PageType
  <2>7. clicked[c].overtaken \/ clicked[c].filters = page.filters
    BY <2>2 DEF PageInv
  <2>8. Declared!Shows(data, page.isLoading, clicked[c].overtaken, calls)
    BY <2>1
  <2> HIDE DEF data, calls
  <2> QED
    BY <2>4, <2>5, <2>6, <2>7, <2>8, ShowsStep
<1>8. ASSUME NEW c \in Clicks, Declared!WriteOrReloadFails(c) PROVE PageInv'
  <2>1. clicked' = [clicked EXCEPT ![c] = Declared!Idle] /\ page' = page
    BY <1>8 DEF Declared!WriteOrReloadFails
  <2>2. Declared!Idle \in Declared!Calls
    BY DEF Declared!Calls
  <2> QED
    BY <1>a, <2>1, <2>2, CallsStep
<1>9. ASSUME NEW c \in Clicks, NEW d \in Trips, Declared!openDetail(c, d) PROVE PageInv'
  <2> DEFINE new == [does |-> "openDetail", id |-> d, overtaken |-> FALSE]
             calls == Declared!Overtake(clicked, {"openDetail"})
  <2>1. new \in Declared!Calls /\ new.does = "openDetail" /\ new.id = d
    BY DEF Declared!Calls
  <2>2. \A b \in Clicks :
           /\ calls[b] \in Declared!Calls
           /\ calls[b].does = "openDetail" => calls[b].overtaken
           /\ calls[b].does # "openDetail" => calls[b] = clicked[b]
    BY <1>a, Overtaken
  <2>3. calls \in [Clicks -> Declared!Calls]
    BY <2>2 DEF Declared!Overtake
  <2>4. clicked' = [calls EXCEPT ![c] = new]
    BY <1>9 DEF Declared!openDetail, Declared!Starts
  <2>5. /\ page' \in PageType /\ page'.filters = page.filters
        /\ page'.selected = d /\ page'.isDetailLoading = TRUE
        /\ page'.isLoading = page.isLoading /\ page'.data = page.data
        /\ page'.outdated = page.outdated
    BY <1>a, <1>9 DEF Declared!openDetail, PageType
  <2> HIDE DEF new, calls
  <2>6. clicked' \in [Clicks -> Declared!Calls]
    BY <2>1, <2>3, <2>4
  <2>7. Declared!TypeOK'
    BY <2>5, <2>6 DEF Declared!TypeOK, PageType
  <2>8. ASSUME NEW b \in Clicks
        PROVE  /\ clicked'[b].does \in {"write", "reload"} =>
                     clicked'[b].filters = page'.filters \/ clicked'[b].overtaken
               /\ clicked'[b].does = "openDetail" =>
                     clicked'[b].id = page'.selected \/ clicked'[b].overtaken
    BY <2>1, <2>2, <2>3, <2>4, <2>5 DEF PageInv
  <2> QED
    BY <2>5, <2>7, <2>8 DEF PageInv, Declared!SyncsTheSelected, Declared!ListIsAsFiltered
<1>10. ASSUME NEW c \in Clicks, Declared!DetailArrives(c) \/ Declared!DetailFails(c)
       PROVE  PageInv'
  <2>1. clicked[c].does = "openDetail"
    BY <1>10 DEF Declared!DetailArrives, Declared!DetailFails, Declared!Does
  <2>2. clicked[c] \in [does : {"openDetail"}, id : Trips, overtaken : BOOLEAN]
    BY <1>a, <2>1 DEF Declared!Calls, Declared!Idle
  <2>3. clicked' = [clicked EXCEPT ![c] = Declared!Idle]
    BY <1>10 DEF Declared!DetailArrives, Declared!DetailFails
  <2>4. clicked' \in [Clicks -> Declared!Calls]
    BY <1>a, <2>3 DEF Declared!Calls
  <2>5. /\ page' \in PageType /\ page'.filters = page.filters
        /\ page'.selected = page.selected
        /\ page'.isLoading = page.isLoading /\ page'.data = page.data
        /\ page'.outdated = page.outdated
        /\ \/ page'.detail = clicked[c].id /\ page'.misled = clicked[c].overtaken
           \/ page'.misled = TRUE
    BY <1>a, <1>10, <2>2, ZenonT(40) DEF Declared!DetailArrives, Declared!DetailFails, PageType
  <2>6. Declared!TypeOK'
    BY <2>4, <2>5 DEF Declared!TypeOK, PageType
  <2>7. clicked[c].id = page.selected \/ clicked[c].overtaken
    BY <2>1 DEF PageInv
  <2>8. ASSUME NEW b \in Clicks
        PROVE  /\ clicked'[b].does \in {"write", "reload"} =>
                     clicked'[b].filters = page'.filters \/ clicked'[b].overtaken
               /\ clicked'[b].does = "openDetail" =>
                     clicked'[b].id = page'.selected \/ clicked'[b].overtaken
    BY <1>a, <2>3, <2>5 DEF PageInv, Declared!Idle
  <2> QED
    BY <2>5, <2>6, <2>7, <2>8 DEF PageInv, Declared!SyncsTheSelected, Declared!ListIsAsFiltered
<1>11. CASE UNCHANGED pageVars
  BY <1>a, <1>11, CallsStep DEF pageVars
<1> QED
  BY <1>1, <1>2, <1>3, <1>4, <1>5, <1>6, <1>7, <1>8, <1>9, <1>10, <1>11 DEF Declared!Next

LEMMA PageInvariance == PagesSpec => []PageInv
<1>1. Declared!Init => PageInv
  <2> SUFFICES ASSUME Declared!Init PROVE PageInv
    OBVIOUS
  <2>1. page \in PageType /\ page.data = None /\ page.detail = None
    <3>1. 1 \in 1..MaxPage
      BY PagesAssumption
    <3>2. [query : Queries, pageNumber : {1}] \subseteq Declared!Filters
      BY <3>1 DEF Declared!Filters
    <3>3. page.filters \in Declared!Filters
      BY <3>2 DEF Declared!Init
    <3> QED
      BY <3>3 DEF Declared!Init, PageType
  <2>2. clicked \in [Clicks -> Declared!Calls] /\ \A c \in Clicks : clicked[c] = Declared!Idle
    BY DEF Declared!Init, Declared!Calls
  <2> QED
    BY <2>1, <2>2, PageTyped DEF PageInv, Declared!SyncsTheSelected,
       Declared!ListIsAsFiltered, Declared!Idle
<1>2. PageInv /\ [Declared!Next]_pageVars => PageInv'
  BY PageStep
<1> QED
  BY <1>1, <1>2, EachAlone, PTL
-----------------------------------------------------------------------------
(* Theorems *)

\* The variables of the trips and of both pages have their types.
THEOREM AllTypesCorrect == PagesSpec => []TypesOK
<1>1. PageInv => Declared!TypeOK
  BY DEF PageInv
<1>2. FormInv => Saving!TypeOK
  BY DEF FormInv
<1> QED
  BY <1>1, <1>2, EachAlone, TypeCorrect, PageInvariance, FormInvariance, PTL DEF TypesOK

\* Whatever order answers come in: the button of the panel synchronises the declaration
\* that is highlighted, and the list is that of the filters above it, unless a click, a
\* change of the filters or a failed load came in between
\* (cua-khau-so-client.tsx:107-209).
THEOREM ShownAsAskedFor == PagesSpec => []ShowsWhatWasAskedFor
<1>1. PageInv => ShowsWhatWasAskedFor
  BY DEF PageInv, ShowsWhatWasAskedFor
<1> QED
  BY <1>1, PageInvariance, PTL

\* What a user submits until it is said to be saved is recorded, and once, unless a
\* submission that was recorded was reported as failed, or the end of a deletion, whose
\* runDelete clears the same isSaving, let the user submit it a second time
\* (trip-detail-client.tsx:176, admin-client.tsx:350).
THEOREM RecordedOnce == PagesSpec => []RecordedOnceUnlessMisled
<1>1. FormInv => Saving!NothingIsPretended /\ Saving!RecordedOnceUnlessMisled
  BY PagesAssumption DEF FormInv, SubmittingInv, Saving!TypeOK,
     Saving!RecordedOnceUnlessMisled
<1> QED
  BY <1>1, FormInvariance, PTL DEF RecordedOnceUnlessMisled
=============================================================================
