---------------------------- MODULE CuaKhauSoProofs ----------------------------
(***************************************************************************)
(* Theorems about CuaKhauSo, for all declarations, runs, users' calls and   *)
(* marks and any number of incidents: what is recorded is on the source,    *)
(* COMPLETED is founded, CANCELLED is final, and only a stale detail        *)
(* reopens a trip.                                                          *)
(***************************************************************************)
EXTENDS CuaKhauSo, FiniteSetTheorems, TLAPS

\* What a flow has in hand where it is.
InHand(f) ==
    /\ pc[f] \in {"base", "events", "remove", "cancelTrips"} => doc[f] \in Declarations
    /\ pc[f] \in {"idle", "select", "batch"} => detail[f] = NoMarks
    /\ pc[f] = "events" =>
          /\ left[f] \subseteq buildEventCandidates(detail[f])
          /\ linked[f] \in Trips /\ doc[f] \in linkedTo[linked[f]]

\* A detail may be stale, but it never shows a mark the source does not have.
NothingInvented(f) ==
    \A m \in AllMarks :
        Has(detail[f], m) => doc[f] \in Declarations /\ Has(marks[doc[f]], m)

FlowInv == \A f \in Flows : InHand(f) /\ NothingInvented(f)

\* The inductive invariant.
IndInv ==
    /\ TypeOK
    /\ FlowInv
    /\ RecordedIsOnSource
    /\ CompletedIsFounded

\* The places in a run, a user's flow or both.
Places == {"idle", "select", "batch", "base", "events", "remove", "cancelTrips"}

-----------------------------------------------------------------------------
(* The mapper and the tables *)

LEMMA AllMarksFinite == IsFiniteSet(AllMarks)
<1> DEFINE fields == <<
           "checkBorderGuard", "confirmArrivalVehicleCustoms",
           "confirmInParkingCustoms", "confirmStartCheck", "paid",
           "confirmOutParkingBorderGuard", "confirmOutParkingCustoms",
           "checkAllConfirmOutTQ", "confirmFinish", "licenceRegistered",
           "confirmTransportLicense", "emptyVehicleEntered", "checkChangeVehicle">>
<1>1. fields \in [1..13 -> AllMarks] /\ \A m \in AllMarks : \E i \in 1..13 : fields[i] = m
  BY DEF AllMarks
<1>2. fields \in Surjection(1..13, AllMarks)
  BY <1>1, Zenon DEF Surjection
<1>3. IsFiniteSet(1..13)
  <2>1. 1 \in Int /\ 13 \in Int
    OBVIOUS
  <2> QED
    BY <2>1, FS_Interval
<1> QED
  BY <1>2, <1>3, FS_Surjection

\* Setting a mark is all that Mark does to a detail.
LEMMA MarkSets ==
    ASSUME NEW shown \in Details, NEW m \in AllMarks
    PROVE  LET after == [shown EXCEPT ![m] = NextTime(shown)]
           IN  /\ after \in Details
               /\ \A x \in AllMarks : Has(after, x) <=> Has(shown, x) \/ x = m
<1>1. {x \in AllMarks : Has(shown, x)} \in SUBSET AllMarks
  OBVIOUS
<1>2. IsFiniteSet({x \in AllMarks : Has(shown, x)})
  BY <1>1, AllMarksFinite, FS_Subset
<1>3. Cardinality({x \in AllMarks : Has(shown, x)}) \in Nat
  BY <1>2, FS_CardinalityType
<1>4. NextTime(shown) \in Nat /\ NextTime(shown) # 0
  BY <1>3 DEF NextTime
<1> QED
  BY <1>4 DEF Details, Has, Unset

\* What is fetched shows no more than what the source has.
LEMMA FetchedShowsLess ==
    ASSUME NEW shown \in Details, NEW e \in EnrichedDetails(shown)
    PROVE  e \in Details /\ \A m \in AllMarks : Has(e, m) => Has(shown, m)
BY DEF EnrichedDetails, Details, Has, Unset

LEMMA NoMarksShowNothing == NoMarks \in Details /\ \A m \in AllMarks : ~ Has(NoMarks, m)
BY DEF NoMarks, Details, Has, Unset

\* The events a declaration may give.
LEMMA EventFacts ==
    /\ DOMAIN CandidateOrder = 1..9
    /\ \A i \in 1..9 : CandidateOrder[i] \in CandidateTypes
    /\ \A type \in CandidateTypes :
          type \in {"DECLARATION_SUBMITTED", "BORDER_GATE_ENTRY_CONFIRMED",
                   "YARD_ENTRY_CONFIRMED", "TRANSSHIPMENT_ELIGIBLE", "TRANSSHIPMENT_SIGNED",
                   "CUSTOMS_PROCESSING", "FEE_PAID", "YARD_EXIT_CONFIRMED",
                   "BORDER_GATE_EXIT_CONFIRMED"}
    /\ "BORDER_GATE_ENTRY_CONFIRMED" \in CandidateTypes
    /\ "BORDER_GATE_EXIT_CONFIRMED" \in CandidateTypes
<1>1. DOMAIN CandidateOrder = 1..9
  BY DEF CandidateOrder
<1>2. \A i \in 1..9 : i \in {1, 2, 3, 4, 5, 6, 7, 8, 9}
  OBVIOUS
<1>a. 2 \in 1..9 /\ 9 \in 1..9
  OBVIOUS
<1>3. /\ CandidateOrder[1] = "DECLARATION_SUBMITTED"
      /\ CandidateOrder[2] = "BORDER_GATE_ENTRY_CONFIRMED"
      /\ CandidateOrder[3] = "YARD_ENTRY_CONFIRMED"
      /\ CandidateOrder[4] = "TRANSSHIPMENT_ELIGIBLE"
      /\ CandidateOrder[5] = "TRANSSHIPMENT_SIGNED"
      /\ CandidateOrder[6] = "CUSTOMS_PROCESSING"
      /\ CandidateOrder[7] = "FEE_PAID"
      /\ CandidateOrder[8] = "YARD_EXIT_CONFIRMED"
      /\ CandidateOrder[9] = "BORDER_GATE_EXIT_CONFIRMED"
  BY DEF CandidateOrder
<1>4. (\A i \in 1..9 : CandidateOrder[i] \in CandidateTypes)
      /\ \A type \in CandidateTypes : \E i \in 1..9 : type = CandidateOrder[i]
  BY <1>1 DEF CandidateTypes
<1>5. ASSUME NEW type \in CandidateTypes
      PROVE  type \in {"DECLARATION_SUBMITTED", "BORDER_GATE_ENTRY_CONFIRMED",
                      "YARD_ENTRY_CONFIRMED", "TRANSSHIPMENT_ELIGIBLE", "TRANSSHIPMENT_SIGNED",
                      "CUSTOMS_PROCESSING", "FEE_PAID", "YARD_EXIT_CONFIRMED",
                      "BORDER_GATE_EXIT_CONFIRMED"}
  <2>1. PICK i \in {1, 2, 3, 4, 5, 6, 7, 8, 9} : type = CandidateOrder[i]
    BY <1>2, <1>4
  <2> QED
    BY <1>3, <2>1
<1> QED
  BY <1>1, <1>3, <1>4, <1>5, <1>a

\* What it takes for the two that need the authorities' word.
LEMMA CandidateFacts ==
    ASSUME NEW shown, NEW i \in buildEventCandidates(shown)
    PROVE  /\ i \in 1..9 /\ CandidateOrder[i] \in CandidateTypes
           /\ CandidateOrder[i] = "BORDER_GATE_ENTRY_CONFIRMED" => vehicleEntered(shown)
           /\ CandidateOrder[i] = "BORDER_GATE_EXIT_CONFIRMED" => Has(shown, "confirmFinish")
<1>1. /\ Considered(shown, "BORDER_GATE_ENTRY_CONFIRMED").shown = vehicleEntered(shown)
      /\ Considered(shown, "BORDER_GATE_EXIT_CONFIRMED").shown = Has(shown, "confirmFinish")
  BY DEF Considered
<1>2. i \in 1..9 /\ Considered(shown, CandidateOrder[i]).shown
  BY EventFacts DEF buildEventCandidates, IsCandidate
<1>3. ASSUME CandidateOrder[i] = "BORDER_GATE_ENTRY_CONFIRMED" PROVE vehicleEntered(shown)
  BY <1>1, <1>2, <1>3
<1>4. ASSUME CandidateOrder[i] = "BORDER_GATE_EXIT_CONFIRMED" PROVE Has(shown, "confirmFinish")
  BY <1>1, <1>2, <1>4
<1> QED
  BY <1>2, <1>3, <1>4, EventFacts

LEMMA TripProjection == \A e : Projects(e) => eventStatusProjection[e] \in TripStatuses
BY DEF Projects, eventStatusProjection, TripStatuses

\* Of these events, only the exit completes a trip, and none moves one that has
\* ended.
LEMMA StatusFacts ==
    ASSUME NEW s \in TripStatuses \union {None}, NEW type \in CandidateTypes
    PROVE  /\ StatusAfter(s, type) \in TripStatuses \union {None}
           /\ StatusAfter(s, type) = "COMPLETED" =>
                 s = "COMPLETED" \/ type = "BORDER_GATE_EXIT_CONFIRMED"
BY EventFacts DEF StatusAfter, Projects, eventStatusProjection, TripStatuses, None

LEMMA EndedStays ==
    ASSUME NEW s \in Terminal, NEW type, CanApplyEvent(s, type)
    PROVE  StatusAfter(s, type) = s
<1>1. allowedTransitions[s] = {}
  BY DEF allowedTransitions, Terminal
<1> QED
  BY <1>1 DEF CanApplyEvent, StatusAfter

-----------------------------------------------------------------------------
(* The inductive invariant holds at the start *)

LEMMA InvInit == Init => IndInv
<1> SUFFICES ASSUME Init PROVE IndInv
  OBVIOUS
<1> USE CuaKhauSoAssumption, NoMarksShowNothing DEF Init
<1>1. TypeOK
  BY DEF TypeOK, Flows, Trips, None
<1>2. FlowInv
  BY DEF FlowInv, InHand, NothingInvented
<1>3. RecordedIsOnSource /\ CompletedIsFounded
  BY EventFacts DEF RecordedIsOnSource, CompletedIsFounded, Trips, None
<1> QED
  BY <1>1, <1>2, <1>3 DEF IndInv

-----------------------------------------------------------------------------
(* Every step keeps it *)

\* What a flow forgets when it is through with a declaration.
LEMMA DoneWithType ==
    ASSUME TypeOK, NEW f \in Flows, DoneWith(f)
    PROVE  /\ pc' \in [Flows -> Places] /\ phase' \in [Flows -> {"details", "reconcile", "user"}]
           /\ todo' \in [Flows -> SUBSET Declarations]
           /\ doc' \in [Flows -> Declarations \union {None}]
           /\ detail' \in [Flows -> Details]
           /\ asked' \in [Flows -> Trips \union {None}]
           /\ linked' \in [Flows -> Trips \union {None}]
           /\ base' \in [Flows -> TripStatuses \union {None}]
           /\ left' \in [Flows -> SUBSET (1..9)]
BY NoMarksShowNothing DEF DoneWith, Goes, TypeOK, Places

\* A call is over, or goes on to the removal.
LEMMA ThrowsType ==
    ASSUME TypeOK, NEW f \in Flows, Throws(f)
    PROVE  /\ pc' \in [Flows -> Places] /\ phase' \in [Flows -> {"details", "reconcile", "user"}]
           /\ todo' \in [Flows -> SUBSET Declarations]
           /\ doc' \in [Flows -> Declarations \union {None}]
           /\ detail' \in [Flows -> Details]
           /\ asked' \in [Flows -> Trips \union {None}]
           /\ linked' \in [Flows -> Trips \union {None}]
           /\ base' \in [Flows -> TripStatuses \union {None}]
           /\ left' \in [Flows -> SUBSET (1..9)]
<1>1. CASE DoneWith(f)
  BY <1>1, DoneWithType
<1>2. CASE Goes(f, "remove") /\ UNCHANGED <<phase, todo, item>>
  BY <1>2 DEF Goes, item, TypeOK, Places
<1> QED
  BY <1>1, <1>2 DEF Throws

\* What the base transaction does to the trip it links to the declaration.
LEMMA BaseFacts ==
    ASSUME TypeOK, FlowInv, NEW f \in Flows, Base(f)
    PROVE  /\ doc[f] \in Declarations
           /\ \E t \in Trips :
                 /\ trip' = [trip EXCEPT ![t] = IF trip[t] = None THEN "PLANNED" ELSE trip[t]]
                 /\ link' = [link EXCEPT ![t] = doc[f]]
                 /\ linkedTo' = [linkedTo EXCEPT ![t] = linkedTo[t] \union {doc[f]}]
                 /\ linked' = [linked EXCEPT ![f] = t]
                 /\ base' = [base EXCEPT ![f] = trip'[t]]
<1>1. doc[f] \in Declarations
  BY DEF Base, FlowInv, InHand
<1>2. CASE asked[f] # None
  <2>1. resolveLinkedTrip(f) = {asked[f]} /\ asked[f] \in Trips
    BY <1>2 DEF resolveLinkedTrip, TypeOK
  <2> QED
    BY <1>1, <2>1 DEF Base
<1>3. CASE asked[f] = None /\ LinkedTrips(doc[f]) # {}
  <2>1. resolveLinkedTrip(f) = LinkedTrips(doc[f]) /\ LinkedTrips(doc[f]) \subseteq Trips
    BY <1>3 DEF resolveLinkedTrip, LinkedTrips
  <2> QED
    BY <1>1, <2>1 DEF Base
<1>4. CASE asked[f] = None /\ LinkedTrips(doc[f]) = {}
  <2>1. resolveLinkedTrip(f) = {doc[f]} /\ doc[f] \in Trips
    BY <1>1, <1>4 DEF resolveLinkedTrip, Trips
  <2> QED
    BY <1>1, <2>1 DEF Base
<1> QED
  BY <1>2, <1>3, <1>4

\* The next candidate of a flow, and what recording it does.
LEMMA RecordFacts ==
    ASSUME TypeOK, FlowInv, NEW f \in Flows, Record(f)
    PROVE  /\ pc[f] = "events" /\ doc[f] \in Declarations
           /\ linked[f] \in Trips /\ doc[f] \in linkedTo[linked[f]]
           /\ UNCHANGED <<source, mirror, link, linkedTo, byUser, pc, phase, todo, doc, detail,
                          asked, linked, base, incidents>>
           /\ \E i \in left[f] :
                 /\ left' = [left EXCEPT ![f] = left[f] \ {i}]
                 /\ i \in buildEventCandidates(detail[f])
                 /\ \/ UNCHANGED <<recorded, trip>>
                    \/ /\ CanApplyEvent(trip[linked[f]], CandidateOrder[i])
                       /\ recorded' = [recorded EXCEPT ![doc[f]] =
                                         [recorded[doc[f]] EXCEPT ![CandidateOrder[i]] = linked[f]]]
                       /\ trip' = [trip EXCEPT ![linked[f]] =
                                     StatusAfter(trip[linked[f]], CandidateOrder[i])]
<1>1. pc[f] = "events"
  BY DEF Record
<1>2. /\ doc[f] \in Declarations /\ left[f] \subseteq buildEventCandidates(detail[f])
      /\ linked[f] \in Trips /\ doc[f] \in linkedTo[linked[f]]
  BY <1>1 DEF FlowInv, InHand
<1>3. PICK i \in left[f] :
          /\ IF recorded[doc[f]][CandidateOrder[i]] = None /\ CanApplyEvent(trip[linked[f]], CandidateOrder[i])
               THEN /\ recorded' = [recorded EXCEPT ![doc[f]] =
                                      [recorded[doc[f]] EXCEPT ![CandidateOrder[i]] = linked[f]]]
                    /\ trip' = [trip EXCEPT ![linked[f]] =
                                  StatusAfter(trip[linked[f]], CandidateOrder[i])]
               ELSE UNCHANGED <<recorded, trip>>
          /\ left' = [left EXCEPT ![f] = left[f] \ {i}]
  BY DEF Record, TypeOK
<1>4. UNCHANGED <<source, mirror, link, linkedTo, byUser, pc, phase, todo, doc, detail,
                  asked, linked, base, incidents>>
  BY DEF Record
<1> QED
  BY <1>1, <1>2, <1>3, <1>4

LEMMA TypeStep == IndInv /\ [Next]_vars => TypeOK'
<1> SUFFICES ASSUME IndInv, [Next]_vars PROVE TypeOK'
  OBVIOUS
<1> USE CuaKhauSoAssumption
    DEF source, trips, mirrored, item, flows, Goes, Incident, Places
<1>0. TypeOK /\ FlowInv
  BY DEF IndInv
<1>1. ASSUME NEW d \in Declarations, Declare(d) \/ Delete(d) \/ Age(d) PROVE TypeOK'
  BY <1>0, <1>1 DEF Declare, Delete, Age, TypeOK
<1>2. ASSUME NEW d \in Declarations, NEW m \in Marks, Mark(d, m) PROVE TypeOK'
  <2>1. m \in AllMarks /\ marks[d] \in Details
    BY <1>0 DEF TypeOK
  <2>2. [marks[d] EXCEPT ![m] = NextTime(marks[d])] \in Details
    BY <2>1, MarkSets
  <2>3. marks' \in [Declarations -> Details]
    BY <1>0, <1>2, <2>2 DEF Mark, TypeOK
  <2> QED
    BY <1>0, <1>2, <2>3 DEF Mark, TypeOK
<1>3. ASSUME NEW t \in Trips, NEW type \in UserTypes, UserEvent(t, type) PROVE TypeOK'
  <2>1. StatusAfter(trip[t], type) \in TripStatuses \union {None}
    BY <1>0, TripProjection DEF StatusAfter, TypeOK
  <2>2. trip' \in [Trips -> TripStatuses \union {None}]
    BY <1>0, <1>3, <2>1 DEF UserEvent, TypeOK
  <2> QED
    BY <1>0, <1>3, <2>2 DEF UserEvent, TypeOK
<1>4. ASSUME NEW t \in Trips, NEW d \in Declarations \union {None}, createTrip(t, d)
      PROVE  TypeOK'
  <2>1. /\ trip' \in [Trips -> TripStatuses \union {None}]
        /\ link' \in [Trips -> Declarations \union {None}]
        /\ linkedTo' \in [Trips -> SUBSET Declarations]
    BY <1>0, <1>4 DEF createTrip, TypeOK, TripStatuses
  <2> QED
    BY <1>0, <1>4, <2>1 DEF createTrip, TypeOK
<1>5. ASSUME NEW f \in Flows, NEW d \in Declarations,
             Fetch(f, d) \/ \E t \in Trips \union {None} : syncDeclaration(f, d, t)
      PROVE  TypeOK'
  <2>1. PICK e \in EnrichedDetails(marks[d]) : detail' = [detail EXCEPT ![f] = e]
    BY <1>5 DEF syncDeclaration, Fetch
  <2>2. detail' \in [Flows -> Details]
    BY <1>0, <2>1, FetchedShowsLess DEF TypeOK
  <2>3. asked' \in [Flows -> Trips \union {None}]
    BY <1>0, <1>5 DEF syncDeclaration, Fetch, TypeOK
  <2>4. /\ doc' = [doc EXCEPT ![f] = d] /\ pc' = [pc EXCEPT ![f] = "base"]
        /\ UNCHANGED <<source, mirrored, phase, todo, linked, base, left, incidents>>
    BY <1>5 DEF syncDeclaration, Fetch
  <2> QED
    BY <1>0, <2>2, <2>3, <2>4 DEF TypeOK
<1>6. ASSUME NEW f \in Flows, NEW d \in Declarations,
             FetchFails(f, d) \/ FetchFindsNothing(f, d)
      PROVE  TypeOK'
  <2>1. Missed(f, d) /\ incidents' \in 0..MaxIncidents
    BY <1>0, <1>6 DEF FetchFails, FetchFindsNothing, Missed, TypeOK
  <2>2. /\ pc' \in [Flows -> Places] /\ todo' \in [Flows -> SUBSET Declarations]
        /\ doc' \in [Flows -> Declarations \union {None}]
        /\ UNCHANGED <<source, mirrored, phase, detail, asked, linked, base, left>>
    <3>1. CASE phase[f] = "details"
      BY <1>0, <2>1, <3>1 DEF Missed, TypeOK
    <3>2. CASE phase[f] # "details"
      <4>1. /\ doc' = [doc EXCEPT ![f] = d] /\ pc' = [pc EXCEPT ![f] = "remove"]
            /\ UNCHANGED todo
            /\ UNCHANGED <<source, mirrored, phase, detail, asked, linked, base, left>>
        BY <2>1, <3>2 DEF Missed
      <4> QED
        BY <1>0, <4>1 DEF TypeOK
    <3> QED
      BY <3>1, <3>2
  <2> QED
    BY <1>0, <2>1, <2>2 DEF TypeOK
<1>7. ASSUME NEW f \in Flows, ScanOpen(f) \/ ScanFinished(f) PROVE TypeOK'
  <2>1. ASSUME NEW list \in SUBSET Declarations, NEW S \in Pages(list)
        PROVE  S \in SUBSET Declarations
    <3>1. S \subseteq list
      BY <2>1, Zenon DEF Pages
    <3> QED
      BY <2>1, <3>1
  <2>5. /\ {d \in present : ~ Finished(d)} \in SUBSET Declarations
        /\ {d \in present : Finished(d)} \in SUBSET Declarations
    BY <1>0 DEF TypeOK
  <2>2. mirror' \in [Declarations -> {None, "SUBMITTED", "APPROVED", "CANCELLED"}]
    BY <1>0, <1>7 DEF ScanOpen, ScanFinished, Scanned, TypeOK
  <2>3. todo' \in [Flows -> SUBSET Declarations]
    <3>1. CASE ScanOpen(f)
      <4>1. PICK S \in SUBSET Declarations : todo' = [todo EXCEPT ![f] = S \ aged]
        BY <2>1, <2>5, <3>1 DEF ScanOpen
      <4> QED
        BY <1>0, <4>1 DEF TypeOK
    <3>2. CASE ScanFinished(f)
      <4>1. PICK S \in SUBSET Declarations :
                todo' = [todo EXCEPT ![f] = todo[f] \union {d \in S \ aged : Linked(d)}]
        BY <2>1, <2>5, <3>2 DEF ScanFinished
      <4>2. todo[f] \union {d \in S \ aged : Linked(d)} \in SUBSET Declarations
        BY <1>0 DEF TypeOK
      <4> QED
        BY <1>0, <4>1, <4>2 DEF TypeOK
    <3> QED
      BY <1>7, <3>1, <3>2
  <2>4. pc' \in [Flows -> Places] /\ UNCHANGED <<source, trips, phase, item, incidents>>
    BY <1>0, <1>7 DEF ScanOpen, ScanFinished, TypeOK
  <2> QED
    BY <1>0, <2>2, <2>3, <2>4 DEF TypeOK
<1>8. ASSUME NEW f \in Flows, Base(f) PROVE TypeOK'
  <2>1. PICK t \in Trips :
            /\ trip' = [trip EXCEPT ![t] = IF trip[t] = None THEN "PLANNED" ELSE trip[t]]
            /\ link' = [link EXCEPT ![t] = doc[f]]
            /\ linkedTo' = [linkedTo EXCEPT ![t] = linkedTo[t] \union {doc[f]}]
            /\ linked' = [linked EXCEPT ![f] = t]
            /\ base' = [base EXCEPT ![f] = trip'[t]]
    BY <1>0, <1>8, BaseFacts
  <2>2. doc[f] \in Declarations
    BY <1>0, <1>8, BaseFacts
  <2>3. mapDeclarationStatus(detail[f]) \in {"SUBMITTED", "APPROVED"}
    BY DEF mapDeclarationStatus
  <2>4. buildEventCandidates(detail[f]) \in SUBSET (1..9)
    BY CandidateFacts
  <2>5. trip' \in [Trips -> TripStatuses \union {None}]
    <3>1. (IF trip[t] = None THEN "PLANNED" ELSE trip[t]) \in TripStatuses \union {None}
      BY <1>0 DEF TypeOK, TripStatuses
    <3> QED
      BY <1>0, <2>1, <3>1 DEF TypeOK
  <2>6. /\ link' \in [Trips -> Declarations \union {None}]
        /\ linkedTo' \in [Trips -> SUBSET Declarations]
    BY <1>0, <2>1, <2>2 DEF TypeOK
  <2>7. /\ linked' \in [Flows -> Trips \union {None}]
        /\ base' \in [Flows -> TripStatuses \union {None}]
    BY <1>0, <2>1, <2>5 DEF TypeOK
  <2>8. /\ mirror' \in [Declarations -> {None, "SUBMITTED", "APPROVED", "CANCELLED"}]
        /\ left' \in [Flows -> SUBSET (1..9)]
        /\ pc' \in [Flows -> Places]
        /\ UNCHANGED <<source, recorded, byUser, phase, todo, doc, detail, asked, incidents>>
    BY <1>0, <1>8, <2>2, <2>3, <2>4 DEF Base, TypeOK
  <2> QED
    BY <1>0, <2>5, <2>6, <2>7, <2>8 DEF TypeOK
<1>9. ASSUME NEW f \in Flows, Record(f) PROVE TypeOK'
  <2>1. PICK i \in left[f] :
            /\ left' = [left EXCEPT ![f] = left[f] \ {i}]
            /\ i \in buildEventCandidates(detail[f])
            /\ \/ UNCHANGED <<recorded, trip>>
               \/ /\ recorded' = [recorded EXCEPT ![doc[f]] =
                                    [recorded[doc[f]] EXCEPT ![CandidateOrder[i]] = linked[f]]]
                  /\ trip' = [trip EXCEPT ![linked[f]] =
                                StatusAfter(trip[linked[f]], CandidateOrder[i])]
    BY <1>0, <1>9, RecordFacts
  <2>2. CandidateOrder[i] \in CandidateTypes
    BY <2>1, CandidateFacts
  <2>3. /\ doc[f] \in Declarations /\ linked[f] \in Trips
        /\ UNCHANGED <<source, mirror, link, linkedTo, byUser, pc, phase, todo, doc, detail,
                       asked, linked, base, incidents>>
    BY <1>0, <1>9, RecordFacts
  <2>4. StatusAfter(trip[linked[f]], CandidateOrder[i]) \in TripStatuses \union {None}
    BY <1>0, <2>2, <2>3, StatusFacts DEF TypeOK
  <2>5. recorded' \in [Declarations -> [CandidateTypes -> Trips \union {None}]]
    <3>1. [recorded[doc[f]] EXCEPT ![CandidateOrder[i]] = linked[f]]
              \in [CandidateTypes -> Trips \union {None}]
      BY <1>0, <2>2, <2>3 DEF TypeOK
    <3> QED
      BY <1>0, <2>1, <2>3, <3>1 DEF TypeOK
  <2>6. trip' \in [Trips -> TripStatuses \union {None}]
    BY <1>0, <2>1, <2>3, <2>4 DEF TypeOK
  <2> QED
    BY <1>0, <2>1, <2>3, <2>5, <2>6 DEF TypeOK
<1>10. ASSUME NEW f \in Flows, FinishDetail(f) PROVE TypeOK'
  <2>1. linked[f] \in Trips
    BY <1>0, <1>10 DEF FinishDetail, FlowInv, InHand
  <2>2. StatusFromDeclaration(f) \in TripStatuses \union {None}
    BY <1>0, <2>1 DEF StatusFromDeclaration, TypeOK, TripStatuses
  <2>3. trip' \in [Trips -> TripStatuses \union {None}]
    BY <1>0, <1>10, <2>1, <2>2 DEF FinishDetail, TypeOK
  <2> QED
    BY <1>0, <1>10, <2>3, DoneWithType DEF FinishDetail, TypeOK
<1>11. ASSUME NEW f \in Flows, StartReconciling(f) \/ EndRun(f) PROVE TypeOK'
  <2>1. todo' \in [Flows -> SUBSET Declarations]
    BY <1>0, <1>11 DEF StartReconciling, EndRun, TypeOK
  <2>2. /\ pc' \in [Flows -> Places] /\ phase' \in [Flows -> {"details", "reconcile", "user"}]
        /\ UNCHANGED <<source, mirrored, item, incidents>>
    BY <1>0, <1>11 DEF StartReconciling, EndRun, TypeOK
  <2> QED
    BY <1>0, <2>1, <2>2 DEF TypeOK
<1>12. ASSUME NEW f \in Flows, RemoveMirror(f) PROVE TypeOK'
  BY <1>0, <1>12 DEF RemoveMirror, TypeOK
<1>13. ASSUME NEW f \in Flows, CancelTrips(f) PROVE TypeOK'
  <2>1. trip' \in [Trips -> TripStatuses \union {None}]
    BY <1>0, <1>13 DEF CancelTrips, TypeOK, TripStatuses
  <2> QED
    BY <1>0, <1>13, <2>1, DoneWithType DEF CancelTrips, TypeOK
<1>14. ASSUME NEW f \in Flows, BaseRefuses(f) \/ KeyTaken(f) PROVE TypeOK'
  <2>1. UNCHANGED <<source, mirrored, incidents>> /\ (DoneWith(f) \/ Throws(f))
    BY <1>14 DEF BaseRefuses, KeyTaken
  <2> QED
    BY <1>0, <2>1, DoneWithType, ThrowsType DEF TypeOK
<1>15. ASSUME NEW f \in Flows, CallFails(f) PROVE TypeOK'
  <2>1. incidents' \in 0..MaxIncidents /\ UNCHANGED <<source, mirrored>>
    BY <1>0, <1>15 DEF CallFails, TypeOK
  <2>2. CASE pc' = [pc EXCEPT ![f] = "remove"] /\ UNCHANGED <<phase, todo, item>>
    BY <1>0, <2>1, <2>2 DEF TypeOK
  <2>3. CASE DoneWith(f) \/ Throws(f)
    BY <1>0, <2>1, <2>3, DoneWithType, ThrowsType DEF TypeOK
  <2> QED
    BY <1>15, <2>2, <2>3 DEF CallFails
<1>16. ASSUME NEW f \in Flows, Abort(f) PROVE TypeOK'
  BY <1>0, <1>16, NoMarksShowNothing DEF Abort, TypeOK
<1>17. CASE UNCHANGED vars
  BY <1>0, <1>17 DEF vars, TypeOK
<1> QED
  BY <1>1, <1>2, <1>3, <1>4, <1>5, <1>6, <1>7, <1>8, <1>9, <1>10, <1>11, <1>12, <1>13,
     <1>14, <1>15, <1>16, <1>17 DEF Next, Step, Flows

\* What a flow may do: a step of its own, or one that was not asked of it.
Acts(f) ==
    \/ Step(f) \/ CallFails(f) \/ Abort(f)
    \/ \E d \in Declarations :
          FetchFails(f, d) \/ \E t \in Trips \union {None} : syncDeclaration(f, d, t)

Keeps(g) ==
    /\ pc'[g] = pc[g] /\ doc'[g] = doc[g] /\ detail'[g] = detail[g]
    /\ left'[g] = left[g] /\ linked'[g] = linked[g]

\* A step of one flow leaves the others and the source alone.
LEMMA OnlyOne ==
    ASSUME TypeOK, NEW f \in Flows, Acts(f)
    PROVE  UNCHANGED source /\ \A g \in Flows \ {f} : Keeps(g)
<1> USE DEF TypeOK, Goes, item, Keeps
<1>1. ASSUME NEW d \in Declarations,
             Fetch(f, d) \/ \E t \in Trips \union {None} : syncDeclaration(f, d, t)
      PROVE  UNCHANGED source /\ \A g \in Flows \ {f} : Keeps(g)
  BY <1>1 DEF syncDeclaration, Fetch
<1>2. ASSUME NEW d \in Declarations, FetchFails(f, d) \/ FetchFindsNothing(f, d)
      PROVE  UNCHANGED source /\ \A g \in Flows \ {f} : Keeps(g)
  BY <1>2 DEF FetchFails, FetchFindsNothing, Missed
<1>3. CASE ScanOpen(f) \/ ScanFinished(f) \/ StartReconciling(f) \/ EndRun(f) \/ RemoveMirror(f)
  BY <1>3 DEF ScanOpen, ScanFinished, StartReconciling, EndRun, RemoveMirror
<1>4. CASE Base(f) \/ Record(f)
  BY <1>4 DEF Base, Record
<1>5. CASE FinishDetail(f) \/ CancelTrips(f)
  BY <1>5 DEF FinishDetail, CancelTrips, DoneWith
<1>6. CASE BaseRefuses(f) \/ KeyTaken(f)
  BY <1>6 DEF BaseRefuses, KeyTaken, Throws, DoneWith
<1>7. CASE CallFails(f)
  BY <1>7 DEF CallFails, Throws, DoneWith
<1>8. CASE Abort(f)
  BY <1>8 DEF Abort
<1> QED
  BY <1>1, <1>2, <1>3, <1>4, <1>5, <1>6, <1>7, <1>8 DEF Step, Acts

\* The flow that takes a step keeps what it has in hand.
LEMMA OwnStep ==
    ASSUME TypeOK, FlowInv, NEW f \in Flows, Acts(f)
    PROVE  InHand(f)' /\ NothingInvented(f)'
<1> USE NoMarksShowNothing DEF TypeOK, Goes, item, source
<1>a. InHand(f) /\ NothingInvented(f)
  BY DEF FlowInv
\* The flow has no detail any more.
<1>0. ASSUME pc'[f] \in {"idle", "select", "batch"}, detail'[f] = NoMarks
      PROVE  InHand(f)' /\ NothingInvented(f)'
  BY <1>0 DEF InHand, NothingInvented
\* The flow keeps its detail.
<1>1. ASSUME UNCHANGED <<marks, doc, detail>>,
             pc'[f] \in {"base", "remove", "cancelTrips", "events"}, doc[f] \in Declarations,
             pc'[f] = "events" => /\ left'[f] \subseteq buildEventCandidates(detail[f])
                                  /\ linked'[f] \in Trips /\ doc[f] \in linkedTo'[linked'[f]]
      PROVE  InHand(f)' /\ NothingInvented(f)'
  BY <1>a, <1>1 DEF InHand, NothingInvented
\* The flow fetches a detail.
<1>2. ASSUME NEW d \in Declarations,
             Fetch(f, d) \/ \E t \in Trips \union {None} : syncDeclaration(f, d, t)
      PROVE  InHand(f)' /\ NothingInvented(f)'
  <2>1. PICK e \in EnrichedDetails(marks[d]) : detail' = [detail EXCEPT ![f] = e]
    BY <1>2 DEF syncDeclaration, Fetch
  <2>2. /\ doc'[f] = d /\ detail'[f] = e /\ pc'[f] = "base" /\ UNCHANGED marks
    BY <1>2, <2>1 DEF syncDeclaration, Fetch
  <2>3. \A m \in AllMarks : Has(e, m) => Has(marks[d], m)
    BY FetchedShowsLess
  <2> QED
    BY <2>2, <2>3 DEF InHand, NothingInvented
<1>3. ASSUME NEW d \in Declarations, FetchFails(f, d) \/ FetchFindsNothing(f, d)
      PROVE  InHand(f)' /\ NothingInvented(f)'
  <2>1. pc[f] = "batch" /\ detail'[f] = NoMarks
    BY <1>a, <1>3 DEF FetchFails, FetchFindsNothing, Missed, InHand
  <2>2. pc'[f] = "batch" \/ (pc'[f] = "remove" /\ doc'[f] = d)
    BY <1>3, <2>1 DEF FetchFails, FetchFindsNothing, Missed
  <2> QED
    BY <2>1, <2>2 DEF InHand, NothingInvented
<1>4. CASE ScanOpen(f) \/ ScanFinished(f) \/ StartReconciling(f) \/ EndRun(f)
  <2>1. pc'[f] \in {"idle", "select", "batch"} /\ detail'[f] = NoMarks
    BY <1>a, <1>4 DEF ScanOpen, ScanFinished, StartReconciling, EndRun, InHand
  <2> QED
    BY <1>0, <2>1
<1>5. CASE Base(f)
  <2>1. /\ pc'[f] = "events" /\ left'[f] = buildEventCandidates(detail[f])
        /\ UNCHANGED <<marks, doc, detail>>
    BY <1>5 DEF Base
  <2>2. PICK t \in Trips : /\ linkedTo' = [linkedTo EXCEPT ![t] = linkedTo[t] \union {doc[f]}]
                           /\ linked' = [linked EXCEPT ![f] = t]
    BY <1>5, BaseFacts
  <2>3. linked'[f] = t /\ doc[f] \in linkedTo'[t] /\ doc[f] \in Declarations
    BY <1>5, <2>2, BaseFacts
  <2> QED
    BY <1>1, <2>1, <2>3
<1>6. CASE Record(f)
  <2>1. /\ pc'[f] = "events" /\ left'[f] \subseteq left[f]
        /\ left[f] \subseteq buildEventCandidates(detail[f])
        /\ UNCHANGED <<marks, doc, detail, linked, linkedTo>> /\ doc[f] \in Declarations
        /\ linked[f] \in Trips /\ doc[f] \in linkedTo[linked[f]]
    BY <1>a, <1>6 DEF Record, InHand
  <2> QED
    BY <1>1, <2>1
<1>7. CASE RemoveMirror(f)
  <2>1. /\ pc'[f] = "cancelTrips" /\ UNCHANGED <<marks, doc, detail>> /\ doc[f] \in Declarations
    BY <1>a, <1>7 DEF RemoveMirror, InHand
  <2> QED
    BY <1>1, <2>1
<1>8. ASSUME DoneWith(f) PROVE InHand(f)' /\ NothingInvented(f)'
  BY <1>0, <1>8 DEF DoneWith
<1>9. ASSUME Throws(f) \/ (pc' = [pc EXCEPT ![f] = "remove"] /\ UNCHANGED <<phase, todo, item>>),
             UNCHANGED marks, pc[f] \in {"base", "events", "remove", "cancelTrips"}
      PROVE  InHand(f)' /\ NothingInvented(f)'
  <2>1. CASE DoneWith(f)
    BY <1>8, <2>1
  <2>2. CASE ~ DoneWith(f)
    <3>1. /\ pc'[f] = "remove" /\ UNCHANGED <<marks, doc, detail>> /\ doc[f] \in Declarations
      BY <1>a, <1>9, <2>2 DEF Throws, InHand
    <3> QED
      BY <1>1, <3>1
  <2> QED
    BY <2>1, <2>2
<1>10. CASE FinishDetail(f) \/ CancelTrips(f) \/ BaseRefuses(f)
  BY <1>8, <1>10 DEF FinishDetail, CancelTrips, BaseRefuses
<1>11. CASE KeyTaken(f)
  BY <1>9, <1>11 DEF KeyTaken
<1>12. CASE CallFails(f)
  BY <1>8, <1>9, <1>12 DEF CallFails
<1>13. CASE Abort(f)
  <2>1. pc'[f] = "idle" /\ detail'[f] = NoMarks
    BY <1>13 DEF Abort
  <2> QED
    BY <1>0, <2>1
<1> QED
  BY <1>2, <1>3, <1>4, <1>5, <1>6, <1>7, <1>10, <1>11, <1>12, <1>13 DEF Step, Acts

\* The source only gains marks.
LEMMA MarksStay ==
    ASSUME TypeOK, [Next]_vars, NEW d \in Declarations, NEW x \in AllMarks, Has(marks[d], x)
    PROVE  Has(marks'[d], x)
<1>1. ASSUME NEW c \in Declarations, NEW m \in Marks, Mark(c, m) PROVE Has(marks'[d], x)
  <2>1. m \in AllMarks /\ marks[d] \in Details
    BY CuaKhauSoAssumption DEF TypeOK
  <2>2. Has([marks[d] EXCEPT ![m] = NextTime(marks[d])], x)
    BY <2>1, MarkSets
  <2>3. CASE c = d
    BY <1>1, <2>2, <2>3 DEF Mark, TypeOK
  <2>4. CASE c # d
    BY <1>1, <2>4 DEF Mark, TypeOK
  <2> QED
    BY <2>3, <2>4
<1>2. ASSUME UNCHANGED marks PROVE Has(marks'[d], x)
  BY <1>2
<1>3. ASSUME NEW c \in Declarations, Declare(c) \/ Delete(c) \/ Age(c) PROVE UNCHANGED marks
  BY <1>3 DEF Declare, Delete, Age, source
<1>4. ASSUME NEW t \in Trips,
             \/ \E type \in UserTypes : UserEvent(t, type)
             \/ \E c \in Declarations \union {None} : createTrip(t, c)
      PROVE  UNCHANGED marks
  BY <1>4 DEF UserEvent, createTrip, source
<1>5. ASSUME NEW f \in Flows, Acts(f) PROVE UNCHANGED marks
  BY <1>5, OnlyOne DEF source
<1>6. CASE UNCHANGED vars
  BY <1>6 DEF vars, source
<1> QED
  BY <1>1, <1>2, <1>3, <1>4, <1>5, <1>6 DEF Next, Flows, Acts

\* A trip that has been linked to a declaration stays one that has.
LEMMA LinksStay ==
    ASSUME TypeOK, FlowInv, [Next]_vars, NEW t \in Trips
    PROVE  linkedTo[t] \subseteq linkedTo'[t]
<1> USE DEF TypeOK, source, trips, mirrored
<1>1. ASSUME NEW c \in Declarations,
             Declare(c) \/ Delete(c) \/ Age(c) \/ \E m \in Marks : Mark(c, m)
      PROVE  linkedTo' = linkedTo
  BY <1>1 DEF Declare, Delete, Age, Mark
<1>2. ASSUME NEW s \in Trips, NEW type \in UserTypes, UserEvent(s, type)
      PROVE  linkedTo' = linkedTo
  BY <1>2 DEF UserEvent
<1>3. ASSUME NEW s \in Trips, NEW c \in Declarations \union {None}, createTrip(s, c)
      PROVE  linkedTo[t] \subseteq linkedTo'[t]
  BY <1>3 DEF createTrip
<1>4. ASSUME NEW f \in Flows, Acts(f), ~ Base(f) PROVE linkedTo' = linkedTo
  BY <1>4 DEF Acts, Step, CallFails, Abort, syncDeclaration, Fetch, FetchFails,
     FetchFindsNothing, Missed, ScanOpen, ScanFinished, BaseRefuses, Record, KeyTaken,
     FinishDetail, StartReconciling, RemoveMirror, CancelTrips, EndRun
<1>5. ASSUME NEW f \in Flows, Base(f) PROVE linkedTo[t] \subseteq linkedTo'[t]
  <2>1. PICK s \in Trips : linkedTo' = [linkedTo EXCEPT ![s] = linkedTo[s] \union {doc[f]}]
    BY <1>5, BaseFacts
  <2> QED
    BY <2>1
<1>6. CASE UNCHANGED vars
  BY <1>6 DEF vars
<1> QED
  BY <1>1, <1>2, <1>3, <1>4, <1>5, <1>6 DEF Next, Flows, Acts

LEMMA FlowStep == IndInv /\ [Next]_vars => FlowInv'
<1> SUFFICES ASSUME IndInv, [Next]_vars, NEW g \in Flows
             PROVE  InHand(g)' /\ NothingInvented(g)'
  BY DEF FlowInv
<1>0. TypeOK /\ FlowInv /\ InHand(g) /\ NothingInvented(g)
  BY DEF IndInv, FlowInv
\* What another step does not touch stays in hand, and the source keeps it.
<1>1. ASSUME Keeps(g) PROVE InHand(g)' /\ NothingInvented(g)'
  <2>1. InHand(g)'
    BY <1>0, <1>1, LinksStay DEF InHand, Keeps
  <2>2. NothingInvented(g)'
    BY <1>0, <1>1, MarksStay DEF NothingInvented, Keeps
  <2> QED
    BY <2>1, <2>2
<1>2. ASSUME NEW d \in Declarations,
             Declare(d) \/ Delete(d) \/ Age(d) \/ \E m \in Marks : Mark(d, m)
      PROVE  Keeps(g)
  BY <1>2 DEF Declare, Delete, Age, Mark, flows, item, Keeps
<1>3. ASSUME NEW t \in Trips,
             \/ \E type \in UserTypes : UserEvent(t, type)
             \/ \E d \in Declarations \union {None} : createTrip(t, d)
      PROVE  Keeps(g)
  BY <1>3 DEF UserEvent, createTrip, flows, item, Keeps
<1>4. ASSUME NEW f \in Flows, Acts(f) PROVE InHand(g)' /\ NothingInvented(g)'
  <2>1. CASE f = g
    BY <1>0, <1>4, <2>1, OwnStep
  <2>2. CASE f # g
    BY <1>0, <1>1, <1>4, <2>2, OnlyOne
  <2> QED
    BY <2>1, <2>2
<1>5. CASE UNCHANGED vars
  BY <1>1, <1>5 DEF vars, flows, item, Keeps
<1> QED
  BY <1>1, <1>2, <1>3, <1>4, <1>5 DEF Next, Flows, Acts

\* The steps that write the status of a trip.
UserActs(t) ==
    \E type : /\ CanApplyEvent(trip[t], type)
              /\ trip'[t] = StatusAfter(trip[t], type)
              /\ StatusAfter(trip[t], type) \in Terminal => t \in byUser'
Creates(t) == trip[t] = None /\ trip'[t] = "PLANNED"
Records(f, t) ==
    \E i \in buildEventCandidates(detail[f]) :
        /\ CanApplyEvent(trip[t], CandidateOrder[i])
        /\ trip'[t] = StatusAfter(trip[t], CandidateOrder[i])
Decides(f, t) == trip'[t] = StatusFromDeclaration(f)
Cancels(t) == trip[t] \notin Terminal /\ trip'[t] = "CANCELLED"

LEMMA TripSteps ==
    ASSUME TypeOK, FlowInv, [Next]_vars, NEW t \in Trips
    PROVE  /\ byUser \subseteq byUser'
           /\ \/ trip'[t] = trip[t] \/ UserActs(t) \/ Creates(t) \/ Cancels(t)
              \/ \E f \in Flows : /\ pc[f] = "events" /\ linked[f] = t
                                  /\ Decides(f, t) \/ Records(f, t)
<1> DEFINE Goal ==
           /\ byUser \subseteq byUser'
           /\ \/ trip'[t] = trip[t] \/ UserActs(t) \/ Creates(t) \/ Cancels(t)
              \/ \E f \in Flows : /\ pc[f] = "events" /\ linked[f] = t
                                  /\ Decides(f, t) \/ Records(f, t)
<1>0. trip \in [Trips -> TripStatuses \union {None}]
  BY DEF TypeOK
<1>1. ASSUME UNCHANGED <<trip, byUser>> PROVE Goal
  BY <1>1
<1>2. ASSUME NEW c \in Declarations,
             Declare(c) \/ Delete(c) \/ Age(c) \/ \E m \in Marks : Mark(c, m)
      PROVE  Goal
  BY <1>1, <1>2 DEF Declare, Delete, Age, Mark, mirrored, trips
<1>3. ASSUME NEW s \in Trips, NEW type \in UserTypes, UserEvent(s, type) PROVE Goal
  <2>1. /\ byUser \subseteq byUser'
        /\ trip' = [trip EXCEPT ![s] = StatusAfter(trip[s], type)]
        /\ CanApplyEvent(trip[s], type)
        /\ StatusAfter(trip[s], type) \in Terminal => s \in byUser'
    BY <1>3 DEF UserEvent
  <2>2. CASE s = t
    <3>1. trip'[t] = StatusAfter(trip[t], type)
      BY <1>0, <2>1, <2>2
    <3>2. UserActs(t)
      BY <2>1, <2>2, <3>1 DEF UserActs
    <3> QED
      BY <2>1, <3>2
  <2>3. CASE s # t
    BY <1>0, <2>1, <2>3
  <2> QED
    BY <2>2, <2>3
<1>4. ASSUME NEW s \in Trips, NEW c \in Declarations \union {None}, createTrip(s, c) PROVE Goal
  <2>1. /\ UNCHANGED byUser /\ trip[s] = None
        /\ trip' = [trip EXCEPT ![s] = "PLANNED"]
    BY <1>4 DEF createTrip
  <2>2. trip'[t] = trip[t] \/ Creates(t)
    BY <1>0, <2>1 DEF Creates
  <2> QED
    BY <2>1, <2>2
<1>5. ASSUME NEW f \in Flows,
             \/ \E c \in Declarations :
                   \/ Fetch(f, c) \/ FetchFails(f, c) \/ FetchFindsNothing(f, c)
                   \/ \E s \in Trips \union {None} : syncDeclaration(f, c, s)
             \/ ScanOpen(f) \/ ScanFinished(f) \/ StartReconciling(f) \/ EndRun(f)
             \/ BaseRefuses(f) \/ KeyTaken(f)
             \/ RemoveMirror(f) \/ CallFails(f) \/ Abort(f)
      PROVE  Goal
  <2>1. UNCHANGED <<trip, byUser>>
    BY <1>5 DEF syncDeclaration, Fetch, FetchFails, FetchFindsNothing, Missed, ScanOpen,
       ScanFinished, StartReconciling, EndRun, BaseRefuses, KeyTaken, RemoveMirror, CallFails,
       Abort, mirrored, trips
  <2> QED
    BY <1>1, <2>1
<1>6. ASSUME NEW f \in Flows, Base(f) PROVE Goal
  <2>1. PICK s \in Trips :
            trip' = [trip EXCEPT ![s] = IF trip[s] = None THEN "PLANNED" ELSE trip[s]]
    BY <1>6, BaseFacts
  <2>2. UNCHANGED byUser
    BY <1>6 DEF Base
  <2>3. trip'[t] = trip[t] \/ Creates(t)
    BY <1>0, <2>1 DEF Creates
  <2> QED
    BY <2>2, <2>3
<1>7. ASSUME NEW f \in Flows, Record(f) PROVE Goal
  <2>1. pc[f] = "events" /\ linked[f] \in Trips /\ UNCHANGED byUser
    BY <1>7, RecordFacts
  <2>2. PICK i \in left[f] :
            /\ i \in buildEventCandidates(detail[f])
            /\ \/ UNCHANGED <<recorded, trip>>
               \/ /\ CanApplyEvent(trip[linked[f]], CandidateOrder[i])
                  /\ trip' = [trip EXCEPT ![linked[f]] =
                                StatusAfter(trip[linked[f]], CandidateOrder[i])]
    BY <1>7, RecordFacts
  <2>3. CASE UNCHANGED <<recorded, trip>> \/ linked[f] # t
    BY <1>0, <2>1, <2>2, <2>3
  <2>4. CASE ~ UNCHANGED <<recorded, trip>> /\ linked[f] = t
    <3>1. Records(f, t)
      BY <1>0, <2>2, <2>4 DEF Records
    <3> QED
      BY <2>1, <2>4, <3>1
  <2> QED
    BY <2>3, <2>4
<1>8. ASSUME NEW f \in Flows, FinishDetail(f) PROVE Goal
  <2>1. /\ UNCHANGED byUser /\ pc[f] = "events"
        /\ trip' = [trip EXCEPT ![linked[f]] = StatusFromDeclaration(f)]
    BY <1>8 DEF FinishDetail
  <2>2. CASE linked[f] = t
    <3>1. Decides(f, t)
      BY <1>0, <2>1, <2>2 DEF Decides
    <3> QED
      BY <2>1, <2>2, <3>1
  <2>3. CASE linked[f] # t
    BY <1>0, <2>1, <2>3
  <2> QED
    BY <2>2, <2>3
<1>9. ASSUME NEW f \in Flows, CancelTrips(f) PROVE Goal
  <2>1. /\ UNCHANGED byUser
        /\ trip'[t] = IF t \in LinkedTrips(doc[f]) /\ trip[t] \notin Terminal
                        THEN "CANCELLED" ELSE trip[t]
    BY <1>9 DEF CancelTrips
  <2>2. trip'[t] = trip[t] \/ Cancels(t)
    BY <2>1 DEF Cancels
  <2> QED
    BY <2>1, <2>2
<1>10. CASE UNCHANGED vars
  BY <1>1, <1>10 DEF vars, mirrored, trips
<1> QED
  BY <1>2, <1>3, <1>4, <1>5, <1>6, <1>7, <1>8, <1>9, <1>10 DEF Next, Step, Flows

\* The one kind of step that records an event.
LEMMA RecordedSteps ==
    ASSUME TypeOK, FlowInv, [Next]_vars, NEW d \in Declarations, NEW type \in CandidateTypes
    PROVE  \/ recorded'[d][type] = recorded[d][type]
           \/ \E f \in Flows :
                 /\ pc[f] = "events" /\ doc[f] = d /\ recorded'[d][type] = linked[f]
                 /\ \E i \in buildEventCandidates(detail[f]) : CandidateOrder[i] = type
<1> USE DEF source, trips, mirrored
<1>1. ASSUME NEW c \in Declarations,
             Declare(c) \/ Delete(c) \/ Age(c) \/ \E m \in Marks : Mark(c, m)
      PROVE  recorded' = recorded
  BY <1>1 DEF Declare, Delete, Age, Mark
<1>2. ASSUME NEW t \in Trips,
             \/ \E x \in UserTypes : UserEvent(t, x)
             \/ \E c \in Declarations \union {None} : createTrip(t, c)
      PROVE  recorded' = recorded
  BY <1>2 DEF UserEvent, createTrip
<1>3. ASSUME NEW f \in Flows, Acts(f), ~ Record(f) PROVE recorded' = recorded
  BY <1>3 DEF Acts, Step, CallFails, Abort, syncDeclaration, Fetch, FetchFails,
     FetchFindsNothing, Missed, ScanOpen, ScanFinished, Base, BaseRefuses, KeyTaken,
     FinishDetail, StartReconciling, RemoveMirror, CancelTrips, EndRun
<1>4. ASSUME NEW f \in Flows, Record(f), recorded'[d][type] # recorded[d][type]
      PROVE  /\ pc[f] = "events" /\ doc[f] = d /\ recorded'[d][type] = linked[f]
             /\ \E i \in buildEventCandidates(detail[f]) : CandidateOrder[i] = type
  <2>1. pc[f] = "events" /\ doc[f] \in Declarations
    BY <1>4, RecordFacts
  <2>2. PICK i \in buildEventCandidates(detail[f]) :
            recorded' = [recorded EXCEPT ![doc[f]] =
                          [recorded[doc[f]] EXCEPT ![CandidateOrder[i]] = linked[f]]]
    BY <1>4, RecordFacts
  <2>3. /\ recorded \in [Declarations -> [CandidateTypes -> Trips \union {None}]]
        /\ recorded[d] \in [CandidateTypes -> Trips \union {None}]
    BY DEF TypeOK
  <2>4. doc[f] = d
    BY <1>4, <2>1, <2>2, <2>3
  <2>5. recorded'[d] = [recorded[d] EXCEPT ![CandidateOrder[i]] = linked[f]]
    BY <2>1, <2>2, <2>3, <2>4
  <2>6. CandidateOrder[i] = type /\ recorded'[d][type] = linked[f]
    BY <1>4, <2>3, <2>5
  <2> QED
    BY <2>1, <2>4, <2>6
<1>5. CASE UNCHANGED vars
  BY <1>5 DEF vars
<1> QED
  BY <1>1, <1>2, <1>3, <1>4, <1>5 DEF Next, Flows, Acts

LEMMA RecordedStep == IndInv /\ [Next]_vars => RecordedIsOnSource'
<1> SUFFICES ASSUME IndInv, [Next]_vars, NEW d \in Declarations
             PROVE  /\ recorded'[d]["BORDER_GATE_ENTRY_CONFIRMED"] # "NONE" =>
                          /\ Has(marks'[d], "checkBorderGuard")
                          /\ Has(marks'[d], "confirmArrivalVehicleCustoms")
                    /\ recorded'[d]["BORDER_GATE_EXIT_CONFIRMED"] # "NONE" =>
                          Has(marks'[d], "confirmFinish")
                    /\ \A type \in CandidateTypes, t \in Trips :
                          recorded'[d][type] = t => d \in linkedTo'[t]
  BY DEF RecordedIsOnSource
<1>0. /\ TypeOK /\ FlowInv
      /\ {"checkBorderGuard", "confirmArrivalVehicleCustoms", "confirmFinish"} \subseteq AllMarks
  BY DEF IndInv, AllMarks
<1>1. /\ recorded[d]["BORDER_GATE_ENTRY_CONFIRMED"] # "NONE" =>
            /\ Has(marks[d], "checkBorderGuard")
            /\ Has(marks[d], "confirmArrivalVehicleCustoms")
      /\ recorded[d]["BORDER_GATE_EXIT_CONFIRMED"] # "NONE" => Has(marks[d], "confirmFinish")
      /\ \A type \in CandidateTypes, t \in Trips : recorded[d][type] = t => d \in linkedTo[t]
  BY DEF IndInv, RecordedIsOnSource
<1>2. /\ "BORDER_GATE_ENTRY_CONFIRMED" \in CandidateTypes
      /\ "BORDER_GATE_EXIT_CONFIRMED" \in CandidateTypes
  BY EventFacts
\* What the detail of a flow shows is on the source.
<1>3. ASSUME NEW f \in Flows, doc[f] = d, NEW i \in buildEventCandidates(detail[f])
      PROVE  /\ CandidateOrder[i] = "BORDER_GATE_ENTRY_CONFIRMED" =>
                   /\ Has(marks[d], "checkBorderGuard")
                   /\ Has(marks[d], "confirmArrivalVehicleCustoms")
             /\ CandidateOrder[i] = "BORDER_GATE_EXIT_CONFIRMED" => Has(marks[d], "confirmFinish")
  <2>1. \A m \in AllMarks : Has(detail[f], m) => Has(marks[d], m)
    BY <1>0, <1>3 DEF FlowInv, NothingInvented
  <2> QED
    BY <1>0, <2>1, CandidateFacts DEF vehicleEntered, HasAll, GateMarks
<1>4. recorded'[d]["BORDER_GATE_ENTRY_CONFIRMED"] # "NONE" =>
          Has(marks[d], "checkBorderGuard") /\ Has(marks[d], "confirmArrivalVehicleCustoms")
  BY <1>0, <1>1, <1>2, <1>3, RecordedSteps
<1>5. recorded'[d]["BORDER_GATE_EXIT_CONFIRMED"] # "NONE" => Has(marks[d], "confirmFinish")
  BY <1>0, <1>1, <1>2, <1>3, RecordedSteps
<1>6. ASSUME NEW type \in CandidateTypes, NEW t \in Trips, recorded'[d][type] = t
      PROVE  d \in linkedTo[t]
  <2>1. CASE recorded'[d][type] = recorded[d][type]
    BY <1>1, <1>6, <2>1
  <2>2. ASSUME NEW f \in Flows, pc[f] = "events", doc[f] = d, recorded'[d][type] = linked[f]
        PROVE  d \in linkedTo[t]
    BY <1>0, <1>6, <2>2 DEF FlowInv, InHand
  <2> QED
    BY <1>0, <2>1, <2>2, RecordedSteps
<1> QED
  BY <1>0, <1>4, <1>5, <1>6, MarksStay, LinksStay

\* A finished detail speaks of a declaration the source has finished.
LEMMA ApprovedIsFinished ==
    ASSUME FlowInv, NEW f \in Flows, Has(detail[f], "confirmFinish")
    PROVE  Has(marks[doc[f]], "confirmFinish")
BY DEF FlowInv, NothingInvented, AllMarks

LEMMA CompletedStep == IndInv /\ [Next]_vars => CompletedIsFounded'
<1> SUFFICES ASSUME IndInv, [Next]_vars, NEW t \in Trips, trip'[t] = "COMPLETED"
             PROVE  t \in byUser' \/ \E d \in linkedTo'[t] : Has(marks'[d], "confirmFinish")
  BY DEF CompletedIsFounded
<1>0. /\ TypeOK /\ FlowInv /\ byUser \subseteq byUser' /\ "confirmFinish" \in AllMarks
      /\ trip[t] \in TripStatuses \union {None} /\ linkedTo[t] \subseteq Declarations
      /\ linkedTo[t] \subseteq linkedTo'[t]
  BY TripSteps, LinksStay DEF IndInv, AllMarks, TypeOK
<1>1. ASSUME NEW d \in linkedTo[t], Has(marks[d], "confirmFinish")
      PROVE  d \in linkedTo'[t] /\ Has(marks'[d], "confirmFinish")
  BY <1>0, <1>1, MarksStay
<1>2. CASE trip[t] = "COMPLETED"
  BY <1>0, <1>1, <1>2 DEF IndInv, CompletedIsFounded
<1>3. CASE trip[t] # "COMPLETED"
  <2>1. CASE UserActs(t)
    BY <2>1 DEF UserActs, Terminal
  <2>2. ASSUME NEW f \in Flows, Records(f, t) PROVE Has(detail[f], "confirmFinish")
    <3>1. PICK i \in buildEventCandidates(detail[f]) :
              trip'[t] = StatusAfter(trip[t], CandidateOrder[i])
      BY <2>2 DEF Records
    <3>2. CandidateOrder[i] \in CandidateTypes
      BY CandidateFacts
    <3>3. CandidateOrder[i] = "BORDER_GATE_EXIT_CONFIRMED"
      BY <1>0, <1>3, <3>1, <3>2, StatusFacts
    <3> QED
      BY <3>3, CandidateFacts
  <2>3. ASSUME NEW f \in Flows, linked[f] = t, Decides(f, t)
        PROVE  Has(detail[f], "confirmFinish")
    BY <1>3, <2>3 DEF Decides, StatusFromDeclaration, mapDeclarationStatus,
       isBusinessCompleted
  <2>4. ASSUME NEW f \in Flows, pc[f] = "events", linked[f] = t, Has(detail[f], "confirmFinish")
        PROVE  doc[f] \in linkedTo[t] /\ Has(marks[doc[f]], "confirmFinish")
    BY <1>0, <2>4, ApprovedIsFinished DEF FlowInv, InHand
  <2>5. ~ Creates(t) /\ ~ Cancels(t) /\ trip'[t] # trip[t]
    BY <1>3 DEF Creates, Cancels
  <2>6. CASE \E f \in Flows : /\ pc[f] = "events" /\ linked[f] = t
                              /\ Decides(f, t) \/ Records(f, t)
    BY <1>1, <2>2, <2>3, <2>4, <2>6
  <2> QED
    BY <1>0, <2>1, <2>5, <2>6, TripSteps
<1> QED
  BY <1>2, <1>3

LEMMA InvStep == IndInv /\ [Next]_vars => IndInv'
BY TypeStep, FlowStep, RecordedStep, CompletedStep DEF IndInv

-----------------------------------------------------------------------------
(* The theorems *)

\* The inductive invariant holds in every state.
THEOREM Invariance == Spec => []IndInv
BY InvInit, InvStep, PTL DEF Spec

\* The mirror, the trips and the flows keep their types: no status is written
\* that the schema does not have.
THEOREM TypeCorrect == Spec => []TypeOK
<1>1. IndInv => TypeOK
  BY DEF IndInv
<1> QED
  BY <1>1, Invariance, PTL

\* An event this integration recorded is backed by the marks of the source,
\* whichever flow recorded it and however old its detail was.
THEOREM RecordsTheSource == Spec => []RecordedIsOnSource
<1>1. IndInv => RecordedIsOnSource
  BY DEF IndInv
<1> QED
  BY <1>1, Invariance, PTL

\* A trip is COMPLETED only if a declaration it is or was linked to is finished on the
\* source, or a user said so.
THEOREM CompletesFounded == Spec => []CompletedIsFounded
<1>1. IndInv => CompletedIsFounded
  BY DEF IndInv
<1> QED
  BY <1>1, Invariance, PTL

\* Nothing brings a CANCELLED trip back.
THEOREM CancelledStays == Spec => CancelledIsFinal
<1>1. IndInv /\ [Next]_vars =>
        [\A t \in Trips : trip[t] = "CANCELLED" => trip'[t] = "CANCELLED"]_vars
  <2> SUFFICES ASSUME IndInv, [Next]_vars, NEW t \in Trips, trip[t] = "CANCELLED"
               PROVE  trip'[t] = "CANCELLED"
    OBVIOUS
  <2>0. TypeOK /\ FlowInv /\ trip[t] \in Terminal
    BY DEF IndInv, Terminal
  <2>1. UserActs(t) => trip'[t] = trip[t]
    BY <2>0, EndedStays DEF UserActs
  <2>2. \A f \in Flows : Records(f, t) => trip'[t] = trip[t]
    BY <2>0, EndedStays DEF Records
  <2>3. \A f \in Flows : linked[f] = t /\ Decides(f, t) => trip'[t] = trip[t]
    BY DEF Decides, StatusFromDeclaration, Terminal
  <2>4. ~ Creates(t) /\ ~ Cancels(t)
    BY DEF Creates, Cancels, None, Terminal
  <2> QED
    BY <2>0, <2>1, <2>2, <2>3, <2>4, TripSteps
<1> QED
  BY <1>1, Invariance, PTL DEF Spec, CancelledIsFinal

\* A trip leaves COMPLETED only by a flow whose detail of a declaration the trip is or
\* was linked to lacks the end of the procedure.
THEOREM ReopensStale == Spec => OnlyAStaleDetailReopens
<1>1. IndInv /\ [Next]_vars =>
        [\A t \in Trips :
            trip[t] = "COMPLETED" /\ trip'[t] # "COMPLETED" =>
               \E f \in Flows :
                   /\ linked[f] = t /\ doc[f] \in linkedTo[t]
                   /\ ~ Has(detail[f], "confirmFinish")]_vars
  <2> SUFFICES ASSUME IndInv, [Next]_vars, NEW t \in Trips,
                      trip[t] = "COMPLETED", trip'[t] # "COMPLETED"
               PROVE  \E f \in Flows :
                          /\ linked[f] = t /\ doc[f] \in linkedTo[t]
                          /\ ~ Has(detail[f], "confirmFinish")
    OBVIOUS
  <2>0. TypeOK /\ FlowInv /\ trip[t] \in Terminal
    BY DEF IndInv, Terminal
  <2>1. ~ UserActs(t)
    BY <2>0, EndedStays DEF UserActs
  <2>2. \A f \in Flows : ~ Records(f, t)
    BY <2>0, EndedStays DEF Records
  <2>3. ASSUME NEW f \in Flows, pc[f] = "events", linked[f] = t, Decides(f, t)
        PROVE  doc[f] \in linkedTo[t] /\ ~ Has(detail[f], "confirmFinish")
    <3>1. ~ Has(detail[f], "confirmFinish")
      BY <2>3 DEF Decides, StatusFromDeclaration, Terminal, mapDeclarationStatus,
         isBusinessCompleted
    <3> QED
      BY <2>0, <2>3, <3>1 DEF FlowInv, InHand
  <2>4. ~ Creates(t) /\ ~ Cancels(t)
    BY DEF Creates, Cancels, None, Terminal
  <2> QED
    BY <2>0, <2>1, <2>2, <2>3, <2>4, TripSteps
<1> QED
  BY <1>1, Invariance, PTL DEF Spec, OnlyAStaleDetailReopens
=============================================================================
