---------------------------- MODULE CuaKhauSoMapper ----------------------------
(***************************************************************************)
(* CuaKhauSoMapper, the pure part of the Cua Khau So integration: what one  *)
(* declaration, as the source shows it, is turned into.                     *)
(*                                                                         *)
(* A detail gives, for each mark the authorities may set on the declaration *)
(* and its primary vehicle, the time it was set at, or Unset.  The           *)
(* declaration was created at time 0, before all of them.  The other fields  *)
(* (plates, drivers, goods, weights, labels) are copied or formatted and    *)
(* decide nothing.                                                          *)
(***************************************************************************)
EXTENDS Integers, FiniteSets, FiniteSetsExt

CONSTANTS
    Foreign,   \* is the primary vehicle not Vietnamese?
    Untimed    \* marks the source sets without a time that can be parsed

\* The fields of a declaration and of its primary vehicle that decide something.
AllMarks ==
    {"checkBorderGuard", "confirmArrivalVehicleCustoms",
     "confirmInParkingCustoms", "confirmStartCheck", "paid",
     "confirmOutParkingBorderGuard", "confirmOutParkingCustoms",
     "checkAllConfirmOutTQ", "confirmFinish", "licenceRegistered",
     "confirmTransportLicense", "emptyVehicleEntered", "checkChangeVehicle"}

ASSUME MapperAssumption == Foreign \in BOOLEAN /\ Untimed \subseteq AllMarks

Unset == 0
Details == [AllMarks -> Nat]
NoMarks == [m \in AllMarks |-> Unset]

Has(detail, m) == detail[m] # Unset
HasAll(detail, ms) == \A m \in ms : Has(detail, m)

NoTime == -1

\* toIsoString of the mark's time; NoTime where addCandidate would return.
TimeOf(detail, m) ==
    IF Has(detail, m) /\ m \notin Untimed THEN detail[m] ELSE NoTime

\* latestIsoString: the latest of the times that are there.
LatestOf(detail, ms) == Max({TimeOf(detail, m) : m \in ms} \union {NoTime})

\* firstNonEmpty over times.
FirstOf(detail, m1, m2) ==
    IF TimeOf(detail, m1) # NoTime THEN TimeOf(detail, m1) ELSE TimeOf(detail, m2)

isBusinessCompleted(detail) == Has(detail, "confirmFinish")

\* Mutant: the border guard's check passes for the end of the procedure.
CheckedIsApproved(detail) ==
    IF isBusinessCompleted(detail) \/ Has(detail, "checkBorderGuard")
      THEN "APPROVED" ELSE "SUBMITTED"

mapDeclarationStatus(detail) ==
    IF isBusinessCompleted(detail) THEN "APPROVED" ELSE "SUBMITTED"

GateMarks == {"checkBorderGuard", "confirmArrivalVehicleCustoms"}

\* Mutant: one of the two confirmations is enough.
EitherEntered(detail) == \E m \in GateMarks : Has(detail, m)

\* Entered the gate: both the border guard and the customs say so.
vehicleEntered(detail) == HasAll(detail, GateMarks)

borderGuardLagging(detail) ==
    /\ Has(detail, "confirmArrivalVehicleCustoms")
    /\ ~ Has(detail, "checkBorderGuard")

\* resolveTransshipment: may the goods change vehicle, and have they?
transshipment(detail) ==
    LET eligible == /\ Has(detail, "licenceRegistered")
                    /\ Has(detail, "confirmTransportLicense")
                    /\ Foreign => vehicleEntered(detail)
                    /\ Has(detail, "emptyVehicleEntered")
        eligibleAt == LatestOf(detail, GateMarks \union
                        {"confirmTransportLicense", "emptyVehicleEntered"})
    IN  [eligible |-> eligible,
         signed |-> eligible /\ Has(detail, "checkChangeVehicle"),
         eligibleAt |-> eligibleAt,
         signedAt |-> IF TimeOf(detail, "checkChangeVehicle") # NoTime
                        THEN TimeOf(detail, "checkChangeVehicle")
                        ELSE eligibleAt]

\* deriveProcedureSteps: the six steps the detail page shows.
deriveProcedureSteps(detail) ==
    LET step(done, waiting) == IF done THEN "DONE"
                               ELSE IF waiting THEN "WAITING_AUTHORITY"
                               ELSE "PENDING"
    IN  << step(vehicleEntered(detail), borderGuardLagging(detail)),
           step(Has(detail, "confirmInParkingCustoms"), FALSE),
           step(Has(detail, "confirmStartCheck"), FALSE),
           step(Has(detail, "paid"), FALSE),
           step(\/ Has(detail, "confirmOutParkingBorderGuard")
                \/ Has(detail, "checkAllConfirmOutTQ"), FALSE),
           step(isBusinessCompleted(detail), Has(detail, "paid")) >>

\* The events buildEventCandidates considers, in the order it adds them.
CandidateOrder ==
    <<"DECLARATION_SUBMITTED", "BORDER_GATE_ENTRY_CONFIRMED", "YARD_ENTRY_CONFIRMED",
      "TRANSSHIPMENT_ELIGIBLE", "TRANSSHIPMENT_SIGNED", "CUSTOMS_PROCESSING",
      "FEE_PAID", "YARD_EXIT_CONFIRMED", "BORDER_GATE_EXIT_CONFIRMED">>

\* Whether the declaration shows the event and the time it gives it.
Considered(detail, type) ==
    LET ts == transshipment(detail)
        entry(shown, at) == [shown |-> shown, at |-> at]
        own(m) == entry(Has(detail, m), TimeOf(detail, m))
    IN  CASE type = "DECLARATION_SUBMITTED" -> entry(TRUE, 0)
          [] type = "BORDER_GATE_ENTRY_CONFIRMED" ->
               entry(vehicleEntered(detail), LatestOf(detail, GateMarks))
          [] type = "YARD_ENTRY_CONFIRMED" -> own("confirmInParkingCustoms")
          [] type = "TRANSSHIPMENT_ELIGIBLE" -> entry(ts.eligible, ts.eligibleAt)
          [] type = "TRANSSHIPMENT_SIGNED" -> entry(ts.signed, ts.signedAt)
          [] type = "CUSTOMS_PROCESSING" -> own("confirmStartCheck")
          [] type = "FEE_PAID" -> own("paid")
          [] type = "YARD_EXIT_CONFIRMED" ->
               entry(\/ Has(detail, "confirmOutParkingBorderGuard")
                     \/ Has(detail, "confirmOutParkingCustoms"),
                     FirstOf(detail, "confirmOutParkingBorderGuard",
                             "confirmOutParkingCustoms"))
          [] type = "BORDER_GATE_EXIT_CONFIRMED" -> own("confirmFinish")

\* addCandidate: kept when it is shown and has a time.
IsCandidate(entry) == entry.shown /\ entry.at # NoTime

\* buildEventCandidates: the places in CandidateOrder of the events kept.  The
\* idempotency key of a candidate is its declaration and its type.
buildEventCandidates(detail) ==
    {i \in DOMAIN CandidateOrder : IsCandidate(Considered(detail, CandidateOrder[i]))}

\* Its stable sort: the candidate i comes first of those in C if none is
\* earlier, and none of the same time was added before it.
ComesFirst(detail, i, C) ==
    LET at == [j \in C |-> Considered(detail, CandidateOrder[j]).at]
    IN  \A j \in C : at[i] < at[j] \/ (at[i] = at[j] /\ i <= j)

\* enrichDeclarationDetailWithEmptyVehicleLogs: the times the receiving vehicle
\* entered come from another call, whose failure is swallowed.
EnrichedDetails(detail) == {detail, [detail EXCEPT !["emptyVehicleEntered"] = Unset]}
=============================================================================
