--------------------------- MODULE TripTransitions ---------------------------
(***************************************************************************)
(* TripStateTransitionService: the status a trip event projects to, and the *)
(* status changes an event may make.  Both tables are those of the source.  *)
(***************************************************************************)

TripStatuses ==
    {"PLANNED", "IN_PROGRESS", "WAITING_YARD_ENTRY", "IN_YARD",
     "AT_BORDER_GATE", "CUSTOMS_PROCESSING", "INSPECTION_REQUIRED",
     "BLOCKED", "DELAYED", "COMPLETED", "CANCELLED"}

eventStatusProjection ==
    [TRIP_CREATED |-> "PLANNED", DEPARTED |-> "IN_PROGRESS",
     ARRIVED_BORDER_AREA |-> "AT_BORDER_GATE",
     WAITING_YARD_ENTRY |-> "WAITING_YARD_ENTRY",
     YARD_ENTRY_CONFIRMED |-> "IN_YARD",
     DRIVER_REPORTED_YARD_ENTRY |-> "IN_YARD",
     YARD_EXIT_CONFIRMED |-> "AT_BORDER_GATE",
     DRIVER_REPORTED_GATE_ENTRY |-> "AT_BORDER_GATE",
     DECLARATION_SUBMITTED |-> "CUSTOMS_PROCESSING",
     DECLARATION_APPROVED |-> "CUSTOMS_PROCESSING",
     DECLARATION_REJECTED |-> "BLOCKED",
     BORDER_GATE_ENTRY_CONFIRMED |-> "AT_BORDER_GATE",
     CUSTOMS_PROCESSING |-> "CUSTOMS_PROCESSING",
     INSPECTION_REQUIRED |-> "INSPECTION_REQUIRED",
     INSPECTION_COMPLETED |-> "CUSTOMS_PROCESSING",
     BORDER_GATE_EXIT_CONFIRMED |-> "COMPLETED",
     VEHICLE_RELEASED |-> "COMPLETED", TRIP_CANCELLED |-> "CANCELLED",
     TRIP_COMPLETED |-> "COMPLETED"]

\* A trip event type that projects to no status (there are more of them).
NeutralType == "DRIVER_NOTE_ADDED"

EventTypes == DOMAIN eventStatusProjection \union {NeutralType}

allowedTransitions ==
    [PLANNED |->
          {"PLANNED", "IN_PROGRESS", "WAITING_YARD_ENTRY", "IN_YARD",
           "AT_BORDER_GATE", "CUSTOMS_PROCESSING", "INSPECTION_REQUIRED",
           "BLOCKED", "COMPLETED", "CANCELLED"},
     IN_PROGRESS |->
          {"IN_PROGRESS", "WAITING_YARD_ENTRY", "AT_BORDER_GATE",
           "CUSTOMS_PROCESSING", "INSPECTION_REQUIRED", "BLOCKED",
           "COMPLETED", "CANCELLED"},
     WAITING_YARD_ENTRY |->
          {"WAITING_YARD_ENTRY", "IN_YARD", "AT_BORDER_GATE", "BLOCKED",
           "CANCELLED"},
     IN_YARD |->
          {"IN_YARD", "AT_BORDER_GATE", "CUSTOMS_PROCESSING", "BLOCKED",
           "COMPLETED", "CANCELLED"},
     AT_BORDER_GATE |->
          {"AT_BORDER_GATE", "IN_YARD", "CUSTOMS_PROCESSING",
           "INSPECTION_REQUIRED", "BLOCKED", "COMPLETED", "CANCELLED"},
     CUSTOMS_PROCESSING |->
          {"CUSTOMS_PROCESSING", "INSPECTION_REQUIRED", "AT_BORDER_GATE",
           "BLOCKED", "COMPLETED", "CANCELLED"},
     INSPECTION_REQUIRED |->
          {"INSPECTION_REQUIRED", "CUSTOMS_PROCESSING", "AT_BORDER_GATE",
           "BLOCKED", "COMPLETED", "CANCELLED"},
     BLOCKED |->
          {"IN_PROGRESS", "WAITING_YARD_ENTRY", "IN_YARD",
           "AT_BORDER_GATE", "CUSTOMS_PROCESSING", "INSPECTION_REQUIRED",
           "BLOCKED", "COMPLETED", "CANCELLED"},
     DELAYED |->
          {"IN_PROGRESS", "WAITING_YARD_ENTRY", "IN_YARD",
           "AT_BORDER_GATE", "CUSTOMS_PROCESSING", "INSPECTION_REQUIRED",
           "BLOCKED", "COMPLETED", "CANCELLED"},
     COMPLETED |-> {},
     CANCELLED |-> {}]

\* getProjectedStatus, where it returns one
Projects(type) == type \in DOMAIN eventStatusProjection

\* Mutant: a table lookup that forgets the statuses without a way out.
CanApplyEventTerminalToo(status, type) ==
    \/ ~ Projects(type)
    \/ allowedTransitions[status] = {}
    \/ eventStatusProjection[type] \in allowedTransitions[status]

\* assertCanApplyEvent does not throw.
CanApplyEvent(status, type) ==
    Projects(type) =>
        eventStatusProjection[type] \in allowedTransitions[status]

\* The status of the trip after an event that was applied to it.
StatusAfter(status, type) ==
    IF Projects(type) THEN eventStatusProjection[type] ELSE status
=============================================================================
