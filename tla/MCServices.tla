------------------------------ MODULE MCServices ------------------------------
(***************************************************************************)
(* An instance of each service of Services for TLC: two managers' requests  *)
(* and two acceptances of one invitation, the notifications of one event,   *)
(* two processes' caches, three callers of the Cua Khau So synchronisation, *)
(* two users who read it, three trips, and two calls about drivers and      *)
(* vehicles.                                                                *)
(***************************************************************************)
EXTENDS Services

CONSTANTS ann, bob, q1, q2, a1, a2, i1, inapp, email, p, q, l1, l2,
          poller, user, worker, s1, s2, c1, c2, t1, t2, t3

\* Memberships.
MCInvitee == [i \in {i1} |-> bob]
MCInvitedRole == [i \in {i1} |-> "ADMIN"]
MCUpdates == {[role |-> "OWNER", status |-> ""],
              [role |-> "ADMIN", status |-> ""],
              [role |-> "", status |-> "SUSPENDED"]}

\* Notifications: one event with a mandatory rule for the bell, one with a rule
\* for e-mail.
MCRuleSets ==
    {{[channels |-> {inapp}, mandatory |-> TRUE], [channels |-> {inapp}, mandatory |-> FALSE]},
     {[channels |-> {email}, mandatory |-> FALSE]}}

\* The cache: two processes with a load each.
MCLoadHost == [l \in {l1, l2} |-> IF l = l1 THEN p ELSE q]

\* The callers: a poller and a user's call in one process, the queue's worker in
\* another.
MCHost == [f \in {poller, user, worker} |-> IF f = worker THEN q ELSE p]

\* The sessions: a user in each of two processes, two accounts to connect, two
\* calls at a time.
MCMachine == [s \in {s1, s2} |-> IF s = s1 THEN p ELSE q]

\* The trips: t2 may get to every status and is to arrive after 120 minutes, or each
\* gets events that change what is exceptional about it while the list is read.
MCPlannedStart == [t \in {t1, t2, t3} |-> IF t = t3 THEN 0 ELSE -1]
MCPlannedArrival == [t \in {t1, t2, t3} |-> IF t = t2 THEN 120 ELSE -1]
MCFilters ==
    {[status |-> "ALL", exception |-> "ALL"], [status |-> "ALL", exception |-> "ATTENTION"],
     [status |-> "PLANNED", exception |-> "ALL"],
     [status |-> "WAITING_YARD_ENTRY", exception |-> "ALL"]}
MCCreated == [t \in {t1, t2, t3} |-> CASE t = t1 -> 1 [] t = t2 -> 2 [] t = t3 -> 3]
MCKinds ==
    {[t \in {t1, t2, t3} |->
        IF t = t2 THEN {"DEPARTED", "ARRIVED_BORDER_AREA", "WAITING_YARD_ENTRY",
                        "YARD_ENTRY_CONFIRMED", "YARD_EXIT_CONFIRMED",
                        "DECLARATION_SUBMITTED", "DECLARATION_REJECTED",
                        "INSPECTION_REQUIRED", "INSPECTION_COMPLETED",
                        "TRIP_COMPLETED", "TRIP_CANCELLED"}
        ELSE {}],
     [t \in {t1, t2, t3} |-> CASE t = t1 -> {"WAITING_YARD_ENTRY"}
                               [] t = t2 -> {"TRIP_CANCELLED"}
                               [] t = t3 -> {"INSPECTION_REQUIRED", "INSPECTION_COMPLETED"}]}

\* Drivers and vehicles: a call about drivers and one about vehicles, or two that
\* make a trip and upload to it.
MCRosters ==
    {[c \in {c1, c2} |->
        IF c = c1 THEN {"createDriver", "updateDriver", "deleteDriver"}
        ELSE {"createDriver", "createVehicle", "updateVehicle", "deleteVehicle"}],
     [c \in {c1, c2} |->
        {IF c = c1 THEN "createDriver" ELSE "createVehicle", "createTrip", "createEvent"}]}

-----------------------------------------------------------------------------

\* Choices that only matter to one service are made in its behaviours alone.
MCInit ==
    /\ ServicesInit
    /\ focus # "notices" => rules = CHOOSE some \in RuleSets : TRUE
    /\ focus # "operations" => kinds = CHOOSE some \in Kinds : TRUE
    /\ focus # "fleet" => duties = CHOOSE some \in Rosters : TRUE

MCSpec == MCInit /\ [][ServicesNext]_allVars /\ ServicesFairness
=============================================================================
