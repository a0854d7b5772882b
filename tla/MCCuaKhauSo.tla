------------------------------ MODULE MCCuaKhauSo ------------------------------
(***************************************************************************)
(* One run that is repeated and one user's call that overlaps it.  Either    *)
(* there is one declaration, with three of the authorities' marks and the    *)
(* trip its synchronisation makes, or a second declaration or a second trip  *)
(* comes in, a trip may be asked for, and only the first declaration ends.   *)
(***************************************************************************)
EXTENDS CuaKhauSo

CONSTANTS poller, user, d1, d2

MCMarks == {"checkBorderGuard", "confirmArrivalVehicleCustoms", "confirmFinish"}
MCBefore == [m \in MCMarks |->
    CASE m = "confirmArrivalVehicleCustoms" -> {}
      [] m = "checkBorderGuard" -> {"confirmArrivalVehicleCustoms"}
      [] m = "confirmFinish" -> {}]
MCUserTypes == {"TRIP_COMPLETED"}

\* One declaration: it ends after the border guard's check.
One ==
    /\ d2 \notin present /\ mirror[d2] = None /\ trip[d2] = None
    /\ trip[d1] # None => link[d1] = d1
    /\ Has(marks[d1], "confirmFinish") => Has(marks[d1], "checkBorderGuard")
    /\ asked[user] = None

\* Two: the first, which has a trip, gets no mark but its last and the second none,
\* neither ages or leaves the source, users end no trip, nothing fails, and a user asks
\* for one of the trips.
Two ==
    /\ marks[d2] = NoMarks
    /\ \A m \in MCMarks \ {"confirmFinish"} : ~ Has(marks[d1], m)
    /\ d1 \in present /\ (mirror[d2] # None => d2 \in present) /\ aged = {}
    /\ trip[d1] # None
    /\ byUser = {} /\ incidents = 0
    /\ pc[user] # "idle" => asked[user] # None

\* The first trip is made by a synchronisation.  No step of a flow under way is cut off:
\* what is bounded is what the authorities and the users do, and what fails.
MCNext ==
    /\ Next
    /\ One' \/ Two'
    /\ trip[d1] # trip'[d1] => trip[d1] # None \/ pc' # pc

MCSpec == Init /\ [][MCNext]_vars /\ Fairness
=============================================================================
