-------------------------------- MODULE MCPages --------------------------------
(* An instance of Pages for TLC. *)
EXTENDS Pages, MCTripEvents

\* Choices that only matter to one page are made in its behaviours alone.
MCInit ==
    /\ PagesInit
    /\ focus # "declarations" => page.filters.query = CHOOSE query \in Queries : TRUE
    /\ focus # "forms" => form = "event"

\* One value stands for all where nothing looks at it: the type of a command's
\* event, and the key of a call that is refused for its type.  Of three calls, two at
\* most are without a key, and nothing fails where a correction comes, whose
\* announcement cannot be lost.
OneForAll ==
    /\ \A i \in AutomatedRows :
          /\ timeline[i].type = "DRIVER_NOTE_ADDED"
          /\ timeline[i].isCorrection => faults = 0
    /\ \A q \in Requests : type[q] = "TRIP_CREATED" => key[q] = NoKey
    /\ \E q \in Requests : pc[q] = "new" \/ key[q] # NoKey

MCSpec == MCInit /\ [][PagesNext /\ OneForAll']_allVars
=============================================================================
