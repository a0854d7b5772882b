---------------------------- MODULE MCTripEvents ----------------------------
(* Small instances of TripEvents for TLC. *)
EXTENDS TripEvents, TLC

\* An ordinary step, a note, the end of the trip, and a call that is refused.
MCTypes == {"DEPARTED", "DRIVER_NOTE_ADDED", "TRIP_CANCELLED", "TRIP_CREATED"}

\* Sound: the properties treat all requests, all trips and all keys alike.
MCSymmetry ==
    Permutations(Requests) \union Permutations(Trips) \union Permutations(Keys)
=============================================================================
