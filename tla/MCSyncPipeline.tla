--------------------------- MODULE MCSyncPipeline ---------------------------
(* Small instances of SyncPipeline for TLC. *)
EXTENDS SyncPipeline, TLC

MCMockAccount == [a \in Accounts |-> "MOCK"]
MCGpsAccount == [a \in Accounts |-> "GPS_PROVIDER"]

\* Sound for the safety properties: none of them names a run, a ticker or a
\* worker slot.
MCSymmetry ==
    Permutations(Runs) \union Permutations(Tickers) \union Permutations(Workers)

\* For liveness, where symmetry is not sound: runs are numbers, and a flow
\* draws the least identifier nothing refers to instead of any.  It can still
\* draw one whenever it could draw any, so no step loses its turn.
LeastFreshRun ==
    \A f \in Flows :
        newRun[f] = None /\ newRun'[f] # None =>
            \A r \in Runs : Fresh(r) => newRun'[f] <= r
=============================================================================
