--------------------------- MODULE MCSyncAttempt ---------------------------
(* Small instances of SyncAttempt for TLC. *)
EXTENDS SyncAttempt

CONSTANT MaxFeed  \* bound: records in a fetch

MCFeeds == UNION {[1..l -> Records] : l \in 0..MaxFeed}
=============================================================================
