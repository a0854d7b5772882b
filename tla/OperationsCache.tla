---------------------------- MODULE OperationsCache ----------------------------
(***************************************************************************)
(* OperationsCacheService for one key (the dashboard, a page of trips or of *)
(* declarations of an organisation): a copy in the memory of every process, *)
(* one in Redis, loads by getOrSet and the invalidations that follow a      *)
(* write.  A value is the version of the database it was read at.           *)
(*                                                                         *)
(* Errors of Redis are swallowed by the service: a failing get is a miss, a *)
(* failing set stores nothing, a failing scan or del deletes nothing.       *)
(***************************************************************************)
EXTENDS Integers, FiniteSets

CONSTANTS
    Hosts,        \* processes
    Loads,        \* calls of getOrSet
    LoadHost,     \* the process of each
    MaxWrites,    \* bound: writes of what the key shows
    MaxErrors     \* bound: errors of Redis and writers that die

VARIABLES
    version,  \* what the database holds
    copy,     \* the local copies and Redis', NoCopy where there is none
    load,     \* where each load is
    value,    \* what its factory has returned
    inval,    \* the invalidation of the write last made in each process
    errors,
    excused   \* history: copies an older value may be in, see Properties

vars == <<version, copy, load, value, inval, errors, excused>>

Redis == "redis"
Places == Hosts \union {Redis}
NoCopy == -1

\* Loads run in processes, and Redis is none of them.
CacheAssumption ==
    /\ LoadHost \in [Loads -> Hosts]
    /\ Redis \notin Hosts
    /\ MaxWrites \in Nat
    /\ MaxErrors \in Nat

TypeOK ==
    /\ version \in 0..MaxWrites
    /\ copy \in [Places -> {NoCopy} \union 0..MaxWrites]
    /\ load \in [Loads -> {"idle", "local", "factory", "store", "set"}]
    /\ value \in [Loads -> {NoCopy} \union 0..MaxWrites]
    /\ inval \in [Hosts -> {"none", "local", "scan", "del"}]
    /\ errors \in 0..MaxErrors
    /\ excused \subseteq Places

Init ==
    /\ version = 0
    /\ copy = [x \in Places |-> NoCopy]
    /\ load = [l \in Loads |-> "idle"]
    /\ value = [l \in Loads |-> NoCopy]
    /\ inval = [p \in Hosts |-> "none"]
    /\ errors = 0
    /\ excused = {}

-----------------------------------------------------------------------------

Error == errors < MaxErrors /\ errors' = errors + 1

Moves(l, place) == load' = [load EXCEPT ![l] = place]

\* The copy in x becomes v; it is excused if the database is ahead of it.
Store(x, v) ==
    /\ copy' = [copy EXCEPT ![x] = v]
    /\ excused' = IF v \in {NoCopy, version} THEN excused \ {x}
                                             ELSE excused \union {x}

\* getOrSet asks Redis.  A hit is returned and stored nowhere.
getOrSet(l) ==
    /\ load[l] = "idle"
    /\ copy[Redis] = NoCopy
    /\ Moves(l, "local")
    /\ UNCHANGED <<version, copy, value, inval, errors, excused>>

\* The same with a get that fails.
GetFails(l) ==
    /\ Error
    /\ load[l] = "idle" /\ copy[Redis] # NoCopy
    /\ Moves(l, "local")
    /\ UNCHANGED <<version, copy, value, inval, excused>>

\* The local copy, or the factory.
LookUp(l) ==
    /\ load[l] = "local"
    /\ Moves(l, IF copy[LoadHost[l]] # NoCopy THEN "idle" ELSE "factory")
    /\ UNCHANGED <<version, copy, value, inval, errors, excused>>

\* The factory's queries, answered as the database is now.
Factory(l) ==
    /\ load[l] = "factory"
    /\ value' = [value EXCEPT ![l] = version]
    /\ Moves(l, "store")
    /\ UNCHANGED <<version, copy, inval, errors, excused>>

\* entries.set.
StoreLocal(l) ==
    /\ load[l] = "store"
    /\ Store(LoadHost[l], value[l])
    /\ Moves(l, "set")
    /\ UNCHANGED <<version, value, inval, errors>>

\* setRedisValue.
StoreRedis(l) ==
    /\ load[l] = "set"
    /\ Store(Redis, value[l])
    /\ Moves(l, "idle")
    /\ value' = [value EXCEPT ![l] = NoCopy]
    /\ UNCHANGED <<version, inval, errors>>

SetFails(l) ==
    /\ Error
    /\ load[l] = "set"
    /\ Moves(l, "idle")
    /\ value' = [value EXCEPT ![l] = NoCopy]
    /\ UNCHANGED <<version, copy, inval, excused>>

\* A copy's TTL ends: two minutes, thirty or ninety seconds.
Expire(x) ==
    /\ copy[x] # NoCopy
    /\ Store(x, NoCopy)
    /\ UNCHANGED <<version, load, value, inval, errors>>

-----------------------------------------------------------------------------

Held == {x \in Places : copy[x] # NoCopy}

\* A committed write of a process that invalidates the key next: every trip
\* that is created and every trip event (invalidateTripReadModels), and a
\* synchronisation with Cua Khau So for the lists (invalidateCuaKhauSoReadModels).
\* The copies of the other processes are out of its reach.
Write(p) ==
    /\ version < MaxWrites /\ inval[p] = "none"
    /\ version' = version + 1
    /\ inval' = [inval EXCEPT ![p] = "local"]
    /\ excused' = excused \union (Held \ {p, Redis})
    /\ UNCHANGED <<copy, load, value, errors>>

\* A committed write nothing invalidates the key for: the trip statuses a
\* synchronisation with Cua Khau So writes, when the key is the dashboard's, or
\* any write of a process that dies before it has begun to invalidate.
WriteUncovered ==
    /\ Error
    /\ version < MaxWrites
    /\ version' = version + 1
    /\ excused' = excused \union Held
    /\ UNCHANGED <<copy, load, value, inval>>

\* entries.delete, the first thing an invalidation does.
DeleteLocal(p) ==
    /\ inval[p] = "local"
    /\ Store(p, NoCopy)
    /\ inval' = [inval EXCEPT ![p] = "scan"]
    /\ UNCHANGED <<version, load, value, errors>>

\* deleteRedisKeysByPrefix: what the scan does not find is not deleted, even if
\* it is stored before the del; the dashboard's key is deleted unseen.
Scan(p) ==
    /\ inval[p] = "scan"
    /\ \E found \in {copy[Redis] # NoCopy, TRUE} :
          inval' = [inval EXCEPT ![p] = IF found THEN "del" ELSE "none"]
    /\ UNCHANGED <<version, copy, load, value, errors, excused>>

\* Mutant: only the local copy is deleted.
DeleteNothing(p) ==
    /\ inval[p] = "del"
    /\ inval' = [inval EXCEPT ![p] = "none"]
    /\ UNCHANGED <<version, copy, load, value, errors, excused>>

\* deleteRedisKeys.
DeleteRedis(p) ==
    /\ inval[p] = "del"
    /\ Store(Redis, NoCopy)
    /\ inval' = [inval EXCEPT ![p] = "none"]
    /\ UNCHANGED <<version, load, value, errors>>

\* The scan or the del fails, or the process dies: the rest of the invalidation
\* is left out.
InvalidationFails(p) ==
    /\ Error
    /\ inval[p] \in {"scan", "del"}
    /\ inval' = [inval EXCEPT ![p] = "none"]
    /\ excused' = excused \union (Held \intersect {Redis})
    /\ UNCHANGED <<version, copy, load, value>>

-----------------------------------------------------------------------------

Next ==
    \/ \E l \in Loads :
          \/ getOrSet(l) \/ GetFails(l) \/ LookUp(l) \/ Factory(l)
          \/ StoreLocal(l) \/ StoreRedis(l) \/ SetFails(l)
    \/ \E x \in Places : Expire(x)
    \/ \E p \in Hosts :
          \/ Write(p)
          \/ DeleteLocal(p) \/ Scan(p) \/ DeleteRedis(p) \/ InvalidationFails(p)
    \/ WriteUncovered

Spec == Init /\ [][Next]_vars

-----------------------------------------------------------------------------
(***************************************************************************)
(* Properties                                                              *)
(***************************************************************************)

Stale(x) == copy[x] # NoCopy /\ copy[x] < version

\* Once an invalidation is over, a stale copy is one that a load brought back
\* after the write (it had asked the database before), one in the memory of
\* another process than the writer's, or one whose deletion was never tried or
\* failed.  (excused; while an invalidation runs, what it has yet to delete.)
StaleOnlyByRace ==
    \A x \in Places :
        Stale(x) =>
            \/ x \in excused
            \/ IF x = Redis THEN \E p \in Hosts : inval[p] # "none"
                            ELSE inval[x] = "local"
=============================================================================
