--------------------------- MODULE CuaKhauSoSessions ---------------------------
(***************************************************************************)
(* The sessions with which users' requests read declarations from Cua Khau   *)
(* So: CuaKhauSoSessionStore, a map in the memory of each process, connect,  *)
(* which stores new credentials for the organisation, and                    *)
(* fetchDeclarationDetail with the client's refresh of a token.  The         *)
(* synchronisation runs log in for themselves and leave the store alone.     *)
(*                                                                         *)
(* A slot is a user in a process, a session the credentials it was logged in *)
(* with; whether the source takes a token is up to the source.               *)
(***************************************************************************)
EXTENDS FiniteSets

CONSTANTS
    Slots,
    Machine,       \* [Slots -> processes]
    Credentials,   \* what users connect with
    Fetches,       \* concurrent calls of any kind
    None

\* None is no slot and no credentials.
SessionsAssumption == None \notin Slots \union Credentials

VARIABLES
    connected,  \* the organisation's encryptedCredentials
    sessions,   \* the store: the session of each slot
    act,        \* the calls
    lastBy,     \* history: the slot that connected last
    outrun      \* history: slots whose last connect was not alone or not saved

vars == <<connected, sessions, act, lastBy, outrun>>

Steps == {"idle", "login", "upsert", "account", "signin", "get", "refresh"}
Connecting == {"login", "upsert"}

NoCall == [step |-> "idle", slot |-> None, session |-> None, alone |-> FALSE]

TypeOK ==
    /\ connected \in Credentials \union {None}
    /\ sessions \in [Slots -> Credentials \union {None}]
    /\ act \in [Fetches -> [step : Steps, slot : Slots \union {None},
                            session : Credentials \union {None}, alone : BOOLEAN]]
    /\ lastBy \in Slots \union {None}
    /\ outrun \subseteq Slots

Init ==
    /\ connected = None
    /\ sessions = [s \in Slots |-> None]
    /\ act = [f \in Fetches |-> NoCall]
    /\ lastBy = None
    /\ outrun = {}

-----------------------------------------------------------------------------

At(f, step) == act[f].step = step
MovesTo(f, step, session) ==
    act' = [act EXCEPT ![f].step = step, ![f].session = session]
Ends(f) == act' = [act EXCEPT ![f] = NoCall]

UnderWay(s) == {f \in Fetches : act[f].slot = s}

\* A call begins; alone is history: a connect has had no other call of its slot
\* beside it.
Begins(f, s, step, session) ==
    /\ At(f, "idle")
    /\ act' = [g \in Fetches |->
                 IF g = f THEN [step |-> step, slot |-> s, session |-> session,
                                alone |-> step \in Connecting /\ UnderWay(s) = {}]
                 ELSE IF act[g].slot = s THEN [act[g] EXCEPT !.alone = FALSE]
                 ELSE act[g]]

\* Mutant: a connect that leaves the session in place.
saveAsUnlessThere(f, session) ==
    IF sessions[act[f].slot] = None THEN [sessions EXCEPT ![act[f].slot] = session]
    ELSE sessions

\* sessionStore.save and touch: the call's session becomes its slot's.
saveAs(f, session) == [sessions EXCEPT ![act[f].slot] = session]

\* connect calls the source's login.
connect(f, s, credentials) ==
    /\ Begins(f, s, "login", credentials)
    /\ UNCHANGED <<connected, sessions, lastBy, outrun>>

\* The login answers: the session is saved before the account is.
ConnectLoggedIn(f) ==
    /\ At(f, "login")
    /\ sessions' = saveAs(f, act[f].session)
    /\ MovesTo(f, "upsert", act[f].session)
    /\ UNCHANGED <<connected, lastBy, outrun>>

\* upsertIntegrationAccount.
ConnectUpserts(f) ==
    /\ At(f, "upsert")
    /\ connected' = act[f].session
    /\ lastBy' = act[f].slot
    /\ outrun' = IF act[f].alone THEN outrun \ {act[f].slot} ELSE outrun \union {act[f].slot}
    /\ Ends(f)
    /\ UNCHANGED sessions

\* The database refuses: the session stays.
ConnectUpsertFails(f) ==
    /\ At(f, "upsert")
    /\ outrun' = outrun \union {act[f].slot}
    /\ Ends(f)
    /\ UNCHANGED <<connected, sessions, lastBy>>

\* fetchDeclarationDetail, getSourceSession: the slot's session if there is one.
fetchDeclarationDetail(f, s) ==
    /\ IF sessions[s] # None THEN Begins(f, s, "get", sessions[s])
       ELSE Begins(f, s, "account", None)
    /\ UNCHANGED <<connected, sessions, lastBy, outrun>>

\* getConnectedAccount, which throws if nobody has connected.
ReadAccount(f) ==
    /\ At(f, "account")
    /\ IF connected = None THEN Ends(f) ELSE MovesTo(f, "signin", connected)
    /\ UNCHANGED <<connected, sessions, lastBy, outrun>>

\* getSourceSession has logged in and saves.
SignedIn(f) ==
    /\ At(f, "signin")
    /\ sessions' = saveAs(f, act[f].session)
    /\ MovesTo(f, "get", act[f].session)
    /\ UNCHANGED <<connected, lastBy, outrun>>

\* authenticatedGet: 401 has the token refreshed and the request repeated, in one
\* step here, since the store is not touched in between.
Unauthorized(f) ==
    /\ At(f, "get")
    /\ MovesTo(f, "refresh", act[f].session)
    /\ UNCHANGED <<connected, sessions, lastBy, outrun>>

\* The source has answered: touch puts the session (back) into the store.
Answered(f) ==
    /\ At(f, "get") \/ At(f, "refresh")
    /\ sessions' = saveAs(f, act[f].session)
    /\ Ends(f)
    /\ UNCHANGED <<connected, lastBy, outrun>>

\* A refused login or refresh, a time-out, any other status: the call fails and
\* leaves the store as it is.
Fails(f) ==
    /\ act[f].step \in {"login", "signin", "get", "refresh"}
    /\ Ends(f)
    /\ UNCHANGED <<connected, sessions, lastBy, outrun>>

\* sessionTtlMs have passed since the session was last used.
Expires(s) ==
    /\ sessions' = [sessions EXCEPT ![s] = None]
    /\ UNCHANGED <<connected, act, lastBy, outrun>>

\* A process dies with its store and its calls.
Restarts(m) ==
    /\ sessions' = [s \in Slots |-> IF Machine[s] = m THEN None ELSE sessions[s]]
    /\ act' = [f \in Fetches |->
                 IF act[f].slot \in {s \in Slots : Machine[s] = m} THEN NoCall ELSE act[f]]
    /\ UNCHANGED <<connected, lastBy, outrun>>

Next ==
    \/ \E f \in Fetches, s \in Slots :
          \/ \E credentials \in Credentials : connect(f, s, credentials)
          \/ fetchDeclarationDetail(f, s)
    \/ \E f \in Fetches :
          \/ ConnectLoggedIn(f) \/ ConnectUpserts(f) \/ ConnectUpsertFails(f)
          \/ ReadAccount(f) \/ SignedIn(f)
          \/ Unauthorized(f) \/ Answered(f) \/ Fails(f)
    \/ \E s \in Slots : Expires(s)
    \/ \E m \in {Machine[s] : s \in Slots} : Restarts(m)

Spec == Init /\ [][Next]_vars

-----------------------------------------------------------------------------

\* The user who connected the organisation last reads from the account that is
\* connected: the session in the store is of its credentials, unless another call
\* of this user in the same process overlapped the connect (its touch or its login
\* may bring the session of the former account back, and every further use keeps
\* it) or the account could not be saved (cua-khau-so.service.ts:157-188,
\* 1431-1445, 1588-1606).
ConnectedReadsItsAccount ==
    \A s \in Slots :
        /\ lastBy = s /\ sessions[s] # None /\ s \notin outrun
        /\ \A f \in UnderWay(s) : act[f].step \notin Connecting
        => sessions[s] = connected
=============================================================================
