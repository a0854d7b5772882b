------------------------ MODULE CuaKhauSoSessionsProofs ------------------------
(***************************************************************************)
(* ConnectedReadsItsAccount for any processes, users, credentials and       *)
(* concurrent calls.  A call carries the session it will put into the store *)
(* when it is answered, so the invariant is about the calls as well: those  *)
(* of a slot whose connect came last carry what is connected.               *)
(***************************************************************************)
EXTENDS CuaKhauSoSessions, TLAPS

\* A call that is under way has a slot, and one that is not has nothing.
CallInv ==
    \A f \in Fetches :
        IF act[f].step = "idle" THEN act[f] = NoCall ELSE act[f].slot \in Slots

\* A connect that is alone has no call of its slot beside it, and its session is
\* the store's once it has logged in, unless that one has expired.
AloneInv ==
    \A f \in Fetches :
        act[f].alone =>
            /\ UnderWay(act[f].slot) = {f}
            /\ act[f].step \in Connecting
            /\ act[f].step = "upsert" =>
                  sessions[act[f].slot] \in {None, act[f].session}

Upserting(s) == \E f \in UnderWay(s) : act[f].step = "upsert"

\* The last connect of this slot was alone and is still the last of all.
Settled(s) == lastBy = s /\ s \notin outrun /\ ~ Upserting(s)

SettledInv ==
    \A s \in Slots :
        Settled(s) =>
            /\ sessions[s] \in {None, connected}
            /\ \A f \in UnderWay(s) :
                  act[f].step \in {"signin", "get", "refresh"} => act[f].session = connected

\* The inductive invariant.
IndInv == TypeOK /\ CallInv /\ AloneInv /\ SettledInv

USE DEF At, Steps, Connecting, NoCall, UnderWay

\* A call that begins has its type, and the others keep theirs.
LEMMA BeginsFits ==
    ASSUME SessionsAssumption, TypeOK, CallInv,
           NEW f \in Fetches, NEW s \in Slots, NEW step \in Steps \ {"idle"},
           NEW session \in Credentials \union {None},
           Begins(f, s, step, session),
           UNCHANGED <<connected, sessions, lastBy, outrun>>
    PROVE  TypeOK' /\ CallInv'
<1> DEFINE fresh == [step |-> step, slot |-> s, session |-> session,
                     alone |-> step \in Connecting /\ UnderWay(s) = {}]
           other(g) == IF act[g].slot = s THEN [act[g] EXCEPT !.alone = FALSE] ELSE act[g]
           Call == [step : Steps, slot : Slots \union {None},
                    session : Credentials \union {None}, alone : BOOLEAN]
<1>1. act' = [g \in Fetches |-> IF g = f THEN fresh ELSE other(g)]
  BY DEF Begins
<1>2. ASSUME NEW alone \in BOOLEAN
      PROVE  [step |-> step, slot |-> s, session |-> session, alone |-> alone] \in Call
  OBVIOUS
<1>3. fresh \in Call
  <2> HIDE DEF Call
  <2> DEFINE alone == step \in Connecting /\ UnderWay(s) = {}
  <2>1. alone \in BOOLEAN
    OBVIOUS
  <2>2. fresh = [step |-> step, slot |-> s, session |-> session, alone |-> alone]
    OBVIOUS
  <2> HIDE DEF alone
  <2> QED
    BY <1>2, <2>1, <2>2
<1>0. fresh.step # "idle" /\ fresh.slot \in Slots
  OBVIOUS
<1>4. ASSUME NEW g \in Fetches
      PROVE  /\ other(g) \in Call
             /\ IF other(g).step = "idle" THEN other(g) = NoCall ELSE other(g).slot \in Slots
  <2>1. act[g] \in Call /\ (act[g].step = "idle" => act[g] = NoCall)
    BY <1>4 DEF TypeOK, CallInv
  <2>2. CASE act[g].slot = s
    <3>1. act[g].step # "idle"
      BY <2>1, <2>2 DEF SessionsAssumption
    <3>2. other(g) = [act[g] EXCEPT !.alone = FALSE]
      BY <2>2
    <3> QED
      BY <2>1, <2>2, <3>1, <3>2
  <2>3. CASE act[g].slot # s
    BY <1>4, <2>1, <2>3 DEF CallInv
  <2> QED
    BY <2>2, <2>3
<1> HIDE DEF fresh, other, Call
<1>5. act' \in [Fetches -> Call]
  BY <1>1, <1>3, <1>4
<1>6. CallInv'
  BY <1>1, <1>0, <1>4 DEF CallInv
<1> QED
  BY <1>5, <1>6 DEF TypeOK, Call

\* Every variable keeps its type under a step.
LEMMA TypeStep ==
    ASSUME SessionsAssumption, TypeOK, CallInv, [Next]_vars
    PROVE  TypeOK' /\ CallInv'
<1> USE DEF TypeOK, CallInv
<1>1. ASSUME NEW f \in Fetches, NEW s \in Slots, NEW credentials \in Credentials,
             connect(f, s, credentials)
      PROVE  TypeOK' /\ CallInv'
  BY <1>1, BeginsFits DEF connect
<1>2. ASSUME NEW f \in Fetches, NEW s \in Slots, fetchDeclarationDetail(f, s)
      PROVE  TypeOK' /\ CallInv'
  BY <1>2, BeginsFits DEF fetchDeclarationDetail
<1>3. ASSUME NEW f \in Fetches, ConnectLoggedIn(f)
      PROVE  TypeOK' /\ CallInv'
  BY <1>3 DEF ConnectLoggedIn, saveAs, MovesTo
<1>4. ASSUME NEW f \in Fetches, ConnectUpserts(f)
      PROVE  TypeOK' /\ CallInv'
  BY <1>4 DEF ConnectUpserts, Ends
<1>5. ASSUME NEW f \in Fetches, ConnectUpsertFails(f)
      PROVE  TypeOK' /\ CallInv'
  BY <1>5 DEF ConnectUpsertFails, Ends
<1>6. ASSUME NEW f \in Fetches, ReadAccount(f)
      PROVE  TypeOK' /\ CallInv'
  <2>1. UNCHANGED <<connected, sessions, lastBy, outrun>>
    BY <1>6 DEF ReadAccount
  <2>2. CASE Ends(f)
    BY <2>1, <2>2 DEF Ends
  <2>3. CASE MovesTo(f, "signin", connected)
    BY <1>6, <2>1, <2>3 DEF ReadAccount, MovesTo
  <2> QED
    BY <1>6, <2>2, <2>3 DEF ReadAccount
<1>7. ASSUME NEW f \in Fetches, SignedIn(f)
      PROVE  TypeOK' /\ CallInv'
  BY <1>7 DEF SignedIn, saveAs, MovesTo
<1>8. ASSUME NEW f \in Fetches, Unauthorized(f)
      PROVE  TypeOK' /\ CallInv'
  BY <1>8 DEF Unauthorized, MovesTo
<1>9. ASSUME NEW f \in Fetches, Answered(f)
      PROVE  TypeOK' /\ CallInv'
  BY <1>9 DEF Answered, saveAs, Ends
<1>10. ASSUME NEW f \in Fetches, Fails(f)
       PROVE  TypeOK' /\ CallInv'
  BY <1>10 DEF Fails, Ends
<1>11. ASSUME NEW s \in Slots, Expires(s)
       PROVE  TypeOK' /\ CallInv'
  BY <1>11 DEF Expires
<1>12. ASSUME NEW m, Restarts(m)
       PROVE  TypeOK' /\ CallInv'
  BY <1>12 DEF Restarts
<1>13. CASE UNCHANGED vars
  BY <1>13 DEF vars
<1> QED
  BY <1>1, <1>2, <1>3, <1>4, <1>5, <1>6, <1>7, <1>8, <1>9, <1>10, <1>11, <1>12, <1>13
     DEF Next
-----------------------------------------------------------------------------
(* What a kind of step does to who is under way.                           *)

\* A call that begins joins its slot.
LEMMA Begun ==
    ASSUME SessionsAssumption, TypeOK, CallInv,
           NEW f \in Fetches, NEW s \in Slots, NEW step \in Steps \ {"idle"},
           NEW session \in Credentials \union {None}, Begins(f, s, step, session)
    PROVE  /\ act'[f].step = step /\ act'[f].session = session /\ act'[f].slot = s
           /\ act'[f].alone <=> (step \in Connecting /\ UnderWay(s) = {})
           /\ \A g \in Fetches \ {f} :
                 /\ act'[g].step = act[g].step /\ act'[g].session = act[g].session
                 /\ act'[g].slot = act[g].slot
                 /\ act'[g].alone => act[g].alone /\ act[g].slot # s
           /\ UnderWay(s)' = UnderWay(s) \union {f}
           /\ \A t \in Slots \ {s} : UnderWay(t)' = UnderWay(t)
<1>1. act[f] = NoCall
  BY DEF Begins, CallInv
<1>2. /\ act'[f].step = step /\ act'[f].session = session /\ act'[f].slot = s
      /\ act'[f].alone <=> (step \in Connecting /\ UnderWay(s) = {})
  BY DEF Begins
<1>3. ASSUME NEW g \in Fetches \ {f}
      PROVE  /\ act'[g].step = act[g].step /\ act'[g].session = act[g].session
             /\ act'[g].slot = act[g].slot
             /\ act'[g].alone => act[g].alone /\ act[g].slot # s
  <2>1. CASE act[g].slot = s
    <3>1. act'[g] = [act[g] EXCEPT !.alone = FALSE]
      BY <1>3, <2>1 DEF Begins
    <3> QED
      BY <1>3, <2>1, <3>1 DEF TypeOK
  <2>2. CASE act[g].slot # s
    BY <1>3, <2>2 DEF Begins
  <2> QED
    BY <2>1, <2>2
<1>4. /\ UnderWay(s)' = UnderWay(s) \union {f}
      /\ \A t \in Slots \ {s} : UnderWay(t)' = UnderWay(t)
  BY <1>1, <1>2, <1>3 DEF SessionsAssumption
<1> QED
  BY <1>2, <1>3, <1>4

\* A call that moves stays in its slot.
LEMMA Moved ==
    ASSUME TypeOK, NEW f \in Fetches, NEW step \in Steps,
           NEW session \in Credentials \union {None}, MovesTo(f, step, session)
    PROVE  /\ act'[f].step = step /\ act'[f].session = session
           /\ act'[f].slot = act[f].slot /\ act'[f].alone = act[f].alone
           /\ \A g \in Fetches \ {f} : act'[g] = act[g]
           /\ \A t \in Slots : UnderWay(t)' = UnderWay(t)
BY DEF TypeOK, MovesTo

\* A call that ends leaves its slot.
LEMMA Ended ==
    ASSUME SessionsAssumption, TypeOK, NEW f \in Fetches, Ends(f)
    PROVE  /\ act'[f] = NoCall
           /\ \A g \in Fetches \ {f} : act'[g] = act[g]
           /\ \A t \in Slots : UnderWay(t)' = UnderWay(t) \ {f}
BY DEF TypeOK, Ends, SessionsAssumption

\* A process that dies takes the calls of its slots along.
LEMMA Restarted ==
    ASSUME SessionsAssumption, TypeOK, NEW m, Restarts(m)
    PROVE  /\ \A g \in Fetches :
                 \/ act'[g] = NoCall /\ (act[g].slot \in Slots => Machine[act[g].slot] = m)
                 \/ act'[g] = act[g] /\ ~ (act[g].slot \in Slots /\ Machine[act[g].slot] = m)
           /\ \A t \in Slots :
                 IF Machine[t] = m THEN UnderWay(t)' = {} /\ sessions'[t] = None
                 ELSE UnderWay(t)' = UnderWay(t) /\ sessions'[t] = sessions[t]
<1>1. \A g \in Fetches :
         \/ act'[g] = NoCall /\ (act[g].slot \in Slots => Machine[act[g].slot] = m)
         \/ act'[g] = act[g] /\ ~ (act[g].slot \in Slots /\ Machine[act[g].slot] = m)
  BY DEF Restarts
<1>2. ASSUME NEW t \in Slots
      PROVE  IF Machine[t] = m THEN UnderWay(t)' = {} /\ sessions'[t] = None
             ELSE UnderWay(t)' = UnderWay(t) /\ sessions'[t] = sessions[t]
  <2>1. sessions'[t] = IF Machine[t] = m THEN None ELSE sessions[t]
    BY <1>2 DEF Restarts
  <2>2. \A g \in Fetches : act'[g].slot = t <=> act[g].slot = t /\ Machine[t] # m
    BY <1>1, <1>2 DEF SessionsAssumption
  <2> QED
    BY <2>1, <2>2
<1> QED
  BY <1>1, <1>2
-----------------------------------------------------------------------------
(* The two parts of the invariant, action by action.                       *)

\* Whatever joins a connect's slot is counted against the connect.
LEMMA AloneStep ==
    ASSUME SessionsAssumption, TypeOK, CallInv, AloneInv, [Next]_vars
    PROVE  AloneInv'
<1>0. \A g \in Fetches : act[g].alone => act[g].slot \in Slots
  BY DEF CallInv
<1>1. ASSUME NEW f \in Fetches, NEW s \in Slots, NEW step \in Steps \ {"idle", "upsert"},
             NEW session \in Credentials \union {None},
             Begins(f, s, step, session), UNCHANGED sessions
      PROVE  AloneInv'
  <2> SUFFICES ASSUME NEW g \in Fetches, act'[g].alone
               PROVE  /\ UnderWay(act[g].slot)' = {g}
                      /\ act'[g].step \in Connecting
                      /\ act'[g].step = "upsert" =>
                            sessions'[act'[g].slot] \in {None, act'[g].session}
    BY DEF AloneInv
  <2>1. CASE g = f
    BY <1>1, <2>1, Begun
  <2>2. CASE g # f
    <3>1. /\ act'[g].step = act[g].step /\ act'[g].session = act[g].session
          /\ act'[g].slot = act[g].slot /\ act[g].alone /\ act[g].slot # s
      BY <1>1, <2>2, Begun
    <3>2. UnderWay(act[g].slot)' = UnderWay(act[g].slot)
      BY <1>0, <1>1, <3>1, Begun
    <3> QED
      BY <1>1, <3>1, <3>2 DEF AloneInv
  <2> QED
    BY <2>1, <2>2
<1>2. ASSUME NEW f \in Fetches, Ends(f),
             \A t \in Slots : t # act[f].slot => sessions'[t] = sessions[t]
      PROVE  AloneInv'
  <2> SUFFICES ASSUME NEW g \in Fetches, act'[g].alone
               PROVE  /\ UnderWay(act[g].slot)' = {g}
                      /\ act'[g].step \in Connecting
                      /\ act'[g].step = "upsert" =>
                            sessions'[act'[g].slot] \in {None, act'[g].session}
    BY DEF AloneInv
  <2>1. g # f /\ act'[g] = act[g]
    BY <1>2, Ended
  <2>2. act[g].slot # act[f].slot
    BY <2>1 DEF AloneInv
  <2>3. UnderWay(act[g].slot)' = UnderWay(act[g].slot)
    BY <1>0, <1>2, <2>1, <2>2, Ended
  <2> QED
    BY <1>0, <1>2, <2>1, <2>2, <2>3 DEF AloneInv
<1>3. ASSUME NEW f \in Fetches, NEW step \in Steps, NEW session \in Credentials \union {None},
             MovesTo(f, step, session),
             \A t \in Slots : t # act[f].slot => sessions'[t] = sessions[t],
             act[f].alone => step = "upsert" /\ sessions'[act[f].slot] = session
      PROVE  AloneInv'
  <2> SUFFICES ASSUME NEW g \in Fetches, act'[g].alone
               PROVE  /\ UnderWay(act[g].slot)' = {g}
                      /\ act'[g].step \in Connecting
                      /\ act'[g].step = "upsert" =>
                            sessions'[act'[g].slot] \in {None, act'[g].session}
    BY DEF AloneInv
  <2>1. act'[g].slot = act[g].slot /\ act[g].alone
    BY <1>3, Moved
  <2>2. UnderWay(act[g].slot)' = {g}
    BY <1>0, <1>3, <2>1, Moved DEF AloneInv
  <2>3. CASE g = f
    BY <1>3, <2>1, <2>2, <2>3, Moved
  <2>4. CASE g # f
    <3>1. act'[g] = act[g]
      BY <1>3, <2>4, Moved
    <3>2. act[g].slot # act[f].slot
      BY <2>1, <2>4 DEF AloneInv
    <3> QED
      BY <1>0, <1>3, <2>1, <2>2, <3>1, <3>2 DEF AloneInv
  <2> QED
    BY <2>3, <2>4
<1>4. ASSUME NEW f \in Fetches, NEW s \in Slots, NEW credentials \in Credentials,
             connect(f, s, credentials)
      PROVE  AloneInv'
  BY <1>1, <1>4 DEF connect
<1>5. ASSUME NEW f \in Fetches, NEW s \in Slots, fetchDeclarationDetail(f, s)
      PROVE  AloneInv'
  BY <1>1, <1>5 DEF fetchDeclarationDetail, TypeOK
<1>6. ASSUME NEW f \in Fetches, ConnectLoggedIn(f)
      PROVE  AloneInv'
  <2>1. act[f].session \in Credentials \union {None} /\ act[f].slot \in Slots
    BY <1>6 DEF ConnectLoggedIn, TypeOK, CallInv
  <2>2. /\ MovesTo(f, "upsert", act[f].session)
        /\ sessions' = [sessions EXCEPT ![act[f].slot] = act[f].session]
    BY <1>6 DEF ConnectLoggedIn, saveAs
  <2>3. /\ sessions'[act[f].slot] = act[f].session
        /\ \A t \in Slots : t # act[f].slot => sessions'[t] = sessions[t]
    BY <2>1, <2>2 DEF TypeOK
  <2> QED
    BY <1>3, <2>1, <2>2, <2>3
<1>7. ASSUME NEW f \in Fetches, ConnectUpserts(f)
      PROVE  AloneInv'
  BY <1>2, <1>7 DEF ConnectUpserts
<1>8. ASSUME NEW f \in Fetches, ConnectUpsertFails(f)
      PROVE  AloneInv'
  BY <1>2, <1>8 DEF ConnectUpsertFails
<1>9. ASSUME NEW f \in Fetches, ReadAccount(f)
      PROVE  AloneInv'
  <2>1. ~ act[f].alone
    BY <1>9 DEF ReadAccount, AloneInv
  <2> QED
    BY <1>2, <1>3, <1>9, <2>1 DEF ReadAccount, TypeOK
<1>10. ASSUME NEW f \in Fetches, SignedIn(f)
       PROVE  AloneInv'
  <2>1. ~ act[f].alone /\ act[f].session \in Credentials \union {None}
    BY <1>10 DEF SignedIn, AloneInv, TypeOK
  <2>2. \A t \in Slots : t # act[f].slot => sessions'[t] = sessions[t]
    BY <1>10 DEF SignedIn, saveAs, TypeOK
  <2> QED
    BY <1>3, <1>10, <2>1, <2>2 DEF SignedIn
<1>11. ASSUME NEW f \in Fetches, Unauthorized(f)
       PROVE  AloneInv'
  <2>1. ~ act[f].alone /\ act[f].session \in Credentials \union {None}
    BY <1>11 DEF Unauthorized, AloneInv, TypeOK
  <2> QED
    BY <1>3, <1>11, <2>1 DEF Unauthorized
<1>12. ASSUME NEW f \in Fetches, Answered(f)
       PROVE  AloneInv'
  <2>1. \A t \in Slots : t # act[f].slot => sessions'[t] = sessions[t]
    BY <1>12 DEF Answered, saveAs, TypeOK
  <2> QED
    BY <1>2, <1>12, <2>1 DEF Answered
<1>13. ASSUME NEW f \in Fetches, Fails(f)
       PROVE  AloneInv'
  BY <1>2, <1>13 DEF Fails
<1>14. ASSUME NEW s \in Slots, Expires(s)
       PROVE  AloneInv'
  BY <1>0, <1>14 DEF Expires, AloneInv, TypeOK
<1>15. ASSUME NEW m, Restarts(m)
       PROVE  AloneInv'
  <2> SUFFICES ASSUME NEW g \in Fetches, act'[g].alone
               PROVE  /\ UnderWay(act[g].slot)' = {g}
                      /\ act'[g].step \in Connecting
                      /\ act'[g].step = "upsert" =>
                            sessions'[act'[g].slot] \in {None, act'[g].session}
    BY DEF AloneInv
  <2>1. act'[g] = act[g] /\ ~ (act[g].slot \in Slots /\ Machine[act[g].slot] = m)
    BY <1>15, Restarted
  <2>2. /\ act[g].slot \in Slots
        /\ UnderWay(act[g].slot)' = UnderWay(act[g].slot)
        /\ sessions'[act[g].slot] = sessions[act[g].slot]
    BY <1>0, <1>15, <2>1, Restarted
  <2> QED
    BY <2>1, <2>2 DEF AloneInv
<1>16. CASE UNCHANGED vars
  BY <1>16 DEF vars, AloneInv
<1> QED
  BY <1>4, <1>5, <1>6, <1>7, <1>8, <1>9, <1>10, <1>11, <1>12, <1>13, <1>14, <1>15, <1>16
     DEF Next

\* A connect that was alone leaves its slot's store and calls with what it
\* connected, and calls that begin afterwards take it from there.
LEMMA SettledStep ==
    ASSUME SessionsAssumption, TypeOK, CallInv, AloneInv, SettledInv, [Next]_vars
    PROVE  SettledInv'
<1> DEFINE Reads(g) == act[g].step \in {"signin", "get", "refresh"}
           Good(s) == /\ sessions[s] \in {None, connected}
                      /\ \A g \in UnderWay(s) : Reads(g) => act[g].session = connected
<1>0. SUFFICES ASSUME NEW s \in Slots, Settled(s)'
               PROVE  Good(s)'
  BY DEF SettledInv
<1>s. Settled(s) => Good(s)
  BY DEF SettledInv
\* One call moves on or ends, and connects nothing.
<1>1. ASSUME NEW f \in Fetches, UNCHANGED <<connected, lastBy>>,
             s \notin outrun, act[f].slot = s => act[f].step # "upsert",
             \A g \in Fetches \ {f} : act'[g] = act[g],
             act'[f].slot \in {act[f].slot, None},
             Good(s) => \/ sessions'[s] = sessions[s]
                        \/ act[f].slot = s /\ sessions'[s] \in {None, connected},
             Good(s) /\ act'[f].slot = s /\ Reads(f)' => act'[f].session = connected
      PROVE  Good(s)'
  <2>1. \A g \in Fetches \ {f} : g \in UnderWay(s) <=> g \in UnderWay(s)'
    BY <1>1
  <2>2. ~ Upserting(s)
    BY <1>0, <1>1, <2>1 DEF Settled, Upserting
  <2>3. Good(s)
    BY <1>0, <1>1, <1>s, <2>2 DEF Settled
  <2> QED
    BY <1>1, <2>1, <2>3
\* A call begins.
<1>2. ASSUME NEW f \in Fetches, NEW t \in Slots, NEW step \in Steps \ {"idle", "upsert"},
             NEW session \in Credentials \union {None},
             Begins(f, t, step, session), UNCHANGED <<connected, sessions, lastBy, outrun>>,
             step \in {"signin", "get", "refresh"} => session # None /\ session = sessions[t]
      PROVE  Good(s)'
  <2>1. /\ act'[f].step = step /\ act'[f].session = session /\ act'[f].slot = t
        /\ \A g \in Fetches \ {f} :
              act'[g].step = act[g].step /\ act'[g].session = act[g].session
                                         /\ act'[g].slot = act[g].slot
    BY <1>2, Begun
  <2>2. act[f].slot # s
    BY <1>2 DEF Begins, CallInv, SessionsAssumption
  <2>3. ~ Upserting(s)
    BY <1>0, <2>1, <2>2 DEF Settled, Upserting
  <2>4. Good(s)
    BY <1>0, <1>2, <1>s, <2>3 DEF Settled
  <2> QED
    BY <1>2, <2>1, <2>4
<1>3. ASSUME NEW f \in Fetches, NEW t \in Slots, NEW credentials \in Credentials,
             connect(f, t, credentials)
      PROVE  Good(s)'
  BY <1>2, <1>3 DEF connect
<1>4. ASSUME NEW f \in Fetches, NEW t \in Slots, fetchDeclarationDetail(f, t)
      PROVE  Good(s)'
  BY <1>2, <1>4 DEF fetchDeclarationDetail, TypeOK
<1>5. ASSUME NEW f \in Fetches, ConnectLoggedIn(f)
      PROVE  Good(s)'
  <2>1. /\ MovesTo(f, "upsert", act[f].session) /\ act[f].session \in Credentials \union {None}
        /\ UNCHANGED <<connected, lastBy, outrun>>
    BY <1>5 DEF ConnectLoggedIn, TypeOK
  <2>2. act'[f].step = "upsert" /\ act'[f].slot = act[f].slot
        /\ \A g \in Fetches \ {f} : act'[g] = act[g]
    BY <2>1, Moved
  <2>3. act[f].slot # s
    BY <1>0, <2>2 DEF Settled, Upserting
  <2>4. sessions'[s] = sessions[s]
    BY <1>5, <2>3 DEF ConnectLoggedIn, saveAs, TypeOK
  <2> QED
    BY <1>0, <1>1, <2>1, <2>2, <2>3, <2>4 DEF Settled
<1>6. ASSUME NEW f \in Fetches, ConnectUpserts(f)
      PROVE  Good(s)'
  <2>1. act[f].slot = s /\ act[f].alone /\ act[f].step = "upsert"
    BY <1>0, <1>6 DEF Settled, ConnectUpserts, TypeOK
  <2>2. UnderWay(s) = {f} /\ sessions[s] \in {None, act[f].session}
    BY <2>1 DEF AloneInv
  <2>3. UnderWay(s)' = {}
    BY <1>6, <2>2, Ended DEF ConnectUpserts
  <2>4. sessions' = sessions /\ connected' = act[f].session
    BY <1>6 DEF ConnectUpserts
  <2> QED
    BY <2>2, <2>3, <2>4
<1>7. ASSUME NEW f \in Fetches, ConnectUpsertFails(f)
      PROVE  Good(s)'
  <2>1. Ends(f) /\ act[f].slot # s /\ s \notin outrun
        /\ UNCHANGED <<connected, sessions, lastBy>>
    BY <1>0, <1>7 DEF Settled, ConnectUpsertFails
  <2>2. act'[f] = NoCall /\ \A g \in Fetches \ {f} : act'[g] = act[g]
    BY <2>1, Ended
  <2> QED
    BY <1>1, <2>1, <2>2
<1>8. ASSUME NEW f \in Fetches, ReadAccount(f)
      PROVE  Good(s)'
  <2>1. act[f].step = "account" /\ s \notin outrun
        /\ UNCHANGED <<connected, sessions, lastBy, outrun>>
    BY <1>0, <1>8 DEF Settled, ReadAccount
  <2>2. CASE Ends(f)
    <3>1. act'[f] = NoCall /\ \A g \in Fetches \ {f} : act'[g] = act[g]
      BY <2>2, Ended
    <3> QED
      BY <1>1, <2>1, <3>1
  <2>3. CASE MovesTo(f, "signin", connected)
    <3>1. /\ act'[f].step = "signin" /\ act'[f].session = connected
          /\ act'[f].slot = act[f].slot
          /\ \A g \in Fetches \ {f} : act'[g] = act[g]
      BY <2>3, Moved DEF TypeOK
    <3> QED
      BY <1>1, <2>1, <3>1
  <2> QED
    BY <1>8, <2>2, <2>3 DEF ReadAccount
<1>9. ASSUME NEW f \in Fetches, SignedIn(f)
      PROVE  Good(s)'
  <2>1. /\ act[f].step = "signin" /\ MovesTo(f, "get", act[f].session) /\ s \notin outrun
        /\ act[f].session \in Credentials \union {None}
        /\ UNCHANGED <<connected, lastBy, outrun>>
    BY <1>0, <1>9 DEF Settled, SignedIn, TypeOK
  <2>2. /\ act'[f].session = act[f].session /\ act'[f].slot = act[f].slot
        /\ \A g \in Fetches \ {f} : act'[g] = act[g]
    BY <2>1, Moved
  <2>3. sessions'[s] = IF act[f].slot = s THEN act[f].session ELSE sessions[s]
    BY <1>9 DEF SignedIn, saveAs, TypeOK
  <2> QED
    BY <1>1, <2>1, <2>2, <2>3
<1>10. ASSUME NEW f \in Fetches, Unauthorized(f)
       PROVE  Good(s)'
  <2>1. /\ act[f].step = "get" /\ MovesTo(f, "refresh", act[f].session) /\ s \notin outrun
        /\ act[f].session \in Credentials \union {None}
        /\ UNCHANGED <<connected, sessions, lastBy, outrun>>
    BY <1>0, <1>10 DEF Settled, Unauthorized, TypeOK
  <2>2. /\ act'[f].session = act[f].session /\ act'[f].slot = act[f].slot
        /\ \A g \in Fetches \ {f} : act'[g] = act[g]
    BY <2>1, Moved
  <2> QED
    BY <1>1, <2>1, <2>2
<1>11. ASSUME NEW f \in Fetches, Answered(f)
       PROVE  Good(s)'
  <2>1. /\ act[f].step \in {"get", "refresh"} /\ Ends(f) /\ s \notin outrun
        /\ UNCHANGED <<connected, lastBy, outrun>>
    BY <1>0, <1>11 DEF Settled, Answered
  <2>2. act'[f] = NoCall /\ \A g \in Fetches \ {f} : act'[g] = act[g]
    BY <2>1, Ended
  <2>3. sessions'[s] = IF act[f].slot = s THEN act[f].session ELSE sessions[s]
    BY <1>11 DEF Answered, saveAs, TypeOK
  <2> QED
    BY <1>1, <2>1, <2>2, <2>3
<1>12. ASSUME NEW f \in Fetches, Fails(f)
       PROVE  Good(s)'
  <2>1. /\ act[f].step # "upsert" /\ Ends(f) /\ s \notin outrun
        /\ UNCHANGED <<connected, sessions, lastBy, outrun>>
    BY <1>0, <1>12 DEF Settled, Fails
  <2>2. act'[f] = NoCall /\ \A g \in Fetches \ {f} : act'[g] = act[g]
    BY <2>1, Ended
  <2> QED
    BY <1>1, <2>1, <2>2
<1>13. ASSUME NEW t \in Slots, Expires(t)
       PROVE  Good(s)'
  <2>1. UNCHANGED <<connected, act, lastBy, outrun>>
        /\ sessions'[s] \in {None, sessions[s]}
    BY <1>13 DEF Expires, TypeOK
  <2>2. Settled(s)
    BY <1>0, <2>1 DEF Settled, Upserting
  <2> QED
    BY <1>s, <2>1, <2>2
<1>14. ASSUME NEW m, Restarts(m)
       PROVE  Good(s)'
  <2>1. UNCHANGED <<connected, lastBy, outrun>>
    BY <1>14 DEF Restarts
  <2>2. CASE Machine[s] = m
    BY <1>14, <2>1, <2>2, Restarted
  <2>3. CASE Machine[s] # m
    <3>1. sessions'[s] = sessions[s] /\ UnderWay(s)' = UnderWay(s)
      BY <1>14, <2>3, Restarted
    <3>2. \A g \in UnderWay(s) : act'[g] = act[g]
      BY <1>14, <2>3, Restarted
    <3>3. Settled(s)
      BY <1>0, <2>1, <3>1, <3>2 DEF Settled, Upserting
    <3> QED
      BY <1>s, <2>1, <3>1, <3>2, <3>3
  <2> QED
    BY <2>2, <2>3
<1>15. CASE UNCHANGED vars
  BY <1>0, <1>s, <1>15 DEF vars, Settled, Upserting
<1> QED
  BY <1>3, <1>4, <1>5, <1>6, <1>7, <1>8, <1>9, <1>10, <1>11, <1>12, <1>13, <1>14, <1>15
     DEF Next
-----------------------------------------------------------------------------

LEMMA Invariance ==
    ASSUME SessionsAssumption
    PROVE  Spec => []IndInv
<1>1. Init => IndInv
  BY DEF Init, IndInv, TypeOK, CallInv, AloneInv, SettledInv, Settled, SessionsAssumption
<1>2. IndInv /\ [Next]_vars => IndInv'
  BY TypeStep, AloneStep, SettledStep DEF IndInv
<1> QED
  BY <1>1, <1>2, PTL DEF Spec

\* The variables keep their types.
THEOREM TypeCorrect ==
    ASSUME SessionsAssumption
    PROVE  Spec => []TypeOK
<1>1. IndInv => TypeOK
  BY DEF IndInv
<1> QED
  BY <1>1, Invariance, PTL

\* The user who connected the organisation last reads from the account that is
\* connected, unless another call of this user overlapped the connect or the
\* account could not be saved (cua-khau-so.service.ts:157-188, 1431-1445).
THEOREM LastConnectIsRead ==
    ASSUME SessionsAssumption
    PROVE  Spec => []ConnectedReadsItsAccount
<1>1. IndInv => ConnectedReadsItsAccount
  BY DEF IndInv, SettledInv, Settled, Upserting, ConnectedReadsItsAccount
<1> QED
  BY <1>1, Invariance, PTL
=============================================================================
