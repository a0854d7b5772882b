--------------------------- MODULE MembershipsProofs ---------------------------
(***************************************************************************)
(* Theorems about Memberships, for every set of members, invitations and    *)
(* calls, however many of them: an invitation is used once, and requests    *)
(* that do not overlap leave the organisation an active owner.              *)
(***************************************************************************)
EXTENDS Memberships, TLAPS

\* What the steps of a call presume of what it has in hand.
AcceptFits(a) ==
    /\ step[a] \in {"idle", "expire", "begin", "commit"}
    /\ step[a] # "idle" => read[a] \in Invitations
    /\ step[a] = "expire" => read[a] \in overdue

RequestFits(q) ==
    /\ step[q] \in {"idle", "read", "check", "write"}
    /\ step[q] # "idle" => actor[q] \in Members /\ acting[q] \in Managers
    /\ step[q] \in {"check", "write"} => target[q] \in Members /\ body[q] \in Updates

WorkInv ==
    /\ \A a \in Accepts : AcceptFits(a)
    /\ \A q \in Requests : RequestFits(q)

\* An invitation that is not used up was not used.
Used(i) ==
    /\ accepted[i] <= 1
    /\ accepted[i] = 1 => invitation[i] = "ACCEPTED" \/ i \in overdue
    /\ invitation[i] \in {"NONE", "PENDING"} => accepted[i] = 0

UsedInv == \A i \in Invitations : Used(i)

\* What a call has found out still holds, as long as no other call has written a
\* membership since it began.
Found(q) ==
    /\ step[q] # "idle" => Active(actor[q]) /\ role[actor[q]] = acting[q]
    /\ step[q] \in {"check", "write"} =>
          /\ CanUpdate(q, target[q], body[q])
          /\ ~ DeactivatesItself(q, target[q], body[q])
    /\ /\ step[q] = "write" /\ role[target[q]] = "OWNER"
       /\ body[q].role \notin {"", "OWNER"}
       => ActiveOwners \ {target[q]} # {}

Kept(a) == step[a] = "commit" => kept[a] = Active(Invitee[read[a]])

FoundInv ==
    /\ \A q \in Requests \ outrun : Found(q)
    /\ \A a \in Accepts \ outrun : Kept(a)

\* The inductive invariant.
IndInv == TypeOK /\ WorkInv /\ UsedInv /\ FoundInv /\ OwnerLostOnlyByRace

USE DEF Calls, NoMember, NoInvitation, NoUpdate, Managers, Roles, Moves

-----------------------------------------------------------------------------
\* It holds at the start.
LEMMA TypeInit == Init => TypeOK
<1> SUFFICES ASSUME Init PROVE TypeOK
  OBVIOUS
<1>1. /\ role \in [Members -> Roles]
      /\ status \in [Members -> {"NONE", "ACTIVE", "SUSPENDED"}]
      /\ invitation \in [Invitations -> {"NONE", "PENDING", "ACCEPTED", "EXPIRED"}]
      /\ accepted \in [Invitations -> Nat]
      /\ overdue \subseteq Invitations
  BY DEF Init
<1>2. step \in [Calls -> {"idle", "read", "check", "write", "expire", "begin", "commit"}]
  BY DEF Init
<1>3. /\ actor \in [Requests -> Members \union {NoMember}]
      /\ acting \in [Requests -> Managers \union {""}]
      /\ target \in [Requests -> Members \union {NoMember}]
  BY DEF Init
<1>4. body \in [Requests -> Updates \union {NoUpdate}]
  BY DEF Init
<1>5. /\ read \in [Accepts -> Invitations \union {NoInvitation}]
      /\ kept \in [Accepts -> BOOLEAN]
      /\ outrun \subseteq Calls /\ raced \in BOOLEAN
  BY DEF Init
<1> QED
  BY <1>1, <1>2, <1>3, <1>4, <1>5 DEF TypeOK

\* Every step keeps the types.
LEMMA TypeStep == TypeOK /\ WorkInv /\ [Next]_vars => TypeOK'
<1> SUFFICES ASSUME TypeOK, WorkInv, [Next]_vars PROVE TypeOK'
  OBVIOUS
<1> USE MembershipsAssumption
<1>1. ASSUME NEW i \in Invitations, createInvitation(i) PROVE TypeOK'
  BY <1>1 DEF createInvitation, requests, accepts, races, TypeOK, Active
<1>2. ASSUME NEW i \in Invitations, Expires(i) PROVE TypeOK'
  BY <1>2 DEF Expires, requests, accepts, races, TypeOK, Active
<1>3. ASSUME NEW i \in Invitations, NEW a \in Accepts, acceptInvitation(a, i)
      PROVE TypeOK'
  BY <1>3 DEF acceptInvitation, rows, requests, TypeOK, Active
<1>4. ASSUME NEW a \in Accepts, MarkExpired(a) PROVE TypeOK'
  BY <1>4 DEF MarkExpired, AcceptEnds, requests, races, TypeOK, Active
<1>5. ASSUME NEW a \in Accepts, ReadMembership(a) PROVE TypeOK'
  BY <1>5 DEF ReadMembership, rows, requests, races, TypeOK, Active
<1>6. ASSUME NEW a \in Accepts, Accept(a) PROVE TypeOK'
  <2> USE <1>6 DEF TypeOK
  <2>1. /\ read[a] \in Invitations /\ Invitee[read[a]] \in Members
        /\ InvitedRole[read[a]] \in {"ADMIN", "VIEWER"}
    BY DEF Accept, WorkInv, AcceptFits
  <2>2. role' \in [Members -> Roles]
    BY <2>1, ZenonT(40) DEF Accept
  <2>3. status' \in [Members -> {"NONE", "ACTIVE", "SUSPENDED"}]
    BY <2>1, ZenonT(40) DEF Accept
  <2>4. invitation' \in [Invitations -> {"NONE", "PENDING", "ACCEPTED", "EXPIRED"}]
    BY <2>1 DEF Accept
  <2>5. accepted' \in [Invitations -> Nat]
    <3>1. accepted \in [Invitations -> Nat]
      OBVIOUS
    <3>2. accepted[read[a]] + 1 \in Nat
      BY ONLY <2>1, <3>1
    <3>3. CASE invitation[read[a]] # "PENDING"
      BY <3>3 DEF Accept
    <3>4. CASE invitation[read[a]] = "PENDING"
      <4>1. accepted' = [accepted EXCEPT ![read[a]] = accepted[read[a]] + 1]
        BY <3>4 DEF Accept
      <4> QED
        BY <4>1, <3>1, <3>2
    <3> QED
      BY <3>3, <3>4
  <2>6. /\ step' = [step EXCEPT ![a] = "idle"]
        /\ read' = [read EXCEPT ![a] = NoInvitation]
        /\ kept' = [kept EXCEPT ![a] = FALSE]
        /\ UNCHANGED <<overdue, requests>>
    BY DEF Accept, AcceptEnds
  <2>7. outrun' \subseteq Calls /\ raced' \in BOOLEAN
    BY ZenonT(40) DEF Accept, Wrote, races
  <2> QED
    BY <2>2, <2>3, <2>4, <2>5, <2>6, <2>7 DEF requests
<1>7. ASSUME NEW q \in Requests, NEW u \in Members, Authenticate(q, u)
      PROVE TypeOK'
  BY <1>7 DEF Authenticate, rows, accepts, TypeOK, Active
<1>8. ASSUME NEW q \in Requests, NEW u \in Members, NEW dto \in Updates, ReadTarget(q, u, dto)
      PROVE TypeOK'
  BY <1>8 DEF ReadTarget, rows, accepts, races, TypeOK, Active
<1>9. ASSUME NEW q \in Requests, Refuse(q) PROVE TypeOK'
  BY <1>9 DEF Refuse, RequestEnds, rows, accepts, races, TypeOK, Active
<1>10. ASSUME NEW q \in Requests, assertAnotherActiveOwnerExists(q)
      PROVE TypeOK'
  <2>1. CASE ActiveOwners \ {target[q]} # {}
    BY <1>10, <2>1, ZenonT(40) DEF assertAnotherActiveOwnerExists, rows, requests, accepts,
       races, TypeOK
  <2>2. CASE ~ (ActiveOwners \ {target[q]} # {})
    <3>1. RequestEnds(q) /\ UNCHANGED <<rows, accepts, races, accepted>>
      BY <1>10, <2>2 DEF assertAnotherActiveOwnerExists
    <3> QED
      BY <3>1 DEF RequestEnds, rows, accepts, races, TypeOK
  <2> QED
    BY <2>1, <2>2
<1>11. ASSUME NEW q \in Requests, updateMembership(q) PROVE TypeOK'
  <2> USE <1>11 DEF TypeOK
  <2>1. /\ target[q] \in Members
        /\ body[q].role \in Roles \union {""}
        /\ body[q].status \in {"", "ACTIVE", "SUSPENDED"}
    <3>1. target[q] \in Members /\ body[q] \in Updates
      BY DEF updateMembership, WorkInv, RequestFits
    <3> QED
      BY <3>1
  <2>2. role' \in [Members -> Roles]
    BY <2>1 DEF updateMembership
  <2>3. status' \in [Members -> {"NONE", "ACTIVE", "SUSPENDED"}]
    BY <2>1 DEF updateMembership
  <2>4. outrun' \subseteq Calls /\ raced' \in BOOLEAN
    BY DEF updateMembership, Wrote
  <2>5. RequestEnds(q) /\ UNCHANGED <<invitation, overdue, accepts, accepted>>
    BY DEF updateMembership
  <2> QED
    BY <2>2, <2>3, <2>4, <2>5 DEF RequestEnds, accepts
<1>12. CASE UNCHANGED vars
  BY <1>12 DEF vars, rows, requests, accepts, races, TypeOK, Active
<1> QED
  BY <1>1, <1>2, <1>3, <1>4, <1>5, <1>6,
     <1>7, <1>8, <1>9, <1>10, <1>11, <1>12 DEF Next

\* Every step leaves the calls what they presume.
LEMMA WorkStep == TypeOK /\ WorkInv /\ [Next]_vars => WorkInv'
<1> SUFFICES ASSUME TypeOK, WorkInv, [Next]_vars PROVE WorkInv'
  OBVIOUS
<1>t. /\ Requests \intersect Accepts = {}
      /\ step \in [Calls -> {"idle", "read", "check", "write", "expire", "begin", "commit"}]
      /\ read \in [Accepts -> Invitations \union {NoInvitation}]
      /\ actor \in [Requests -> Members \union {NoMember}]
      /\ acting \in [Requests -> Managers \union {""}]
      /\ target \in [Requests -> Members \union {NoMember}]
      /\ body \in [Requests -> Updates \union {NoUpdate}]
  BY MembershipsAssumption DEF TypeOK
<1>1. ASSUME NEW i \in Invitations, createInvitation(i) PROVE WorkInv'
  <2>1. ASSUME NEW b \in Accepts PROVE AcceptFits(b)'
    <3>1. AcceptFits(b)
      BY DEF WorkInv
    <3> QED
      BY <1>1, <1>t, <3>1 DEF createInvitation, requests, accepts, races, AcceptFits
  <2>2. ASSUME NEW p \in Requests PROVE RequestFits(p)'
    <3>1. RequestFits(p)
      BY DEF WorkInv
    <3> QED
      BY <1>1, <1>t, <3>1 DEF createInvitation, requests, accepts, races, RequestFits
  <2> QED
    BY <2>1, <2>2 DEF WorkInv
<1>2. ASSUME NEW i \in Invitations, Expires(i) PROVE WorkInv'
  <2>1. ASSUME NEW b \in Accepts PROVE AcceptFits(b)'
    <3>1. AcceptFits(b)
      BY DEF WorkInv
    <3> QED
      BY <1>2, <1>t, <3>1 DEF Expires, requests, accepts, races, AcceptFits
  <2>2. ASSUME NEW p \in Requests PROVE RequestFits(p)'
    <3>1. RequestFits(p)
      BY DEF WorkInv
    <3> QED
      BY <1>2, <1>t, <3>1 DEF Expires, requests, accepts, races, RequestFits
  <2> QED
    BY <2>1, <2>2 DEF WorkInv
<1>3. ASSUME NEW i \in Invitations, NEW a \in Accepts, acceptInvitation(a, i)
      PROVE WorkInv'
  <2>1. ASSUME NEW b \in Accepts PROVE AcceptFits(b)'
    <3>1. AcceptFits(b)
      BY DEF WorkInv
    <3> QED
      BY <1>3, <1>t, <3>1 DEF acceptInvitation, rows, requests, AcceptFits
  <2>2. ASSUME NEW p \in Requests PROVE RequestFits(p)'
    <3>1. RequestFits(p)
      BY DEF WorkInv
    <3> QED
      BY <1>3, <1>t, <3>1 DEF acceptInvitation, rows, requests, RequestFits
  <2> QED
    BY <2>1, <2>2 DEF WorkInv
<1>4. ASSUME NEW a \in Accepts, MarkExpired(a) PROVE WorkInv'
  <2>1. ASSUME NEW b \in Accepts PROVE AcceptFits(b)'
    <3>1. AcceptFits(b)
      BY DEF WorkInv
    <3> QED
      BY <1>4, <1>t, <3>1 DEF MarkExpired, AcceptEnds, requests, races, AcceptFits
  <2>2. ASSUME NEW p \in Requests PROVE RequestFits(p)'
    <3>1. RequestFits(p)
      BY DEF WorkInv
    <3> QED
      BY <1>4, <1>t, <3>1 DEF MarkExpired, AcceptEnds, requests, races, RequestFits
  <2> QED
    BY <2>1, <2>2 DEF WorkInv
<1>5. ASSUME NEW a \in Accepts, ReadMembership(a) PROVE WorkInv'
  <2>1. ASSUME NEW b \in Accepts PROVE AcceptFits(b)'
    <3>1. AcceptFits(b)
      BY DEF WorkInv
    <3> QED
      BY <1>5, <1>t, <3>1 DEF ReadMembership, rows, requests, races, AcceptFits
  <2>2. ASSUME NEW p \in Requests PROVE RequestFits(p)'
    <3>1. RequestFits(p)
      BY DEF WorkInv
    <3> QED
      BY <1>5, <1>t, <3>1 DEF ReadMembership, rows, requests, races, RequestFits
  <2> QED
    BY <2>1, <2>2 DEF WorkInv
<1>6. ASSUME NEW a \in Accepts, Accept(a) PROVE WorkInv'
  <2>1. ASSUME NEW b \in Accepts PROVE AcceptFits(b)'
    <3>1. AcceptFits(b)
      BY DEF WorkInv
    <3> QED
      BY <1>6, <1>t, <3>1 DEF Accept, AcceptEnds, Wrote, requests, races, AcceptFits
  <2>2. ASSUME NEW p \in Requests PROVE RequestFits(p)'
    <3>1. RequestFits(p)
      BY DEF WorkInv
    <3> QED
      BY <1>6, <1>t, <3>1 DEF Accept, AcceptEnds, Wrote, requests, races, RequestFits
  <2> QED
    BY <2>1, <2>2 DEF WorkInv
<1>7. ASSUME NEW q \in Requests, NEW u \in Members, Authenticate(q, u)
      PROVE WorkInv'
  <2>1. ASSUME NEW b \in Accepts PROVE AcceptFits(b)'
    <3>1. AcceptFits(b)
      BY DEF WorkInv
    <3> QED
      BY <1>7, <1>t, <3>1 DEF Authenticate, rows, accepts, AcceptFits
  <2>2. ASSUME NEW p \in Requests PROVE RequestFits(p)'
    <3>1. RequestFits(p)
      BY DEF WorkInv
    <3> QED
      BY <1>7, <1>t, <3>1 DEF Authenticate, rows, accepts, RequestFits
  <2> QED
    BY <2>1, <2>2 DEF WorkInv
<1>8. ASSUME NEW q \in Requests, NEW u \in Members, NEW dto \in Updates, ReadTarget(q, u, dto)
      PROVE WorkInv'
  <2>1. ASSUME NEW b \in Accepts PROVE AcceptFits(b)'
    <3>1. AcceptFits(b)
      BY DEF WorkInv
    <3> QED
      BY <1>8, <1>t, <3>1 DEF ReadTarget, rows, accepts, races, AcceptFits
  <2>2. ASSUME NEW p \in Requests PROVE RequestFits(p)'
    <3>1. RequestFits(p)
      BY DEF WorkInv
    <3> QED
      BY <1>8, <1>t, <3>1 DEF ReadTarget, rows, accepts, races, RequestFits
  <2> QED
    BY <2>1, <2>2 DEF WorkInv
<1>9. ASSUME NEW q \in Requests, Refuse(q) PROVE WorkInv'
  <2>1. ASSUME NEW b \in Accepts PROVE AcceptFits(b)'
    <3>1. AcceptFits(b)
      BY DEF WorkInv
    <3> QED
      BY <1>9, <1>t, <3>1 DEF Refuse, RequestEnds, rows, accepts, races, AcceptFits
  <2>2. ASSUME NEW p \in Requests PROVE RequestFits(p)'
    <3>1. RequestFits(p)
      BY DEF WorkInv
    <3> QED
      BY <1>9, <1>t, <3>1 DEF Refuse, RequestEnds, rows, accepts, races, RequestFits
  <2> QED
    BY <2>1, <2>2 DEF WorkInv
<1>10. ASSUME NEW q \in Requests, assertAnotherActiveOwnerExists(q)
      PROVE WorkInv'
  <2>1. ASSUME NEW b \in Accepts PROVE AcceptFits(b)'
    <3>1. AcceptFits(b)
      BY DEF WorkInv
    <3> QED
      BY <1>10, <1>t, <3>1 DEF assertAnotherActiveOwnerExists, RequestEnds, rows,
         requests, accepts, races, AcceptFits
  <2>2. ASSUME NEW p \in Requests PROVE RequestFits(p)'
    <3>1. RequestFits(p)
      BY DEF WorkInv
    <3> QED
      BY <1>10, <1>t, <3>1, ZenonT(40) DEF assertAnotherActiveOwnerExists, RequestEnds, rows,
         requests, accepts, races, RequestFits
  <2> QED
    BY <2>1, <2>2 DEF WorkInv
<1>11. ASSUME NEW q \in Requests, updateMembership(q) PROVE WorkInv'
  <2>1. ASSUME NEW b \in Accepts PROVE AcceptFits(b)'
    <3>1. AcceptFits(b)
      BY DEF WorkInv
    <3> QED
      BY <1>11, <1>t, <3>1 DEF updateMembership, RequestEnds, Wrote, accepts, AcceptFits
  <2>2. ASSUME NEW p \in Requests PROVE RequestFits(p)'
    <3>1. RequestFits(p)
      BY DEF WorkInv
    <3> QED
      BY <1>11, <1>t, <3>1 DEF updateMembership, RequestEnds, Wrote, accepts,
         RequestFits
  <2> QED
    BY <2>1, <2>2 DEF WorkInv
<1>12. CASE UNCHANGED vars
  BY <1>12 DEF vars, rows, requests, accepts, races, WorkInv, AcceptFits, RequestFits
<1> QED
  BY <1>1, <1>2, <1>3, <1>4, <1>5, <1>6,
     <1>7, <1>8, <1>9, <1>10, <1>11, <1>12 DEF Next

\* Every step keeps account of the uses of an invitation.
LEMMA UsedStep == TypeOK /\ WorkInv /\ UsedInv /\ [Next]_vars => UsedInv'
<1> SUFFICES ASSUME TypeOK, WorkInv, UsedInv, [Next]_vars PROVE UsedInv'
  OBVIOUS
<1>t. /\ Requests \intersect Accepts = {}
      /\ step \in [Calls -> {"idle", "read", "check", "write", "expire", "begin", "commit"}]
      /\ read \in [Accepts -> Invitations \union {NoInvitation}]
      /\ invitation \in [Invitations -> {"NONE", "PENDING", "ACCEPTED", "EXPIRED"}]
      /\ accepted \in [Invitations -> Nat]
  BY MembershipsAssumption DEF TypeOK
<1>1. ASSUME NEW i \in Invitations, createInvitation(i) PROVE UsedInv'
  <2>1. ASSUME NEW j \in Invitations PROVE Used(j)'
    <3>1. Used(j)
      BY DEF UsedInv
    <3> QED
      BY <1>1, <1>t, <3>1 DEF createInvitation, requests, accepts, races, Used
  <2> QED
    BY <2>1 DEF UsedInv
<1>2. ASSUME NEW i \in Invitations, Expires(i) PROVE UsedInv'
  <2>1. ASSUME NEW j \in Invitations PROVE Used(j)'
    <3>1. Used(j)
      BY DEF UsedInv
    <3> QED
      BY <1>2, <1>t, <3>1 DEF Expires, requests, accepts, races, Used
  <2> QED
    BY <2>1 DEF UsedInv
<1>3. ASSUME NEW i \in Invitations, NEW a \in Accepts, acceptInvitation(a, i)
      PROVE UsedInv'
  BY <1>3 DEF acceptInvitation, rows, requests, UsedInv, Used
<1>4. ASSUME NEW a \in Accepts, MarkExpired(a) PROVE UsedInv'
  <2>1. AcceptFits(a)
    BY DEF WorkInv
  <2>2. ASSUME NEW j \in Invitations PROVE Used(j)'
    <3>1. Used(j) /\ accepted[j] \in Nat
      BY <1>t DEF UsedInv
    <3> QED
      BY <1>4, <1>t, <2>1, <3>1 DEF MarkExpired, AcceptEnds, requests, races,
         AcceptFits, Used
  <2> QED
    BY <2>2 DEF UsedInv
<1>5. ASSUME NEW a \in Accepts, ReadMembership(a) PROVE UsedInv'
  BY <1>5 DEF ReadMembership, rows, requests, races, UsedInv, Used
<1>6. ASSUME NEW a \in Accepts, Accept(a) PROVE UsedInv'
  <2>1. read[a] \in Invitations /\ UNCHANGED overdue
    BY <1>6 DEF Accept, WorkInv, AcceptFits
  <2>2. ASSUME NEW j \in Invitations PROVE Used(j)'
    <3>1. Used(j) /\ accepted[j] \in Nat
      BY <1>t DEF UsedInv
    <3>2. CASE invitation[read[a]] = "PENDING" /\ j = read[a]
      <4>1. invitation'[j] = "ACCEPTED" /\ accepted'[j] = accepted[j] + 1
        BY <1>6, <1>t, <2>1, <3>2 DEF Accept
      <4>2. accepted[j] = 0
        BY <3>1, <3>2 DEF Used
      <4> QED
        BY <4>1, <4>2 DEF Used
    <3>3. CASE ~ (invitation[read[a]] = "PENDING" /\ j = read[a])
      <4>1. invitation'[j] = invitation[j] /\ accepted'[j] = accepted[j]
        BY <1>6, <1>t, <2>1, <3>3 DEF Accept
      <4> QED
        BY <2>1, <3>1, <4>1 DEF Used
    <3> QED
      BY <3>2, <3>3
  <2> QED
    BY <2>2 DEF UsedInv
<1>7. ASSUME NEW q \in Requests, NEW u \in Members, Authenticate(q, u)
      PROVE UsedInv'
  BY <1>7 DEF Authenticate, rows, accepts, UsedInv, Used
<1>8. ASSUME NEW q \in Requests, NEW u \in Members, NEW dto \in Updates, ReadTarget(q, u, dto)
      PROVE UsedInv'
  BY <1>8 DEF ReadTarget, rows, accepts, races, UsedInv, Used
<1>9. ASSUME NEW q \in Requests, Refuse(q) PROVE UsedInv'
  BY <1>9 DEF Refuse, RequestEnds, rows, accepts, races, UsedInv, Used
<1>10. ASSUME NEW q \in Requests, assertAnotherActiveOwnerExists(q)
      PROVE UsedInv'
  BY <1>10 DEF assertAnotherActiveOwnerExists, RequestEnds, rows, requests, accepts,
     races, UsedInv, Used
<1>11. ASSUME NEW q \in Requests, updateMembership(q) PROVE UsedInv'
  BY <1>11 DEF updateMembership, RequestEnds, Wrote, accepts, UsedInv, Used
<1>12. CASE UNCHANGED vars
  BY <1>12 DEF vars, rows, requests, accepts, races, UsedInv, Used
<1> QED
  BY <1>1, <1>2, <1>3, <1>4, <1>5, <1>6,
     <1>7, <1>8, <1>9, <1>10, <1>11, <1>12 DEF Next

\* Every step leaves what calls have found out true, but for those it outruns.
LEMMA FoundStep == TypeOK /\ WorkInv /\ FoundInv /\ [Next]_vars => FoundInv'
<1> SUFFICES ASSUME TypeOK, WorkInv, FoundInv, [Next]_vars PROVE FoundInv'
  OBVIOUS
<1>t. /\ Requests \intersect Accepts = {}
      /\ step \in [Calls -> {"idle", "read", "check", "write", "expire", "begin", "commit"}]
      /\ actor \in [Requests -> Members \union {NoMember}]
      /\ acting \in [Requests -> Managers \union {""}]
      /\ target \in [Requests -> Members \union {NoMember}]
      /\ body \in [Requests -> Updates \union {NoUpdate}]
      /\ read \in [Accepts -> Invitations \union {NoInvitation}]
      /\ kept \in [Accepts -> BOOLEAN]
      /\ outrun \subseteq Calls
  BY MembershipsAssumption DEF TypeOK
<1>1. ASSUME NEW i \in Invitations, createInvitation(i) PROVE FoundInv'
  <2>1. UNCHANGED <<role, status>> /\ ActiveOwners' = ActiveOwners
    BY <1>1 DEF createInvitation, requests, accepts, races, ActiveOwners, Active
  <2>2. ASSUME NEW p \in Requests \ outrun' PROVE Found(p)'
    <3>1. p \notin outrun => Found(p)
      BY DEF FoundInv
    <3> QED
      BY <1>1, <1>t, <2>1, <2>2, <3>1 DEF createInvitation, requests, accepts,
         races, Found, Active, CanUpdate, DeactivatesItself
  <2>3. ASSUME NEW b \in Accepts \ outrun' PROVE Kept(b)'
    <3>1. b \notin outrun => Kept(b)
      BY DEF FoundInv
    <3> QED
      BY <1>1, <1>t, <2>1, <2>3, <3>1 DEF createInvitation, requests, accepts,
         races, Kept, Active
  <2> QED
    BY <2>2, <2>3 DEF FoundInv
<1>2. ASSUME NEW i \in Invitations, Expires(i) PROVE FoundInv'
  <2>1. UNCHANGED <<role, status>> /\ ActiveOwners' = ActiveOwners
    BY <1>2 DEF Expires, requests, accepts, races, ActiveOwners, Active
  <2>2. ASSUME NEW p \in Requests \ outrun' PROVE Found(p)'
    <3>1. p \notin outrun => Found(p)
      BY DEF FoundInv
    <3> QED
      BY <1>2, <1>t, <2>1, <2>2, <3>1 DEF Expires, requests, accepts, races,
         Found, Active, CanUpdate, DeactivatesItself
  <2>3. ASSUME NEW b \in Accepts \ outrun' PROVE Kept(b)'
    <3>1. b \notin outrun => Kept(b)
      BY DEF FoundInv
    <3> QED
      BY <1>2, <1>t, <2>1, <2>3, <3>1 DEF Expires, requests, accepts, races, Kept,
         Active
  <2> QED
    BY <2>2, <2>3 DEF FoundInv
<1>3. ASSUME NEW i \in Invitations, NEW a \in Accepts, acceptInvitation(a, i)
      PROVE FoundInv'
  <2>1. UNCHANGED <<role, status>> /\ ActiveOwners' = ActiveOwners
    BY <1>3 DEF acceptInvitation, rows, requests, ActiveOwners, Active
  <2>2. ASSUME NEW p \in Requests \ outrun' PROVE Found(p)'
    <3>1. p \notin outrun => Found(p)
      BY DEF FoundInv
    <3> QED
      BY <1>3, <1>t, <2>1, <2>2, <3>1 DEF acceptInvitation, rows, requests, Found,
         Active, CanUpdate, DeactivatesItself
  <2>3. ASSUME NEW b \in Accepts \ outrun' PROVE Kept(b)'
    <3>1. b \notin outrun => Kept(b)
      BY DEF FoundInv
    <3> QED
      BY <1>3, <1>t, <2>1, <2>3, <3>1 DEF acceptInvitation, rows, requests, Kept, Active
  <2> QED
    BY <2>2, <2>3 DEF FoundInv
<1>4. ASSUME NEW a \in Accepts, MarkExpired(a) PROVE FoundInv'
  <2>1. UNCHANGED <<role, status>> /\ ActiveOwners' = ActiveOwners
    BY <1>4 DEF MarkExpired, AcceptEnds, requests, races, ActiveOwners, Active
  <2>2. ASSUME NEW p \in Requests \ outrun' PROVE Found(p)'
    <3>1. p \notin outrun => Found(p)
      BY DEF FoundInv
    <3> QED
      BY <1>4, <1>t, <2>1, <2>2, <3>1 DEF MarkExpired, AcceptEnds, requests,
         races, Found, Active, CanUpdate, DeactivatesItself
  <2>3. ASSUME NEW b \in Accepts \ outrun' PROVE Kept(b)'
    <3>1. b \notin outrun => Kept(b)
      BY DEF FoundInv
    <3> QED
      BY <1>4, <1>t, <2>1, <2>3, <3>1 DEF MarkExpired, AcceptEnds, requests,
         races, Kept, Active
  <2> QED
    BY <2>2, <2>3 DEF FoundInv
<1>5. ASSUME NEW a \in Accepts, ReadMembership(a) PROVE FoundInv'
  <2>1. UNCHANGED <<role, status>> /\ ActiveOwners' = ActiveOwners
    BY <1>5 DEF ReadMembership, rows, requests, races, ActiveOwners, Active
  <2>2. ASSUME NEW p \in Requests \ outrun' PROVE Found(p)'
    <3>1. p \notin outrun => Found(p)
      BY DEF FoundInv
    <3> QED
      BY <1>5, <1>t, <2>1, <2>2, <3>1 DEF ReadMembership, rows, requests, races,
         Found, Active, CanUpdate, DeactivatesItself
  <2>3. ASSUME NEW b \in Accepts \ outrun' PROVE Kept(b)'
    <3>1. b \notin outrun => Kept(b)
      BY DEF FoundInv
    <3> QED
      BY <1>5, <1>t, <2>1, <2>3, <3>1 DEF ReadMembership, rows, requests, races,
         Kept, Active
  <2> QED
    BY <2>2, <2>3 DEF FoundInv
<1>6. ASSUME NEW a \in Accepts, Accept(a) PROVE FoundInv'
  <2>1. CASE UNCHANGED <<role, status, races>>
    <3>1. ActiveOwners' = ActiveOwners /\ outrun' = outrun
      BY <2>1 DEF ActiveOwners, Active, races
    <3>2. UNCHANGED requests /\ AcceptEnds(a)
      BY <1>6 DEF Accept
    <3>3. ASSUME NEW p \in Requests \ outrun' PROVE Found(p)'
      <4>1. Found(p)
        BY <3>1, <3>3 DEF FoundInv
      <4> QED
        BY <1>t, <2>1, <3>1, <3>2, <3>3, <4>1 DEF AcceptEnds, requests, Found,
           Active, CanUpdate, DeactivatesItself
    <3>4. ASSUME NEW b \in Accepts \ outrun' PROVE Kept(b)'
      <4>1. Kept(b)
        BY <3>1, <3>4 DEF FoundInv
      <4> QED
        BY <1>t, <2>1, <3>2, <3>4, <4>1 DEF AcceptEnds, Kept, Active
    <3> QED
      BY <3>3, <3>4 DEF FoundInv
  <2>2. CASE Wrote(a)
    <3>1. /\ step' = [step EXCEPT ![a] = "idle"]
          /\ \A c \in Calls \ outrun' : step'[c] = "idle"
      BY <1>6, <1>t, <2>2 DEF Accept, AcceptEnds, Wrote
    <3> QED
      BY <1>t, <3>1 DEF FoundInv, Found, Kept
  <2> QED
    BY <1>6, <2>1, <2>2 DEF Accept
<1>7. ASSUME NEW q \in Requests, NEW u \in Members, Authenticate(q, u)
      PROVE FoundInv'
  <2>1. UNCHANGED <<role, status>> /\ ActiveOwners' = ActiveOwners
    BY <1>7 DEF Authenticate, rows, accepts, ActiveOwners, Active
  <2>2. ASSUME NEW p \in Requests \ outrun' PROVE Found(p)'
    <3>1. p \notin outrun => Found(p)
      BY DEF FoundInv
    <3> QED
      BY <1>7, <1>t, <2>1, <2>2, <3>1 DEF Authenticate, rows, accepts, Found,
         Active, CanUpdate, DeactivatesItself
  <2>3. ASSUME NEW b \in Accepts \ outrun' PROVE Kept(b)'
    <3>1. b \notin outrun => Kept(b)
      BY DEF FoundInv
    <3> QED
      BY <1>7, <1>t, <2>1, <2>3, <3>1 DEF Authenticate, rows, accepts, Kept, Active
  <2> QED
    BY <2>2, <2>3 DEF FoundInv
<1>8. ASSUME NEW q \in Requests, NEW u \in Members, NEW dto \in Updates, ReadTarget(q, u, dto)
      PROVE FoundInv'
  <2>1. UNCHANGED <<role, status>> /\ ActiveOwners' = ActiveOwners
    BY <1>8 DEF ReadTarget, rows, accepts, races, ActiveOwners, Active
  <2>2. ASSUME NEW p \in Requests \ outrun' PROVE Found(p)'
    <3>1. p \notin outrun => Found(p)
      BY DEF FoundInv
    <3> QED
      BY <1>8, <1>t, <2>1, <2>2, <3>1 DEF ReadTarget, rows, accepts, races, Found,
         Active, CanUpdate, DeactivatesItself
  <2>3. ASSUME NEW b \in Accepts \ outrun' PROVE Kept(b)'
    <3>1. b \notin outrun => Kept(b)
      BY DEF FoundInv
    <3> QED
      BY <1>8, <1>t, <2>1, <2>3, <3>1 DEF ReadTarget, rows, accepts, races, Kept, Active
  <2> QED
    BY <2>2, <2>3 DEF FoundInv
<1>9. ASSUME NEW q \in Requests, Refuse(q) PROVE FoundInv'
  <2>1. UNCHANGED <<role, status>> /\ ActiveOwners' = ActiveOwners
    BY <1>9 DEF Refuse, RequestEnds, rows, accepts, races, ActiveOwners, Active
  <2>2. ASSUME NEW p \in Requests \ outrun' PROVE Found(p)'
    <3>1. p \notin outrun => Found(p)
      BY DEF FoundInv
    <3> QED
      BY <1>9, <1>t, <2>1, <2>2, <3>1 DEF Refuse, RequestEnds, rows, accepts,
         races, Found, Active, CanUpdate, DeactivatesItself
  <2>3. ASSUME NEW b \in Accepts \ outrun' PROVE Kept(b)'
    <3>1. b \notin outrun => Kept(b)
      BY DEF FoundInv
    <3> QED
      BY <1>9, <1>t, <2>1, <2>3, <3>1 DEF Refuse, RequestEnds, rows, accepts,
         races, Kept, Active
  <2> QED
    BY <2>2, <2>3 DEF FoundInv
<1>10. ASSUME NEW q \in Requests, assertAnotherActiveOwnerExists(q)
      PROVE FoundInv'
  <2>1. /\ UNCHANGED <<role, status, accepts, races>>
        /\ ActiveOwners' = ActiveOwners
    BY <1>10 DEF assertAnotherActiveOwnerExists, rows, ActiveOwners, Active
  <2>2. ASSUME NEW p \in Requests \ outrun' PROVE Found(p)'
    <3>1. Found(p)
      BY <2>1, <2>2 DEF FoundInv, races
    <3>2. CASE ActiveOwners \ {target[q]} # {}
      <4>1. /\ step[q] = "check" /\ step' = [step EXCEPT ![q] = "write"]
            /\ UNCHANGED requests
        BY <1>10, <3>2 DEF assertAnotherActiveOwnerExists
      <4>2. CASE p = q
        BY <1>t, <2>1, <3>1, <3>2, <4>1, <4>2 DEF requests, Found, Active,
           CanUpdate, DeactivatesItself
      <4>3. CASE p # q
        BY <1>t, <2>1, <3>1, <4>1, <4>3 DEF requests, Found, Active, CanUpdate,
           DeactivatesItself
      <4> QED
        BY <4>2, <4>3
    <3>3. CASE ~ (ActiveOwners \ {target[q]} # {})
      <4>1. RequestEnds(q)
        BY <1>10, <3>3 DEF assertAnotherActiveOwnerExists
      <4> QED
        BY <1>t, <2>1, <3>1, <4>1 DEF RequestEnds, Found, Active, CanUpdate,
           DeactivatesItself
    <3> QED
      BY <3>2, <3>3
  <2>3. ASSUME NEW b \in Accepts \ outrun' PROVE Kept(b)'
    <3>1. Kept(b)
      BY <2>1, <2>3 DEF FoundInv, races
    <3>2. step'[b] = step[b]
      BY <1>10, <1>t DEF assertAnotherActiveOwnerExists, RequestEnds
    <3> QED
      BY <2>1, <3>1, <3>2 DEF accepts, Kept, Active
  <2> QED
    BY <2>2, <2>3 DEF FoundInv
<1>11. ASSUME NEW q \in Requests, updateMembership(q) PROVE FoundInv'
  <2>1. /\ step' = [step EXCEPT ![q] = "idle"]
        /\ \A c \in Calls \ outrun' : step'[c] = "idle"
    BY <1>11, <1>t DEF updateMembership, RequestEnds, Wrote
  <2> QED
    BY <1>t, <2>1 DEF FoundInv, Found, Kept
<1>12. CASE UNCHANGED vars
  BY <1>12 DEF vars, rows, requests, accepts, races, FoundInv, ActiveOwners, Kept,
     Found, Active, CanUpdate, DeactivatesItself
<1> QED
  BY <1>1, <1>2, <1>3, <1>4, <1>5, <1>6,
     <1>7, <1>8, <1>9, <1>10, <1>11, <1>12 DEF Next

\* Every step leaves an active owner, or there has been a race.
LEMMA OwnerStep == TypeOK /\ WorkInv /\ FoundInv /\ OwnerLostOnlyByRace /\ [Next]_vars => OwnerLostOnlyByRace'
<1> SUFFICES ASSUME TypeOK, WorkInv, FoundInv, OwnerLostOnlyByRace, [Next]_vars PROVE OwnerLostOnlyByRace'
  OBVIOUS
<1>t. /\ role \in [Members -> Roles]
      /\ status \in [Members -> {"NONE", "ACTIVE", "SUSPENDED"}]
      /\ kept \in [Accepts -> BOOLEAN] /\ raced \in BOOLEAN
  BY DEF TypeOK
<1>1. ASSUME NEW i \in Invitations, createInvitation(i) PROVE OwnerLostOnlyByRace'
  <2>1. ActiveOwners' = ActiveOwners /\ raced' = raced
    BY <1>1 DEF createInvitation, requests, accepts, races, ActiveOwners, Active
  <2> QED
    BY <2>1 DEF OwnerLostOnlyByRace
<1>2. ASSUME NEW i \in Invitations, Expires(i) PROVE OwnerLostOnlyByRace'
  <2>1. ActiveOwners' = ActiveOwners /\ raced' = raced
    BY <1>2 DEF Expires, requests, accepts, races, ActiveOwners, Active
  <2> QED
    BY <2>1 DEF OwnerLostOnlyByRace
<1>3. ASSUME NEW i \in Invitations, NEW a \in Accepts, acceptInvitation(a, i)
      PROVE OwnerLostOnlyByRace'
  <2>1. ActiveOwners' = ActiveOwners /\ raced' = raced
    BY <1>3 DEF acceptInvitation, rows, requests, ActiveOwners, Active
  <2> QED
    BY <2>1 DEF OwnerLostOnlyByRace
<1>4. ASSUME NEW a \in Accepts, MarkExpired(a) PROVE OwnerLostOnlyByRace'
  <2>1. ActiveOwners' = ActiveOwners /\ raced' = raced
    BY <1>4 DEF MarkExpired, AcceptEnds, requests, races, ActiveOwners, Active
  <2> QED
    BY <2>1 DEF OwnerLostOnlyByRace
<1>5. ASSUME NEW a \in Accepts, ReadMembership(a) PROVE OwnerLostOnlyByRace'
  <2>1. ActiveOwners' = ActiveOwners /\ raced' = raced
    BY <1>5 DEF ReadMembership, rows, requests, races, ActiveOwners, Active
  <2> QED
    BY <2>1 DEF OwnerLostOnlyByRace
<1>6. ASSUME NEW a \in Accepts, Accept(a) PROVE OwnerLostOnlyByRace'
  <2>1. CASE UNCHANGED <<role, status, races>>
    <3>1. ActiveOwners' = ActiveOwners /\ raced' = raced
      BY <2>1 DEF ActiveOwners, Active, races
    <3> QED
      BY <3>1 DEF OwnerLostOnlyByRace
  <2>2. CASE ~ UNCHANGED <<role, status, races>>
    <3> DEFINE u == Invitee[read[a]]
    <3>1. /\ u \in Members /\ ~ kept[a] /\ step[a] = "commit" /\ Wrote(a)
          /\ role' = [role EXCEPT ![u] = InvitedRole[read[a]]]
          /\ status' = [status EXCEPT ![u] = "ACTIVE"]
          /\ InvitedRole[read[a]] # "OWNER"
      BY <1>6, <2>2, MembershipsAssumption DEF Accept, WorkInv, AcceptFits
    <3>2. CASE a \in outrun
      BY <3>1, <3>2 DEF Wrote, OwnerLostOnlyByRace
    <3>3. CASE a \notin outrun
      <4>1. ~ Active(u)
        BY <1>t, <3>1, <3>3 DEF FoundInv, Kept
      <4>2. ActiveOwners' = ActiveOwners
        BY <1>t, <3>1, <4>1 DEF ActiveOwners, Active
      <4> QED
        BY <3>1, <4>2 DEF Wrote, OwnerLostOnlyByRace
    <3> QED
      BY <3>2, <3>3
  <2> QED
    BY <2>1, <2>2
<1>7. ASSUME NEW q \in Requests, NEW u \in Members, Authenticate(q, u)
      PROVE OwnerLostOnlyByRace'
  <2>1. ActiveOwners' = ActiveOwners /\ raced' = raced
    BY <1>7 DEF Authenticate, rows, accepts, ActiveOwners, Active
  <2> QED
    BY <2>1 DEF OwnerLostOnlyByRace
<1>8. ASSUME NEW q \in Requests, NEW u \in Members, NEW dto \in Updates, ReadTarget(q, u, dto)
      PROVE OwnerLostOnlyByRace'
  <2>1. ActiveOwners' = ActiveOwners /\ raced' = raced
    BY <1>8 DEF ReadTarget, rows, accepts, races, ActiveOwners, Active
  <2> QED
    BY <2>1 DEF OwnerLostOnlyByRace
<1>9. ASSUME NEW q \in Requests, Refuse(q) PROVE OwnerLostOnlyByRace'
  <2>1. ActiveOwners' = ActiveOwners /\ raced' = raced
    BY <1>9 DEF Refuse, RequestEnds, rows, accepts, races, ActiveOwners, Active
  <2> QED
    BY <2>1 DEF OwnerLostOnlyByRace
<1>10. ASSUME NEW q \in Requests, assertAnotherActiveOwnerExists(q)
      PROVE OwnerLostOnlyByRace'
  <2>1. ActiveOwners' = ActiveOwners /\ raced' = raced
    BY <1>10 DEF assertAnotherActiveOwnerExists, RequestEnds, rows, requests,
       accepts, races, ActiveOwners, Active
  <2> QED
    BY <2>1 DEF OwnerLostOnlyByRace
<1>11. ASSUME NEW q \in Requests, updateMembership(q) PROVE OwnerLostOnlyByRace'
  <2>1. Wrote(q)
    BY <1>11 DEF updateMembership
  <2>2. CASE q \in outrun \/ ActiveOwners = {}
    BY <1>t, <2>1, <2>2 DEF Wrote, OwnerLostOnlyByRace
  <2>3. CASE q \notin outrun /\ ActiveOwners # {}
    <3> DEFINE u == target[q]
               dto == body[q]
    <3>1. /\ step[q] = "write" /\ u \in Members /\ actor[q] \in Members
          /\ role' = [role EXCEPT ![u] = IF dto.role = "" THEN @ ELSE dto.role]
          /\ status' = [status EXCEPT ![u] = IF dto.status = "" THEN @ ELSE dto.status]
      BY <1>11 DEF updateMembership, WorkInv, RequestFits
    <3>2. Found(q)
      BY <2>3 DEF FoundInv
    <3>3. \A v \in ActiveOwners : v # u => v \in ActiveOwners'
      BY <1>t, <3>1 DEF ActiveOwners, Active
    <3>4. CASE ActiveOwners \ {u} # {}
      BY <3>3, <3>4 DEF OwnerLostOnlyByRace
    <3>5. CASE ActiveOwners = {u}
      <4>1. role[u] = "OWNER" /\ Active(u)
        BY <3>5 DEF ActiveOwners
      <4>2. actor[q] = u
        BY <3>1, <3>2, <3>5, <4>1 DEF Found, CanUpdate, ActiveOwners
      <4>3. dto.status \in {"", "ACTIVE"} /\ dto.role \in {"", "OWNER"}
        BY <3>1, <3>2, <3>5, <4>1, <4>2 DEF Found, DeactivatesItself
      <4>4. role'[u] = "OWNER" /\ status'[u] = "ACTIVE"
        BY <1>t, <3>1, <4>1, <4>3 DEF Active
      <4>5. u \in ActiveOwners'
        BY <3>1, <4>4 DEF ActiveOwners, Active
      <4> QED
        BY <4>5 DEF OwnerLostOnlyByRace
    <3> QED
      BY <2>3, <3>4, <3>5
  <2> QED
    BY <2>2, <2>3
<1>12. CASE UNCHANGED vars
  BY <1>12 DEF vars, rows, requests, accepts, races, OwnerLostOnlyByRace,
     ActiveOwners, Active
<1> QED
  BY <1>1, <1>2, <1>3, <1>4, <1>5, <1>6,
     <1>7, <1>8, <1>9, <1>10, <1>11, <1>12 DEF Next

\* The invariant holds at the start, with the founder as the owner.
LEMMA InitInv == Init => IndInv
<1> SUFFICES ASSUME Init PROVE IndInv
  OBVIOUS
<1>1. TypeOK
  BY TypeInit
<1>2. WorkInv /\ FoundInv
  BY DEF Init, WorkInv, AcceptFits, RequestFits, FoundInv, Found, Kept
<1>3. UsedInv
  <2>1. \A i \in Invitations : accepted[i] = 0
    BY DEF Init
  <2> QED
    BY <2>1 DEF UsedInv, Used
<1>4. Founder \in ActiveOwners
  BY MembershipsAssumption DEF Init, ActiveOwners, Active
<1> QED
  BY <1>1, <1>2, <1>3, <1>4 DEF IndInv, OwnerLostOnlyByRace

\* The invariant is inductive.
THEOREM Invariance == Spec => []IndInv
<1>1. IndInv /\ [Next]_vars => IndInv'
  BY TypeStep, WorkStep, UsedStep, FoundStep, OwnerStep DEF IndInv
<1> QED
  BY InitInv, <1>1, PTL DEF Spec

\* The variables keep their types.
THEOREM TypeCorrect == Spec => []TypeOK
<1>1. IndInv => TypeOK
  BY DEF IndInv
<1> QED
  BY Invariance, <1>1, PTL

\* An invitation lets its user in once, whatever calls accept it at one time, and
\* is shown as something else than ACCEPTED only when it is overdue
\* (MembershipsService.acceptInvitation).
THEOREM InvitationUsedOnce == Spec => []UsedOnce
<1>1. IndInv => UsedOnce
  BY DEF IndInv, UsedInv, Used, UsedOnce
<1> QED
  BY Invariance, <1>1, PTL

\* Without two calls that overlap, the organisation keeps an active owner
\* (MembershipsService.updateMembership).
THEOREM OwnerKept == Spec => []OwnerLostOnlyByRace
<1>1. IndInv => OwnerLostOnlyByRace
  BY DEF IndInv
<1> QED
  BY Invariance, <1>1, PTL
=============================================================================
