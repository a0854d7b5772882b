------------------------------ MODULE Memberships ------------------------------
(***************************************************************************)
(* MembershipsService of one organisation: invitations, their acceptance    *)
(* and the changes of roles and states owners and admins make.              *)
(*                                                                         *)
(* A request acts on what it read: its actor's role when it was             *)
(* authenticated (resolveRequestUser), the member it changes, the number of *)
(* other owners.  Only its last step is a transaction, and that one writes  *)
(* by id, whatever has become of the row.                                   *)
(***************************************************************************)
EXTENDS Integers, FiniteSets

CONSTANTS
    Members,      \* users
    Founder,      \* the user who creates the organisation
    Requests,     \* calls of updateMembership under way
    Accepts,      \* calls of acceptInvitation under way
    Invitations,
    Invitee,      \* the user each invitation is for
    InvitedRole,  \* and its role, never OWNER (inviteRoles)
    Updates       \* the bodies of updateMembership: [role, status], "" for none

\* What the request bodies can hold, and the roles an invitation can be for.
ASSUME MembershipsAssumption ==
    /\ Founder \in Members /\ "nobody" \notin Members
    /\ Requests \intersect Accepts = {}
    /\ Invitee \in [Invitations -> Members]
    /\ InvitedRole \in [Invitations -> {"ADMIN", "VIEWER"}]
    /\ Updates \subseteq [role : {"", "OWNER", "ADMIN", "VIEWER"},
                          status : {"", "ACTIVE", "SUSPENDED"}]

VARIABLES
    role, status,   \* of each membership; status "NONE" where there is none
    invitation,     \* status of each, "NONE" before it is made
    overdue,        \* invitations whose expiresAt is past
    step,           \* where each call is
    actor, acting,  \* the request's user, and the role it was authenticated with
    target, body,   \* the member it changes, and how
    read,           \* the invitation an acceptance has read
    kept,           \* does it leave the membership as it is?
    outrun,         \* history: calls during which another one wrote a membership
    raced,          \* history: has such a call written afterwards?
    accepted        \* history: how often each invitation was accepted

rows == <<role, status, invitation, overdue>>
requests == <<actor, acting, target, body>>
accepts == <<read, kept>>
races == <<outrun, raced>>
vars == <<rows, step, requests, accepts, races, accepted>>

Calls == Requests \union Accepts
NoMember == "nobody"
NoInvitation == "no invitation"
NoUpdate == [role |-> "", status |-> ""]
Managers == {"OWNER", "ADMIN"}   \* the roles with memberships:manage
Roles == Managers \union {"VIEWER"}   \* VIEWER for the five that manage nothing

Active(u) == status[u] = "ACTIVE"
ActiveOwners == {u \in Members : Active(u) /\ role[u] = "OWNER"}

TypeOK ==
    /\ role \in [Members -> Roles]
    /\ status \in [Members -> {"NONE", "ACTIVE", "SUSPENDED"}]
    /\ invitation \in [Invitations -> {"NONE", "PENDING", "ACCEPTED", "EXPIRED"}]
    /\ overdue \subseteq Invitations
    /\ step \in [Calls -> {"idle", "read", "check", "write", "expire", "begin",
                           "commit"}]
    /\ actor \in [Requests -> Members \union {NoMember}]
    /\ acting \in [Requests -> Managers \union {""}]
    /\ target \in [Requests -> Members \union {NoMember}]
    /\ body \in [Requests -> Updates \union {NoUpdate}]
    /\ read \in [Accepts -> Invitations \union {NoInvitation}]
    /\ kept \in [Accepts -> BOOLEAN]
    /\ outrun \subseteq Calls /\ raced \in BOOLEAN
    /\ accepted \in [Invitations -> Nat]

\* OrganizationsService.create: the organisation and its first owner in one
\* transaction.
Init ==
    /\ role = [u \in Members |-> IF u = Founder THEN "OWNER" ELSE "VIEWER"]
    /\ status = [u \in Members |-> IF u = Founder THEN "ACTIVE" ELSE "NONE"]
    /\ invitation = [i \in Invitations |-> "NONE"]
    /\ overdue = {}
    /\ step = [c \in Calls |-> "idle"]
    /\ actor = [q \in Requests |-> NoMember]
    /\ acting = [q \in Requests |-> ""]
    /\ target = [q \in Requests |-> NoMember]
    /\ body = [q \in Requests |-> NoUpdate]
    /\ read = [a \in Accepts |-> NoInvitation]
    /\ kept = [a \in Accepts |-> FALSE]
    /\ outrun = {} /\ raced = FALSE
    /\ accepted = [i \in Invitations |-> 0]

Moves(c, place) == step' = [step EXCEPT ![c] = place]

\* Call c has written a membership.
Wrote(c) ==
    /\ raced' = (raced \/ c \in outrun)
    /\ outrun' = {d \in Calls : step[d] # "idle"} \ {c}

-----------------------------------------------------------------------------
(***************************************************************************)
(* Invitations.                                                            *)
(***************************************************************************)

\* createInvitation, refused for active members.
createInvitation(i) ==
    /\ invitation[i] = "NONE"
    /\ \E u \in Members : Active(u) /\ role[u] \in Managers
    /\ ~ Active(Invitee[i])
    /\ invitation' = [invitation EXCEPT ![i] = "PENDING"]
    /\ UNCHANGED <<role, status, overdue, step, requests, accepts, races, accepted>>

\* invitationTtlMilliseconds are over, which only matters while it is PENDING.
Expires(i) ==
    /\ invitation[i] = "PENDING"
    /\ overdue' = overdue \union {i}
    /\ UNCHANGED <<role, status, invitation, step, requests, accepts, races, accepted>>

\* acceptInvitation reads the invitation and the clock; its user is the invitee,
\* or it is refused.
acceptInvitation(a, i) ==
    /\ step[a] = "idle" /\ invitation[i] = "PENDING"
    /\ read' = [read EXCEPT ![a] = i]
    /\ Moves(a, IF i \in overdue THEN "expire" ELSE "begin")
    /\ outrun' = outrun \ {a}
    /\ UNCHANGED <<rows, requests, kept, raced, accepted>>

AcceptEnds(a) ==
    /\ Moves(a, "idle")
    /\ read' = [read EXCEPT ![a] = NoInvitation]
    /\ kept' = [kept EXCEPT ![a] = FALSE]

\* An invitation found too old is EXPIRED, whatever it has become.
MarkExpired(a) ==
    /\ step[a] = "expire"
    /\ invitation' = [invitation EXCEPT ![read[a]] = "EXPIRED"]
    /\ AcceptEnds(a)
    /\ UNCHANGED <<role, status, overdue, requests, races, accepted>>

\* The transaction reads the invitee's membership.  An active one is kept.
ReadMembership(a) ==
    /\ step[a] = "begin"
    /\ kept' = [kept EXCEPT ![a] = Active(Invitee[read[a]])]
    /\ Moves(a, "commit")
    /\ UNCHANGED <<rows, requests, read, races, accepted>>

\* Mutant: nobody asks whether the invitation was still PENDING.
AcceptUnasked(a) ==
    /\ step[a] = "commit"
    /\ LET i == read[a]
           u == Invitee[i]
       IN  /\ invitation' = [invitation EXCEPT ![i] = "ACCEPTED"]
           /\ accepted' = [accepted EXCEPT ![i] = @ + 1]
           /\ IF kept[a] THEN UNCHANGED <<role, status, races>>
                ELSE /\ role' = [role EXCEPT ![u] = InvitedRole[i]]
                     /\ status' = [status EXCEPT ![u] = "ACTIVE"]
                     /\ Wrote(a)
    /\ AcceptEnds(a)
    /\ UNCHANGED <<overdue, requests>>

\* It writes the membership, marks the invitation where it is PENDING and rolls
\* back where it is not.  Another acceptance waits for its row locks.
Accept(a) ==
    /\ step[a] = "commit"
    /\ LET i == read[a]
           u == Invitee[i]
       IN  IF invitation[i] # "PENDING"
             THEN UNCHANGED <<role, status, invitation, races, accepted>>
             ELSE /\ invitation' = [invitation EXCEPT ![i] = "ACCEPTED"]
                  /\ accepted' = [accepted EXCEPT ![i] = @ + 1]
                  /\ IF kept[a] THEN UNCHANGED <<role, status, races>>
                       ELSE /\ role' = [role EXCEPT ![u] = InvitedRole[i]]
                            /\ status' = [status EXCEPT ![u] = "ACTIVE"]
                            /\ Wrote(a)
    /\ AcceptEnds(a)
    /\ UNCHANGED <<overdue, requests>>

-----------------------------------------------------------------------------
(***************************************************************************)
(* updateMembership.                                                       *)
(***************************************************************************)

\* The guards let a manager in, with the memberships it has now.
Authenticate(q, u) ==
    /\ step[q] = "idle"
    /\ Active(u) /\ role[u] \in Managers
    /\ actor' = [actor EXCEPT ![q] = u]
    /\ acting' = [acting EXCEPT ![q] = role[u]]
    /\ outrun' = outrun \ {q}
    /\ Moves(q, "read")
    /\ UNCHANGED <<rows, target, body, accepts, raced, accepted>>

\* assertCanUpdateMembership.
CanUpdate(q, u, dto) ==
    acting[q] = "OWNER" \/ (role[u] # "OWNER" /\ dto.role # "OWNER")

DeactivatesItself(q, u, dto) ==
    u = actor[q] /\ dto.status \notin {"", "ACTIVE"}

\* The member is read; what the actor may not do is refused.
ReadTarget(q, u, dto) ==
    /\ step[q] = "read" /\ status[u] # "NONE"
    /\ CanUpdate(q, u, dto) /\ ~ DeactivatesItself(q, u, dto)
    /\ target' = [target EXCEPT ![q] = u]
    /\ body' = [body EXCEPT ![q] = dto]
    /\ Moves(q, IF role[u] = "OWNER" /\ dto.role \notin {"", "OWNER"}
                  THEN "check" ELSE "write")
    /\ UNCHANGED <<rows, actor, acting, accepts, races, accepted>>

RequestEnds(q) ==
    /\ Moves(q, "idle")
    /\ actor' = [actor EXCEPT ![q] = NoMember]
    /\ acting' = [acting EXCEPT ![q] = ""]
    /\ target' = [target EXCEPT ![q] = NoMember]
    /\ body' = [body EXCEPT ![q] = NoUpdate]

\* Refused: the member is not there, or the actor may not.  Every manager has
\* something it may not do: suspend itself.
Refuse(q) ==
    /\ step[q] = "read"
    /\ RequestEnds(q)
    /\ UNCHANGED <<rows, accepts, races, accepted>>

\* Mutant: suspended owners count.
CountAnyOwner(q) ==
    /\ step[q] = "check"
    /\ IF \E u \in Members \ {target[q]} : role[u] = "OWNER" /\ status[u] # "NONE"
         THEN Moves(q, "write") /\ UNCHANGED requests
         ELSE RequestEnds(q)
    /\ UNCHANGED <<rows, accepts, races, accepted>>

\* assertAnotherActiveOwnerExists, asked only where an owner's role changes.
assertAnotherActiveOwnerExists(q) ==
    /\ step[q] = "check"
    /\ IF ActiveOwners \ {target[q]} # {}
         THEN Moves(q, "write") /\ UNCHANGED requests
         ELSE RequestEnds(q)
    /\ UNCHANGED <<rows, accepts, races, accepted>>

\* The update by id, with its audit row.
updateMembership(q) ==
    /\ step[q] = "write"
    /\ LET u == target[q]
           dto == body[q]
       IN  /\ role' = [role EXCEPT ![u] = IF dto.role = "" THEN @ ELSE dto.role]
           /\ status' = [status EXCEPT ![u] = IF dto.status = "" THEN @
                                                                ELSE dto.status]
    /\ Wrote(q)
    /\ RequestEnds(q)
    /\ UNCHANGED <<invitation, overdue, accepts, accepted>>

-----------------------------------------------------------------------------

Next ==
    \/ \E i \in Invitations :
          \/ createInvitation(i) \/ Expires(i)
          \/ \E a \in Accepts : acceptInvitation(a, i)
    \/ \E a \in Accepts : MarkExpired(a) \/ ReadMembership(a) \/ Accept(a)
    \/ \E q \in Requests :
          \/ \E u \in Members :
                \/ Authenticate(q, u)
                \/ \E dto \in Updates : ReadTarget(q, u, dto)
          \/ Refuse(q) \/ assertAnotherActiveOwnerExists(q) \/ updateMembership(q)

Spec == Init /\ [][Next]_vars

-----------------------------------------------------------------------------
(***************************************************************************)
(* Properties                                                              *)
(***************************************************************************)

\* "Organization must keep at least one active owner": requests one after
\* another keep it.  Two at once may not, since the count of the owners, the
\* actor's role and the member are read before the transaction.
OwnerLostOnlyByRace == ActiveOwners = {} => raced

\* An invitation lets its user in once, however many calls present its code, and
\* one that was accepted is shown as something else only if it is overdue by now.
UsedOnce ==
    \A i \in Invitations :
        /\ accepted[i] <= 1
        /\ accepted[i] = 1 => invitation[i] = "ACCEPTED" \/ i \in overdue
=============================================================================
