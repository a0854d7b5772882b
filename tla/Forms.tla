--------------------------------- MODULE Forms ---------------------------------
(***************************************************************************)
(* The forms of the web application whose submission is saved and the page  *)
(* then loaded again, in one try block: the manual event of a trip's page   *)
(* (TripDetailClient), and vehicles, drivers and invitations on the         *)
(* administration page (AdminClient), where isSaving is one flag for all.   *)
(*                                                                         *)
(* A behaviour is one thing a user wants to record, who submits it until    *)
(* told that it was saved, and who may delete something else meanwhile.     *)
(***************************************************************************)
EXTENDS Integers

CONSTANTS
    Submissions,  \* calls under way
    MaxRows       \* bound: how often it is recorded

VARIABLES
    form,       \* which form
    isFormOpen, isSaving,
    shown,      \* how many of it the page shows
    call,
    rows,       \* how many there are in the database
    misled,     \* history: a submission that was recorded was said to have failed
    freed       \* history: a deletion's end cleared isSaving under a submission

vars == <<form, isFormOpen, isSaving, shown, call, rows, misled, freed>>

AdminForms == {"vehicle", "driver", "invitation"}
Idle == [step |-> "idle", previous |-> 0]

TypeOK ==
    /\ form \in AdminForms \union {"event"}
    /\ isFormOpen \in BOOLEAN /\ isSaving \in BOOLEAN
    /\ shown \in 0..MaxRows + 1 /\ rows \in 0..MaxRows
    /\ call \in [Submissions -> [step : {"idle", "saving", "saved", "deleting"},
                                 previous : 0..MaxRows]]
    /\ misled \in BOOLEAN /\ freed \in BOOLEAN

Init ==
    /\ form \in AdminForms \union {"event"}
    /\ isFormOpen = TRUE /\ isSaving = FALSE
    /\ shown = 0 /\ rows = 0
    /\ call = [c \in Submissions |-> Idle]
    /\ misled = FALSE /\ freed = FALSE

At(c, step) == call[c].step = step
Goes(c, step) == call' = [call EXCEPT ![c].step = step]
Ends(c) == call' = [call EXCEPT ![c] = Idle]
Submitting(c) == At(c, "saving") \/ At(c, "saved")

\* Mutant: the button is not disabled.
SubmitAgain(c) ==
    /\ At(c, "idle") /\ isFormOpen
    /\ isSaving' = TRUE
    /\ call' = [call EXCEPT ![c] = [step |-> "saving", previous |-> shown]]
    /\ shown' = IF form = "event" THEN shown + 1 ELSE shown
    /\ UNCHANGED <<form, isFormOpen, rows, misled, freed>>

\* submitManualEvent, which shows the event before it is recorded, submitVehicle,
\* submitDriver, submitInvitation.
Submit(c) ==
    /\ At(c, "idle") /\ isFormOpen /\ ~ isSaving
    /\ isSaving' = TRUE
    /\ call' = [call EXCEPT ![c] = [step |-> "saving", previous |-> shown]]
    /\ shown' = IF form = "event" THEN shown + 1 ELSE shown
    /\ UNCHANGED <<form, isFormOpen, rows, misled, freed>>

\* createTripEvent under a key no other submission has, createDriver and
\* createMembershipInvitation record it once more; a plate is taken only once.
Record(c) ==
    /\ At(c, "saving") /\ rows < MaxRows
    /\ form = "vehicle" => rows = 0
    /\ rows' = rows + 1
    /\ Goes(c, "saved")
    /\ UNCHANGED <<form, isFormOpen, isSaving, shown, misled, freed>>

\* The catch and finally blocks: a message, and the form stays open.
SaysFailed(c) ==
    /\ isSaving' = FALSE
    /\ shown' = IF form = "event" THEN call[c].previous ELSE shown
    /\ Ends(c)
    /\ UNCHANGED <<form, isFormOpen, rows, freed>>

\* The API refuses it, or is not reached.
Refused(c) ==
    /\ At(c, "saving")
    /\ SaysFailed(c)
    /\ UNCHANGED misled

\* It is recorded, but the answer is lost or, the answer there, the page cannot be
\* loaded (nothing is loaded after an invitation).
SavedInVain(c) ==
    /\ At(c, "saved")
    /\ misled' = TRUE
    /\ SaysFailed(c)

\* The answer is there and the page loaded: the form is emptied and closed.
Succeeds(c) ==
    /\ At(c, "saved")
    /\ isFormOpen' = FALSE /\ isSaving' = FALSE
    /\ shown' = IF form = "invitation" THEN shown ELSE rows
    /\ Ends(c)
    /\ UNCHANGED <<form, rows, misled, freed>>

\* removeVehicle or removeDriver of another row, whose buttons are never disabled:
\* runDelete.
Remove(c) ==
    /\ At(c, "idle") /\ form # "event"
    /\ isSaving' = TRUE
    /\ Goes(c, "deleting")
    /\ UNCHANGED <<form, isFormOpen, shown, rows, misled, freed>>

\* The rest of runDelete: the page is loaded again unless the deletion fails.
Removed(c) ==
    /\ At(c, "deleting")
    /\ isSaving' = FALSE
    /\ shown' \in {shown, IF form = "invitation" THEN shown ELSE rows}
    /\ freed' = (freed \/ \E s \in Submissions : Submitting(s))
    /\ Ends(c)
    /\ UNCHANGED <<form, isFormOpen, rows, misled>>

Next == \E c \in Submissions :
    \/ Submit(c) \/ Record(c) \/ Refused(c) \/ SavedInVain(c) \/ Succeeds(c)
    \/ Remove(c) \/ Removed(c)

Spec == Init /\ [][Next]_vars

-----------------------------------------------------------------------------
(* Properties *)

\* What a user submits until it is said to be saved is recorded once, unless a
\* submission that was recorded was reported as failed, or the end of a deletion
\* let the user submit it a second time before the first was answered; a plate is
\* never recorded twice.
RecordedOnceUnlessMisled == rows > 1 => form # "vehicle" /\ (misled \/ freed)

\* A user who is told that it was saved can rely on it, and nothing stays on the
\* page that was not recorded.
NothingIsPretended ==
    /\ ~ isFormOpen => rows > 0
    /\ ~ isSaving => shown <= rows
=============================================================================
