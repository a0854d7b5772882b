--------------------------------- MODULE Pages ---------------------------------
(***************************************************************************)
(* TripEvents and two pages of the browser, the declarations and the forms, *)
(* side by side: they share no variable.  A behaviour is of one of them, as  *)
(* focus says from the start.                                                *)
(***************************************************************************)
EXTENDS TripEvents

CONSTANTS Queries, Clicks, MaxPage, MaxSaved

VARIABLES page, clicked, form, isFormOpen, isSaving, shown, call, rows, misled, freed, focus

\* A declaration is named like the trip it becomes.
Declared == INSTANCE DeclarationsPage WITH Declarations <- Trips
Saving == INSTANCE Forms WITH Submissions <- Clicks, MaxRows <- MaxSaved

\* What the proofs suppose of the constants of the pages.
ASSUME PagesAssumption == MaxPage \in Nat \ {0} /\ MaxSaved \in Nat

pageVars == <<page, clicked>>
formVars == <<form, isFormOpen, isSaving, shown, call, rows, misled, freed>>
allVars == <<vars, pageVars, formVars, focus>>

PagesInit ==
    /\ Init /\ Declared!Init /\ Saving!Init
    /\ focus \in {"trips", "declarations", "forms"}

PagesNext ==
    \/ focus = "trips" /\ Next /\ UNCHANGED <<pageVars, formVars, focus>>
    \/ focus = "declarations" /\ Declared!Next /\ UNCHANGED <<vars, formVars, focus>>
    \/ focus = "forms" /\ Saving!Next /\ UNCHANGED <<vars, pageVars, focus>>

PagesSpec == PagesInit /\ [][PagesNext]_allVars

-----------------------------------------------------------------------------

\* The variables of the trips and of both pages have their types.
TypesOK == TypeOK /\ Declared!TypeOK /\ Saving!TypeOK

\* The declaration a button synchronises is the one that is highlighted, and the
\* list is the one that was asked for, but for answers that came late and failed
\* loads (cua-khau-so-client.tsx:159, :201).
ShowsWhatWasAskedFor == Declared!SyncsTheSelected /\ Declared!ListIsAsFiltered

\* A thing a user submits until it is said to be saved is recorded, and once,
\* unless a submission that was recorded was reported as failed or a deletion's
\* end let the user submit it twice (trip-detail-client.tsx:176, admin-client.tsx:350).
RecordedOnceUnlessMisled == Saving!NothingIsPretended /\ Saving!RecordedOnceUnlessMisled
=============================================================================
