------------------------------ MODULE SavePromise ------------------------------
(***************************************************************************)
(* What WorldSave promises to the players of the server: a world save that *)
(* is pending, because it was put off or because the players were told of  *)
(* it, is not forgotten.  Only when the wall clock slips back may a        *)
(* promise end without a save.                                             *)
(***************************************************************************)
VARIABLES
    promised,   \* a save is pending
    saved,      \* the last step made a save
    slipped     \* the wall clock has been set back

vars == <<promised, saved, slipped>>

Init == promised = FALSE /\ saved = FALSE /\ slipped = FALSE

Promise == promised' = TRUE /\ saved' = FALSE /\ slipped' = slipped

Save == (promised' => promised) /\ saved' = TRUE /\ slipped' = slipped

\* Something else happens; what was done a moment ago is done.
Rest == promised' = promised /\ saved' = FALSE /\ slipped' = slipped

Slip == promised' = promised /\ saved' = FALSE /\ slipped' = TRUE

Forget == slipped /\ promised' = FALSE /\ saved' = FALSE /\ slipped' = slipped

Next == Promise \/ Save \/ Rest \/ Slip \/ Forget

Spec == Init /\ [][Next]_vars

Progress == promised ~> (saved \/ slipped)

FairSpec == Spec /\ Progress
===============================================================================
