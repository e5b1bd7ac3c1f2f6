----------------------------- MODULE MCPromises -----------------------------
(* Instances of Promises for TLC: MCPromisesRace.cfg and MCPromisesLate.cfg. *)
EXTENDS Promises, TLC

RequestSymmetry == Permutations(Requests)

VARIABLE alone  \* history: no two requests have been in flight at once

OneAtATime == \A r, q \in Requests : pc[r] # "idle" /\ pc[q] # "idle" => r = q

MCInit == Init /\ alone = TRUE

MCSpec ==
  /\ MCInit
  /\ [][/\ Next
        /\ alone' = (alone /\ OneAtATime')]_<<vars, alone>>

\* An archived habit holds no Active promise, and the visibility rows follow the
\* habits, as long as no two requests overlap; MCPromisesLate shows what an
\* overlap does.
InStepWhenAlone == alone => ArchivedHoldsNoPromise /\ SettingsInSync
=============================================================================
