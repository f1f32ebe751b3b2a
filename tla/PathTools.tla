----------------------------- MODULE PathTools ------------------------------
(***************************************************************************)
(* A run of a tool that searches a bridged path and goes on with it: one   *)
(* of the two beams of module BridgedBeam, or the family of module         *)
(* Multicollision.                                                         *)
(***************************************************************************)
EXTENDS BridgedBeam, Multicollision

vars == <<pathVars, level, beamVars, familyVars>>

Init == PathInit /\ BeamInit /\ FamilyInit

Ended == pc \in {"none", "done"} /\ UNCHANGED vars

Next ==
  \/ PathNext /\ UNCHANGED <<beamVars, familyVars>>
  \/ BeamNext /\ UNCHANGED familyVars
  \/ FamilyNext /\ UNCHANGED beamVars
  \/ Ended

Spec == Init /\ [][Next]_vars

(* A tool is one thread that never waits.                                  *)
FairSpec == Spec /\ WF_vars(Next)

-----------------------------------------------------------------------------
(* The tool comes to its end: the search backs out of every call that      *)
(* fails, and every level that is begun is done.                           *)
Ends == <>(pc \in {"none", "done"})

=============================================================================
