---------------------------- MODULE Enumeration ----------------------------
(***************************************************************************)
(* What the enumeration of aliases promises its caller, as an abstract     *)
(* specification: the catalogue is delivered at once, sorted, no pair is   *)
(* missing and none is repeated, whatever the number of threads.           *)
(***************************************************************************)
EXTENDS Aliases

VARIABLES
  hash, request,  (* the arguments: constant during an enumeration        *)
  delivered,      (* the call has returned                                *)
  catalogue       (* what it returned                                     *)

Requested ==
  /\ hash \in Hashes /\ request \in Requests
  /\ ~delivered /\ catalogue = <<>>

Deliver ==
  /\ ~delivered
  /\ delivered'
  /\ IsCatalogue(catalogue', hash, request)
  /\ UNCHANGED <<hash, request>>

EnumerationSpec == Requested /\ [][Deliver]_<<hash, request, delivered, catalogue>>

=============================================================================
