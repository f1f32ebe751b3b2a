---------------------------- MODULE Finalization ----------------------------
(***************************************************************************)
(* What compute() does behind the foldback, seen beside the computation of *)
(* another message of the same length: module Engine once more, its        *)
(* message replaced byte by byte and everything else shared.               *)
(***************************************************************************)
EXTENDS Engine

CONSTANT Altered(_, _)   (* the byte of the other message at a position    *)

Sibling == [n \in DOMAIN bytes |-> Altered(n, bytes[n])]

Beside == INSTANCE Engine WITH bytes <- Sibling

LatePhases == {"frame", "diagonal", "orbit", "squeeze", "feed", "done"}

FinalizationStep == pc \in LatePhases => Beside!Next

(* research.hpp:99 says that equal snapshots behind the foldback, for      *)
(* messages of equal length, mean identical finalization: every step from  *)
(* there on is also a step of the computation of the other message.  So    *)
(* the message enters the closures and the squeeze by its length alone,    *)
(* and whoever finds two equal states there has found a collision.         *)
FinalizationBlind == [][FinalizationStep]_vars

=============================================================================
