-------------------------- MODULE MCThreeByteScan --------------------------
(***************************************************************************)
(* Three symbols, one to three threads, one or three first symbols; hashes *)
(* with every kind of pair the scan tells apart, and a fingerprint that    *)
(* two states share.                                                       *)
(***************************************************************************)
EXTENDS ThreeByteScan

(* Fingerprints of two digits; the states 1 and 4 share one.               *)
MCFingerprint == (0 :> 2) @@ (1 :> 1) @@ (2 :> 3) @@ (3 :> 0) @@ (4 :> 1)

(* Two prefixes lead to one state; symbols 0 and 2 to another from there,  *)
(* by one path, and 1 and 2 from the state 1 by different ones.            *)
Merging ==
  [behind |-> [p \in Symbols \X Symbols |-> IF p[1] = 1 THEN p[2] % 2 ELSE (p[1] + p[2]) % 3],
   absorb |-> [state \in 0..2 |-> [s \in Symbols |->
                 IF state = 0 THEN (IF s = 1 THEN 4 ELSE 1)
                 ELSE IF state = 1 THEN (IF s = 0 THEN 0 ELSE 2) ELSE s]],
   path   |-> [state \in 0..2 |-> [s \in Symbols |->
                 IF state = 0 /\ s = 2 THEN 0 ELSE s]],
   folded |-> [m \in Symbols \X Symbols \X Symbols |->
                 IF m[3] = 0 THEN 3 ELSE IF m[1] = m[2] THEN m[1] ELSE 4]]

(* All states behind the prefixes differ in what they lead to.             *)
Scattering ==
  [behind |-> [p \in Symbols \X Symbols |-> 3 * p[1] + p[2]],
   absorb |-> [n \in 0..8 |-> [s \in Symbols |-> ((n \div 3) + 2 * n + s) % 5]],
   path   |-> [n \in 0..8 |-> [s \in Symbols |-> s]],
   folded |-> [m \in Symbols \X Symbols \X Symbols |-> (m[1] + m[2] + m[3]) % 5]]

MCHashes == {Merging, Scattering}

MCOptions ==
  [first_byte_count : {1, 3}, threads : {0, 1, 5}, phase : {"forward", "foldback"}]

=============================================================================
