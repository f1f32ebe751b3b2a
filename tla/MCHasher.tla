------------------------------ MODULE MCHasher ------------------------------
(* One object of each algorithm, two threads, sizes that do not fit, and   *)
(* digests that tell everything apart.                                     *)
EXTENDS Hasher, TLC

CONSTANTS h1, h2, t1, t2

MCObjects == {h1, h2}
MCAlgorithmOf == (h1 :> "RotHash1") @@ (h2 :> "RotHash2")
MCThreads == {t1, t2}
MCChunks == {<<>>, <<0>>, <<1, 0>>}

MCCompute(algorithm, forward, back, size) == <<algorithm, forward, back, size>>

=============================================================================
