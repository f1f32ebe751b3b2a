----------------------------- MODULE PrefixPair -----------------------------
(***************************************************************************)
(* The tools that are given two prefixes with one forward state and look   *)
(* for suffixes behind which the foldback merges them:                     *)
(* tools/constrained_merge_search.cpp tries every suffix of the one with   *)
(* every suffix of the other, tools/foldback_merge_search.cpp a common     *)
(* suffix.                                                                 *)
(***************************************************************************)
EXTENDS FoldbackPairs

PrefixTools == {"constrained", "merge"}

(* left_prefix, right_prefix; suffixes: those of the domain, in order.     *)
(* digest: messages of one length that agree behind the foldback agree     *)
(* from there on.                                                          *)
ASSUME PrefixJobsAssumption ==
  \A jb \in JobsOf(PrefixTools) :
    /\ Len(jb.left_prefix) = Len(jb.right_prefix)
    /\ \A m, n \in DOMAIN jb.suffixes : Len(jb.suffixes[m]) = Len(jb.suffixes[n])
    /\ DOMAIN jb.digest = DOMAIN jb.absorb /\ DOMAIN jb.fingerprint = DOMAIN jb.absorb

(* A symbol takes a state to a state; bytes are symbols, and so is what    *)
(* the foldback derives from them.                                         *)
ASSUME PrefixHashesAssumption ==
  \A jb \in JobsOf(PrefixTools) :
    LET states  == DOMAIN jb.absorb
        symbols == DOMAIN jb.absorb[jb.start]
    IN  /\ jb.start \in states /\ jb.absorb \in [states -> [symbols -> states]]
        /\ jb.left_prefix \in Seq(symbols) /\ jb.right_prefix \in Seq(symbols)
        /\ jb.suffixes \in Seq(Seq(symbols))
        /\ \A suffix \in ToSet(jb.suffixes) :
             \A b \in symbols, k \in 0..(Len(jb.left_prefix) + Len(suffix) - 1) :
               ReturnSymbol(b, k) \in symbols
        /\ \A v, w \in states : CubeDistance(v, w) \in Seq(Nat)

Domain == 0..(Len(job.suffixes) - 1)
LeftFoldback(n) == FoldbackState(job.left_prefix \o job.suffixes[n + 1])
RightFoldback(n) == FoldbackState(job.right_prefix \o job.suffixes[n + 1])

SharedForward == Forward(job.left_prefix) = Forward(job.right_prefix)

RefuseDivergent ==
  /\ pc = "scan" /\ job.tool \in PrefixTools /\ at = 0
  /\ ~SharedForward
  /\ Leave("error")

-----------------------------------------------------------------------------
(* constrained_merge_search: left_table[fingerprint].suffixes, filled      *)
(* before the search.                                                      *)
LeftTable ==
  [fp \in ToSet(job.fingerprint) |->
     {n \in Domain : job.fingerprint[LeftFoldback(n)] = fp}]

(* Seeded fault: what shares the fingerprint is taken for equal.           *)
MergesByFingerprint(right) == LeftTable[job.fingerprint[RightFoldback(right)]]

MergesWith(right) ==
  {left \in LeftTable[job.fingerprint[RightFoldback(right)]] :
     LeftFoldback(left) = RightFoldback(right)}

ConstrainedSuffix ==
  /\ Tool("constrained") /\ SharedForward /\ at \in Domain
  /\ \E merged \in {MergesWith(at)} :
       counters' =
         [fingerprint_matches |-> counters.fingerprint_matches
            + Cardinality(LeftTable[job.fingerprint[RightFoldback(at)]]),
          exact_merges        |-> counters.exact_merges + Cardinality(merged),
          equal_suffix_merges |-> counters.equal_suffix_merges + Count(at \in merged)]
  /\ at' = at + 1
  /\ UNCHANGED <<job, pc, seen, outcomes>>

EndConstrained ==
  /\ Tool("constrained") /\ SharedForward /\ at \notin Domain
  /\ Leave("done")

-----------------------------------------------------------------------------
(* foldback_merge_search: outcomes is the nearest pair so far; found, the  *)
(* suffix behind which the states are equal.                               *)
MergeSuffix ==
  /\ Tool("merge") /\ SharedForward /\ at \in Domain
  /\ \E left \in {LeftFoldback(at)} : \E right \in {RightFoldback(at)} :
       /\ outcomes' = Keep(outcomes, CubeDistance(left, right), at, at)
       /\ IF left = right
          THEN /\ pc' = "done" /\ UNCHANGED at
               /\ counters' = [found |-> 1, digest_equal |-> Count(job.digest[left] = job.digest[right])]
          ELSE at' = at + 1 /\ UNCHANGED <<pc, counters>>
  /\ UNCHANGED <<job, seen>>

EndMerge ==
  /\ Tool("merge") /\ SharedForward /\ at \notin Domain
  /\ Leave("done")

-----------------------------------------------------------------------------
PrefixInit ==
  /\ job \in JobsOf(PrefixTools)
  /\ Start(<<>>, IF job.tool = "merge" THEN [found |-> 0, digest_equal |-> 0]
                 ELSE [fingerprint_matches |-> 0, exact_merges |-> 0, equal_suffix_merges |-> 0])

PrefixNext ==
  \/ RefuseDivergent
  \/ ConstrainedSuffix \/ EndConstrained
  \/ MergeSuffix \/ EndMerge

PrefixSpec == PrefixInit /\ [][PrefixNext]_vars

PrefixExitCode ==
  IF pc = "error" THEN 2
  ELSE IF job.tool = "merge" THEN counters.digest_equal ELSE Count(counters.exact_merges # 0)

-----------------------------------------------------------------------------
(* The cross search finds every merge of its domain and nothing else,      *)
(* whatever the fingerprints; the search with a common suffix stops at the *)
(* first of those that the other counts as of equal suffixes, and its exit *)
(* code, which is about the digests, tells of the merge.                   *)
MergesExact ==
  job.tool \in PrefixTools /\ SharedForward =>
    LET tried == {n \in Domain : n < at}
        equal == {n \in tried : LeftFoldback(n) = RightFoldback(n)}
    IN  /\ job.tool = "constrained" =>
             /\ counters.exact_merges
                  = Cardinality({p \in Domain \X tried : LeftFoldback(p[1]) = RightFoldback(p[2])})
             /\ counters.equal_suffix_merges = Cardinality(equal)
             /\ counters.exact_merges <= counters.fingerprint_matches
        /\ job.tool = "merge" =>
             /\ equal = {}
             /\ pc = "done" => /\ PrefixExitCode = 1 <=> at \in Domain
                               /\ PrefixExitCode = 1 <=>
                                    \E n \in Domain : LeftFoldback(n) = RightFoldback(n)
             /\ \A n \in tried : ~Before(CubeDistance(LeftFoldback(n), RightFoldback(n)), outcomes[1].distance)

=============================================================================
