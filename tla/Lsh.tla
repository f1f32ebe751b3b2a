-------------------------------- MODULE Lsh ---------------------------------
(***************************************************************************)
(* tools/digest_lsh_search.cpp and tools/foldback_lsh_search.cpp: the      *)
(* suffixes behind a left and a right prefix, compared only where a        *)
(* projection - a few bytes of the digest, a hash of a few cells of the    *)
(* state - puts them into one bucket.  Each pass projects differently; the *)
(* closest pair met is kept.                                               *)
(*                                                                         *)
(* A record of the left side is hashed into its bucket before a pass; one  *)
(* record of the right side, compared with its bucket, is one step.        *)
(***************************************************************************)
EXTENDS Tools

(* left, right: for each suffix, its forward state and its value, which is *)
(* the digest or the state behind the foldback; forward_equal: whether the *)
(* prefixes share their forward state; project: for each pass, side, and   *)
(* suffix the key; distance: of two values, bits and bytes.                *)
LshTools == {"digest_lsh", "foldback_lsh"}

MostBits == 512 * 8 + 4 * 8 + 64   (* cube, cursor and axis, symbol index  *)

ASSUME LshJobsAssumption ==
  \A jb \in JobsOf(LshTools) :
    /\ jb.limit \in Nat \ {0} /\ jb.forward_equal \in BOOLEAN
    /\ DOMAIN jb.left = 0..(jb.limit - 1) /\ DOMAIN jb.right = 0..(jb.limit - 1)
    /\ Len(jb.project) \in Nat \ {0} /\ jb.wide \in BOOLEAN
    /\ \A n \in 0..(jb.limit - 1) :
         jb.left[n].value \in DOMAIN jb.distance /\ jb.right[n].value \in DOMAIN jb.distance
    /\ \A v, w \in DOMAIN jb.distance :
         /\ jb.distance[v][w] \in (0..MostBits) \X Nat
         /\ jb.distance[v][w][1] = 0 <=> v = w

(* What the pass makes of the values: it reads fixed positions of them.    *)
(* The digest search takes any preset, and where the digest has fewer than *)
(* the 32 bytes the positions range over, the read is undefined and may    *)
(* yield any key: job.wide says that there are enough bytes, stray is what *)
(* is read when there are not.                                             *)
ProjectionKey(side, n) ==
  LET project == job.project[counters.pass]
  IN  IF job.wide THEN project[(IF side = "left" THEN job.left ELSE job.right)[n].value]
                  ELSE job.stray[side][n]

(* buckets[key]: the suffixes of the left side, in ascending order.        *)
BucketOf(key) == {n \in 0..(job.limit - 1) : ProjectionKey("left", n) = key}

Nearer(a, b) == a[1] < b[1] \/ (a[1] = b[1] /\ a[2] < b[2])

(* Only the digest search compares the bits alone.                         *)
Distance(l, r) ==
  LET both == job.distance[job.left[l].value][job.right[r].value]
  IN  IF job.tool = "digest_lsh" THEN <<both[1], 0>> ELSE both

(* The digest search passes over pairs of one forward state.               *)
ForwardEqual(l, r) == job.tool = "digest_lsh" /\ job.left[l].forward = job.right[r].forward

Unset == <<MostBits + 1, MostBits + 1>>   (* std::numeric_limits<std::size_t>::max() *)

BestDistance == IF outcomes = <<>> THEN Unset ELSE outcomes[1].distance

-----------------------------------------------------------------------------
(* The prefixes must differ in their forward states for the one tool, and  *)
(* agree for the other.                                                    *)
RefusePrefixes ==
  /\ pc = "scan" /\ job.tool \in LshTools /\ at = 0 /\ counters.pass = 1
  /\ job.forward_equal = (job.tool = "digest_lsh")
  /\ Leave("error")

(* Seeded fault: the best pair starts over with each record.               *)
CloserThanNothing(bucket, r) == {l \in bucket : ~ForwardEqual(l, r)}

(* The pairs of a bucket that are closer than the best so far.             *)
Closer(bucket, r) == {l \in bucket : ~ForwardEqual(l, r) /\ Nearer(Distance(l, r), BestDistance)}

(* A record of the right side with its bucket: of the closest the first.   *)
CompareWith(bucket, closer) ==
  /\ counters' = [counters EXCEPT
       !.candidate_pairs = @ + Cardinality(bucket),
       !.forward_equal_skipped = @ + Cardinality({l \in bucket : ForwardEqual(l, at)})]
  /\ outcomes' =
       IF closer = {} THEN outcomes
       ELSE LET nearest == {l \in closer : \A k \in closer : ~Nearer(Distance(k, at), Distance(l, at))}
                l == Min(nearest)
            IN  << [distance |-> Distance(l, at), left |-> l, right |-> at,
                    exact |-> IF job.tool = "digest_lsh" THEN Distance(l, at)[1] = 0
                              ELSE job.left[l].value = job.right[at].value] >>
  /\ seen' = [seen EXCEPT !.compared = @ \cup {<<counters.pass, l, at>> : l \in bucket}]

CompareRight ==
  /\ pc = "scan" /\ job.tool \in LshTools /\ at < job.limit
  /\ job.forward_equal = (job.tool = "foldback_lsh")
  /\ \E bucket \in {BucketOf(ProjectionKey("right", at))} : CompareWith(bucket, Closer(bucket, at))
  /\ at' = at + 1
  /\ UNCHANGED <<job, pc>>

ExactPair == outcomes # <<>> /\ outcomes[1].exact

(* A pass is over; an exact pair ends the search, and so does the last.    *)
NextPass ==
  /\ pc = "scan" /\ job.tool \in LshTools /\ at = job.limit
  /\ ~ExactPair /\ counters.pass < Len(job.project)
  /\ counters' = [counters EXCEPT !.pass = @ + 1]
  /\ at' = 0
  /\ UNCHANGED <<job, pc, seen, outcomes>>

(* The digest search throws when it has no pair; the other reports the     *)
(* suffixes 0 and 0 with the largest distance there is.                    *)
EndLsh ==
  /\ pc = "scan" /\ job.tool \in LshTools /\ at = job.limit
  /\ ExactPair \/ counters.pass = Len(job.project)
  /\ Leave(IF job.tool = "digest_lsh" /\ outcomes = <<>> THEN "error" ELSE "done")

LshExitCode == IF pc = "error" THEN 2 ELSE IF ExactPair THEN 1 ELSE 0

LshInit ==
  /\ job \in JobsOf(LshTools)
  /\ Start([compared |-> {}],
           [pass |-> 1, candidate_pairs |-> 0, forward_equal_skipped |-> 0])

LshNext == RefusePrefixes \/ CompareRight \/ NextPass \/ EndLsh

LshSpec == LshInit /\ [][LshNext]_vars

-----------------------------------------------------------------------------
(* The pair kept is one that was compared and not passed over, none that   *)
(* was compared is closer, and the counters are those of the pairs.        *)
NearestKept ==
  LET scored == {<<c[2], c[3]>> : c \in {d \in seen.compared : ~ForwardEqual(d[2], d[3])}}
  IN  /\ counters.candidate_pairs = Cardinality(seen.compared)
      /\ counters.forward_equal_skipped = Cardinality({c \in seen.compared : ForwardEqual(c[2], c[3])})
      /\ outcomes = <<>> <=> scored = {}
      /\ outcomes # <<>> =>
           /\ <<outcomes[1].left, outcomes[1].right>> \in scored
           /\ \A pair \in scored : ~Nearer(Distance(pair[1], pair[2]), outcomes[1].distance)

(* Equal values share every projection: if there are any among the pairs   *)
(* that count, the first pass is the last and the exit code 1.             *)
EqualValues ==
  {p \in (0..(job.limit - 1)) \X (0..(job.limit - 1)) :
     job.left[p[1]].value = job.right[p[2]].value /\ ~ForwardEqual(p[1], p[2])}

NoneEqualMissed ==
  ( /\ job.wide /\ EqualValues # {} /\ pc # "scan"
    /\ job.forward_equal = (job.tool = "foldback_lsh") ) =>
  LshExitCode = 1 /\ counters.pass = 1

(* The exit code tells what was found: whatever pairs the buckets left     *)
(* uncompared, the pair reported is the closest one compared, and a        *)
(* collision among the suffixes is never missed.                           *)
LshExact == job.tool \in LshTools => NearestKept /\ NoneEqualMissed

=============================================================================
