------------------------------- MODULE Oracle -------------------------------
(***************************************************************************)
(* What the public interface of the hash promises (include/pvc/hash.hpp):  *)
(* an object is the bytes it has been fed, and a call that asks for a      *)
(* digest is answered with that of the bytes there were when it was made.  *)
(* Asking leaves no mark on any object.                                    *)
(***************************************************************************)
EXTENDS Integers, Sequences

CONSTANTS
  Objects,          (* the hashers, RotHash1 or RotHash2                  *)
  AlgorithmOf,      (* ... which of the two an object is                  *)
  Threads,          (* the threads that call them                         *)
  Chunks,           (* the byte sequences the calls are given             *)
  MaxSize,          (* the largest std::size_t                            *)
  DigestOf(_, _)    (* the digest of a message under an algorithm         *)

Algorithms == {"RotHash1", "RotHash2"}

VARIABLES
  fed,              (* the bytes each object has taken                    *)
  asked,            (* the question each thread waits on, or Nothing      *)
  outcome           (* what its last call came to                         *)

oracleVars == <<fed, asked, outcome>>

Nothing == [bytes |-> <<>>, algorithm |-> "none", keep_trace |-> FALSE]

Question(message, algorithm, keep_trace) ==
  [bytes |-> message, algorithm |-> algorithm, keep_trace |-> keep_trace]

(* What is known of a call that has not answered with a digest.            *)
Status(word) == [status |-> word]

(* HashResult: the moves are reported when they were asked for.            *)
AnswerTo(question) ==
  [digest |-> DigestOf(question.algorithm, question.bytes),
   input_size |-> Len(question.bytes), traced |-> question.keep_trace]

(* An update is taken whole or refused.                                    *)
Feed(t, o, chunk) ==
  /\ asked[t] = Nothing
  /\ IF Len(fed[o]) + Len(chunk) <= MaxSize
     THEN fed' = [fed EXCEPT ![o] = @ \o chunk] /\ outcome' = [outcome EXCEPT ![t] = Status("taken")]
     ELSE outcome' = [outcome EXCEPT ![t] = Status("length_error")] /\ UNCHANGED fed
  /\ UNCHANGED asked

Ask(t, question) ==
  /\ asked[t] = Nothing
  /\ asked' = [asked EXCEPT ![t] = question]
  /\ outcome' = [outcome EXCEPT ![t] = Status("pending")]
  /\ UNCHANGED fed

AskObject(t, o) ==
  \E keep \in BOOLEAN : Ask(t, Question(fed[o], AlgorithmOf[o], keep))

AskBytes(t, chunk) ==
  \E keep \in BOOLEAN, algorithm \in Algorithms : Ask(t, Question(chunk, algorithm, keep))

Tell(t) ==
  /\ asked[t] # Nothing
  /\ outcome' = [outcome EXCEPT ![t] = AnswerTo(asked[t])]
  /\ asked' = [asked EXCEPT ![t] = Nothing]
  /\ UNCHANGED fed

OracleInit ==
  /\ fed = [o \in Objects |-> <<>>]
  /\ asked = [t \in Threads |-> Nothing]
  /\ outcome = [t \in Threads |-> Status("none")]

OracleNext ==
  \E t \in Threads :
    \/ \E o \in Objects : AskObject(t, o) \/ \E chunk \in Chunks : Feed(t, o, chunk)
    \/ \E chunk \in Chunks : AskBytes(t, chunk)
    \/ Tell(t)

OracleSpec == OracleInit /\ [][OracleNext]_oracleVars

=============================================================================
