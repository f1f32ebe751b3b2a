------------------------------- MODULE Hasher -------------------------------
(***************************************************************************)
(* RotHash1 and RotHash2 of src/src/hash.cpp.  An object keeps its message *)
(* and nothing else; finalize() runs compute() over the message in place,  *)
(* first to last and last to first, and hash() and inspect() do so with an *)
(* object of their own.                                                    *)
(*                                                                         *)
(* Threads share objects the way the C++ library allows it: any number of  *)
(* calls of the const finalize() at a time, but an update() only while no  *)
(* other call uses the object.  That is the callers' obligation (guard     *)
(* Unshared); the code has no lock.                                        *)
(***************************************************************************)
EXTENDS Integers, Sequences, SequencesExt

CONSTANTS
  Objects,          (* the hashers that are kept                          *)
  AlgorithmOf,      (* ... RotHash1 or RotHash2                           *)
  Threads,          (* the threads that call them                         *)
  Chunks,           (* the byte sequences the calls are given             *)
  MaxSize,          (* the largest std::size_t                            *)
  Compute(_, _, _, _)  (* the digest, from the algorithm, the bytes read  *)
                       (* forward, those read back, and the size          *)

ASSUME SizeAssumption ==
  /\ MaxSize \in Nat
  /\ \A chunk \in Chunks : chunk \in Seq(0..255) /\ Len(chunk) <= MaxSize
ASSUME ObjectsAssumption ==
  AlgorithmOf \in [Objects -> {"RotHash1", "RotHash2"}] /\ Objects \cap Threads = {}

VARIABLES
  message,          (* message_ of each object; a thread is the object    *)
                    (* that its call of hash() or inspect() makes         *)
  call,             (* the call each thread is in                         *)
  outcome           (* what its last call came to                         *)

hasherVars == <<message, call, outcome>>

Algorithms == {"RotHash1", "RotHash2"}

Status(word) == [status |-> word]

Idle == [pc |-> "idle"]

Unshared(o) == ~\E t \in Threads : call[t] # Idle /\ call[t].object = o

(* finalize() is called.  asked keeps the message it is called with.       *)
Finalizing(o, bytes, algorithm, keep_trace) ==
  [pc |-> "forward", object |-> o, algorithm |-> algorithm, keep_trace |-> keep_trace,
   forward |-> <<>>, back |-> <<>>, asked |-> bytes]

-----------------------------------------------------------------------------
Update(t, o, chunk) ==
  /\ call[t] = Idle /\ Unshared(o)
  /\ IF Len(chunk) > MaxSize - Len(message[o])
     THEN outcome' = [outcome EXCEPT ![t] = Status("length_error")] /\ UNCHANGED message
     ELSE /\ message' = [message EXCEPT ![o] = @ \o chunk]
          /\ outcome' = [outcome EXCEPT ![t] = Status("taken")]
  /\ UNCHANGED call

Finalize(t, o, keep_trace) ==
  /\ call[t] = Idle
  /\ call' = [call EXCEPT ![t] = Finalizing(o, message[o], AlgorithmOf[o], keep_trace)]
  /\ outcome' = [outcome EXCEPT ![t] = Status("pending")]
  /\ UNCHANGED message

(* hash() is inspect() without a trace: an object is made, fed once, which *)
(* always fits, and finalized.                                             *)
Inspect(t, chunk, algorithm, keep_trace) ==
  /\ call[t] = Idle
  /\ message' = [message EXCEPT ![t] = chunk]
  /\ call' = [call EXCEPT ![t] = Finalizing(t, chunk, algorithm, keep_trace)]
  /\ outcome' = [outcome EXCEPT ![t] = Status("pending")]

-----------------------------------------------------------------------------
(* compute() reads the message of the object, byte by byte.                *)

ReadForward(t) ==
  /\ call[t].pc = "forward"
  /\ LET bytes == message[call[t].object]
         read  == Len(call[t].forward)
     IN  IF read < Len(bytes)
         THEN call' = [call EXCEPT ![t].forward = Append(@, bytes[read + 1])]
         ELSE call' = [call EXCEPT ![t].pc = "foldback"]
  /\ UNCHANGED <<message, outcome>>

ReadBack(t) ==
  /\ call[t].pc = "foldback"
  /\ LET bytes == message[call[t].object]
         left  == Len(bytes) - Len(call[t].back)
     IN  IF left > 0
         THEN call' = [call EXCEPT ![t].back = Append(@, bytes[left])]
         ELSE call' = [call EXCEPT ![t].pc = "close"]
  /\ UNCHANGED <<message, outcome>>

(* Seeded fault: finalize() leaves the object empty for the next message.  *)
ReturnCleared(t) ==
  /\ call[t].pc = "close"
  /\ LET c == call[t]
     IN  /\ outcome' = [outcome EXCEPT ![t] =
              [digest |-> Compute(c.algorithm, c.forward, c.back, Len(message[c.object])),
               input_size |-> Len(message[c.object]), traced |-> c.keep_trace]]
         /\ message' = [message EXCEPT ![c.object] = <<>>]
  /\ call' = [call EXCEPT ![t] = Idle]

(* The closures and the squeeze read the size only.  The result is copied, *)
(* with the trace if it was asked for, and an object of the call's own is  *)
(* destroyed.  A digest of another size than 32 bytes, on which finalize() *)
(* would throw, is not among those of the two algorithms.                  *)
Return(t) ==
  /\ call[t].pc = "close"
  /\ LET c == call[t]
     IN  outcome' = [outcome EXCEPT ![t] =
           [digest |-> Compute(c.algorithm, c.forward, c.back, Len(message[c.object])),
            input_size |-> Len(message[c.object]), traced |-> c.keep_trace]]
  /\ message' = [message EXCEPT ![t] = <<>>]
  /\ call' = [call EXCEPT ![t] = Idle]

HasherInit ==
  /\ message = [o \in Objects \cup Threads |-> <<>>]
  /\ call = [t \in Threads |-> Idle]
  /\ outcome = [t \in Threads |-> Status("none")]

Running(t) == ReadForward(t) \/ ReadBack(t) \/ Return(t)

HasherNext ==
  \E t \in Threads :
    \/ \E o \in Objects, chunk \in Chunks : Update(t, o, chunk)
    \/ \E o \in Objects, keep_trace \in BOOLEAN : Finalize(t, o, keep_trace)
    \/ \E chunk \in Chunks, algorithm \in Algorithms, keep_trace \in BOOLEAN :
         Inspect(t, chunk, algorithm, keep_trace)
    \/ Running(t)

HasherSpec == HasherInit /\ [][HasherNext]_hasherVars

-----------------------------------------------------------------------------
DigestOf(algorithm, bytes) == Compute(algorithm, bytes, Reverse(bytes), Len(bytes))

Asked(t) ==
  IF call[t] = Idle THEN [bytes |-> <<>>, algorithm |-> "none", keep_trace |-> FALSE]
  ELSE [bytes |-> call[t].asked, algorithm |-> call[t].algorithm,
        keep_trace |-> call[t].keep_trace]

Promise == INSTANCE Oracle WITH fed <- [o \in Objects |-> message[o]],
                                asked <- [t \in Threads |-> Asked(t)]

(* However the bytes are cut into updates, whatever was finalized before   *)
(* or is being finalized by other threads, a digest is that of the bytes   *)
(* its object had taken when it was asked for, a refused update has left   *)
(* no byte behind, and no object is changed by being asked.                *)
ImplementsOracle == Promise!OracleSpec

=============================================================================
