--------------------------- MODULE Multicollision ---------------------------
(***************************************************************************)
(* tools/bridged_multicollision.cpp: a bridged path of n aliases gives 2^n *)
(* messages with one forward state.  The tool finds a path, writes out the *)
(* messages of its first levels, and counts how many of them also agree    *)
(* behind the foldback or in their digests.                                *)
(*                                                                         *)
(* The tool has its own copy of the path search, which is that of module   *)
(* BridgedPath.  Writing out a level is a step, and so is each message     *)
(* that is evaluated.                                                      *)
(***************************************************************************)
EXTENDS BridgedPath

CONSTANTS
  FoldbackState(_),   (* the state of a message behind its foldback       *)
  Fingerprint(_),     (* analysis_fingerprint of such a state             *)
  DigestOf(_)         (* the digest: messages of one length that agree    *)
                      (* behind the foldback agree from there on          *)

ASSUME MaterializeAssumption ==
  \A o \in OptionSets : o.tool = "family" => o.materialize_levels \in 0..20

VARIABLES
  messages,       (* the messages of these levels                         *)
  foldback_states,   (* of the messages evaluated, in their order         *)
  digest_table,   (* their digests                                        *)
  result          (* MaterializedResult, its counters                     *)

familyVars == <<messages, foldback_states, digest_table, result>>

-----------------------------------------------------------------------------
Levels == Min({options.materialize_levels, options.levels})

(* common_state: the forward state all messages should have.               *)
CommonState == IF level = 1 THEN SeedState(seed) ELSE Path[level - 1].common

ZeroResult == [forward_mismatches |-> 0, foldback_collisions |-> 0, digest_collisions |-> 0]

Begin ==
  /\ pc = "found" /\ options.tool = "family"
  /\ IF Levels = 0
     THEN pc' = "done" /\ UNCHANGED <<level, messages>>
     ELSE /\ pc' = "materialize"
          /\ level' = 1
          /\ messages' = <<seeds[seed].left, seeds[seed].right>>
  /\ UNCHANGED <<inputVars, seed, stack, foldback_states, digest_table, result>>

(* Seeded fault: the bridge is appended to every other message only.       *)
MaterializeHalfBridged ==
  /\ pc = "materialize" /\ level < Levels
  /\ LET step == Path[level]
     IN  messages' = FlattenSeq([n \in DOMAIN messages |->
                       << messages[n] \o step.bridge \o <<step.left>>,
                          messages[n] \o <<step.right>> >>])
  /\ level' = level + 1
  /\ UNCHANGED <<inputVars, seed, stack, pc, foldback_states, digest_table, result>>

(* One level of materialize_messages: each message is bridged and doubled. *)
Materialize ==
  /\ pc = "materialize" /\ level < Levels
  /\ LET step == Path[level]
     IN  messages' = FlattenSeq([n \in DOMAIN messages |->
                       << messages[n] \o step.bridge \o <<step.left>>,
                          messages[n] \o step.bridge \o <<step.right>> >>])
  /\ level' = level + 1
  /\ UNCHANGED <<inputVars, seed, stack, pc, foldback_states, digest_table, result>>

BeginEvaluation ==
  /\ pc = "materialize" /\ level = Levels
  /\ pc' = "evaluate"
  /\ UNCHANGED <<inputVars, seed, stack, level, familyVars>>

Count(condition) == IF condition THEN 1 ELSE 0

(* Seeded fault: an earlier state with the fingerprint is taken for equal. *)
EvaluateByFingerprint ==
  /\ pc = "evaluate" /\ Len(foldback_states) < Len(messages)
  /\ LET message == messages[Len(foldback_states) + 1]
         state   == FoldbackState(message)
     IN  /\ result' =
              [forward_mismatches  |-> result.forward_mismatches
                                         + Count(Forward(message) # CommonState),
               foldback_collisions |-> result.foldback_collisions
                 + Count(\E prior \in ToSet(foldback_states) :
                           Fingerprint(prior) = Fingerprint(state)),
               digest_collisions   |-> result.digest_collisions
                                         + Count(DigestOf(state) \in digest_table)]
         /\ foldback_states' = Append(foldback_states, state)
         /\ digest_table' = digest_table \cup {DigestOf(state)}
  /\ UNCHANGED <<inputVars, seed, stack, pc, level, messages>>

(* One message of evaluate_messages: its state is compared with those in   *)
(* the bucket of its fingerprint, its digest looked up in the table.       *)
Evaluate ==
  /\ pc = "evaluate" /\ Len(foldback_states) < Len(messages)
  /\ LET message == messages[Len(foldback_states) + 1]
         state   == FoldbackState(message)
     IN  /\ result' =
              [forward_mismatches  |-> result.forward_mismatches
                                         + Count(Forward(message) # CommonState),
               foldback_collisions |-> result.foldback_collisions
                 + Count(\E prior \in ToSet(foldback_states) :
                           Fingerprint(prior) = Fingerprint(state) /\ prior = state),
               digest_collisions   |-> result.digest_collisions
                                         + Count(DigestOf(state) \in digest_table)]
         /\ foldback_states' = Append(foldback_states, state)
         /\ digest_table' = digest_table \cup {DigestOf(state)}
  /\ UNCHANGED <<inputVars, seed, stack, pc, level, messages>>

ReportFamily ==
  /\ pc = "evaluate" /\ Len(foldback_states) = Len(messages)
  /\ pc' = "done"
  /\ UNCHANGED <<inputVars, seed, stack, level, familyVars>>

unique_foldback_states == Len(messages) - result.foldback_collisions

FamilyExitCode == IF pc = "none" \/ result # ZeroResult THEN 1 ELSE 0

FamilyInit ==
  messages = <<>> /\ foldback_states = <<>> /\ digest_table = {} /\ result = ZeroResult

FamilyNext == Begin \/ Materialize \/ BeginEvaluation \/ Evaluate \/ ReportFamily

-----------------------------------------------------------------------------
(* The family is what its name says: every level doubles it, no message is *)
(* in it twice, and all share the forward state the path leads to; hence   *)
(* the tool never counts a forward mismatch.                               *)
FamilyShared ==
  messages # <<>> =>
    /\ Cardinality(ToSet(messages)) = 2 ^ level /\ Len(messages) = 2 ^ level
    /\ \A message \in ToSet(messages) : Forward(message) = CommonState
    /\ result.forward_mismatches = 0

(* What is reported as unique is the number of different states and of     *)
(* different digests, though messages are compared one by one and through  *)
(* fingerprints; a collision of states is one of digests, and the exit     *)
(* code is 0 just when no two messages agree in either.                    *)
ReportExact ==
  (pc = "done" /\ messages # <<>>) =>
    /\ unique_foldback_states = Cardinality({FoldbackState(m) : m \in ToSet(messages)})
    /\ Cardinality(digest_table) = Len(messages) - result.digest_collisions
    /\ result.foldback_collisions <= result.digest_collisions
    /\ FamilyExitCode = 0 <=> \A m, n \in DOMAIN messages : m # n =>
                          DigestOf(FoldbackState(messages[m])) # DigestOf(FoldbackState(messages[n]))

=============================================================================
