------------------------------- MODULE Tools --------------------------------
(***************************************************************************)
(* What the sequential tools of src/tools have in common: a main() that    *)
(* works through its items one by one, keeps tables and counters, prints   *)
(* and returns an exit code.  The modules that extend this one add their   *)
(* tools; a tool's options and the hash it is run on are its job.          *)
(***************************************************************************)
EXTENDS Integers, Sequences, SequencesExt

CONSTANT Jobs     (* tool |-> the options and the hashes it is run with   *)

ASSUME JobsAssumption ==
  \A tool \in DOMAIN Jobs : \A jb \in Jobs[tool] : jb.tool = tool

VARIABLES
  job,            (* constant during a run                                *)
  pc,             (* "scan", "done", or "error": an exception was caught  *)
  at,             (* the item to come                                     *)
  seen,           (* the data structures of the tool: name |-> contents   *)
  counters,       (* the counters of the tool: name |-> number            *)
  outcomes        (* what it has found so far                             *)

vars == <<job, pc, at, seen, counters, outcomes>>

JobsOf(tools) == UNION {Jobs[tool] : tool \in tools \cap DOMAIN Jobs}

Tool(name) == pc = "scan" /\ job.tool = name

Empty == [key \in {} |-> 0]

Count(condition) == IF condition THEN 1 ELSE 0

(* main() returns or leaves by an exception: nothing but pc changes.       *)
Leave(how) == pc' = how /\ UNCHANGED <<job, at, seen, counters, outcomes>>

Ended == pc \in {"done", "error"} /\ UNCHANGED vars

(* The start of a run, its job chosen.                                     *)
Start(tables, numbers) ==
  /\ pc = "scan" /\ at = 0
  /\ seen = tables /\ counters = numbers /\ outcomes = <<>>

=============================================================================
