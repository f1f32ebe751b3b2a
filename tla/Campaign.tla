----------------------------- MODULE Campaign ------------------------------
(***************************************************************************)
(* scripts/stage4_deep_r2.sh: one tool after the other is run on the       *)
(* built executables; a run that does not exit with 0 is negative evidence *)
(* when certain words are in its log, and a failure when they are not.     *)
(***************************************************************************)
EXTENDS Integers, Sequences

CONSTANT Modes    (* of "quick", "standard" and "full"                    *)

VARIABLES
  mode,           (* the option of the run                                *)
  built,          (* whether every executable is there                    *)
  pc,             (* "need", "run" or "exit"                              *)
  queue,          (* the campaigns to come                                *)
  crashes,        (* tools that did not come to their return statement    *)
  verdict,        (* what SUMMARY.md says of the last campaign            *)
  failures,       (* campaigns for which run_tool returned non-zero       *)
  status          (* the exit code of the script                          *)

vars == <<mode, built, pc, queue, crashes, verdict, failures, status>>

(* The campaigns in their order: the tool, and whether --quick skips it.   *)
Steps ==
  LET always(tool) == [tool |-> tool, quick |-> TRUE]
      long(tool) == [tool |-> tool, quick |-> FALSE]
  IN  << always("collision"), always("collision_r1"), always("collision"), always("transition"),
         always("transition"), always("phase"), long("phase"),
         always("surface"), always("related"), always("alignment"), always("framing"),
         always("differential"), always("multicollision"), always("aware"), always("dual"),
         always("bridged"), always("three_byte"), long("three_byte"),
         always("truncated"), always("separation") >>

Run(rc, words, crashed) == [rc |-> rc, words |-> words, crashed |-> crashed]

Clean == Run(0, FALSE, FALSE)

(* How a tool may end: by the return statements of its main(), with or     *)
(* without one of the words the script looks for; by an exception (2),     *)
(* which dual_return_alias and foldback_separation_profile may meet behind *)
(* their line forward_collision_pairs=0; or by a signal.                   *)
Ways(tool) ==
  {Run(2, FALSE, TRUE), Run(139, FALSE, TRUE)} \cup
  CASE tool = "collision" -> {Run(0, TRUE, FALSE), Run(1, FALSE, FALSE)}
    [] tool = "bridged" -> {Clean, Run(1, TRUE, FALSE)}
    [] tool = "aware" -> {Clean, Run(0, TRUE, FALSE), Run(1, FALSE, FALSE)}
    [] tool \in {"dual", "separation"} ->
         {Clean, Run(0, TRUE, FALSE), Run(1, FALSE, FALSE), Run(2, TRUE, TRUE)}
    [] tool \in {"collision_r1", "transition", "framing", "differential", "three_byte"} ->
         {Clean, Run(1, FALSE, FALSE)}
    [] OTHER -> {Clean}

Verdict(run) ==
  IF run.rc = 0 THEN "completed" ELSE IF run.words THEN "negative evidence" ELSE "failed"

Init ==
  /\ mode \in Modes /\ built \in BOOLEAN
  /\ pc = "need" /\ crashes = 0 /\ verdict = ""
  /\ queue = SelectSeq(Steps, LAMBDA step : step.quick \/ mode # "quick")
  /\ failures = 0 /\ status = 0

(* need: without the executables nothing is run.                           *)
Need ==
  /\ pc = "need"
  /\ pc' = IF built THEN "run" ELSE "exit"
  /\ status' = IF built THEN 0 ELSE 1
  /\ UNCHANGED <<mode, built, queue, crashes, verdict, failures>>

(* run_tool name ... || failures=$((failures + 1))                         *)
RunTool ==
  /\ pc = "run" /\ queue # <<>>
  /\ \E run \in Ways(Head(queue).tool) :
       /\ crashes' = crashes + (IF run.crashed THEN 1 ELSE 0)
       /\ verdict' = Verdict(run)
       /\ failures' = failures + (IF verdict' = "failed" THEN 1 ELSE 0)
  /\ queue' = Tail(queue)
  /\ UNCHANGED <<mode, built, pc, status>>

Exit ==
  /\ pc = "run" /\ queue = <<>>
  /\ pc' = "exit" /\ status' = failures
  /\ UNCHANGED <<mode, built, queue, crashes, verdict, failures>>

Ended == pc = "exit" /\ UNCHANGED vars

Next == Need \/ RunTool \/ Exit \/ Ended

Spec == Init /\ [][Next]_vars

-----------------------------------------------------------------------------
(* scripts/stage4_deep_r2.sh:8, "Exit 0 if all campaigns complete without  *)
(* tool crash": the exit code of the script is 0 when the executables are  *)
(* there and every tool ran to its return statement.                       *)
ExitsZeroUnlessCrash ==
  pc = "exit" /\ built /\ crashes = 0 => status = 0

=============================================================================
