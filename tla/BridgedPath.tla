---------------------------- MODULE BridgedPath ----------------------------
(***************************************************************************)
(* find_bridged_path of src/tools/bridged_path.hpp: from an alias of the   *)
(* catalogue (the seed), look for levels - 1 further aliases, one behind   *)
(* the other, each reached directly or over one common symbol, the bridge. *)
(* The search is depth first and takes the first path there is.            *)
(*                                                                         *)
(* The recursion of find_bridged_tail is a stack: a frame is a call, with  *)
(* the extensions there are of the state it got, and how many of them it   *)
(* has tried.  Modules BridgedBeam and Multicollision go on with the path. *)
(***************************************************************************)
EXTENDS Aliases

CONSTANT OptionSets   (* the tools run and the options given to them       *)

ASSUME LevelsAssumption == \A o \in OptionSets : o.levels \in 2..32

VARIABLES
  hash, request,  (* the hash searched, the arguments of the enumeration  *)
  options,        (* tool and options: all three are constant             *)
  seeds,          (* the catalogue: constant during a search              *)
  seed,           (* the number of the seed the search is at              *)
  stack,          (* the calls of find_bridged_tail                       *)
  pc,             (* where the tool is                                    *)
  level           (* what it has done of the path: none while it searches *)

inputVars == <<hash, request, options, seeds>>
pathVars == <<inputVars, seed, stack, pc>>

-----------------------------------------------------------------------------
Absorb(state, symbol) == hash.absorb[state][symbol]

(* The forward state of a message of any length, the prefix being one item.*)
Forward(message) == FoldLeft(Absorb, hash.behind[message[1]], Tail(message))

(* find_symbol_aliases lists the aliases by their second symbol.           *)
SymbolAliases(state) ==
  InOrder({m \in SymbolPairs : Absorb(state, m[1]) = Absorb(state, m[2])},
          LAMBDA a, b : a[2] < b[2] \/ (a[2] = b[2] /\ a[1] < b[1]))

(* The aliases behind a bridge, which is no symbol or one.                 *)
StepsOver(state, bridge) ==
  LET bridged == FoldLeft(Absorb, state, bridge)
      aliases == SymbolAliases(bridged)
  IN  [n \in DOMAIN aliases |->
         [bridge |-> bridge, left |-> aliases[n][1], right |-> aliases[n][2],
          common |-> Absorb(bridged, aliases[n][1])]]

(* Seeded fault: the largest symbol is never tried as a bridge.            *)
StepsOverAllButLast(state) ==
  StepsOver(state, <<>>)
    \o FlattenSeq([n \in 1..LastSymbol |-> StepsOver(state, <<n - 1>>)])

(* The extensions of a state in the order they are tried: first those that *)
(* need no bridge.                                                         *)
Steps(state) ==
  StepsOver(state, <<>>)
    \o FlattenSeq([n \in 1..(LastSymbol + 1) |-> StepsOver(state, <<n - 1>>)])

(* A call with this many levels remaining.                                 *)
Call(state, remaining) ==
  [steps |-> IF remaining = 0 THEN <<>> ELSE Steps(state), tried |-> 0]

Top == stack[Len(stack)]

SeedState(number) == Forward(seeds[number].left)

(* The path, once it is found: the extension each call is at.              *)
Path == [n \in 1..(options.levels - 1) |-> stack[n].steps[stack[n].tried]]

-----------------------------------------------------------------------------
NextSeed ==
  /\ pc = "search" /\ stack = <<>> /\ seed < Len(seeds)
  /\ seed' = seed + 1
  /\ stack' = <<Call(SeedState(seed + 1), options.levels - 1)>>
  /\ UNCHANGED <<inputVars, pc>>

(* A call tries its next extension: it calls itself with the state behind. *)
Extend ==
  /\ pc = "search" /\ stack # <<>> /\ Len(stack) < options.levels
  /\ Top.tried < Len(Top.steps)
  /\ stack' = Append([stack EXCEPT ![Len(stack)].tried = @ + 1],
                     Call(Top.steps[Top.tried + 1].common, options.levels - Len(stack) - 1))
  /\ UNCHANGED <<inputVars, seed, pc>>

(* Seeded fault: the caller tries the extension that failed once more.     *)
RetryForever ==
  /\ pc = "search" /\ stack # <<>> /\ Len(stack) < options.levels
  /\ Top.tried = Len(Top.steps)
  /\ stack' = IF Len(stack) = 1 THEN <<>>
              ELSE [Front(stack) EXCEPT ![Len(stack) - 1].tried = @ - 1]
  /\ UNCHANGED <<inputVars, seed, pc>>

(* A call that has tried them all returns without a tail.                  *)
GiveUp ==
  /\ pc = "search" /\ stack # <<>> /\ Len(stack) < options.levels
  /\ Top.tried = Len(Top.steps)
  /\ stack' = Front(stack)
  /\ UNCHANGED <<inputVars, seed, pc>>

(* No levels remain: all calls return.                                     *)
FindPath ==
  /\ pc = "search" /\ Len(stack) = options.levels
  /\ pc' = "found"
  /\ UNCHANGED <<inputVars, seed, stack>>

(* path_found=no                                                           *)
NoPath ==
  /\ pc = "search" /\ stack = <<>> /\ seed = Len(seeds)
  /\ pc' = "none"
  /\ UNCHANGED <<inputVars, seed, stack>>

PathInit ==
  /\ hash \in Hashes /\ request \in Requests /\ options \in OptionSets
  /\ seeds = Catalogue(hash, request)
  /\ seed = 0 /\ stack = <<>>
  /\ pc = "search" /\ level = 0

PathNext == (NextSeed \/ Extend \/ GiveUp \/ FindPath \/ NoPath) /\ UNCHANGED level

-----------------------------------------------------------------------------
(* The states with n more aliases behind them.                             *)
Extensible[n \in 0..32] ==
  IF n = 0 THEN States
  ELSE LET shorter == Extensible[n - 1]
       IN  {state \in States :
              \E bridged \in {state} \cup {Absorb(state, b) : b \in Symbols} :
              \E m \in SymbolPairs :
                /\ Absorb(bridged, m[1]) = Absorb(bridged, m[2])
                /\ Absorb(bridged, m[1]) \in shorter}

(* The search passes over nothing: a seed it has left, or an extension a   *)
(* call has gone past, leads to no path.  So "path_found=no" means there   *)
(* is none, and a path that is found is the first in the order of trying.  *)
PassedOverInVain ==
  /\ \A s \in 1..(IF stack = <<>> THEN seed ELSE seed - 1) :
       Forward(seeds[s].left) \notin Extensible[options.levels - 1]
  /\ \A n \in DOMAIN stack :
     \A t \in 1..(IF n = Len(stack) THEN stack[n].tried ELSE stack[n].tried - 1) :
       stack[n].steps[t].common \notin Extensible[options.levels - n - 1]

=============================================================================
