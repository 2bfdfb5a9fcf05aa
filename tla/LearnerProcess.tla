--------------------------- MODULE LearnerProcess ---------------------------
(***************************************************************************)
(* The learner as a teacher sees it: a process that is started once per    *)
(* round and talks to the teacher, and to the processes of earlier rounds, *)
(* through files.  This is main, from the start of the process to its exit *)
(* code, with the bound that one round leaves to the next in the file      *)
(* ".bound".                                                               *)
(*                                                                         *)
(* One attempt to learn a tree is one step: module Learner shows that a    *)
(* tree which is written is consistent with the sample, that an attempt    *)
(* without bound fails only if the sample is contradictory, and that no    *)
(* attempt fails on a sample that asks for no positive point.  The actions *)
(* take the sample as what the trees consistent with it are true of.       *)
(***************************************************************************)
EXTENDS Integers

CONSTANTS
  MaxBound,   \* bound<MAX_BOUND>
  Options     \* the command lines: [bounds |-> "-b" is given, prephase |-> "-h" is]

(* The content of a file that does not exist. *)
NoFile == 0

(* The bounds a process writes: 1 doubled while it is at most MaxBound. *)
Bounds == 1 .. MaxBound

ASSUME MaxBoundIsPositive == MaxBound \in Nat \ {0}
ASSUME OptionsAssumption == Options \subseteq [bounds : BOOLEAN, prephase : BOOLEAN]

VARIABLES
  options,    \* learnerOptions, the same in every round
  status,     \* ".status": the number of the round, 2 standing for any later one
  boundFile,  \* ".bound"
  json,       \* ".json": what the tree is true of
  bound,      \* cur_bound._bound
  proc        \* where the process is

files == <<status, boundFile, json>>
procVars == <<options, files, bound, proc>>

(* A ".bound" file may be left over from an earlier verification of a      *)
(* program of the same name.                                               *)
ProcessInit ==
  /\ options \in Options
  /\ status = 0
  /\ boundFile \in {NoFile, 1, MaxBound}
  /\ json = {}
  /\ bound = 1
  /\ proc = "idle"

UseBound == options.bounds /\ bound <= MaxBound

(* Process.Start, after the status file has been written. *)
StartProcess ==
  /\ proc = "idle"
  /\ status' = IF status = 0 THEN 1 ELSE 2
  /\ bound' = 1
  /\ proc' = IF options.prephase THEN "prephase" ELSE "read"
  /\ UNCHANGED <<options, boundFile, json>>

WriteBound == boundFile' = IF UseBound THEN bound ELSE boundFile

(* Mutant: the pre-phase leaves the bound alone. *)
PrephaseWritesNoBound(H) ==
  /\ proc = "prephase"
  /\ json' \in H
  /\ proc' = "exit"
  /\ UNCHANGED <<options, status, bound, boundFile>>

(* A conjunction is consistent with the sample: it is written, and the     *)
(* bound the process has started with.                                     *)
PrephaseSucceeds(H) ==
  /\ proc = "prephase"
  /\ json' \in H
  /\ WriteBound
  /\ proc' = "exit"
  /\ UNCHANGED <<options, status, bound>>

(* no_conjunction_exists_exception, or the conjunction is inconsistent. *)
PrephaseGivesUp ==
  /\ proc = "prephase"
  /\ proc' = "read"
  /\ UNCHANGED <<options, files, bound>>

(* Mutant: every round starts from the first bound. *)
ReadNothing ==
  /\ proc = "read"
  /\ proc' = "learn"
  /\ UNCHANGED <<options, files, bound>>

(* From the second round on the bound comes from the file; reading a file  *)
(* that is not there ends the process.                                     *)
ReadBound ==
  /\ proc = "read"
  /\ IF ~ UseBound \/ status = 1
     THEN bound' = bound /\ proc' = "learn"
     ELSE IF boundFile = NoFile
          THEN bound' = bound /\ proc' = "failed"
          ELSE bound' = boundFile /\ proc' = "learn"
  /\ UNCHANGED <<options, files>>

AttemptSucceeds(H) ==
  /\ proc = "learn"
  /\ json' \in H
  /\ WriteBound
  /\ proc' = "exit"
  /\ UNCHANGED <<options, status, bound>>

(* Mutant: the bound is not increased. *)
SameBound == bound

Increased == 2 * bound

(* sample_error or split_not_possible_error, on a sample that asks for a   *)
(* positive point: a larger bound, and in the end none.                    *)
AttemptThrows(H, asksForPositive) ==
  /\ proc = "learn"
  /\ asksForPositive
  /\ IF UseBound
     THEN bound' = Increased /\ proc' = proc
     ELSE H = {} /\ bound' = bound /\ proc' = "failed"
  /\ UNCHANGED <<options, files>>

ProcessStep(H, asksForPositive) ==
  \/ PrephaseSucceeds(H)
  \/ PrephaseGivesUp
  \/ ReadBound
  \/ AttemptSucceeds(H)
  \/ AttemptThrows(H, asksForPositive)

ProcessTypeOK(Trees) ==
  /\ options \in [bounds : BOOLEAN, prephase : BOOLEAN]
  /\ status \in 0 .. 2
  /\ boundFile \in Bounds \cup {NoFile}
  /\ json \in Trees
  /\ bound \in 1 .. 2 * MaxBound
  /\ proc \in {"idle", "prephase", "read", "learn", "exit", "failed"}
=============================================================================
