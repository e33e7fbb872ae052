-------------------------- MODULE CapabilityStore --------------------------
(***************************************************************************)
(* CapabilityStore on disk: how a capability's package and its definition  *)
(* file come to be there, write by write, and when a package loads.        *)
(*                                                                         *)
(* A process may die, and a write may fail, between any two steps and in   *)
(* the middle of a write, which leaves the file torn.  Each version has    *)
(* one saver: every discovery stores its capability under its own run.     *)
(***************************************************************************)
EXTENDS Naturals, Sequences

CONSTANT Versions       \* capability versions, each in the store of its run

VARIABLES
    disk,       \* what is there of each file of each version
    saved       \* how many steps of save_package and save each saver completed

storeVars == <<disk, saved>>

\* save_package makes the directory and writes its three files, metadata last; save writes
\* a temporary file and renames it.
SaveSteps == <<"directory", "capability", "profile", "metadata", "temporary", "definition">>
Atomic == {"directory", "definition"}
Packaged == {"capability", "profile", "metadata"}

StoreInit ==
    /\ disk = [v \in Versions |-> [f \in Packaged \cup Atomic \cup {"temporary"} |-> "absent"]]
    /\ saved = [v \in Versions |-> 0]

Saved(v) == saved[v] = Len(SaveSteps)
Step(v) == SaveSteps[saved[v] + 1]

\* A file is created before its content is written.
Creates(v) ==
    /\ ~ Saved(v)
    /\ Step(v) \notin Atomic
    /\ disk[v][Step(v)] = "absent"
    /\ disk' = [disk EXCEPT ![v][Step(v)] = "torn"]
    /\ UNCHANGED saved

\* A directory or a definition that exists already is refused; the rename consumes the
\* temporary file.
Writes(v) ==
    /\ ~ Saved(v)
    /\ disk[v][Step(v)] = IF Step(v) \in Atomic THEN "absent" ELSE "torn"
    /\ disk' = [disk EXCEPT ![v][Step(v)] = "whole",
                            ![v]["temporary"] = IF Step(v) = "temporary" THEN "whole" ELSE "absent"]
    /\ saved' = [saved EXCEPT ![v] = @ + 1]

\* Validation or a write raises: save removes its temporary file, save_package leaves what
\* it wrote.
SaveRaises(v) ==
    /\ ~ Saved(v)
    /\ disk' = [disk EXCEPT ![v]["temporary"] = "absent"]
    /\ UNCHANGED saved

\* load_package: the metadata parses, and the two files have the hashes it names.
Loads(v) == \A f \in Packaged : disk[v][f] = "whole"

\* What replay_stored looks for.
Listed(v) == disk[v]["metadata"] # "absent"
=============================================================================
