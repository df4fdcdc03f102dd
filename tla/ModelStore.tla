------------------------------ MODULE ModelStore ------------------------------
(***************************************************************************)
(* The persistent store of each device: a root store in memory, on the     *)
(* main queue, above a file.  Other threads save into the root store; what *)
(* they saved is written to the file by a block that the notification of   *)
(* their save sends to the main queue.  A block writes the root store as   *)
(* it is when the block runs.  So the file has what the root store had at  *)
(* some time since it was last saved itself, and which time that is        *)
(* matters only when the application ends: Stall is that time.             *)
(***************************************************************************)
CONSTANTS
    Devices,
    Fresh,        \* [Devices -> what a new store contains]
    None          \* no contents

VARIABLES
    memory,       \* [Devices -> contents of the root store]
    file          \* [Devices -> contents of the file, if no block will
                  \* change it any more, or None]

Init ==
    /\ memory = Fresh
    /\ file = [d \in Devices |-> None]

(* save in a store made by newStore: the changes go to the root store, and *)
(* otherContextSaved: sends a block that will write them.                  *)
Save(d, contents) ==
    /\ memory' = [memory EXCEPT ![d] = contents]
    /\ UNCHANGED file

(* save in the root store itself, by the main thread, writes the file.     *)
SaveRoot(d, contents) ==
    /\ memory' = [memory EXCEPT ![d] = contents]
    /\ file' = [file EXCEPT ![d] = None]

(* The last block runs; those that would follow do not come to it before   *)
(* the application ends, or fail, which is only logged.                    *)
Stall(d) ==
    /\ file[d] = None
    /\ file' = [file EXCEPT ![d] = memory[d]]
    /\ UNCHANGED memory

MayEnd(d) == file[d] # None

(* The application ends, and starts with what the file has; cleanUp makes  *)
(* the given contents of that and saves the root store before anything     *)
(* else runs.                                                              *)
Reopen(d, contents) == MayEnd(d) /\ SaveRoot(d, contents)
===============================================================================
