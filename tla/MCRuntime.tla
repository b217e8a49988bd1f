----------------------------- MODULE MCRuntime -----------------------------
(***************************************************************************)
(* Two instances in one run, told apart by `world`: two replicas of the    *)
(* runtime with the task service behind them, and the task service under   *)
(* requests of any kind (of one caller that waits, and of any that gave up *)
(* before), with a subscriber of its feed and a database that may fail.    *)
(***************************************************************************)
EXTENDS Runtime, TLC

CONSTANTS
    Worlds,
    s1,
    MaxLost        \* bound: acknowledgements of one event that get lost

VARIABLE world

TS == INSTANCE TaskService WITH
        Clients <- {Dashboard}, Subscribers <- {s1}, Faults <- {"db"}

MCInit ==
    /\ world \in Worlds
    /\ ReplicasInit
    /\ IF world = "runtime" THEN TaskServiceInit ELSE TS!TaskServiceInit

MCNext ==
    /\ UNCHANGED world
    /\ IF world = "runtime"
         THEN Next /\ \A e \in Events : lost'[e] <= MaxLost
         ELSE TS!TaskServiceNext /\ UNCHANGED rtVars

MCSpec == MCInit /\ [][MCNext]_<<vars, world>>

RuntimeSymmetry == Permutations(Handlers) \cup Permutations(Replicas)
                     \cup Permutations(TaskIds)
=============================================================================
