------------------------------ MODULE MCSession ------------------------------
(***************************************************************************)
(* Four instances of Session in one run, told apart by `world`: two         *)
(* prompts, three daemon boots and a Resume on a controller that stays up   *)
(* ("calm"); one controller crash with a store and a gateway that may       *)
(* refuse and replies that may be lost ("faulty"); two prompts over lost    *)
(* replies, refused appends and a crash ("lossy"); and a budget of no       *)
(* attempt at all ("unbudgeted").                                           *)
(***************************************************************************)
EXTENDS Session, TLC

CONSTANT Worlds

VARIABLE world

F == INSTANCE Session WITH
       Faults <- {"store", "reply", "gateway"}, MaxTurns <- 1, MaxBoots <- 2, MaxCrashes <- 1, MaxResumes <- 1

L == INSTANCE Session WITH
       Faults <- {"store", "reply"}, MaxTurns <- 2, MaxBoots <- 3, MaxCrashes <- 1, MaxResumes <- 0

Z == INSTANCE Session WITH ReviveMax <- 0, MaxTurns <- 1

MCInit == world \in Worlds /\ SessionInit

MCNext ==
  /\ UNCHANGED world
  /\ \/ world = "calm" /\ Next
     \/ world = "faulty" /\ F!Next
     \/ world = "lossy" /\ L!Next
     \/ world = "unbudgeted" /\ Z!Next

MCSpec == MCInit /\ [][MCNext]_<<vars, world>>

ThreadSymmetry == Permutations(Threads)

(* onPiRecord (agent.go): a turn is settled by its own record, and by it    *)
(* always.  Neither survives a lost reply to the prompt (the turn is not in *)
(* the log) or a crash between the record and the transition.               *)
SettlesItsTurn == world = "calm" => SettlesOwnTurn /\ SettledEndsTurn

(* Re-arming "would reset the ledger mid-attempt" (revive.go): no step sets *)
(* the ledger back while an attempt is open.  A ledger that cannot be read  *)
(* counts as spent and closed, so this too is about the calm world.         *)
RearmsOnlyClosed == [][world = "calm" /\ used' < used => ~open]_vars
=============================================================================
