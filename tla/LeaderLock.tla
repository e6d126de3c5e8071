----------------------------- MODULE LeaderLock -----------------------------
(* What the electors promise the controllers: only the holder of the key   *)
(* leads, and the key is free for another one only when its holder does    *)
(* not lead any more.                                                      *)
CONSTANTS
  Controllers,
  None          \* nobody holds the key

VARIABLES
  key,          \* who holds the key
  leading       \* who leads: IsLeader, and not about to release

lockVars == <<key, leading>>

LockInit == key = None /\ leading = {}

Take(i) == key = None /\ key' = i /\ UNCHANGED leading

Lead(i) == key = i /\ leading' = leading \cup {i} /\ UNCHANGED key

Yield(i) == leading' = leading \ {i} /\ UNCHANGED key

Lapse == key \notin leading /\ key' = None /\ UNCHANGED leading

LockNext == Lapse \/ \E i \in Controllers : Take(i) \/ Lead(i) \/ Yield(i)

LockSpec == LockInit /\ [][LockNext]_lockVars
=============================================================================
