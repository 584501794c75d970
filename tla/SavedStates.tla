----------------------------- MODULE SavedStates -----------------------------
(***************************************************************************)
(* What Snapshot and RevertToSnapshot promise: a snapshot is a copy of the *)
(* world, reverting brings exactly that copy back and forgets the          *)
(* snapshots taken after it, and a new epoch (transaction) forgets all.    *)
(***************************************************************************)
EXTENDS Integers, Sequences

VARIABLES
  world,    \* everything a contract can observe
  saved,    \* the snapshots that may still be reverted to: [id, world]
  epoch     \* counts the points after which nothing can be reverted

Init == saved = <<>> /\ epoch = 0

Change == UNCHANGED <<saved, epoch>>

Take == LET last == Len(saved') IN
        /\ last = Len(saved) + 1 /\ SubSeq(saved', 1, Len(saved)) = saved
        /\ saved'[last].world = world
        /\ \A k \in DOMAIN saved : saved[k].id < saved'[last].id
        /\ UNCHANGED <<world, epoch>>

Revert == \E k \in DOMAIN saved :
            /\ world' = saved[k].world
            /\ saved' = SubSeq(saved, 1, k - 1)
            /\ UNCHANGED epoch

Forget == saved' = <<>> /\ epoch' = epoch + 1

Next == Change \/ Take \/ Revert \/ Forget

Spec == Init /\ [][Next]_<<world, saved, epoch>>
=============================================================================
