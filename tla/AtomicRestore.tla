--------------------------- MODULE AtomicRestore ---------------------------
(***************************************************************************)
(* What a workspace restore promises (archive/1 ARC-107): the workspace a  *)
(* boot opens is the one that was live, or the complete archive that was   *)
(* pending, and it changes from the one to the other in a single step.  No *)
(* crash is visible here: a crash changes neither variable.                *)
(***************************************************************************)
CONSTANTS Workspaces,  \* the workspaces a store file can hold
          First,       \* the workspace the box starts with
          Nothing      \* no restore is pending

VARIABLES current,     \* the workspace the next boot opens
          pending      \* the complete archive waiting to be adopted

Init == current = First /\ pending = Nothing

\* A restore job finished staging: from now on a boot adopts w.
Accept(w) == /\ pending = Nothing
             /\ pending' = w
             /\ UNCHANGED current

\* A newer restore, or Discard, takes the pending archive back.
Withdraw == /\ pending # Nothing
            /\ pending' = Nothing
            /\ UNCHANGED current

\* The boot that adopts: old workspace before, whole archive after.
Adopt == /\ pending # Nothing
         /\ current' = pending
         /\ pending' = Nothing

Next == (\E w \in Workspaces : Accept(w)) \/ Withdraw \/ Adopt

Spec == Init /\ [][Next]_<<current, pending>>
=============================================================================
