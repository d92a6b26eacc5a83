---------------------------- MODULE IdentityStore ----------------------------
(***************************************************************************)
(* What TokenManager promises to the threads that ask it for the server's  *)
(* identity: a value that a rotation replaces step by step, and of which a *)
(* reader copies, in one step, only a state in which no rotation is under  *)
(* way.                                                                    *)
(***************************************************************************)
CONSTANTS Values,   \* identities: the two public keys and the token
          Nothing,  \* the snapshot of a reader that has none
          Readers

VARIABLES store, busy, snap
vars == <<store, busy, snap>>

Init ==
  /\ store \in Values /\ busy = FALSE
  /\ snap = [r \in Readers |-> Nothing]

BeginRotation == ~busy /\ busy' = TRUE /\ UNCHANGED <<store, snap>>

\* A step of a rotation, perhaps its last; a failing one ends it midway.
Rotate == busy /\ store' \in Values /\ busy' \in BOOLEAN /\ UNCHANGED snap

Snapshot(r) ==
  /\ ~busy /\ snap[r] = Nothing
  /\ snap' = [snap EXCEPT ![r] = store]
  /\ UNCHANGED <<store, busy>>

\* The request of r ends, or a new one begins.
Forget(r) ==
  /\ snap' = [snap EXCEPT ![r] = Nothing]
  /\ UNCHANGED <<store, busy>>

Restart ==
  /\ store' \in Values /\ busy' = FALSE
  /\ snap' = [r \in Readers |-> Nothing]

Next ==
  \/ BeginRotation \/ Rotate \/ Restart
  \/ \E r \in Readers : Snapshot(r) \/ Forget(r)

Spec == Init /\ [][Next]_vars
=============================================================================
