---------------------------- MODULE SecretStore -----------------------------
(***************************************************************************)
(* What the secret file promises to the runtime: a register that holds one *)
(* whole secret or nothing.  A write replaces its value at most once and   *)
(* succeeds only if it did; nothing else but a reset changes it.  A crash  *)
(* of the process leaves it alone; a loss of power may take it back to the *)
(* value that was last on disk.                                            *)
(***************************************************************************)
CONSTANTS Secrets, None

VARIABLES
  value,     \* what a load finds
  stable,    \* what a load finds after a loss of power
  pending,   \* the secret being written
  stored,    \* that secret has replaced the value
  result,    \* how the last write ended
  removing   \* a reset has been asked for

vars == <<value, stable, pending, stored, result, removing>>

Values == Secrets \cup {None}

Init ==
  /\ value \in Values
  /\ stable = value
  /\ pending = None /\ stored = FALSE /\ result = "none" /\ removing = FALSE

Begin(s) ==
  /\ pending = None
  /\ pending' = s
  /\ UNCHANGED <<value, stable, stored, result, removing>>

Put ==
  /\ pending # None /\ ~stored
  /\ value' = pending
  /\ stored' = TRUE
  /\ UNCHANGED <<stable, pending, result, removing>>

End ==
  /\ pending # None
  /\ result' \in {"ok", "failed"}
  /\ result' = "ok" => stored
  /\ pending' = None
  /\ stored' = FALSE
  /\ UNCHANGED <<value, stable, removing>>

AskRemoval ==
  /\ ~removing
  /\ removing' = TRUE
  /\ UNCHANGED <<value, stable, pending, stored, result>>

Remove ==
  /\ removing
  /\ value' \in {None, value}
  /\ removing' = FALSE
  /\ UNCHANGED <<stable, pending, stored, result>>

Settle ==
  /\ stable' = value
  /\ UNCHANGED <<value, pending, stored, result, removing>>

(* The process dies; with a loss of power the value may go back            *)
Crash ==
  /\ value' \in {value, stable}
  /\ pending' = None /\ stored' = FALSE /\ removing' = FALSE
  /\ UNCHANGED <<stable, result>>

Next ==
  \/ \E s \in Secrets : Begin(s)
  \/ Put \/ End \/ AskRemoval \/ Remove \/ Settle \/ Crash

Spec == Init /\ [][Next]_vars
=============================================================================
