------------------------------- MODULE Volume -------------------------------
(***************************************************************************)
(* What fjfs.rs promises its callers: a map from names to contents that a  *)
(* write changes in one step, whatever the power does in the meantime.     *)
(* The promise ends with the first transfer that fails, because no caller  *)
(* in fjfs.rs looks at the result of one.                                  *)
(***************************************************************************)
CONSTANTS Stored, Contents

VARIABLES
  files,  \* the contents of every file of the volume
  failed  \* a transfer has failed

Write(n, v) ==
  /\ ~failed
  /\ files' = [m \in DOMAIN files \cup {n} |-> IF m = n THEN v ELSE files[m]]
  /\ UNCHANGED failed

Fail == failed' = TRUE

Init == files = [n \in {} |-> <<>>] /\ failed = FALSE

Next ==
  \/ files' /= files /\ \E n \in Stored, v \in Contents : Write(n, v)
  \/ Fail

Spec == Init /\ [][Next]_<<files, failed>>
=============================================================================
