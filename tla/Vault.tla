-------------------------------- MODULE Vault --------------------------------
(***************************************************************************)
(* What the database promises to whoever writes to it: one schema version  *)
(* that only grows, one master key that only a rotation changes, and every *)
(* commit kept. Files, processes, locks and crashes are not visible.       *)
(***************************************************************************)
EXTENDS Integers

CONSTANTS Keys, NoKey, Current

VARIABLES
  version,    \* schema version, 0 before there is one
  key,        \* the key that opens every sealed value, or NoKey
  kept,       \* commits the database holds
  committed   \* commits that were acknowledged

vars == <<version, key, kept, committed>>

Init ==
  /\ version \in 0 .. Current /\ key \in Keys \cup {NoKey}
  /\ kept = 0 /\ committed = 0

\* The step to version 13 drops values, and the key with the last of them.
Upgrade ==
  /\ version < Current
  /\ version' = version + 1 \/ (version = 0 /\ version' = Current)
  /\ key' = key \/ (version' = 13 /\ key' = NoKey)
  /\ UNCHANGED <<kept, committed>>

Claim ==
  /\ key = NoKey /\ key' \in Keys
  /\ UNCHANGED <<version, kept, committed>>

Commit ==
  /\ kept' = kept + 1 /\ committed' = committed + 1
  /\ UNCHANGED <<version, key>>

Rotate ==
  /\ version = Current /\ key' \in Keys
  /\ kept' = kept + 1 /\ committed' = committed + 1
  /\ UNCHANGED version

Next == Upgrade \/ Claim \/ Commit \/ Rotate

Spec == Init /\ [][Next]_vars
=============================================================================
