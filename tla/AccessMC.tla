------------------------------ MODULE AccessMC ------------------------------
(* Instances of Access for TLC. Everything at once is too much for it, so a *)
(* state of the instance is on one of two sides: forms, one-time tokens and *)
(* restarts, or what signed-in requests do to sessions and API tokens.      *)
EXTENDS Access, TLC

CONSTANTS q1, q2

Two == {q1, q2}
Alike == Permutations(Two)

Asking == {requests[q].op : q \in {r \in Two : "op" \in DOMAIN requests[r]}}

ByForms ==
  /\ Asking \subseteq FormOperations \cup {"api"} /\ history.signedIn <= 1
  /\ \A change \in history.committed : change[1] \in FormOperations
  /\ \A c \in Clients : noted[<<"password", c>>] = <<>>
  /\ \A i \in DOMAIN sessions : sessions[i].live => history.active[i] = sessions[i].made
  /\ history.served = 2 => history.asked < 3

BySessions ==
  /\ Asking \subseteq Operations \ {"claim", "reset", "api"}
  /\ history.issued = 0 /\ history.served < 2
  /\ Len(forms) <= 1 /\ \A f \in DOMAIN forms : forms[f].op = "login"
  /\ history.asked = 3 => history.signedIn = 2

OneSide == ByForms \/ BySessions
=============================================================================
