------------------------------ MODULE OutboxMC ------------------------------
(* Instances of Outbox for TLC: sets of destinations, workers and tokens.   *)
EXTENDS Outbox

OneDestination == {1}
TwoDestinations == {1, 2}
NoIds == {}
SecondId == {2}
OneToken == {1}
TwoTokens == {1, 2}
=============================================================================
