----------------------------- MODULE EvidenceMC -----------------------------
(* Instances of Evidence for TLC. A small batch of one event that no webhook *)
(* caused, and one of every kind of event that two webhooks caused.          *)
EXTENDS Evidence

SmallAndTriggered == {[events |-> {"a"}, triggers |-> {}], [events |-> {"a", "b"}, triggers |-> {1, 2}]}
=============================================================================
