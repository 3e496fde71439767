------------------------------ MODULE TriggersMC ------------------------------
\* Values for the constants of Triggers in the TLC configurations.
EXTENDS Triggers

BothDevices == <<{"devices"}, {"devices"}>>
OneCollector == {"devices"}
First == {1}
OneToken == {1}
=============================================================================
