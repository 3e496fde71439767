------------------------------ MODULE ChangesMC ------------------------------
\* Values for the constants of Changes in the TLC configurations.
EXTENDS Changes

Invite(id, accepted, exit, sent) ==
  [id |-> id, accepted |-> accepted, allowExitNode |-> exit, lastEmailSentAt |-> sent]
Pending(id) == Invite(id, FALSE, FALSE, 0)

Device(authorized, version, tags) ==
  [authorized |-> authorized, clientVersion |-> version, tags |-> tags]
Details(attributes, invites) ==
  [postureAttributes |-> attributes, deviceInvites |-> invites]
Drift(c, old, new) == <<c, old, new>>
Unchanged(c, doc) == <<c, doc, doc>>

SomeDrifts ==
  { Unchanged("devices", None), Unchanged("devices", Device(FALSE, 0, {"tag"})),
    \* from null to an empty list, and a list whose elements have no ids
    Drift("device_details", Details(0, Null), Details(0, {})),
    Drift("device_details", Details(0, {Pending(0)}), Details(0, {Invite(0, TRUE, FALSE, 0)})),
    \* more differences than a change lists, harmless ones first
    Drift("devices", Device(FALSE, 0, {"tag"}), Device(TRUE, 1, {})),
    Drift("device_details", Details(0, {Pending(1), Pending(2)}),
          Details(1, {Invite(1, FALSE, FALSE, 1), Invite(2, FALSE, FALSE, 1)})) }
=============================================================================
