------------------------------ MODULE ClientMC ------------------------------
(* Instances of Client for TLC: the device lists the API may hold.          *)
EXTENDS Client, TLC

Lists == {<<"a", "b">>, <<"b", "n">>, <<"a", "b", "c">>}
Asked == {{"devices", "device_details"}, {"device_details"}, {"dns"}, {"log_streaming"}}
Alike == Permutations(Workers)
=============================================================================
