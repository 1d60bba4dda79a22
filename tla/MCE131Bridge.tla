---------------------------- MODULE MCE131Bridge ----------------------------
\* Three senders to one universe.  FewSenders is for two universes, the second
\* always at the top priority: Ports = {1, 2}, and the run takes several minutes.
EXTENDS E131BridgeProperties, TLC

Senders == 1 :> {"x", "y", "z"}
FewSenders == 1 :> {"x", "y"} @@ 2 :> {"x"}
TopOnSecond == 1 :> {1, 2} @@ 2 :> {2}
=============================================================================
