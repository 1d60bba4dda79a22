------------------------------ MODULE MCArtNet ------------------------------
\* Streams of two senders: x has two physical inputs of the same universe.
EXTENDS ArtNetMergeProperties, TLC

From(ip, physical) == [ip |-> ip, physical |-> physical]
OnePortStreams == 1 :> {From("x", 0), From("x", 1), From("y", 0)}
TwoPortStreams == OnePortStreams @@ 2 :> {From("x", 0)}
=============================================================================
