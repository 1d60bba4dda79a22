------------------------ MODULE ArtNetMergeProperties ------------------------
(***************************************************************************)
(* What the merge of the Art-Net node guarantees.                          *)
(***************************************************************************)
EXTENDS ArtNetMerge

MergeTypeOK ==
    /\ a \in [Ports -> Source] /\ b \in [Ports -> Source]
    /\ {merging, ltp, filled, pending, transmitting, started, shown, dropped} \subseteq SUBSET Ports
    /\ slots \in [Ports -> SUBSET Stream]
    /\ mergeMode \in BOOLEAN
    /\ dmxIp \in {s.ip : s \in Stream} \cup {None}
    /\ syncLeft \in 0..SyncTimeout /\ packetAge \in 0..Oldest
    /\ heard \in [Ports -> [Stream -> 0..Oldest]]

Live(source) == source.ip # None
LiveStreams(p) == { s \in Stream : heard[p][s] <= MergeTimeout }

\* As long as a port has two sources the node watches their time-outs, shows
\* the port as merging and ignores ArtSync, whatever the time-outs and the
\* packets of other ports, ArtAddress and the loss of the network did.
MergeWatched ==
    /\ mergeMode => merging # {}
    /\ \A p \in Ports : Live(a[p]) /\ Live(b[p]) => p \in merging /\ mergeMode

\* The two sources of a port are two streams.
TwoStreams ==
    \A p \in Ports : Live(a[p]) /\ Live(b[p]) =>
        <<a[p].ip, a[p].physical>> # <<b[p].ip, b[p].physical>>

\* A packet that is accepted leaves the port with the newest slots (LTP), or
\* with those of every stream heard within the time-out (HTP): none is left out.
\* While the node watches the time-outs there are no others either; the first
\* packet after a lone stream went silent is still merged with its last slots.
MergedOutput ==
    [][\A p \in Ports : \A s \in Streams[p] :
          heard'[p][s] = 0 /\ ArtDmx(p, s) =>
             IF p \in ltp THEN s \in slots'[p]
             ELSE /\ LiveStreams(p)' \subseteq slots'[p]
                  /\ mergeMode => slots'[p] \subseteq LiveStreams(p)']_vars

\* The slots a port took last were given to the DMX transmitter or wait, with
\* their length, for ArtSync: entering and leaving the synchronous mode or a merge
\* loses no packet.  Only the loss of the network does (dropped), which clears the
\* length of a port that waits but not its is_data_pending; its next packet ends it.
ShownOrPending == \A p \in Ports : p \in (pending \cap filled) \cup shown \cup dropped

\* DmxSend::Sync() asserts that the port it is called for has a length.
SyncLength == [][pending' = {} => pending \subseteq filled]_vars
=============================================================================
