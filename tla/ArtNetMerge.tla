---------------------------- MODULE ArtNetMerge ----------------------------
(***************************************************************************)
(* The output ports of the Art-Net node (lib-artnet/src/node/artnetnode    *)
(* .cpp): up to two streams of ArtDmx are merged on a port, each timed out *)
(* by itself; ArtSync delays the output; the loss of the network, ArtRdm   *)
(* and ArtAddress interfere.                                               *)
(*                                                                         *)
(* The slots of a packet are the stream it belongs to; merged slots are    *)
(* the set of streams they come from.                                      *)
(***************************************************************************)
EXTENDS Naturals, FiniteSets

CONSTANTS
    Ports,          \* kMaxPorts, each with a universe of its own
    Streams,        \* Streams[p]: the senders to port p, an address and a physical
    Commanded,      \* the ports that ArtRdm and the merge mode commands are sent to
    MergeTimeout,   \* kMergeTimeoutSeconds
    SyncTimeout,    \* 4 seconds
    LossTimeout     \* kNetworkDataLossTimeout

None == "none"

ASSUME MergeAssumption ==
    /\ Commanded \subseteq Ports
    /\ \A p \in Ports : \A s, t \in Streams[p] :
          s.ip # None /\ (s.ip = t.ip /\ s.physical = t.physical => s = t)
    /\ {MergeTimeout, SyncTimeout, LossTimeout} \subseteq Nat \ {0}

Stream == UNION { Streams[p] : p \in Ports }
NoStream == [ip |-> None, physical |-> 256]
Max2(m, n) == IF m > n THEN m ELSE n
\* Ages are not told apart beyond every timeout.
Oldest == Max2(MergeTimeout + 1, LossTimeout)
Older(age) == IF age < Oldest THEN age + 1 ELSE Oldest

VARIABLES
    a, b,           \* source_a, source_b: ip, physical, age of millis, slots
    merging,        \* ports with kOutputIsMerging
    ltp,            \* ports with kMergeModeLtp
    slots,          \* what dmxnode::Data holds for the port
    filled,         \* ports whose length is not 0
    pending,        \* is_data_pending
    transmitting,   \* is_transmitting
    started,        \* DmxSend::started_
    mergeMode,      \* is_merge_mode
    syncLeft,       \* is_synchronous_mode until art.sync_millis is too long ago
    dmxIp,          \* art.dmx_ip
    packetAge,      \* time since packet_millis_
    shown,          \* ports whose slots were given to the DMX transmitter
    dropped,        \* history: ports that lost their length while data was pending
    heard           \* time since a packet of a stream was accepted on a port

data == <<slots, filled, pending, transmitting, started, shown, dropped>>
vars == <<a, b, merging, ltp, data, mergeMode, syncLeft, dmxIp, packetAge, heard>>

Source == [ip : {s.ip : s \in Stream} \cup {None}, physical : {s.physical : s \in Stream} \cup {256},
           age : 0..Oldest, data : Stream \cup {NoStream}]

Init ==
    /\ a = [p \in Ports |-> [ip |-> None, physical |-> 256, age |-> 0, data |-> NoStream]]
    /\ b = a
    /\ merging = {} /\ ltp = {}
    /\ slots = [p \in Ports |-> {}] /\ shown = Ports /\ dropped = {}
    /\ filled = {} /\ pending = {} /\ transmitting = {} /\ started = {}
    /\ mergeMode = FALSE /\ syncLeft = 0 /\ dmxIp = None
    /\ packetAge = 0
    /\ heard = [p \in Ports |-> [s \in Stream |-> Oldest]]

(***************************************************************************)
(* InputUdp(): every packet stops the clock of the data loss, and ends the *)
(* synchronous mode when the last ArtSync is too long ago: that is, the    *)
(* mode lasts SyncTimeout from an ArtSync.                                 *)
(***************************************************************************)
StillSync == syncLeft > 0

\* Variant that must break MergeWatched: a time-out ends the merge of all ports.
LeaveAlways(rest) == FALSE

\* The node is in merge mode as long as any port merges.
StillMerging(rest) == rest # {}

TimedOut(source) == source.age > MergeTimeout
Expired(source) == IF TimedOut(source) THEN [source EXCEPT !.ip = None] ELSE source

\* CheckMergeTimeouts(port_index): port p after it, and the ports that merge.
Checked(p) ==
    IF ~mergeMode
    THEN [a |-> a[p], b |-> b[p], merging |-> merging, mode |-> FALSE]
    ELSE LET rest == IF TimedOut(a[p]) \/ TimedOut(b[p]) THEN merging \ {p} ELSE merging
         IN  [a |-> Expired(a[p]), b |-> Expired(b[p]), merging |-> rest,
              mode |-> StillMerging(rest)]

(***************************************************************************)
(* HandleDmx()                                                             *)
(***************************************************************************)
\* Variant that must break TwoStreams: the physical is not looked at.
SameAddress(source, s) == source.ip = s.ip
SameStream(source, s) == source.ip = s.ip /\ source.physical = s.physical

\* Which source a packet of stream s is taken for: the nine cases.
Slot(sa, sb, s) ==
    CASE sa.ip = None /\ sb.ip = None -> {"a"}                                   \* 1
      [] sa.ip = s.ip /\ sb.ip = None ->                                         \* 2
            IF sa.physical = s.physical THEN {"a"}
            ELSE IF sb.physical # s.physical THEN {"mergeB"} ELSE {}
      [] sa.ip = None /\ sb.ip = s.ip ->                                         \* 3
            IF sb.physical = s.physical THEN {"b"}
            ELSE IF sa.physical # s.physical THEN {"mergeA"} ELSE {}
      [] sa.ip \notin {None, s.ip} /\ sb.ip = None -> {"mergeB"}                    \* 4
      [] sa.ip = None /\ sb.ip \notin {None, s.ip} -> {"mergeA"}                    \* 5
      [] OTHER ->                                                                \* 6 to 9
            IF SameStream(sa, s) THEN {"mergeA"}
            ELSE IF SameStream(sb, s) THEN {"mergeB"} ELSE {}

Taken(s) == [ip |-> s.ip, physical |-> s.physical, age |-> 0, data |-> s]

\* Variant that must break MergedOutput: the slots of the other source are kept
\* from the packet before.
MergedStale(p, sa, sb, s) == slots[p] \cup {s}

\* dmxnode::Data::MergeSourceA and B
Merged(p, sa, sb, s) == IF p \in ltp THEN {s} ELSE {sa.data, sb.data}

\* Variant that must break ShownOrPending: nothing tells the next ArtSync.
NotPending(p) == shown' = shown \ {p} /\ UNCHANGED <<pending, transmitting, started>>

\* DataSet(), until the next ArtSync.
Buffer(p) ==
    /\ pending' = pending \cup {p} /\ shown' = shown \ {p}
    /\ UNCHANGED <<transmitting, started>>

\* DataOutput(), and Start() on a port that is not transmitting.
Output(p) ==
    /\ shown' = shown \cup {p}
    /\ transmitting' = transmitting \cup {p}
    /\ started' = IF p \in transmitting THEN started ELSE started \cup {p}
    /\ UNCHANGED pending

\* A packet that is taken for a source of its port.
Accept(p, s, c, slot) ==
    LET merge == slot \in {"mergeA", "mergeB"}
        sa == IF slot \in {"a", "mergeA"} THEN Taken(s) ELSE c.a
        sb == IF slot \in {"b", "mergeB"} THEN Taken(s) ELSE c.b
    IN  /\ a' = [a EXCEPT ![p] = sa] /\ b' = [b EXCEPT ![p] = sb]
        /\ merging' = IF merge THEN c.merging \cup {p} ELSE c.merging
        /\ mergeMode' = (c.mode \/ merge)
        /\ slots' = [slots EXCEPT ![p] = IF merge THEN Merged(p, sa, sb, s) ELSE {s}]
        /\ filled' = filled \cup {p} /\ dropped' = dropped \ {p}
        /\ heard' = [heard EXCEPT ![p][s] = 0]
        /\ IF StillSync /\ p \notin merging' THEN Buffer(p) ELSE Output(p)

\* A packet of a third stream: the time-outs were checked all the same.
Discard(p, c) ==
    /\ a' = [a EXCEPT ![p] = c.a] /\ b' = [b EXCEPT ![p] = c.b]
    /\ merging' = c.merging /\ mergeMode' = c.mode
    /\ UNCHANGED <<data, heard>>

ArtDmx(p, s) ==
    /\ LET c == Checked(p)
           choice == Slot(c.a, c.b, s)
       IN  \/ \E slot \in choice : Accept(p, s, c, slot)
           \/ choice = {} /\ Discard(p, c)
    /\ packetAge' = 0 /\ dmxIp' = s.ip
    /\ UNCHANGED <<ltp, syncLeft>>

(***************************************************************************)
(* HandleSync(): from the sender of the last ArtDmx and while no port      *)
(* merges.  The first one only enters the synchronous mode.                *)
(***************************************************************************)
\* Sync(p) for the pending ports and Sync(), which starts those with a length
\* and clears it.  A pending port without one sends a frame without slots (a debug
\* build stops at the assertion that SyncLength states).
Flush ==
    /\ shown' = (shown \cup (pending \cap filled)) \ (pending \ filled)
    /\ transmitting' = transmitting \cup pending
    /\ started' = started \cup filled
    /\ pending' = {} /\ filled' = {}
    /\ UNCHANGED <<slots, dropped>>

ArtSync(ip) ==
    /\ packetAge' = 0
    /\ IF dmxIp = ip /\ ~mergeMode
       THEN syncLeft' = SyncTimeout /\ IF StillSync THEN Flush ELSE UNCHANGED data
       ELSE UNCHANGED <<syncLeft, data>>
    /\ UNCHANGED <<a, b, merging, ltp, mergeMode, dmxIp, heard>>

(***************************************************************************)
(* The other packets.                                                      *)
(***************************************************************************)
Forgotten(source) == [p \in Ports |-> [source[p] EXCEPT !.ip = None]]
Unheard == [p \in Ports |-> [s \in Stream |-> Oldest]]

\* ArtAddress, kCancel
Cancel ==
    /\ a' = Forgotten(a) /\ b' = Forgotten(b)
    /\ merging' = {} /\ mergeMode' = FALSE /\ heard' = Unheard

ArtAddressCancel ==
    /\ Cancel
    /\ packetAge' = 0
    /\ UNCHANGED <<ltp, data, dmxIp, syncLeft>>

\* ArtAddress, kMergeLtpO and kMergeHtp0
ArtAddressMergeMode(p) ==
    /\ ltp' = IF p \in ltp THEN ltp \ {p} ELSE ltp \cup {p}
    /\ packetAge' = 0
    /\ UNCHANGED <<a, b, merging, data, mergeMode, dmxIp, syncLeft, heard>>

\* ArtRdm stops the port; the next ArtDmx starts it again.
ArtRdm(p) ==
    /\ transmitting' = transmitting \ {p}
    /\ started' = IF p \in transmitting THEN started \ {p} ELSE started
    /\ packetAge' = 0
    /\ UNCHANGED <<a, b, merging, ltp, slots, filled, pending, shown, dropped, mergeMode, dmxIp, syncLeft, heard>>

(***************************************************************************)
(* Run(): SetNetworkDataLossCondition() in every turn once no packet came  *)
(* for too long, here with the failsafe that keeps the last state.         *)
(***************************************************************************)
NetworkLost ==
    /\ packetAge >= LossTimeout
    /\ mergeMode' = FALSE /\ syncLeft' = 0
    /\ IF \E p \in Ports : a[p].ip # None \/ b[p].ip # None
       THEN /\ a' = Forgotten(a) /\ b' = Forgotten(b)
            /\ filled' = {} /\ dropped' = dropped \cup pending
            /\ heard' = Unheard
       ELSE UNCHANGED <<a, b, filled, dropped, heard>>
    /\ UNCHANGED <<merging, ltp, slots, pending, transmitting, started, shown, dmxIp, packetAge>>

\* Time passes, and the super-loop turns at least as often.
Aged(source) == [p \in Ports |-> [source[p] EXCEPT !.age = Older(@)]]

Tick ==
    /\ packetAge < LossTimeout \/ (\A p \in Ports : a[p].ip = None /\ b[p].ip = None)
    /\ a' = Aged(a) /\ b' = Aged(b)
    /\ packetAge' = Older(packetAge)
    /\ syncLeft' = IF syncLeft = 0 THEN 0 ELSE syncLeft - 1
    /\ heard' = [p \in Ports |-> [s \in Stream |-> Older(heard[p][s])]]
    /\ UNCHANGED <<merging, ltp, data, mergeMode, dmxIp>>

Next ==
    \/ \E p \in Ports : \E s \in Streams[p] : ArtDmx(p, s)
    \/ \E p \in Commanded : ArtAddressMergeMode(p) \/ ArtRdm(p)
    \/ \E ip \in {s.ip : s \in Stream} : ArtSync(ip)
    \/ ArtAddressCancel \/ NetworkLost \/ Tick

Spec == Init /\ [][Next]_vars
=============================================================================
