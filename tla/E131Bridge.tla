----------------------------- MODULE E131Bridge -----------------------------
(***************************************************************************)
(* The output ports of the sACN bridge (lib-e131/src/node/e131bridge.cpp): *)
(* up to two streams are merged on a port, a stream of higher priority     *)
(* takes the port over, a terminated or silent one is forgotten, and       *)
(* universe synchronisation holds the output back.  The priority, the      *)
(* merge mode and the synchronisation are kept once for all ports.         *)
(*                                                                         *)
(* The slots of a packet are the stream it belongs to; merged slots are    *)
(* the set of streams they come from.                                      *)
(***************************************************************************)
EXTENDS Naturals, FiniteSets

CONSTANTS
    Ports,            \* the output ports, each with a universe of its own
    Streams,          \* Streams[p]: the senders (address and CID) to that universe
    Priorities,       \* Priorities[p]: of the packets of that universe
    Ltp,              \* ports whose merge mode is kLtp
    SyncAddresses,    \* synchronisation addresses, without 0
    MergeTimeout,     \* kMergeTimeoutSeconds
    PriorityTimeout,  \* kPriorityTimeoutSeconds
    LossTimeout       \* kNetworkDataLossTimeoutSeconds

None == "none"
Lowest == 1           \* e131::priority::kLowest
Stream == UNION { Streams[p] : p \in Ports }

ASSUME BridgeAssumption ==
    /\ None \notin Stream /\ Ltp \subseteq Ports
    /\ \A p \in Ports : Priorities[p] \subseteq Nat
    /\ SyncAddresses \subseteq Nat \ {0}
    /\ {MergeTimeout, PriorityTimeout, LossTimeout} \subseteq Nat \ {0}

VARIABLES
    a, b,           \* source_a, source_b: ip and cid, age of millis
    merging,        \* ports with is_merging
    transmitting,   \* ports with is_transmitting
    pending,        \* ports with is_data_pending
    slots,          \* what dmxnode::Data holds for the port
    filled,         \* ports for which it also holds a length, other than 0
    shown,          \* ports whose slots were given to the DMX transmitter
    dropped,        \* history: ports that wait, or are sent, without a length
    priority,       \* state_.priority
    mergeMode,      \* state_.is_merge_mode
    synchronized,   \* state_.is_synchronized
    forced,         \* state_.is_forced_synchronized
    syncA, syncB,   \* state_.synchronization_address_source_a and _b
    syncAge,        \* time since state_.synchronization_time
    packetAge,      \* time since packet_millis_
    lost,           \* state_.is_network_data_loss
    heard           \* time since a packet of a stream was accepted, its priority

output == <<transmitting, pending, slots, filled, shown, dropped>>
sync == <<synchronized, forced, syncA, syncB, syncAge>>
vars == <<a, b, merging, output, priority, mergeMode, sync, packetAge, lost, heard>>

\* Ages are not told apart beyond every timeout.
Oldest == CHOOSE n \in {MergeTimeout + 1, PriorityTimeout + 1, LossTimeout} :
              \A m \in {MergeTimeout + 1, PriorityTimeout + 1, LossTimeout} : m <= n

Older(age) == IF age < Oldest THEN age + 1 ELSE Oldest
Longer(age) == IF age < LossTimeout THEN age + 1 ELSE LossTimeout

Silent == [age |-> Oldest, priority |-> 0]

\* What was heard, a tick later: its priority counts within the time-out only.
Later(h) == [age |-> Older(h.age),
             priority |-> IF Older(h.age) < PriorityTimeout THEN h.priority ELSE 0]

Init ==
    /\ a = [p \in Ports |-> [id |-> None, age |-> 0]]
    /\ b = a
    /\ merging = {} /\ transmitting = {} /\ pending = {} /\ shown = Ports
    /\ slots = [p \in Ports |-> {}] /\ filled = {} /\ dropped = {}
    /\ priority = Lowest
    /\ mergeMode = FALSE /\ synchronized = FALSE /\ forced = FALSE
    /\ syncA = 0 /\ syncB = 0 /\ syncAge = 0
    /\ packetAge = 0 /\ lost = FALSE
    /\ heard = [p \in Ports |-> [s \in Stream |-> Silent]]

(***************************************************************************)
(* InputUdp(): every packet of the protocol stops the clock of the data    *)
(* loss and ends a synchronisation whose packets stay away, unless it is   *)
(* forced.                                                                 *)
(***************************************************************************)
StillSync == synchronized /\ (forced \/ syncAge < LossTimeout)

Arrival == packetAge' = 0 /\ lost' = FALSE

\* Out of sequence, for preview only, or of a universe no port has.
Ignored ==
    /\ Arrival /\ synchronized' = StillSync
    /\ UNCHANGED <<a, b, merging, output, priority, mergeMode, forced, syncA, syncB, syncAge, heard>>

(***************************************************************************)
(* HandleDmx(): time-outs and priority.                                    *)
(***************************************************************************)
TimedOut(source) == source.age > MergeTimeout
Gone(source) == [source EXCEPT !.id = None]

\* Variant that must break SilentLeaves: a silent source stays.
Staying(source) == source
Expired(source) == IF TimedOut(source) THEN Gone(source) ELSE source

\* CheckMergeTimeouts(port_index): port p after it, and the merge state.
Checked(p) ==
    IF ~mergeMode
    THEN [a |-> a[p], b |-> b[p], merging |-> merging, mode |-> FALSE]
    ELSE LET rest == IF TimedOut(a[p]) \/ TimedOut(b[p]) THEN merging \ {p} ELSE merging
         IN  [a |-> Expired(a[p]), b |-> Expired(b[p]), merging |-> rest, mode |-> rest # {}]

\* Variant that must break PriorityKept: one silent source of two is enough.
AnyTimedOut(c) ==
    \E source \in {c.a, c.b} : source.id # None /\ source.age >= PriorityTimeout

\* IsPriorityTimeOut(): never on a port without a source.
PriorityTimedOut(c) ==
    CASE c.a.id # None /\ c.b.id # None -> c.a.age >= PriorityTimeout /\ c.b.age >= PriorityTimeout
      [] c.a.id # None /\ c.b.id = None -> c.a.age > PriorityTimeout
      [] c.a.id = None /\ c.b.id # None -> c.b.age > PriorityTimeout
      [] OTHER -> FALSE

Refused(p, prio) == prio < priority /\ ~PriorityTimedOut(Checked(p))

\* A higher priority than that of the bridge forgets the sources of the port.
Ranked(c, prio) ==
    IF prio > priority THEN [c EXCEPT !.a = Gone(c.a), !.b = Gone(c.b), !.mode = FALSE] ELSE c

(***************************************************************************)
(* HandleDmx(): the sources.  Which of the nine cases it is was settled    *)
(* before the time-outs and the priority changed them.                     *)
(***************************************************************************)
Role(p, s) ==
    LET idA == a[p].id
        idB == b[p].id
    IN  CASE idA = None /\ idB = None -> "first"
          [] idA = s /\ idB = None -> "a"
          [] idA = None /\ idB = s -> "b"
          [] idA \notin {None, s} /\ idB = None -> "newB"
          [] idA = None /\ idB \notin {None, s} -> "newA"
          [] idA = s /\ idB \notin {None, s} -> "mergeA"
          [] idA \notin {None, s} /\ idB = s -> "mergeB"
          [] OTHER -> "other"

Taken(s) == [id |-> s, age |-> 0]
Continued(source) == [source EXCEPT !.age = 0]

\* Variant that must break SourcesWatched: the port is not marked.
Unmarked(p, ports) == ports

\* UpdateMergeStatus()
Marked(p, ports) == ports \cup {p}

\* dmxnode::Data::MergeSourceA and B: the buffer of the other source has what it
\* sent last, also when the time-out or the priority has just forgotten it.
Merged(p, s) == IF p \in Ltp THEN {s} ELSE ({a[p].id, b[p].id} \ {None}) \cup {s}

(***************************************************************************)
(* HandleDmx(): synchronisation and output.                                *)
(***************************************************************************)
\* A packet that forces synchronisation off: its address is not looked at.
Forcing == [force |-> TRUE, address |-> 0]
Option == {Forcing} \cup [force : {FALSE}, address : SyncAddresses \cup {0}]

\* SetSynchronizationAddress(): of the source the packet came from, or, when it
\* came from none, of source_a or else source_b if there is one now.
Synchronize(p, s, sa, sb, option) ==
    LET needed == option.address # 0
        known == s \in {a[p].id, b[p].id}
        ofA == IF known THEN a[p].id = s ELSE sa.id # None
        ofB == ~ofA /\ IF known THEN b[p].id = s ELSE sb.id # None
    IN  /\ synchronized' = (StillSync \/ (needed /\ ~forced))
        /\ forced' = IF option.force THEN FALSE ELSE forced \/ needed
        /\ syncA' = IF needed /\ ~forced /\ ofA THEN option.address ELSE syncA
        /\ syncB' = IF needed /\ ~forced /\ ofB THEN option.address ELSE syncB
        /\ UNCHANGED syncAge

\* Variant that must break ShownOrWaiting: nothing tells the next
\* synchronisation packet.
NotPending(p) == shown' = shown \ {p} /\ UNCHANGED <<pending, transmitting>>

\* DataSet(), until the next synchronisation packet.
Buffer(p) ==
    /\ pending' = pending \cup {p} /\ shown' = shown \ {p}
    /\ UNCHANGED transmitting

\* DataOutput(), and Start().  Without a length the frame is empty.
Output(p) ==
    /\ shown' = IF p \in filled' THEN shown \cup {p} ELSE shown \ {p}
    /\ transmitting' = transmitting \cup {p}
    /\ UNCHANGED pending

\* A packet of stream s that is in sequence and not refused.  A third stream
\* changes no source; the release build then shows the old slots once more, or
\* none when the last synchronisation has cleared their length.
Accept(p, s, prio, option) ==
    LET c == Ranked(Checked(p), prio)
        role == Role(p, s)
        merge == role \in {"newA", "newB", "mergeA", "mergeB"}
        sa == CASE role \in {"first", "newA"} -> Taken(s)
                [] role \in {"a", "mergeA"} -> Continued(c.a)
                [] OTHER -> c.a
        sb == CASE role = "newB" -> Taken(s)
                [] role \in {"b", "mergeB"} -> Continued(c.b)
                [] OTHER -> c.b
    IN  /\ a' = [a EXCEPT ![p] = sa] /\ b' = [b EXCEPT ![p] = sb]
        /\ merging' = IF merge THEN Marked(p, c.merging) ELSE c.merging
        /\ mergeMode' = (c.mode \/ merge)
        /\ slots' = [slots EXCEPT ![p] = CASE merge -> Merged(p, s)
                                           [] role = "other" -> @
                                           [] OTHER -> {s}]
        /\ filled' = IF role = "other" THEN filled ELSE filled \cup {p}
        /\ dropped' = IF p \in filled' THEN dropped \ {p} ELSE dropped \cup {p}
        /\ heard' = IF role = "other" THEN heard
                    ELSE [heard EXCEPT ![p][s] = [age |-> 0, priority |-> prio]]
        /\ Synchronize(p, s, sa, sb, option)
        /\ IF synchronized' THEN Buffer(p) ELSE Output(p)

\* Of lower priority than the bridge has: the time-outs were checked all the same.
Refuse(p) ==
    LET c == Checked(p)
    IN  /\ a' = [a EXCEPT ![p] = c.a] /\ b' = [b EXCEPT ![p] = c.b]
        /\ merging' = c.merging /\ mergeMode' = c.mode
        /\ synchronized' = StillSync
        /\ UNCHANGED <<output, priority, forced, syncA, syncB, syncAge, heard>>

DmxPacket(p, s, prio, option) ==
    /\ Arrival
    /\ \/ Refused(p, prio) /\ Refuse(p)
       \/ ~Refused(p, prio) /\ priority' = prio /\ Accept(p, s, prio, option)

(***************************************************************************)
(* The end of streams.                                                     *)
(***************************************************************************)
\* SetNetworkDataLossCondition() of one source forgets that source of every
\* port that transmits, and while no port merges it stops them and clears the
\* length of their slots, though not the mark of those that are pending.
StreamTerminated(p, s) ==
    LET ofA == a[p].id = s
        ofB == b[p].id = s
        Dropped(q) == IF q \notin transmitting THEN {}
                      ELSE (IF ofA THEN {a[q].id} ELSE {}) \cup (IF ofB THEN {b[q].id} ELSE {})
    IN  /\ ofA \/ ofB
        /\ Arrival /\ synchronized' = StillSync
        /\ a' = [q \in Ports |-> IF q \in transmitting /\ ofA THEN Gone(a[q]) ELSE a[q]]
        /\ b' = [q \in Ports |-> IF q \in transmitting /\ ofB THEN Gone(b[q]) ELSE b[q]]
        /\ merging' = { q \in merging : Dropped(q) \subseteq {None} }
        /\ IF mergeMode
           THEN UNCHANGED <<transmitting, filled, dropped>>
           ELSE /\ transmitting' = {} /\ filled' = filled \ transmitting
                /\ dropped' = dropped \cup (pending \cap transmitting)
        /\ heard' = [q \in Ports |-> [t \in Stream |->
                        IF t \in Dropped(q) THEN Silent ELSE heard[q][t]]]
        /\ UNCHANGED <<pending, slots, shown, priority, mergeMode, forced, syncA, syncB, syncAge>>

\* Run(): no packet came for too long, here with the failsafe kHold.
NetworkLost ==
    /\ packetAge >= LossTimeout /\ ~lost
    /\ lost' = TRUE /\ mergeMode' = FALSE /\ synchronized' = FALSE /\ forced' = FALSE
    /\ priority' = Lowest
    /\ a' = [p \in Ports |-> IF p \in transmitting THEN Gone(a[p]) ELSE a[p]]
    /\ b' = [p \in Ports |-> IF p \in transmitting THEN Gone(b[p]) ELSE b[p]]
    /\ merging' = merging \ transmitting /\ transmitting' = {}
    /\ filled' = filled \ transmitting /\ dropped' = dropped \cup (pending \cap transmitting)
    /\ heard' = [p \in Ports |-> [s \in Stream |-> [heard[p][s] EXCEPT !.priority = 0]]]
    /\ UNCHANGED <<pending, slots, shown, syncA, syncB, syncAge, packetAge>>

(***************************************************************************)
(* HandleSynchronization(): Sync(p) for the pending ports, then Sync(),    *)
(* which clears every length.  A port without one sends an empty frame     *)
(* (a debug build stops at the assertion of DmxSend::Sync).                *)
(***************************************************************************)
SyncPacket(address) ==
    /\ Arrival /\ synchronized' = StillSync
    /\ IF address \in {syncA, syncB}
       THEN /\ syncAge' = 0
            /\ shown' = (shown \cup (pending \cap filled)) \ (pending \ filled)
            /\ transmitting' = transmitting \cup pending
            /\ pending' = {} /\ filled' = {}
       ELSE UNCHANGED <<syncAge, shown, transmitting, pending, filled>>
    /\ UNCHANGED <<a, b, merging, slots, dropped, priority, mergeMode, forced, syncA, syncB, heard>>

\* Time passes, and the super-loop turns at least as often.
Aged(source) == [p \in Ports |-> [source[p] EXCEPT !.age = Older(@)]]

Tick ==
    /\ packetAge < LossTimeout \/ lost
    /\ a' = Aged(a) /\ b' = Aged(b)
    /\ packetAge' = Longer(packetAge) /\ syncAge' = Longer(syncAge)
    /\ heard' = [p \in Ports |-> [s \in Stream |-> Later(heard[p][s])]]
    /\ UNCHANGED <<merging, output, priority, mergeMode, synchronized, forced, syncA, syncB, lost>>

AnyDmxPacket(p) ==
    \E s \in Streams[p], prio \in Priorities[p], option \in Option : DmxPacket(p, s, prio, option)

Next ==
    \/ \E p \in Ports : AnyDmxPacket(p) \/ (\E s \in Streams[p] : StreamTerminated(p, s))
    \/ \E address \in SyncAddresses : SyncPacket(address)
    \/ Ignored \/ NetworkLost \/ Tick

Spec == Init /\ [][Next]_vars
=============================================================================
