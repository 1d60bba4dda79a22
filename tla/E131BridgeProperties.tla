------------------------ MODULE E131BridgeProperties ------------------------
(***************************************************************************)
(* What the merge, the priorities and the synchronisation of the sACN      *)
(* bridge guarantee.                                                       *)
(***************************************************************************)
EXTENDS E131Bridge

Source == [id : Stream \cup {None}, age : 0..Oldest]
Level == (UNION { Priorities[p] : p \in Ports }) \cup {0, Lowest}

BridgeTypeOK ==
    /\ a \in [Ports -> Source] /\ b \in [Ports -> Source]
    /\ {merging, transmitting, pending, filled, shown, dropped} \subseteq SUBSET Ports
    /\ slots \in [Ports -> SUBSET Stream]
    /\ priority \in Level
    /\ {mergeMode, synchronized, forced, lost} \subseteq BOOLEAN
    /\ {syncA, syncB} \subseteq SyncAddresses \cup {0}
    /\ {syncAge, packetAge} \subseteq 0..LossTimeout
    /\ heard \in [Ports -> [Stream -> [age : 0..Oldest, priority : Level]]]

\* A port with two sources merges two different streams and is marked, so that
\* their time-outs are looked at again, although the cases of HandleDmx() are
\* told apart by what the sources were before time-outs and priority cleared
\* them.
SourcesWatched ==
    \A p \in Ports : a[p].id # None /\ b[p].id # None => p \in merging /\ a[p].id # b[p].id

\* The slots a port took last were given to the DMX transmitter or wait, with
\* their length, for a synchronisation packet: entering and leaving the
\* synchronised state and its time-out lose no packet.  What does (dropped) is
\* the end of a stream or of the network while the port waits, which clears the
\* length but not is_data_pending, and a third stream on a port whose length the
\* last synchronisation cleared; the next packet of its own streams ends it.
ShownOrWaiting == \A p \in Ports : p \in (pending \cap filled) \cup shown \cup dropped

\* A packet is not accepted while a source of the port is of higher priority and
\* was heard within the time-out, wherever the changes of priority, the
\* time-outs and the ends of streams come.
PriorityKept ==
    [][\A p \in Ports : \A s \in Streams[p] :
          heard'[p][s].age = 0 /\ heard'[p][s] # heard[p][s] =>
             \A t \in {a[p].id, b[p].id} \ {s, None} :
                heard[p][t].age < PriorityTimeout => heard[p][t].priority <= heard'[p][s].priority]_vars

\* A stream that fell silent leaves the slots of a port to which another keeps
\* sending, although it is another packet, perhaps of another port, that looks
\* at the time-outs, and only in merge mode: as long as the priority stays and
\* the network is not lost, which both end the merge mode under other ports.
SilentLeaves ==
    \A p \in Ports : \A s, t \in Streams[p] :
        /\ s # t /\ []<>(heard[p][s].age = 0) /\ []<>(heard[p][s].age # 0)
        /\ <>[](heard[p][s].age <= MergeTimeout) /\ <>[](heard[p][t].age > MergeTimeout)
        /\ <>[](~lost) /\ <>[][priority' = priority]_vars
        => <>[](t \notin slots[p])
=============================================================================
