---------------------------- MODULE TcpProperties ----------------------------
(***************************************************************************)
(* What a connection of the TCP server guarantees to its two ends.         *)
(***************************************************************************)
EXTENDS Tcp

\* The SYN, the units and the FIN.
Numbers == iss..(iss + MaxSent + 2)

TcpTypeOK ==
    /\ tcb.state \in {"Closed", "SynReceived", "Established", "CloseWait", "LastAck", "Halted"}
    /\ tcb.state # "Closed" =>
          {tcb.una, tcb.nxt} \subseteq Numbers /\ tcb.una <= tcb.nxt /\ tcb.wl2 <= tcb.nxt
    /\ tcb.wnd \in Nat /\ tcb.rcvNxt \in 0..(Requests + 2)
    /\ Len(tcb.rtx) <= UnackMax /\ {tcb.full, tcb.armed} \subseteq BOOLEAN
    /\ {used, others} \subseteq Nat /\ used + others <= Blocks
    /\ iss \in Nat /\ fresh \in BOOLEAN /\ sent + refused \in 0..MaxSent

\* The application is given the units of the peer in their order and each once,
\* whatever the network loses, repeats and reorders, and whichever connection the
\* segments are of, as long as each began above the numbers of those before it:
\* the initial number is a clock in milliseconds, the numbers count bytes.
RequestsOnce == fresh => \A i \in DOMAIN delivered : delivered[i] = i

\* The peer reads the units of the application in their order and none twice,
\* from the first transmission or from the copy kept for retransmission, as
\* long as Send() was not called with units still in the queue, refused none, and
\* each connection began above the numbers of those before it.
ReceivedPrefix ==
    fresh /\ ~overtaken /\ refused = 0 => \A i \in DOMAIN peer.got : peer.got[i] = i

\* The blocks a connection holds are the copies it may send again and the units
\* it has queued: none is lost on any way out of the connection.
PoolAccounted == used = Payloads(tcb.rtx) + Len(tcb.queue)

\* A segment that was sent when the ring was full has no copy: if it is lost, an
\* established connection waits for its acknowledgement for ever.
Untracked == tcb.state = "Established" /\ tcb.rtx = << >> /\ tcb.una # tcb.nxt

\* Nothing else waits for an acknowledgement for ever, SYN and FIN included: it
\* comes or the connection is dropped, and no half-open or half-closed one is
\* kept, unless the assertion of GetFront() has ended the program.
Waiting == tcb.una # tcb.nxt \/ tcb.state \in {"SynReceived", "CloseWait", "LastAck"}
AllAcknowledged == Waiting ~> (~Waiting \/ Untracked \/ tcb.state = "Halted")
=============================================================================
