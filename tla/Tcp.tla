-------------------------------- MODULE Tcp --------------------------------
(***************************************************************************)
(* One connection of the TCP server (lib-network/src/core/tcp.cpp) as the  *)
(* HTTP daemon uses it: Listen(), Input(), Run(), Send() and Abort().  The *)
(* network loses, repeats, delays and reorders segments.                   *)
(*                                                                         *)
(* A unit is a byte of the peer and a full segment of the node; SYN, FIN   *)
(* and a unit consume one sequence number each.  The peer's sequence       *)
(* numbers are 0 (SYN), 1..Requests and Requests + 1 (FIN).                *)
(***************************************************************************)
EXTENDS Integers, Sequences, FiniteSets

CONSTANTS
    UnackMax,       \* kTcpUnackMax
    RtxMaxRetry,    \* kTcpRtxMaxRetry
    Blocks,         \* kBlocks, the pool shared by all connections
    Others,         \* the most blocks other connections take
    RcvWnd,         \* kAdvertisedRxWnd
    Windows,        \* the windows the peer advertises
    Requests,       \* units the peer sends before its FIN
    Answers,        \* lengths of the two Send() of one callback: header, body
    MaxSent,        \* bound on the units given to Send()
    MaxAccepts,     \* bound on the connections accepted from the peer's SYN
    Gaps            \* milliseconds from one connection to the next

ASSUME TcpAssumption ==
    /\ {UnackMax, RtxMaxRetry, Blocks, Others, Requests, MaxSent, MaxAccepts} \subseteq Nat
    /\ Others <= Blocks /\ UnackMax > 0
    /\ RcvWnd \in Nat /\ Requests < RcvWnd
    /\ Windows \subseteq Nat /\ Gaps \subseteq Nat /\ Answers \subseteq Nat \X Nat

VARIABLES
    tcb,            \* the Tcb of the connection
    used,           \* blocks of the pool held by this connection
    others,         \* blocks held by the other connections
    accepts,        \* connections accepted
    iss,            \* the initial send sequence number of the last one
    fresh,          \* no connection began at a number an earlier one had used
    sent,           \* units that Send() sent or queued
    refused,        \* units that it did not; the units given to it are numbered
    delivered,      \* requests handed to the application
    overtaken,      \* a unit was sent while earlier ones were queued
    wire,           \* [seq, what] of the segments that consumed a number
    peer            \* the other end

node == <<tcb, used, accepts, iss, fresh, sent, refused, delivered, overtaken, wire>>
vars == <<node, others, peer>>

\* A Tcb that is not in use.
Closed == [state |-> "Closed", una |-> 0, nxt |-> 0, wnd |-> 0, wl1 |-> 0, wl2 |-> 0,
           rcvNxt |-> 0, queue |-> << >>, full |-> FALSE, rtx |-> << >>, armed |-> FALSE]

Init ==
    /\ tcb = Closed /\ used = 0 /\ others = 0
    /\ accepts = 0 /\ iss = 0 /\ fresh = TRUE
    /\ sent = 0 /\ refused = 0 /\ delivered = << >> /\ overtaken = FALSE /\ wire = {}
    /\ peer = [nxt |-> 1, acks |-> <<0>>, rcvNxt |-> 0, got |-> << >>, finished |-> FALSE,
               reset |-> FALSE]

\* TcpInitTcb(): the initial send sequence number is the clock, in milliseconds;
\* numbers are counted from that of the first connection.
ISS == IF accepts = 0 THEN {iss} ELSE { iss + gap : gap \in Gaps }

\* The clock went on faster than the numbers: those of the connections before,
\* and the acknowledgements of them, are all below n.
Unused(n) == \A w \in wire : w.seq + 1 < n

(***************************************************************************)
(* The pool, SendSegment() and the queue of unacknowledged segments.  A    *)
(* handler maps a record h of what it changes to the next one.             *)
(***************************************************************************)
Handler == [t |-> tcb, used |-> used, sent |-> sent, refused |-> refused, wire |-> wire,
            delivered |-> delivered, overtaken |-> overtaken]
Becomes(next) ==
    \E h \in {next} :
        /\ tcb' = h.t /\ used' = h.used /\ sent' = h.sent /\ refused' = h.refused
        /\ wire' = h.wire /\ delivered' = h.delivered /\ overtaken' = h.overtaken

Free(h) == Blocks - (h.used + others)
NoUnit == 0
Payloads(rtx) == Cardinality({ i \in DOMAIN rtx : rtx[i].unit # NoUnit })
Least(m, n) == IF m <= n THEN m ELSE n

\* Variant that must break TcpTypeOK: the ring is overrun.
RoomOverrun(h) == UnackMax + 1 - Len(h.t.rtx)

Room(h) == UnackMax - Len(h.t.rtx)

\* Segments that consume a number each are sent, and tracked as long as there is
\* room: those in "copied" with a copy of their payload.  Pure acknowledgements
\* change nothing here.
SendSegments(h, what, units, copied) ==
    LET tracked == 1 .. Least(Len(units), Room(h))
        number(i) == h.t.nxt + i - 1
    IN  [h EXCEPT !.wire = @ \cup { [seq |-> number(i), what |-> what, unit |-> units[i]] :
                                     i \in 1..Len(units) },
                  !.t.rtx = @ \o [i \in tracked |->
                                    [seq |-> number(i), what |-> what, retries |-> 0,
                                     unit |-> IF i \in copied THEN units[i] ELSE NoUnit]],
                  !.t.armed = @ \/ (tracked # {} /\ h.t.rtx = << >>),
                  !.t.nxt = @ + Len(units),
                  !.used = @ + Cardinality(copied \cap tracked)]

SendControl(h, what) == SendSegments(h, what, <<NoUnit>>, {})

SendData(h, units, copied) ==
    [SendSegments(h, "data", units, copied) EXCEPT !.t.wnd = @ - Len(units)]

\* Variant that must break PoolAccounted: the copies are not given back.
AckedNotFreed(h, rest) == [h EXCEPT !.t.rtx = rest, !.t.armed = rest # << >>]

Acked(h, rest) ==
    [h EXCEPT !.t.rtx = rest, !.t.armed = rest # << >>,
              !.used = @ - (Payloads(h.t.rtx) - Payloads(rest))]

\* The ring is in the order of the numbers: what is acknowledged is in front.
RtxOnAck(h, ack) ==
    LET n == Cardinality({ i \in DOMAIN h.t.rtx : h.t.rtx[i].seq + 1 <= ack })
    IN  Acked(h, SubSeq(h.t.rtx, n + 1, Len(h.t.rtx)))

\* FreeTcb(): RtxClear() and the queue's Clear().
FreeTcb(h) == [h EXCEPT !.t = Closed, !.used = @ - Payloads(h.t.rtx) - Len(h.t.queue)]

(***************************************************************************)
(* Send(): everything, or into the queue if there is nothing in it.        *)
(***************************************************************************)
IsEmpty(h) == ~h.t.full /\ h.t.queue = << >>

\* The number of the i-th unit of this call.
Unit(h, i) == h.sent + h.refused + i

\* The units are pushed until the pool refuses one: the queue is full then, and
\* Send() returns -2, or 1 if it was the last.  Its caller does not look.
Push(h, length) ==
    LET n == Least(length, Free(h))
    IN  [h EXCEPT !.t.queue = [i \in 1..n |-> Unit(h, i)], !.t.full = n < length,
                  !.used = @ + n, !.sent = @ + n, !.refused = @ + (length - n)]

\* There are copies as long as the pool has blocks.
SendNow(h, length) ==
    LET k == [h EXCEPT !.sent = @ + length,
                       !.overtaken = @ \/ (length > 0 /\ h.t.queue # << >>)]
    IN  SendData(k, [i \in 1..length |-> Unit(h, i)], 1..Free(h))

Send(h, length) ==
    IF length <= h.t.wnd THEN SendNow(h, length)
    ELSE IF IsEmpty(h) THEN Push(h, length)
    ELSE [h EXCEPT !.refused = @ + length]

\* The application's callback: an answer in two Send().
Answer(h, lengths) == Send(Send(h, lengths[1]), lengths[2])

(***************************************************************************)
(* The segments of the peer.  Delayed copies arrive as well: an            *)
(* acknowledgement may be any that the peer gave with that number.         *)
(***************************************************************************)
NoAck == 0
Kinds == {"ack", "data", "fin", "rst"}
Segments ==
    { s \in [kind : Kinds, seq : 1..peer.nxt, ack : 0..peer.rcvNxt] :
        /\ peer.rcvNxt > 0
        /\ \/ /\ s.kind = "ack"
              /\ s.ack >= peer.acks[s.seq] /\ (s.seq < peer.nxt => s.ack <= peer.acks[s.seq + 1])
           \/ /\ s.kind = (IF s.seq <= Requests THEN "data" ELSE "fin")
              /\ s.seq < peer.nxt /\ s.ack >= peer.acks[s.seq + 1]
           \/ s.kind = "rst" /\ peer.reset /\ s.seq = peer.nxt /\ s.ack = NoAck }

(***************************************************************************)
(* Input()                                                                 *)
(***************************************************************************)
Acceptable(t, s) == t.rcvNxt <= s.seq /\ s.seq < t.rcvNxt + RcvWnd

\* Update of the send window from newer segments only.
Window(t, s, wnd) ==
    IF t.wl1 < s.seq \/ (t.wl1 = s.seq /\ t.wl2 <= s.ack)
    THEN [t EXCEPT !.wnd = wnd, !.wl1 = s.seq, !.wl2 = s.ack] ELSE t

\* The acknowledgement field in ESTABLISHED and CLOSE-WAIT.
Acknowledge(h, s, wnd) ==
    IF h.t.una < s.ack /\ s.ack <= h.t.nxt
    THEN LET k == RtxOnAck(h, s.ack) IN [k EXCEPT !.t = Window([@ EXCEPT !.una = s.ack], s, wnd)]
    ELSE IF h.t.una = s.ack THEN [h EXCEPT !.t = Window(@, s, wnd)] ELSE h

\* FIN: acknowledged and taken at RCV.NXT.
Fin(h) ==
    [h EXCEPT !.t.rcvNxt = @ + 1,
              !.t.state = IF @ = "LastAck" THEN "LastAck" ELSE "CloseWait"]

\* A bare SYN for a port that is listened on.
Accept ==
    /\ tcb.state = "Closed" /\ accepts < MaxAccepts
    /\ accepts' = accepts + 1
    /\ \E n \in ISS :
          /\ iss' = n /\ fresh' = (fresh /\ Unused(n))
          /\ Becomes(SendControl([Handler EXCEPT !.t = [Closed EXCEPT !.state = "SynReceived",
                                                          !.una = n, !.wl2 = n, !.nxt = n,
                                                          !.rcvNxt = 1]], "SYN"))
    /\ UNCHANGED <<others, peer>>

\* Out of the window only RST has an effect.
Reset ==
    /\ \E s \in Segments : s.kind = "rst"
    /\ tcb.state \notin {"Closed", "Halted"}
    /\ Becomes(FreeTcb(Handler))
    /\ UNCHANGED <<accepts, iss, fresh, others, peer>>

\* The acknowledgement of the SYN; data with it is left to be sent again.
Establish(s, wnd) ==
    /\ tcb.state = "SynReceived" /\ s.kind \in {"ack", "data", "fin"} /\ Acceptable(tcb, s)
    /\ IF tcb.una <= s.ack /\ s.ack <= tcb.nxt
       THEN Becomes([RtxOnAck(Handler, s.ack) EXCEPT
                        !.t.wnd = wnd, !.t.wl1 = s.seq, !.t.wl2 = s.ack, !.t.una = s.ack,
                        !.t.state = "Established"])
       ELSE s.kind = "fin" /\ Becomes(Fin(Handler))
    /\ UNCHANGED <<accepts, iss, fresh, others, peer>>

ReceiveAck(s, wnd) ==
    /\ tcb.state \in {"Established", "CloseWait"} /\ Acceptable(tcb, s)
    /\ s.kind = "ack" \/ (s.kind = "data" /\ (tcb.state = "CloseWait" \/ s.seq # tcb.rcvNxt))
    /\ Becomes(Acknowledge(Handler, s, wnd))
    /\ UNCHANGED <<accepts, iss, fresh, others, peer>>

\* Variant that must break RequestsOnce: data is taken anywhere in the window.
AnyInWindow(s) == Acceptable(tcb, s)

\* No out-of-order segments: the data is exactly at RCV.NXT.
InOrder(s) == s.seq = tcb.rcvNxt

\* Data, with the callback of the application: it answers, or it gives up.
Delivered(s, wnd) ==
    LET h == Acknowledge(Handler, s, wnd)
    IN  [h EXCEPT !.t.rcvNxt = @ + 1, !.delivered = Append(@, s.seq)]

ReceiveData(s, wnd) ==
    /\ tcb.state = "Established" /\ s.kind = "data" /\ InOrder(s)
    /\ \/ \E lengths \in Answers :
             /\ sent + refused + lengths[1] + lengths[2] <= MaxSent
             /\ Becomes(Answer(Delivered(s, wnd), lengths))
       \/ Becomes(FreeTcb(Delivered(s, wnd)))           \* Abort()
    /\ UNCHANGED <<accepts, iss, fresh, others, peer>>

ReceiveFin(s, wnd) ==
    /\ tcb.state \in {"Established", "CloseWait"} /\ s.kind = "fin" /\ Acceptable(tcb, s)
    /\ Becomes(Fin(Acknowledge(Handler, s, wnd)))
    /\ UNCHANGED <<accepts, iss, fresh, others, peer>>

\* LAST-ACK waits for the acknowledgement of the FIN.
LastAck(s) ==
    /\ tcb.state = "LastAck" /\ s.kind \in {"ack", "data", "fin"} /\ Acceptable(tcb, s)
    /\ IF s.ack = tcb.nxt THEN Becomes(FreeTcb(Handler))
       ELSE s.kind = "fin" /\ Becomes(Fin(Handler))
    /\ UNCHANGED <<accepts, iss, fresh, others, peer>>

(***************************************************************************)
(* Run()                                                                   *)
(***************************************************************************)
SendFin(h) ==
    IF h.t.state # "CloseWait" THEN h
    ELSE [SendControl(h, "FIN") EXCEPT !.t.state = "LastAck"]

\* The queue refused its first unit: it is not IsEmpty() and has no first unit.
FrontMissing(h) == h.t.full /\ h.t.queue = << >>

\* SendData() copies a unit before Pop() gives its block back: the first finds no
\* block in a pool that is exhausted, the others that of the one before.
Flush(h) ==
    LET n == Least(Len(h.t.queue), h.t.wnd)
        copied == (IF Free(h) > 0 THEN 1 ELSE 2) .. n
    IN  [SendData(h, SubSeq(h.t.queue, 1, n), copied) EXCEPT
            !.t.queue = SubSeq(@, n + 1, Len(@)), !.t.full = @ /\ n = 0, !.used = @ - n]

\* Variant that must break AllAcknowledged: the tries are not counted.
NotCounted(r) == r

Tried(r) == [r EXCEPT !.retries = @ + 1]

\* Variant that must break ReceivedPrefix: the number is that of the next segment.
ResentNext(h, r) == [seq |-> h.t.nxt, what |-> r.what, unit |-> r.unit]

Resent(h, r) == [seq |-> r.seq, what |-> r.what, unit |-> r.unit]

\* The oldest segment again; a copy that was not made is sent without payload.
Retransmit(h) ==
    LET r == Tried(Head(h.t.rtx))
        again == IF r.what = "data" /\ r.unit = NoUnit THEN {} ELSE {Resent(h, r)}
        k == [h EXCEPT !.wire = @ \cup again, !.t.rtx[1] = r]
    IN  IF r.retries > RtxMaxRetry THEN FreeTcb(k) ELSE k

\* late: the time-out of the oldest segment has passed.
Run(late) ==
    /\ tcb.state \notin {"Closed", "Halted"} /\ ~FrontMissing(Handler)
    /\ \E h \in {Flush(SendFin(Handler))} :
           IF late /\ h.t.rtx # << >> /\ h.t.armed THEN Becomes(Retransmit(h)) ELSE Becomes(h)
    /\ UNCHANGED <<accepts, iss, fresh, others, peer>>

\* GetFront() asserts a first unit: the program ends.
Halt ==
    /\ tcb.state \notin {"Closed", "Halted"} /\ FrontMissing(Handler)
    /\ Becomes([SendFin(Handler) EXCEPT !.t.state = "Halted"])
    /\ UNCHANGED <<accepts, iss, fresh, others, peer>>

(***************************************************************************)
(* The environment: other connections and the peer.                        *)
(***************************************************************************)
OtherConnections ==
    /\ others' \in { n \in 0..Others : n + used <= Blocks }
    /\ UNCHANGED <<node, peer>>

PeerSends ==
    /\ peer.rcvNxt > 0 /\ ~peer.reset /\ peer.nxt <= Requests + 1
    /\ peer' = [peer EXCEPT !.nxt = @ + 1, !.acks = Append(@, peer.rcvNxt)]
    /\ UNCHANGED <<node, others>>

PeerReceives(w) ==
    /\ IF peer.rcvNxt = 0 THEN w.what = "SYN" ELSE w.seq = peer.rcvNxt
    /\ ~peer.finished /\ ~peer.reset
    /\ peer' = [peer EXCEPT !.rcvNxt = w.seq + 1, !.finished = w.what = "FIN",
                            !.acks = IF peer.rcvNxt = 0 THEN <<w.seq + 1>> ELSE @,
                            !.got = IF w.what = "data" THEN Append(@, w.unit) ELSE @]
    /\ UNCHANGED <<node, others>>

PeerResets ==
    /\ peer.rcvNxt > 0 /\ peer' = [peer EXCEPT !.reset = TRUE]
    /\ UNCHANGED <<node, others>>

Input ==
    \E s \in Segments, wnd \in Windows :
        \/ Establish(s, wnd) \/ ReceiveAck(s, wnd) \/ ReceiveData(s, wnd)
        \/ ReceiveFin(s, wnd) \/ LastAck(s)

Next ==
    \/ Accept \/ Reset \/ Input
    \/ \E late \in BOOLEAN : Run(late)
    \/ Halt \/ OtherConnections \/ PeerSends \/ PeerResets \/ \E w \in wire : PeerReceives(w)

\* The super-loop calls Run() again and again, and time passes.
Fairness == WF_vars(Run(TRUE)) /\ WF_vars(Halt)

Spec == Init /\ [][Next]_vars
FairSpec == Spec /\ Fairness
=============================================================================
