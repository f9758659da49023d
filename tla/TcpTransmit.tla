---------------------------- MODULE TcpTransmit ----------------------------
(***************************************************************************)
(* The transmit path of one established connection: EthernetClient's       *)
(* write(), writeFully(), flush() and ways to close, a server's broadcast  *)
(* to the same connection, and below them lwIP's send queue against a peer *)
(* that acknowledges, closes its window, resets or falls silent.  Segments *)
(* and acknowledgements can be lost.                                       *)
(*                                                                         *)
(* The program's bytes are numbered 1, 2, 3 ... in the order it passes     *)
(* them to write().  A call is cut at each Ethernet.loop() inside it.      *)
(***************************************************************************)
EXTENDS Integers, Sequences, FiniteSetsExt

CONSTANTS
    TCP_SND_BUF,  \* bytes the send queue holds
    MaxWnd,       \* the largest window of the peer
    TCP_MAXRTX,   \* retransmissions before lwIP gives up
    MaxBytes,     \* bound: bytes the program writes
    MaxCasts      \* bound: bytes the server's broadcasts queue

ASSUME SizeAssumption ==
    /\ TCP_SND_BUF \in Nat \ {0} /\ MaxWnd \in Nat \ {0} /\ TCP_MAXRTX \in Nat
    /\ MaxBytes \in Nat /\ MaxCasts \in Nat

VARIABLES
    pcb,     \* the tcp_pcb
    holder,  \* the ConnectionHolder: connected, and whether it has a state
    client,  \* the EthernetClient still has its conn_
    call,    \* the call that is inside Ethernet.loop()
    pos,     \* bytes the program has been told are written
    casts,   \* bytes queued by broadcasts
    got,     \* what the peer has received
    lost     \* history: the queue was thrown away

vars == <<pcb, holder, client, call, pos, casts, got, lost>>

Cast == 0    \* a byte of a broadcast
Fin  == -1   \* our FIN, behind the bytes it follows

\* unacked and unsent are one queue, of which the first `flight' elements are
\* unacked.  up: on tcp_active_pcbs; fin: our FIN is queued; refused: data the
\* recv callback refused; nrtx: retransmissions and probes without an answer.
NewPcb == [up |-> TRUE, fin |-> FALSE, rxClosed |-> FALSE, refused |-> FALSE,
           queue |-> <<>>, flight |-> 0, wnd |-> MaxWnd, nrtx |-> 0, acked |-> 0]

Ops == {"none", "write", "writeFully", "close", "stopWait", "closeOutput"}
Ats == {"break", "check", "room", "done", "loop"}

\* rem is sizeRem, written what write() is about to return.
Call(op, at, rem, written) == [op |-> op, at |-> at, rem |-> rem, written |-> written]
Idle == Call("none", "loop", 0, 0)

Init ==
    /\ pcb = NewPcb
    /\ holder = [connected |-> TRUE, state |-> TRUE]
    /\ client = TRUE /\ call = Idle
    /\ pos = 0 /\ casts = 0 /\ got = <<>> /\ lost = FALSE

-----------------------------------------------------------------------------
(* lwIP's queue.                                                           *)

DataIn(q) == Cardinality({i \in DOMAIN q : q[i] # Fin})

\* altcp_sndbuf().
altcp_sndbuf == TCP_SND_BUF - DataIn(pcb.queue)

\* How much of the queue the window lets out; a FIN takes no room.
Fits(t) == {n \in t.flight..Len(t.queue) : DataIn(SubSeq(t.queue, 1, n)) <= t.wnd}

\* tcp_output(): as much as the window, Nagle's algorithm, the congestion window
\* and the driver allow, perhaps nothing.
tcp_output(t) == {[t EXCEPT !.flight = n] : n \in Fits(t) \cup {t.flight}}

\* altcp_write(): possible until our FIN; out of memory, or the queue too long,
\* only with something in it.  The outcomes are the PCB and whether ERR_OK.
WriteOutcomes(t, bytes) ==
    (IF t.up /\ ~t.fin THEN {<<[t EXCEPT !.queue = @ \o bytes], TRUE>>} ELSE {})
    \cup (IF ~t.up \/ t.fin \/ t.queue # <<>> THEN {<<t, FALSE>>} ELSE {})

\* tcp_send_fin().
SendFin(t) == IF t.up /\ ~t.fin THEN [t EXCEPT !.fin = TRUE, !.queue = Append(@, Fin)] ELSE t

\* tcp_pcb_purge() and tcp_free().
Dropped(t) == [t EXCEPT !.up = FALSE, !.refused = FALSE, !.queue = <<>>, !.flight = 0]

\* The queue goes, and the connection with it: errFunc() is called.
errFunc ==
    /\ pcb' = Dropped(pcb)
    /\ holder' = [connected |-> FALSE, state |-> FALSE]
    /\ lost' = TRUE

\* Mutant: what is not sent by then is dropped.
tcp_close_Mutant(t) == {SendFin([t EXCEPT !.rxClosed = TRUE, !.queue = SubSeq(@, 1, t.flight)])}
\* tcp_close(): with refused data a RST, and the queue is lost; else a FIN behind
\* the queue.
tcp_close(t) ==
    IF t.up /\ ~t.fin /\ t.refused
    THEN {Dropped([t EXCEPT !.rxClosed = TRUE])}
    ELSE tcp_output(SendFin([t EXCEPT !.rxClosed = TRUE]))

\* A PCB has been replaced by t, its queue perhaps thrown away.
Replaced(t) == pcb' = t /\ lost' = (lost \/ (pcb.up /\ ~t.up))

-----------------------------------------------------------------------------
(* write() and writeFully().                                               *)

\* Mutant: writeFully() does not look at the connection.
Goes_Mutant(op, rem) == op = "writeFully" /\ rem > 0
\* The loop of writeFully(): while ((sizeRem > 0) && !breakf()).
Goes(op, rem) == op = "writeFully" /\ rem > 0 /\ holder.connected

\* write() has returned w: the loop goes on, or the call is over.
Returns(w) ==
    /\ pos' = pos + w
    /\ call' = IF Goes(call.op, call.rem - w)
               THEN Call(call.op, "break", call.rem - w, 0) ELSE Idle

\* The program calls write() or writeFully(); both begin with operator bool(),
\* which calls loop() if the connection is up.
write(n) ==
    /\ call = Idle /\ client /\ holder.connected
    /\ pos + n <= MaxBytes
    /\ call' = Call("write", "check", n, 0)
    /\ UNCHANGED <<pcb, holder, client, pos, casts, got, lost>>

writeFully(n) ==
    /\ call = Idle /\ client /\ holder.connected
    /\ pos + n <= MaxBytes
    /\ call' = Call("writeFully", "break", n, 0)
    /\ UNCHANGED <<pcb, holder, client, pos, casts, got, lost>>

\* After breakf(): write() begins with operator bool() once more.
writeChecks ==
    /\ call.at = "break"
    /\ IF holder.connected
       THEN call' = [call EXCEPT !.at = "check"] /\ UNCHANGED pos
       ELSE Returns(0)
    /\ UNCHANGED <<pcb, holder, client, casts, got, lost>>

\* Mutant: an error is not told to the caller.
Written_Mutant(ok, n) == n
\* actualSize, which is zero if altcp_write() failed.
Written(ok, n) == IF ok THEN n ELSE 0

\* What write() queues of the bytes it was given.
Enqueue ==
    LET n == Min({call.rem, altcp_sndbuf})
    IN  \E o \in IF n > 0 THEN WriteOutcomes(pcb, [i \in 1..n |-> pos + i])
                          ELSE {<<pcb, TRUE>>} :
            /\ pcb' = o[1]
            /\ call' = [call EXCEPT !.at = "done", !.written = Written(o[2], n)]

\* write(): the state is checked, and a full buffer flushed.
writeBegins ==
    /\ call.at = "check"
    /\ \/ ~holder.state /\ Returns(0) /\ UNCHANGED pcb
       \/ /\ holder.state /\ altcp_sndbuf = 0
          /\ pcb' \in tcp_output(pcb)
          /\ call' = [call EXCEPT !.at = "room"] /\ UNCHANGED pos
       \/ holder.state /\ altcp_sndbuf # 0 /\ Enqueue /\ UNCHANGED pos
    /\ UNCHANGED <<holder, client, casts, got, lost>>

\* write(), after the loop() that was to make room.
writeGoesOn ==
    /\ call.at = "room"
    /\ \/ ~holder.state /\ Returns(0) /\ UNCHANGED pcb
       \/ holder.state /\ Enqueue /\ UNCHANGED pos
    /\ UNCHANGED <<holder, client, casts, got, lost>>

\* write(), after its last loop().
writeReturns ==
    /\ call.at = "done"
    /\ Returns(call.written)
    /\ UNCHANGED <<pcb, holder, client, casts, got, lost>>

-----------------------------------------------------------------------------
(* The program's other calls.                                              *)

\* flush() of the client or of the server, and the client's availableForWrite()
\* with a full buffer.
flush ==
    /\ call = Idle /\ holder.state
    /\ pcb' \in tcp_output(pcb)
    /\ UNCHANGED <<holder, client, call, pos, casts, got, lost>>

\* EthernetServer::write() of n bytes: what fits of them.  Nothing is queued if
\* altcp_output() fails, which takes a queue, or altcp_write().
broadcast(n) ==
    /\ call = Idle /\ holder.state
    /\ casts + n <= MaxCasts
    /\ \E t \in IF altcp_sndbuf < n THEN tcp_output(pcb) ELSE {pcb} :
         LET len == Min({n, altcp_sndbuf})
         IN  \E o \in IF len > 0 THEN WriteOutcomes(t, [i \in 1..len |-> Cast])
                                 ELSE {<<t, TRUE>>} :
                 pcb' = o[1] /\ casts' = casts + DataIn(o[1].queue) - DataIn(pcb.queue)
    /\ UNCHANGED <<holder, client, call, pos, got, lost>>

\* read(): the buffer is empty again and takes what it refused.
read ==
    /\ call = Idle /\ client /\ pcb.refused
    /\ pcb' = [pcb EXCEPT !.refused = FALSE]
    /\ UNCHANGED <<holder, client, call, pos, casts, got, lost>>

\* close(), stop() and closeOutput() of a connection flush and loop() first.
closing(op) ==
    /\ call = Idle /\ client /\ holder.connected /\ holder.state
    /\ pcb' \in tcp_output(pcb)
    /\ call' = Call(op, "loop", 0, 0)
    /\ UNCHANGED <<holder, client, pos, casts, got, lost>>

\* Without one, close() and stop() only let conn_ go.
closeGone ==
    /\ call = Idle /\ client /\ ~holder.state
    /\ client' = FALSE
    /\ UNCHANGED <<pcb, holder, call, pos, casts, got, lost>>

\* close(wait): stop() then waits, until the connection is over or too long.
close(wait) ==
    /\ call.op = "close"
    /\ IF holder.state THEN \E t \in tcp_close(pcb) : Replaced(t)
                       ELSE UNCHANGED <<pcb, lost>>
    /\ IF wait /\ holder.state
       THEN call' = Call("stopWait", "loop", 0, 0) /\ UNCHANGED client
       ELSE call' = Idle /\ client' = FALSE
    /\ UNCHANGED <<holder, pos, casts, got>>

stopReturns ==
    /\ call.op = "stopWait"
    /\ call' = Idle /\ client' = FALSE
    /\ UNCHANGED <<pcb, holder, pos, casts, got, lost>>

\* closeOutput(): altcp_shutdown(pcb, 0, 1).
closeOutput ==
    /\ call.op = "closeOutput"
    /\ pcb' \in IF holder.state THEN tcp_output(SendFin(pcb)) ELSE {pcb}
    /\ call' = Idle
    /\ UNCHANGED <<holder, client, pos, casts, got, lost>>

abort ==
    /\ call = Idle /\ client
    /\ IF holder.state THEN errFunc ELSE UNCHANGED <<pcb, holder, lost>>
    /\ client' = FALSE
    /\ UNCHANGED <<call, pos, casts, got>>

-----------------------------------------------------------------------------
(* The stack and the peer, while loop() runs.                              *)

\* tcp_slowtmr() outputs what waits with nothing in flight (or, if the window is
\* smaller than the segment, splits it first).
tcp_slowtmr ==
    /\ pcb.up /\ pcb.flight = 0
    /\ \E n \in Fits(pcb) \ {0} : pcb' = [pcb EXCEPT !.flight = n]
    /\ UNCHANGED <<holder, client, call, pos, casts, got, lost>>

\* It retransmits, which makes unacked unsent first; or probes a window of zero.
Retransmit ==
    /\ pcb.up /\ pcb.nrtx < TCP_MAXRTX
    /\ pcb.flight > 0 \/ (pcb.queue # <<>> /\ Fits(pcb) = {0})
    /\ pcb' \in tcp_output([pcb EXCEPT !.nrtx = @ + 1, !.flight = 0])
    /\ UNCHANGED <<holder, client, call, pos, casts, got, lost>>

\* It gives up.
GiveUp ==
    /\ pcb.up /\ pcb.nrtx >= TCP_MAXRTX /\ pcb.queue # <<>>
    /\ errFunc
    /\ UNCHANGED <<client, call, pos, casts, got>>

\* The peer receives the next element that it has not got.
PeerReceives ==
    /\ pcb.up
    /\ Len(got) - pcb.acked < pcb.flight
    /\ got' = Append(got, pcb.queue[Len(got) - pcb.acked + 1])
    /\ UNCHANGED <<pcb, holder, client, call, pos, casts, lost>>

\* An acknowledgement arrives, for all that the peer has, with its window;
\* tcp_input() ends with tcp_output().
tcp_receive(wnd) ==
    LET n == Len(got) - pcb.acked
        t == [pcb EXCEPT !.queue = SubSeq(@, n + 1, Len(@)), !.acked = Len(got),
                         !.flight = Max({@ - n, 0}), !.wnd = wnd, !.nrtx = 0]
    IN  /\ pcb.up
        /\ n > 0 \/ pcb.wnd < wnd
        /\ pcb' \in tcp_output(t)
        /\ UNCHANGED <<holder, client, call, pos, casts, got, lost>>

\* The peer answers a probe and its window is still zero.
ProbeAnswered ==
    /\ pcb.up /\ pcb.wnd = 0 /\ pcb.nrtx > 0 /\ Len(got) = pcb.acked
    /\ pcb' = [pcb EXCEPT !.nrtx = 0]
    /\ UNCHANGED <<holder, client, call, pos, casts, got, lost>>

\* A RST.
PeerResets ==
    /\ pcb.up
    /\ errFunc
    /\ UNCHANGED <<client, call, pos, casts, got>>

\* Data: for a connection that was closed here it is an abort; it may not fit.
PeerSends ==
    /\ pcb.up /\ holder.state
    /\ \/ pcb.rxClosed /\ errFunc
       \/ /\ ~pcb.rxClosed /\ ~pcb.refused
          /\ pcb' = [pcb EXCEPT !.refused = TRUE]
          /\ UNCHANGED <<holder, lost>>
    /\ UNCHANGED <<client, call, pos, casts, got>>

\* recvFunc() with a null pbuf, for the peer's FIN: it closes.
PeerCloses ==
    /\ pcb.up /\ holder.state /\ ~pcb.refused
    /\ holder' = [connected |-> FALSE, state |-> FALSE]
    /\ \E t \in tcp_close(pcb) : Replaced(t)
    /\ UNCHANGED <<client, call, pos, casts, got>>

-----------------------------------------------------------------------------
Program ==
    \/ \E n \in 1..MaxBytes : write(n) \/ writeFully(n)
    \/ flush \/ (\E n \in 1..MaxCasts : broadcast(n)) \/ read \/ abort
    \/ (\E op \in {"close", "closeOutput"} : closing(op)) \/ closeGone

\* A call goes on after loop().
GoesOn ==
    \/ writeChecks \/ writeBegins \/ writeGoesOn \/ writeReturns
    \/ \E wait \in BOOLEAN : close(wait)
    \/ stopReturns \/ closeOutput

\* lwIP's timer, which looks after everything that is queued.
Timer == tcp_slowtmr \/ Retransmit \/ GiveUp

WindowOpens == \E wnd \in 1..MaxWnd : pcb.queue # <<>> /\ pcb.wnd = 0 /\ tcp_receive(wnd)

Next ==
    \/ Program \/ GoesOn \/ Timer
    \/ PeerReceives \/ (\E wnd \in 0..MaxWnd : tcp_receive(wnd)) \/ ProbeAnswered
    \/ PeerResets \/ PeerSends \/ PeerCloses

\* A call that runs goes on, and with loop() lwIP's timers.  Of the peer only
\* that it does not answer probes for ever with a window of zero.
Fairness == WF_vars(GoesOn) /\ WF_vars(Timer) /\ SF_vars(WindowOpens)

Spec == Init /\ [][Next]_vars /\ Fairness

-----------------------------------------------------------------------------
\* Everything that was ever queued and not thrown away.
Stream == got \o SubSeq(pcb.queue, Len(got) - pcb.acked + 1, Len(pcb.queue))

\* The peer gets, or will get, the program's bytes in order, each once, and
\* exactly as many as write() has told it: whichever loop() ended the
\* connection, whichever write failed, and with broadcasts between them.
StreamExact ==
    /\ \E n \in 0..(pos + call.written) :
         /\ {b \in Range(Stream) : b > 0} = 1..n
         /\ ~lost => n = pos + call.written
    /\ \A i, j \in DOMAIN Stream :
         i < j /\ Stream[i] > 0 /\ Stream[j] > 0 => Stream[i] < Stream[j]
    /\ \A i \in DOMAIN Stream : Stream[i] = Fin => i = Len(Stream)

\* writeFully() returns, even if the peer falls silent, unless the output was
\* closed before: then it waits for the peer to close.
WriteFullyReturns ==
    (call.op = "writeFully") ~> (call.op # "writeFully" \/ (pcb.fin /\ holder.state))

\* Without any flush(), and after close(): what was queued is received, unless
\* the connection is reset.
QueuedArrives ==
    \A n \in 1..(MaxBytes + MaxCasts) : (Len(Stream) >= n) ~> (Len(got) >= n \/ lost)

=============================================================================
