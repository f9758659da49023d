----------------------------- MODULE TcpSockets -----------------------------
(***************************************************************************)
(* EthernetClient and EthernetServer over the ConnectionManager: the       *)
(* calls a program makes and, between them and inside them whenever they   *)
(* call Ethernet.loop(), the callbacks of the stack.                       *)
(*                                                                         *)
(* The program is one thread.  A call that uses its objects again after    *)
(* Ethernet.loop() is two actions, and `call' is the call that is inside   *)
(* that loop; every other call is one action.                              *)
(***************************************************************************)
EXTENDS ConnectionManager, FiniteSets

CONSTANTS
    Clients    \* the program's EthernetClient objects

ASSUME ClientAssumption == NULL \notin Clients

VARIABLES
    client,         \* EthernetClient: conn_ and pendingConnect_
    listeningPort_, \* EthernetServer::listeningPort_, NULL for zero
    call,           \* the call that is inside Ethernet.loop()
    strayCall       \* history: a call has acted on a PCB that is not its connection's

vars == <<pcb, holder, connections_, hist, client, listeningPort_, call, strayCall>>

Ops == {"none", "close", "stop", "stopWait", "connect", "connectNoWait",
        "connectWait", "closeOutput", "read", "accept", "available"}

\* op is the call, c the client it is made on, h a holder it keeps across the
\* loop, and next what close() is to be followed by when connect() calls it.
Call(op, c, h, next) == [op |-> op, c |-> c, h |-> h, next |-> next]

Idle == Call("none", NULL, NULL, "none")

\* A shared_ptr to the holder exists.
Referenced(h) ==
    \/ Listed(h)
    \/ holder[h].state # NULL
    \/ call.h = h
    \/ \E c \in Clients : client[c].conn_ = h

conn(c) == client[c].conn_

\* conn_ = nullptr.
DropConn(c) == client' = [client EXCEPT ![c].conn_ = NULL]

Init ==
    /\ CMInit
    /\ client = [c \in Clients |-> [conn_ |-> NULL, pendingConnect_ |-> FALSE]]
    /\ listeningPort_ = NULL
    /\ call = Idle
    /\ strayCall = FALSE

-----------------------------------------------------------------------------
(* EthernetClient: closing.                                                *)

\* The PCB that holder h points to has been freed behind its back, and
\* perhaps been allocated to another connection since.
Strays(h) ==
    LET p == holder[h].state
    IN  pcb[p].state \in {"FREE", "FREED_TWICE"} \/ pcb[p].arg # h

\* altcp_close(state->pcb).
altcp_close(h) ==
    /\ pcb' = [pcb EXCEPT ![holder[h].state] = Closed(@)]
    /\ hist' = [hist EXCEPT ![h].end = "user"]
    /\ strayCall' = (strayCall \/ Strays(h))
    /\ UNCHANGED <<holder, connections_>>

\* altcp_abort(state->pcb): the error callback goes to whichever holder is the
\* PCB's argument; in TIME_WAIT there is none.  A slot that is free already is
\* freed again.
altcp_abort(h) ==
    LET p == holder[h].state
    IN  /\ IF pcb[p].state = "TIME_WAIT" THEN FreeSilently(p)
                                         ELSE errFunc(p, "user")
        /\ strayCall' = (strayCall \/ Strays(h))

\* close() of an attempt that is still pending: the state is removed here.
CloseAttempt(h) ==
    /\ pcb' = [pcb EXCEPT ![holder[h].state] = NoArg(Closed(@))]
    /\ holder' = [holder EXCEPT ![h] = StateReset(@)]
    /\ Detach(h)
    /\ hist' = [hist EXCEPT ![h].end = "user"]
    /\ strayCall' = (strayCall \/ Strays(h))

\* The end of a close() that does not wait: back to the program or, if
\* connect() made the call, on to the connection attempt.
CloseReturns(c, next) ==
    /\ DropConn(c)
    /\ call' = IF next = "none" THEN Idle ELSE Call(next, c, NULL, "none")

\* altcp_close(), and then the wait of stop() or the end of close().
CloseConnected(c, op, next) ==
    /\ altcp_close(conn(c))
    /\ IF op = "stop"
       THEN call' = Call("stopWait", c, NULL, "none") /\ UNCHANGED client
       ELSE CloseReturns(c, next)

\* EthernetClient::close(wait), up to Ethernet.loop() if the connection is
\* established; op is "stop" for wait = true.
closeBegin(c, op, next) ==
    LET h == conn(c)  pending == client[c].pendingConnect_ IN
    /\ call.op = "none"
    /\ h # NULL
    /\ \/ /\ holder[h].state = NULL
          /\ CloseReturns(c, next)
          /\ UNCHANGED <<cmVars, strayCall>>
       \/ /\ holder[h].state # NULL /\ ~pending /\ holder[h].connected
          /\ call' = Call(op, c, NULL, next)
          /\ UNCHANGED <<cmVars, client, strayCall>>
       \/ /\ holder[h].state # NULL /\ pending /\ ~holder[h].connected
          /\ CloseAttempt(h)
          /\ CloseReturns(c, next)
       \/ /\ holder[h].state # NULL /\ pending /\ holder[h].connected
          /\ CloseConnected(c, op, next)
       \/ /\ holder[h].state # NULL /\ ~pending /\ ~holder[h].connected
          /\ CloseReturns(c, next)
          /\ UNCHANGED <<cmVars, strayCall>>
    /\ UNCHANGED listeningPort_

\* close(): the rest, with a second look at the state.
closeEnd ==
    LET c == call.c IN
    /\ call.op \in {"close", "stop"}
    /\ IF holder[conn(c)].state # NULL
       THEN CloseConnected(c, call.op, call.next)
       ELSE CloseReturns(c, call.next) /\ UNCHANGED <<cmVars, strayCall>>
    /\ UNCHANGED listeningPort_

\* stop(): the connection has closed, or the time is up.
stopWaitEnd ==
    /\ call.op = "stopWait"
    /\ CloseReturns(call.c, "none")
    /\ UNCHANGED <<cmVars, listeningPort_, strayCall>>

close(c) == closeBegin(c, "close", "none")
stop(c)  == closeBegin(c, "stop", "none")

\* closeOutput(): operator bool() first, which wants a connection.
closeOutputBegin(c) ==
    /\ call.op = "none"
    /\ conn(c) # NULL
    /\ ~client[c].pendingConnect_
    /\ holder[conn(c)].connected
    /\ call' = Call("closeOutput", c, NULL, "none")
    /\ UNCHANGED <<cmVars, client, listeningPort_, strayCall>>

closeOutputEnd ==
    LET h == conn(call.c) IN
    /\ call.op = "closeOutput"
    /\ IF holder[h].state # NULL
       THEN /\ pcb' = [pcb EXCEPT ![holder[h].state] = ShutdownTx(@)]
            /\ strayCall' = (strayCall \/ Strays(h))
       ELSE UNCHANGED <<pcb, strayCall>>
    /\ call' = Idle
    /\ UNCHANGED <<holder, connections_, hist, client, listeningPort_>>

abort(c) ==
    LET h == conn(c) IN
    /\ call.op = "none"
    /\ h # NULL
    /\ IF holder[h].state # NULL THEN altcp_abort(h)
                                 ELSE UNCHANGED <<cmVars, strayCall>>
    /\ DropConn(c)
    /\ UNCHANGED <<listeningPort_, call>>

\* ~EthernetClient() does not close.
destroy(c) ==
    /\ call.op = "none"
    /\ conn(c) # NULL
    /\ DropConn(c)
    /\ UNCHANGED <<cmVars, listeningPort_, call, strayCall>>

-----------------------------------------------------------------------------
(* EthernetClient: connecting.                                             *)

\* ConnectionManager::connect(), and what EthernetClient::connect() does with
\* its result.  The attempt may fail: no PCB, no port, no route.
ConnectStart(c, wait) ==
    /\ \/ \E p \in Pcbs, h \in Holders :
            /\ pcb[p].state = "FREE"
            /\ ~Referenced(h)
            /\ pcb' = [pcb EXCEPT ![p] = NewPcb("SYN_SENT", h, NULL)]
            /\ addConnection(h, p, FALSE, TRUE)
            /\ client' = [client EXCEPT ![c] = [conn_ |-> h, pendingConnect_ |-> ~wait]]
            /\ call' = IF wait THEN Call("connectWait", c, NULL, "none") ELSE Idle
       \/ /\ DropConn(c)
          /\ call' = Idle
          /\ UNCHANGED cmVars
    /\ UNCHANGED <<listeningPort_, strayCall>>

\* connect(), and connectNoWait() for wait = FALSE: close(false) first.
connect(c, wait) ==
    /\ call.op = "none"
    /\ IF conn(c) = NULL
       THEN ConnectStart(c, wait)
       ELSE closeBegin(c, "close", IF wait THEN "connect" ELSE "connectNoWait")

connectAfterClose ==
    /\ call.op \in {"connect", "connectNoWait"}
    /\ ConnectStart(call.c, call.op = "connect")

\* connect(): connected.
connectReturns ==
    /\ call.op = "connectWait"
    /\ holder[conn(call.c)].connected
    /\ call' = Idle
    /\ UNCHANGED <<cmVars, client, listeningPort_, strayCall>>

\* connect(): not connected in time; close(false) finds an attempt that is
\* neither pending nor connected.
connectTimesOut ==
    /\ call.op = "connectWait"
    /\ ~holder[conn(call.c)].connected
    /\ CloseReturns(call.c, "none")
    /\ UNCHANGED <<cmVars, listeningPort_, strayCall>>

\* watchPendingConnect(), through connecting(), connected(), operator bool(),
\* or any of the reading calls.
watchPendingConnect(c) ==
    /\ call.op = "none"
    /\ conn(c) # NULL
    /\ client[c].pendingConnect_
    /\ IF holder[conn(c)].state = NULL
       THEN DropConn(c)
       ELSE client' = [client EXCEPT ![c].pendingConnect_ = ~holder[conn(c)].connected]
    /\ UNCHANGED <<cmVars, listeningPort_, call, strayCall>>

-----------------------------------------------------------------------------
(* EthernetClient: reading.                                                *)

\* connected(), operator bool(), available(), read() and peek() on a
\* connection that has ended and has nothing left forget the connection.
pollClosed(c) ==
    /\ call.op = "none"
    /\ conn(c) # NULL
    /\ ~client[c].pendingConnect_
    /\ ~holder[conn(c)].connected
    /\ holder[conn(c)].remaining = <<>>
    /\ DropConn(c)
    /\ UNCHANGED <<cmVars, listeningPort_, call, strayCall>>

\* read(buf, size) from what remained when the connection ended.
readRemaining(c, size) ==
    LET h   == conn(c)
        rem == holder[h].remaining
        pos == holder[h].remainingPos
        end == IF size < Len(rem) - pos THEN pos + size ELSE Len(rem)
    IN
    /\ call.op = "none"
    /\ h # NULL
    /\ ~client[c].pendingConnect_
    /\ rem # <<>>
    /\ hist' = [hist EXCEPT ![h].got = @ \o SubSeq(rem, pos + 1, end)]
    /\ holder' = [holder EXCEPT
         ![h].remaining    = IF end >= Len(rem) THEN <<>> ELSE rem,
         ![h].remainingPos = IF end >= Len(rem) THEN 0 ELSE end]
    /\ UNCHANGED <<pcb, connections_, client, listeningPort_, call, strayCall>>

\* read() of an open connection: getStateAndLoopOrClose().
readBegin(c) ==
    LET h == conn(c) IN
    /\ call.op = "none"
    /\ h # NULL
    /\ ~client[c].pendingConnect_
    /\ holder[h].remaining = <<>>
    /\ holder[h].connected
    /\ holder[h].state # NULL
    /\ call' = Call("read", c, NULL, "none")
    /\ UNCHANGED <<cmVars, client, listeningPort_, strayCall>>

\* read(): the rest, with a second look at the state.
readEnd(size) ==
    LET h   == conn(call.c)
        hr  == holder[h]
        end == IF size < Len(hr.buf) - hr.bufPos THEN hr.bufPos + size ELSE Len(hr.buf)
    IN
    /\ call.op = "read"
    /\ IF hr.state # NULL /\ isAvailable(hr)
       THEN /\ hist' = [hist EXCEPT ![h].got = @ \o SubSeq(hr.buf, hr.bufPos + 1, end)]
            /\ holder' = [holder EXCEPT ![h].bufPos = end]
       ELSE UNCHANGED <<hist, holder>>
    /\ call' = Idle
    /\ UNCHANGED <<pcb, connections_, client, listeningPort_, strayCall>>

-----------------------------------------------------------------------------
(* EthernetServer.                                                         *)

\* begin(port, reuse): end() first, unless it listens that way already; then
\* listening may fail.
begin(port) ==
    /\ call.op = "none"
    /\ listeningPort_' \in {port, NULL}
    /\ UNCHANGED <<cmVars, client, call, strayCall>>

end ==
    /\ call.op = "none"
    /\ listeningPort_ # NULL
    /\ listeningPort_' = NULL
    /\ UNCHANGED <<cmVars, client, call, strayCall>>

\* getLocalPort(state->pcb): whatever the slot says.
getLocalPort(h) == pcb[holder[h].state].port

IsUnacknowledged(h) ==
    holder[h].state # NULL /\ ~holder[h].accepted /\ getLocalPort(h) = listeningPort_

HasAvailable(h) ==
    holder[h].state # NULL /\ getLocalPort(h) = listeningPort_ /\ isAvailable(holder[h])

\* std::find_if over connections_: h is the first one in Found.
IsFirstListed(h, Found) ==
    \E i \in DOMAIN connections_ :
        /\ connections_[i] = h /\ h \in Found
        /\ \A j \in 1..(i-1) : connections_[j] \notin Found

findUnacknowledged(h) ==
    IsFirstListed(h, {g \in Holders : IsUnacknowledged(g)})

findAvailable(h) == IsFirstListed(h, {g \in Holders : HasAvailable(g)})

\* accept() and available() hold the connection they found across the loop.
acceptBegin(c, h) ==
    /\ call.op = "none"
    /\ listeningPort_ # NULL
    /\ conn(c) = NULL
    /\ findUnacknowledged(h)
    /\ call' = Call("accept", c, h, "none")
    /\ UNCHANGED <<cmVars, client, listeningPort_, strayCall>>

availableBegin(c, h) ==
    /\ call.op = "none"
    /\ listeningPort_ # NULL
    /\ conn(c) = NULL
    /\ findAvailable(h)
    /\ call' = Call("available", c, h, "none")
    /\ UNCHANGED <<cmVars, client, listeningPort_, strayCall>>

\* The client that accept() or available() returns.
ReturnClient ==
    /\ client' = [client EXCEPT ![call.c] = [conn_ |-> call.h, pendingConnect_ |-> FALSE]]
    /\ call' = Idle
    /\ UNCHANGED <<pcb, connections_, hist, listeningPort_, strayCall>>

acceptEnd ==
    /\ call.op = "accept"
    /\ holder' = [holder EXCEPT ![call.h].accepted = TRUE]
    /\ ReturnClient

availableEnd ==
    /\ call.op = "available"
    /\ UNCHANGED holder
    /\ ReturnClient

-----------------------------------------------------------------------------
(* The callbacks run inside Ethernet.loop(), which the program calls        *)
(* between its calls too.                                                  *)

AcceptCallback(p) ==
    /\ listeningPort_ # NULL
    /\ \E h \in Holders : ~Referenced(h) /\ acceptFunc(p, h, listeningPort_)

Callback ==
    /\ \E p \in Pcbs :
         \/ StackError(p)
         \/ connectedFunc(p)
         \/ AcceptCallback(p)
         \/ \E n \in 0..MaxBytes, fin \in BOOLEAN : recvFunc(p, n, fin)
         \/ recvFuncRetry(p)
         \/ FinAcked(p)
         \/ TimeWaitOver(p)
    /\ UNCHANGED <<client, listeningPort_, call, strayCall>>

Program ==
    \/ \E c \in Clients :
         \/ close(c) \/ stop(c) \/ closeOutputBegin(c) \/ abort(c) \/ destroy(c)
         \/ \E wait \in BOOLEAN : connect(c, wait)
         \/ watchPendingConnect(c) \/ pollClosed(c) \/ readBegin(c)
         \/ \E size \in 1..MaxBytes : readRemaining(c, size)
         \/ \E h \in Holders : acceptBegin(c, h) \/ availableBegin(c, h)
    \/ closeEnd \/ stopWaitEnd \/ closeOutputEnd
    \/ connectAfterClose \/ connectReturns \/ connectTimesOut
    \/ \E size \in 1..MaxBytes : readEnd(size)
    \/ acceptEnd \/ availableEnd
    \/ \E port \in Ports : begin(port)
    \/ end

Next == Callback \/ Program

Spec == Init /\ [][Next]_vars

-----------------------------------------------------------------------------
(* Properties.                                                             *)

\* Every variable keeps its type; a call that needs a connection after the
\* loop still has one.
TypeOK ==
    /\ pcb \in [Pcbs -> PcbRecord]
    /\ holder \in [Holders -> HolderRecord]
    /\ connections_ \in Seq(Holders)
    /\ hist \in [Holders -> HistRecord]
    /\ client \in [Clients -> [conn_ : Holders \cup {NULL}, pendingConnect_ : BOOLEAN]]
    /\ listeningPort_ \in Ports \cup {NULL}
    /\ call \in [op : Ops, c : Clients \cup {NULL}, h : Holders \cup {NULL},
                 next : {"none", "connect", "connectNoWait"}]
    /\ strayCall \in BOOLEAN

\* The list of ConnectionManager holds exactly the holders that own a
\* ConnectionState, each once: the null checks of findUnacknowledged(),
\* findAvailable() and iterateConnections() never fail, and no state is left
\* behind outside the list.
ListIsExact ==
    /\ \A h \in Holders : Listed(h) <=> holder[h].state # NULL
    /\ \A i, j \in DOMAIN connections_ : connections_[i] = connections_[j] => i = j

\* A callback always reaches the holder that owns the PCB: the argument of a
\* PCB is a holder whose state is that PCB, and, unless a call has strayed to a
\* PCB of another connection, a PCB that can still make connectedFunc() or
\* recvFunc() calls, which do not check their argument, has one.
CallbacksFindHolder ==
    \A p \in Pcbs :
        /\ pcb[p].arg # NULL => holder[pcb[p].arg].state = p
        /\ ~strayCall /\ MayCallBack(pcb[p]) => pcb[p].arg # NULL

\* What a holder has that was not read, in the order it would be read.
Pending(h) ==
    IF holder[h].remaining # <<>>
    THEN SubSeq(holder[h].remaining, holder[h].remainingPos + 1, Len(holder[h].remaining))
    ELSE Unread(holder[h])

FirstBytes(n) == [i \in 1..n |-> i]

\* In the holder of a connection, recvFunc(), errFunc() and read() neither lose, repeat
\* nor reorder a byte: what was read and what the holder still has is the beginning of
\* the peer's stream, with the refused data behind it all of it while the connection
\* can receive, and all of it once the peer has closed in order.  Whether a client
\* still refers to the holder is not part of it, see BufferedIsKept.
StreamIntact ==
    \A h \in Holders :
        LET inOrder == hist[h].got \o Pending(h) IN
        /\ inOrder = FirstBytes(Len(inOrder))
        /\ Len(inOrder) <= hist[h].sent
        /\ hist[h].end = "fin" => Len(inOrder) = hist[h].sent
        /\ \A p \in Pcbs :
             pcb[p].arg = h /\ pcb[p].state \in {"ESTABLISHED", "CLOSE_WAIT", "FIN_WAIT"}
             => inOrder \o pcb[p].refused = FirstBytes(hist[h].sent)

\* "if a client closes a connection, any buffered data will still be available via the
\* client API": a call that only asks or reads does not give up a connection with data
\* that remains.  The code violates this: watchPendingConnect() looks only at the state,
\* which is gone if the peer has closed before the first call after connectNoWait().
BufferedIsKept ==
    [][\A c \in Clients :
          /\ watchPendingConnect(c) \/ pollClosed(c)
          /\ holder[conn(c)].remaining # <<>>
          => conn(c)' = conn(c)]_vars

\* ConnectionHolder.h: the remaining buffer "will only be non-empty after the
\* connection is closed" and remainingPos is never past its end; recvFunc()
\* never makes the buffer grow past the capacity that was reserved; and a
\* holder that says it is connected has a state.
HolderIsConsistent ==
    \A h \in Holders :
        LET hr == holder[h] IN
        /\ hr.remaining # <<>> => /\ ~hr.connected /\ hr.state = NULL
                                  /\ hr.remainingPos < Len(hr.remaining)
        /\ hr.bufPos <= Len(hr.buf) /\ Len(hr.buf) <= TCP_WND
        /\ hr.connected => hr.state # NULL

=============================================================================
