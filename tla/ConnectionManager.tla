------------------------- MODULE ConnectionManager -------------------------
(***************************************************************************)
(* internal/ConnectionManager.cpp with ConnectionHolder and                *)
(* ConnectionState: the list of connections, and the callbacks lwIP makes  *)
(* while Ethernet.loop() runs.                                             *)
(*                                                                         *)
(* A ConnectionHolder is a record; its field state is the PCB of the       *)
(* ConnectionState it owns, or NULL, and buf and bufPos are that state's   *)
(* buffer.  The bytes of a connection are numbered 1, 2, 3 ... in the      *)
(* order in which the peer sent them.                                      *)
(***************************************************************************)
EXTENDS LwipTcp

CONSTANTS
    TCP_WND,   \* capacity reserved for a ConnectionState's buffer
    MaxBytes   \* bound: bytes a peer sends over one connection

ASSUME WndAssumption == TCP_WND \in Nat \ {0} /\ MaxBytes \in Nat

VARIABLES
    pcb,           \* the pool: slot -> PCB record
    holder,        \* holder identity -> ConnectionHolder record
    connections_,  \* ConnectionManager::connections_
    hist           \* history: what the peer sent and the program read

cmVars == <<pcb, holder, connections_, hist>>

HolderRecord == [connected : BOOLEAN, state : Pcbs \cup {NULL},
                 accepted : BOOLEAN, buf : Seq(Nat), bufPos : 0..TCP_WND,
                 remaining : Seq(Nat), remainingPos : Nat]

\* sent counts the bytes lwIP took from the peer, got are the bytes read by
\* the program, and end says how the connection ended: by the peer's FIN
\* ("fin"), by an error callback ("err"), by the program ("user"), or not yet.
HistRecord == [sent : Nat, got : Seq(Nat), end : {"none", "fin", "err", "user"}]

\* A new ConnectionHolder: nothing buffered, nothing remaining.
NewHolder(isConnected, p, isAccepted) ==
    [connected |-> isConnected, state |-> p, accepted |-> isAccepted,
     buf |-> <<>>, bufPos |-> 0, remaining |-> <<>>, remainingPos |-> 0]

NoHist == [sent |-> 0, got |-> <<>>, end |-> "none"]

CMInit ==
    /\ pcb = [p \in Pcbs |-> NewPcb("FREE", NULL, NULL)]
    /\ holder = [h \in Holders |-> NewHolder(FALSE, NULL, FALSE)]
    /\ connections_ = <<>>
    /\ hist = [h \in Holders |-> NoHist]

-----------------------------------------------------------------------------
(* The list.                                                               *)

Listed(h) == \E i \in DOMAIN connections_ : connections_[i] = h

\* std::find and erase of the first (and only) occurrence of a holder.
Erase(list, h) ==
    IF \E i \in DOMAIN list : list[i] = h
    THEN LET k == CHOOSE i \in DOMAIN list :
                      list[i] = h /\ \A j \in 1..(i-1) : list[j] # h
         IN  [j \in 1..(Len(list) - 1) |-> IF j < k THEN list[j] ELSE list[j+1]]
    ELSE list

\* addConnection(), with the holder that connect() or acceptFunc() made.
addConnection(h, p, isConnected, isAccepted) ==
    /\ holder' = [holder EXCEPT ![h] = NewHolder(isConnected, p, isAccepted)]
    /\ connections_' = Append(connections_, h)
    /\ hist' = [hist EXCEPT ![h] = NoHist]

-----------------------------------------------------------------------------
(* What the callbacks do to a holder.                                      *)

\* Bytes received and not yet read, in the buffer of a ConnectionState.
Unread(hr) == SubSeq(hr.buf, hr.bufPos + 1, Len(hr.buf))

\* isAvailable().
isAvailable(hr) == hr.bufPos < Len(hr.buf)

\* Mutant: all of the buffer is kept, what was read of it too.
maybeCopyRemaining_Mutant(hr) ==
    [hr EXCEPT !.remaining = IF isAvailable(hr) THEN hr.buf ELSE <<>>,
               !.remainingPos = 0]

\* maybeCopyRemaining().
maybeCopyRemaining(hr) ==
    [hr EXCEPT !.remaining = IF isAvailable(hr) THEN Unread(hr) ELSE <<>>,
               !.remainingPos = 0]

\* holder->state = nullptr: the ConnectionState goes, its buffer with it.
\* (The destructor's removal from the list is Detach below.)
StateReset(hr) == [hr EXCEPT !.state = NULL, !.buf = <<>>, !.bufPos = 0]

\* errFunc() with an error, and recvFunc() with a null pbuf: the holder keeps
\* what was not read in its "remaining" buffer and loses its state.
HolderClosed(hr) ==
    LET copied == IF hr.state # NULL THEN maybeCopyRemaining(hr) ELSE hr
    IN  [StateReset(copied) EXCEPT !.connected = FALSE]

\* recvFunc()'s check that the whole pbuf chain fits; ERR_MEM otherwise.
Fits(hr, data) == TCP_WND - Len(hr.buf) + hr.bufPos >= Len(data)

\* Mutant: nothing is moved to the front.
HolderReceived_Mutant(hr, data) ==
    [hr EXCEPT !.connected = TRUE, !.buf = hr.buf \o data]

\* recvFunc() with data that fits: move what is unread to the front if there
\* is no room behind it, then append.
HolderReceived(hr, data) ==
    LET move == TCP_WND - Len(hr.buf) < Len(data)
    IN  [hr EXCEPT !.connected = TRUE,
                   !.buf = (IF move THEN Unread(hr) ELSE hr.buf) \o data,
                   !.bufPos = IF move THEN 0 ELSE hr.bufPos]

\* The next n bytes of the peer's stream.
NextBytes(h, n) == [i \in 1..n |-> hist[h].sent + i]

\* Mutants: the destructor forgets the list, or the callback argument.
Detach_Mutant(h) == UNCHANGED connections_
NoArg_Mutant(pcbRec) == pcbRec

\* ~ConnectionState(): its PCB loses its callback argument, the list its holder.
Detach(h) == connections_' = Erase(connections_, h)
NoArg(pcbRec) == [pcbRec EXCEPT !.arg = NULL]

-----------------------------------------------------------------------------
(* Callbacks, each with the event of the stack that makes it.              *)

\* errFunc() on PCB p, for the reason why; the stack frees p.
errFunc(p, why) ==
    LET h == pcb[p].arg
    IN  /\ pcb' = [pcb EXCEPT ![p] = NoArg(Freed(@))]
        /\ IF h = NULL
           THEN UNCHANGED <<holder, connections_, hist>>
           ELSE /\ holder' = [holder EXCEPT ![h] = HolderClosed(@)]
                /\ Detach(h)
                /\ hist' = [hist EXCEPT ![h].end = why]

\* The stack frees PCB p and makes no callback: its argument stays behind.
FreeSilently(p) ==
    /\ pcb' = [pcb EXCEPT ![p] = Freed(@)]
    /\ UNCHANGED <<holder, connections_, hist>>

\* A RST, too many retransmissions, or a timer of the stack.
StackError(p) ==
    /\ pcb[p].state \in ActiveStates
    /\ errFunc(p, "err")

\* connectedFunc(): the SYN-ACK of an attempt.
connectedFunc(p) ==
    /\ pcb[p].state = "SYN_SENT"
    /\ pcb[p].arg # NULL
    /\ pcb' = [pcb EXCEPT ![p].state = "ESTABLISHED"]
    /\ holder' = [holder EXCEPT ![pcb[p].arg].connected = TRUE]
    /\ UNCHANGED <<connections_, hist>>

\* acceptFunc(): a peer connected to a listening port.
acceptFunc(p, h, port) ==
    /\ pcb[p].state = "FREE"
    /\ pcb' = [pcb EXCEPT ![p] = NewPcb("ESTABLISHED", h, port)]
    /\ addConnection(h, p, TRUE, FALSE)

\* recvFunc() with a pbuf of n bytes, in a segment with or without a FIN.
\* Data for a connection that was closed here aborts it (TF_RXCLOSED), without
\* a callback if the segment's FIN has put it in TIME_WAIT already; data that
\* does not fit is kept by the stack, and with it the FIN; otherwise the
\* data is appended and a FIN makes a second call, with a null pbuf, which
\* closes the PCB.
recvFunc(p, n, fin) ==
    LET h    == pcb[p].arg
        data == NextBytes(h, n)
        hr   == holder[h]
        next == IF fin THEN FinReceived(pcb[p].state) ELSE {pcb[p].state}
    IN
    /\ pcb[p].state \in {"ESTABLISHED", "FIN_WAIT"}
    /\ pcb[p].refused = <<>>
    /\ n > 0 \/ fin
    /\ h # NULL
    /\ n <= TCP_WND
    /\ hist[h].sent + n <= MaxBytes
    /\ \/ /\ n > 0 /\ pcb[p].rxClosed
          /\ \E s \in next : IF s = "TIME_WAIT" THEN FreeSilently(p)
                                               ELSE errFunc(p, "user")
       \/ /\ n > 0 /\ ~pcb[p].rxClosed /\ ~Fits(hr, data)
          /\ \E s \in next :
               pcb' = [pcb EXCEPT ![p].state = s, ![p].refused = data, ![p].fin = fin]
          /\ holder' = [holder EXCEPT ![h].connected = TRUE]
          /\ hist' = [hist EXCEPT ![h].sent = @ + n]
          /\ UNCHANGED connections_
       \/ /\ n > 0 /\ ~pcb[p].rxClosed /\ Fits(hr, data) /\ ~fin
          /\ holder' = [holder EXCEPT ![h] = HolderReceived(@, data)]
          /\ hist' = [hist EXCEPT ![h].sent = @ + n]
          /\ UNCHANGED <<pcb, connections_>>
       \/ /\ fin /\ (n = 0 \/ (~pcb[p].rxClosed /\ Fits(hr, data)))
          /\ holder' = [holder EXCEPT ![h] =
               HolderClosed(IF n = 0 THEN @ ELSE HolderReceived(@, data))]
          /\ Detach(h)
          /\ hist' = [hist EXCEPT ![h].sent = @ + n, ![h].end = "fin"]
          /\ \E s \in next :
               pcb' = [pcb EXCEPT ![p] = Closed(NoArg([@ EXCEPT !.state = s]))]

\* tcp_process_refused_data(), from tcp_fasttmr() or before a new segment:
\* recvFunc() again with the data it refused, then for the FIN it carried.
recvFuncRetry(p) ==
    LET h  == pcb[p].arg
        hr == HolderReceived(holder[h], pcb[p].refused)
    IN
    /\ pcb[p].state \in ActiveStates
    /\ pcb[p].refused # <<>>
    /\ h # NULL
    /\ Fits(holder[h], pcb[p].refused)
    /\ \/ /\ ~pcb[p].fin
          /\ pcb' = [pcb EXCEPT ![p] = Purged(@)]
          /\ holder' = [holder EXCEPT ![h] = hr]
          /\ UNCHANGED <<connections_, hist>>
       \/ /\ pcb[p].fin
          /\ pcb' = [pcb EXCEPT ![p] = Closed(NoArg(Purged(@)))]
          /\ holder' = [holder EXCEPT ![h] = HolderClosed(hr)]
          /\ Detach(h)
          /\ hist' = [hist EXCEPT ![h].end = "fin"]

\* The peer acknowledges our FIN.  In LAST_ACK the PCB is freed, with an
\* error callback only if the program shut down the transmit side alone.
FinAcked(p) ==
    \/ /\ pcb[p].state = "LAST_ACK"
       /\ IF pcb[p].rxClosed
          THEN FreeSilently(p)
          ELSE errFunc(p, "err")
    \/ /\ pcb[p].state = "CLOSING"
       /\ pcb' = [pcb EXCEPT ![p] = [Purged(@) EXCEPT !.state = "TIME_WAIT"]]
       /\ UNCHANGED <<holder, connections_, hist>>

\* tcp_slowtmr(), or tcp_alloc() in need of a slot: TIME_WAIT ends, silently.
TimeWaitOver(p) ==
    /\ pcb[p].state = "TIME_WAIT"
    /\ FreeSilently(p)

=============================================================================
