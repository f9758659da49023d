------------------------------ MODULE LwipTcp ------------------------------
(***************************************************************************)
(* The part of lwIP's raw TCP API that QNEthernet calls, seen from         *)
(* QNEthernet: a fixed pool of protocol control blocks (PCBs), what        *)
(* tcp_close(), tcp_shutdown() and tcp_abort() do to one, and which PCBs   *)
(* may still make a callback.  The stack itself is vendored; the build     *)
(* modelled is the default one, !LWIP_ALTCP, where altcp_xxx is tcp_xxx.   *)
(*                                                                         *)
(* A PCB is a record.  "FREE" is a slot of the pool that is not allocated; *)
(* freeing a PCB leaves its other fields as they were, as memp_free()      *)
(* does.  FIN_WAIT stands for FIN_WAIT_1 and FIN_WAIT_2.                   *)
(***************************************************************************)
EXTENDS Naturals, Sequences

CONSTANTS
    Pcbs,      \* the slots of the TCP PCB pool, MEMP_NUM_TCP_PCB of them
    Holders,   \* identities for ConnectionHolder objects
    Ports,     \* local ports a server can listen on
    NULL       \* the null pointer, and "no port" of an outgoing connection

ASSUME NullAssumption == NULL \notin Holders \cup Pcbs \cup Ports

TcpStates == {"FREE", "SYN_SENT", "ESTABLISHED", "CLOSE_WAIT", "FIN_WAIT",
              "CLOSING", "LAST_ACK", "TIME_WAIT", "FREED_TWICE"}

\* The states of the PCBs on tcp_active_pcbs: segments and timers reach them.
ActiveStates == {"SYN_SENT", "ESTABLISHED", "CLOSE_WAIT", "FIN_WAIT",
                 "CLOSING", "LAST_ACK"}

\* arg is the callback argument, port the local port, rxClosed TF_RXCLOSED,
\* refused the data a recv callback refused, and fin PBUF_FLAG_TCP_FIN on it.
PcbRecord == [state : TcpStates, arg : Holders \cup {NULL},
              port : Ports \cup {NULL}, rxClosed : BOOLEAN,
              refused : Seq(Nat), fin : BOOLEAN]

\* tcp_new(), followed by a bind to the port and altcp_arg().
NewPcb(state, arg, port) ==
    [state |-> state, arg |-> arg, port |-> port, rxClosed |-> FALSE,
     refused |-> <<>>, fin |-> FALSE]

\* tcp_pcb_purge(): refused data is dropped.
Purged(pcbRec) == [pcbRec EXCEPT !.refused = <<>>, !.fin = FALSE]

\* tcp_free(): the slot goes back to the pool, its fields stay behind.  The
\* pool does not notice that a slot is free already; the model never hands
\* such a slot out again.
Freed(pcbRec) ==
    [Purged(pcbRec) EXCEPT !.state =
        IF @ \in {"FREE", "FREED_TWICE"} THEN "FREED_TWICE" ELSE "FREE"]

\* tcp_close_shutdown_fin(): the state after our FIN has been queued.
FinSent(state) ==
    CASE state = "ESTABLISHED" -> "FIN_WAIT"
      [] state = "CLOSE_WAIT"  -> "LAST_ACK"
      [] OTHER                 -> state

\* tcp_close().  An attempt is freed at once; so is a connection that holds
\* refused data, after a RST and without any callback.
Closed(pcbRec) ==
    IF \/ pcbRec.state = "SYN_SENT"
       \/ pcbRec.state \in {"ESTABLISHED", "CLOSE_WAIT"} /\ pcbRec.refused # <<>>
    THEN Freed(pcbRec)
    ELSE [pcbRec EXCEPT !.state = FinSent(@), !.rxClosed = TRUE]

\* tcp_shutdown(pcb, 0, 1): the transmit side only.
ShutdownTx(pcbRec) == [pcbRec EXCEPT !.state = FinSent(@)]

\* The PCBs that may still call connectedFunc() or recvFunc().
MayCallBack(pcbRec) ==
    \/ pcbRec.state \in {"SYN_SENT", "ESTABLISHED", "CLOSE_WAIT", "FIN_WAIT"}
    \/ pcbRec.state \in ActiveStates /\ pcbRec.refused # <<>>

\* The states that follow the peer's FIN, by the state it arrives in.
FinReceived(state) ==
    IF state = "ESTABLISHED" THEN {"CLOSE_WAIT"} ELSE {"CLOSING", "TIME_WAIT"}

=============================================================================
