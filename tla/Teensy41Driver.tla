--------------------------- MODULE Teensy41Driver ---------------------------
(***************************************************************************)
(* driver_teensy41.cpp and the loops of lwip_driver.cpp that call it: the  *)
(* rings of receive and transmit buffer descriptors, which the Ethernet    *)
(* MAC's DMA, the receive interrupt and the main loop share.  The main     *)
(* loop's code is cut wherever another party can see the difference: at    *)
(* every read of a descriptor and at every write of one.                   *)
(*                                                                         *)
(* Frames are numbered from 1 in the order the MAC stores them, and in the *)
(* order the stack outputs them; 0 stands for no frame.                    *)
(***************************************************************************)
EXTENDS Integers, FiniteSets

CONSTANTS
    RxSize,     \* kRxSize, receive descriptors
    TxSize,     \* kTxSize, transmit descriptors
    MaxFrames,  \* bound: frames that arrive
    MaxOut      \* bound: frames that are output

ASSUME RingAssumption ==
    /\ RxSize \in Nat \ {0} /\ TxSize \in Nat \ {0}
    /\ MaxFrames \in Nat /\ MaxOut \in Nat

VARIABLES
    \* The receive ring and the MAC's side of it
    rx,            \* s_rxRing: descriptor -> its frame, 0 if kEmpty
    dmaRx,         \* the descriptor the MAC fills next
    received,      \* frames the MAC has stored
    RDAR,          \* the MAC looks for an empty descriptor
    RXF,           \* a receive interrupt is on its way
    \* The driver's side
    s_rxNotAvail,  \* set by the loop, cleared by the interrupt
    s_pRxBD,       \* where the next search begins
    \* The main loop
    at,            \* what it is about to do
    pBD,           \* the descriptor it looks at
    counter,       \* frames this pass has taken
    p,             \* the frame copied out of the ring, 0 if dropped
    ended,         \* how the last pass ended
    taken,         \* every frame copied out so far, a history
    \* The transmit ring
    tx,            \* s_txRing: descriptor -> its frame, 0 if not kReady
    s_pTxBD,       \* the descriptor used next
    dmaTx,         \* the descriptor the MAC sends next
    queued, sent,  \* frames made ready, frames the MAC has sent
    caller         \* where the code that is sending goes on

rxVars == <<rx, dmaRx, received, RDAR, RXF, s_rxNotAvail, s_pRxBD>>
loopVars == <<pBD, counter, p, ended, taken>>
txVars == <<tx, s_pTxBD, dmaTx, queued, sent>>
vars == <<rxVars, at, loopVars, txVars, caller>>

Slots == 0..(RxSize - 1)
TxSlots == 0..(TxSize - 1)
NoFrame == 0

\* The descriptor after i; the last one has kWrap.
After(i, size) == IF i = size - 1 THEN 0 ELSE i + 1

\* The descriptors that hold a frame.
Full == {i \in Slots : rx[i] # NoFrame}

\* init(): every receive descriptor is empty, no transmit descriptor is ready.
Init ==
    /\ rx = [i \in Slots |-> NoFrame] /\ dmaRx = 0 /\ received = 0
    /\ RDAR = TRUE /\ RXF = FALSE
    /\ s_rxNotAvail = TRUE /\ s_pRxBD = 0
    /\ at = "idle" /\ pBD = 0 /\ counter = 0 /\ p = NoFrame
    /\ ended = "empty" /\ taken = {}
    /\ tx = [i \in TxSlots |-> NoFrame] /\ s_pTxBD = 0 /\ dmaTx = 0
    /\ queued = 0 /\ sent = 0
    /\ caller = "idle"

-----------------------------------------------------------------------------
\* The MAC: a frame goes to the next descriptor if that one is empty, and the
\* interrupt follows.
DmaStore ==
    /\ received < MaxFrames
    /\ RDAR /\ rx[dmaRx] = NoFrame
    /\ received' = received + 1
    /\ rx' = [rx EXCEPT ![dmaRx] = received']
    /\ dmaRx' = After(dmaRx, RxSize)
    /\ RXF' = TRUE
    /\ UNCHANGED <<RDAR, s_rxNotAvail, s_pRxBD, at, loopVars, txVars, caller>>

\* It finds no empty descriptor, and waits to be told of one.
DmaStop ==
    /\ RDAR /\ rx[dmaRx] # NoFrame
    /\ RDAR' = FALSE
    /\ UNCHANGED <<rx, dmaRx, received, RXF, s_rxNotAvail, s_pRxBD, at, loopVars,
                   txVars, caller>>

\* It sends the next frame that is ready, and clears the descriptor's kReady.
DmaSend ==
    /\ tx[dmaTx] # NoFrame
    /\ tx' = [tx EXCEPT ![dmaTx] = NoFrame]
    /\ dmaTx' = After(dmaTx, TxSize)
    /\ sent' = sent + 1
    /\ UNCHANGED <<rxVars, at, loopVars, s_pTxBD, queued, caller>>

\* The interrupt handler; the main loop does not run beside it.
enet_isr ==
    /\ RXF
    /\ RXF' = FALSE
    /\ s_rxNotAvail' = FALSE
    /\ UNCHANGED <<rx, dmaRx, received, RDAR, s_pRxBD, at, loopVars, txVars, caller>>

-----------------------------------------------------------------------------
\* rxbd_next() begins its search.
Search == at' = "search" /\ pBD' = s_pRxBD

\* Mutant: the flag's sense is inverted.
TakeFlag_Mutant == s_rxNotAvail /\ s_rxNotAvail' = TRUE
\* std::atomic_flag_test_and_set(&s_rxNotAvail)
TakeFlag == ~s_rxNotAvail /\ s_rxNotAvail' = TRUE

\* enet::proc_input() calls the driver with counter 0.  (With the flag set the
\* pass is over at once.)
proc_input ==
    /\ at = "idle"
    /\ TakeFlag
    /\ Search
    /\ counter' = 0 /\ ended' = "running"
    /\ UNCHANGED <<rx, dmaRx, received, RDAR, RXF, s_pRxBD, p, taken, txVars, caller>>

\* Mutant: a pass takes fewer frames than the ring holds.
PassLimit_Mutant == RxSize - 1
PassLimit == 2 * RxSize

\* The driver is called again, with a higher counter.
proc_input_next ==
    /\ at = "next"
    /\ IF counter >= PassLimit
       THEN at' = "idle" /\ ended' = "limit" /\ UNCHANGED pBD
       ELSE Search /\ UNCHANGED ended
    /\ UNCHANGED <<rxVars, counter, p, taken, txVars, caller>>

\* rxbd_next(): an empty descriptor; the search ends when it is back at s_pRxBD.
rxbd_next_empty ==
    /\ at = "search" /\ rx[pBD] = NoFrame
    /\ pBD' = After(pBD, RxSize)
    /\ IF pBD' = s_pRxBD
       THEN at' = "idle" /\ ended' = "empty"
       ELSE UNCHANGED <<at, ended>>
    /\ UNCHANGED <<rxVars, counter, p, taken, txVars, caller>>

\* Mutant: the next search begins behind the frame that was found.
Advance_Mutant == After(pBD, RxSize)
\* s_pRxBD moves on by one descriptor, wherever the frame was found.
Advance == After(s_pRxBD, RxSize)

\* rxbd_next(): a descriptor with a frame.
rxbd_next_found ==
    /\ at = "search" /\ rx[pBD] # NoFrame
    /\ s_pRxBD' = Advance
    /\ at' = "copy"
    /\ UNCHANGED <<rx, dmaRx, received, RDAR, RXF, s_rxNotAvail, loopVars, txVars, caller>>

\* low_level_input(): the frame is copied, unless its status tells of an error
\* or no pbuf is free.
CopyFrame(ok) ==
    /\ p' = IF ok THEN rx[pBD] ELSE NoFrame
    /\ taken' = taken \cup {rx[pBD]}

low_level_input(ok) ==
    /\ at = "copy"
    /\ CopyFrame(ok)
    /\ at' = "free"
    /\ UNCHANGED <<rxVars, pBD, counter, ended, txVars, caller>>

\* Mutant: the descriptor at s_pRxBD is freed, not the one that was found.
FreeSlot_Mutant == rx' = [rx EXCEPT ![s_pRxBD] = NoFrame]
FreeSlot == rx' = [rx EXCEPT ![pBD] = NoFrame]

\* Then the descriptor is the MAC's again ...
set_empty ==
    /\ at = "free"
    /\ FreeSlot
    /\ at' = "tell"
    /\ UNCHANGED <<dmaRx, received, RDAR, RXF, s_rxNotAvail, s_pRxBD, loopVars, txVars, caller>>

\* Mutant: the MAC is not told after a frame that was dropped.
TellDma_Mutant == RDAR' = (RDAR \/ p # NoFrame)
TellDma == RDAR' = TRUE

\* ... and the MAC is told.  enet::proc_input() stops when it gets no frame.
set_RDAR ==
    /\ at = "tell"
    /\ TellDma
    /\ IF p = NoFrame
       THEN at' = "idle" /\ ended' = "error"
       ELSE at' = "input" /\ UNCHANGED ended
    /\ UNCHANGED <<rx, dmaRx, received, RXF, s_rxNotAvail, s_pRxBD, pBD, counter, p, taken,
                   txVars, caller>>

\* s_netif.input() is done with the frame.
netif_input ==
    /\ at = "input"
    /\ at' = "next" /\ counter' = counter + 1 /\ p' = NoFrame
    /\ UNCHANGED <<rxVars, pBD, ended, taken, txVars, caller>>

-----------------------------------------------------------------------------
\* output() or output_frame(), called by the program or while a frame is input:
\* get_bufdesc() waits for its descriptor.
output ==
    /\ at \in {"idle", "input"} /\ queued < MaxOut
    /\ at' = "wait" /\ caller' = at
    /\ UNCHANGED <<rxVars, loopVars, txVars>>

\* Mutant: get_bufdesc() takes a descriptor that the MAC has not sent.
BufFree_Mutant == TRUE
\* Mutant: it waits for the wrong value of kReady.
BufFree_Inverted == tx[s_pTxBD] # NoFrame
BufFree == tx[s_pTxBD] = NoFrame

get_bufdesc ==
    /\ at = "wait"
    /\ BufFree
    /\ at' = "fill"
    /\ UNCHANGED <<rxVars, loopVars, txVars, caller>>

\* The frame is in the buffer: update_bufdesc() makes it ready.
update_bufdesc ==
    /\ at = "fill"
    /\ queued' = queued + 1
    /\ tx' = [tx EXCEPT ![s_pTxBD] = queued']
    /\ s_pTxBD' = After(s_pTxBD, TxSize)
    /\ at' = caller
    /\ UNCHANGED <<rxVars, loopVars, dmaTx, sent, caller>>

\* The pbuf was shorter than it says: ERR_BUF, and the descriptor is unused.
output_fails ==
    /\ at = "fill"
    /\ at' = caller
    /\ UNCHANGED <<rxVars, loopVars, txVars, caller>>

Main ==
    \/ proc_input \/ proc_input_next \/ rxbd_next_empty \/ rxbd_next_found
    \/ \E ok \in BOOLEAN : low_level_input(ok)
    \/ set_empty \/ set_RDAR \/ netif_input
    \/ get_bufdesc \/ update_bufdesc

Next ==
    \/ DmaStore \/ DmaStop \/ DmaSend \/ enet_isr
    \/ Main \/ output \/ output_fails

\* The MAC sends what is ready, the interrupt is taken, code that runs goes on,
\* the program goes on calling loop(), and lwIP is done with a frame after
\* finitely many outputs.  Nothing has to arrive or to be output.
Fairness ==
    /\ WF_vars(DmaSend) /\ WF_vars(enet_isr) /\ WF_vars(Main)
    /\ SF_vars(proc_input) /\ SF_vars(netif_input)

Spec == Init /\ [][Next]_vars /\ Fairness

-----------------------------------------------------------------------------
Frames(ring) == {ring[i] : i \in DOMAIN ring} \ {NoFrame}

\* Types of the rings, the driver's pointers and the loop's locals.
TypeOK ==
    /\ rx \in [Slots -> Nat] /\ dmaRx \in Slots /\ received \in Nat
    /\ RDAR \in BOOLEAN /\ RXF \in BOOLEAN /\ s_rxNotAvail \in BOOLEAN
    /\ s_pRxBD \in Slots /\ pBD \in Slots
    /\ at \in {"idle", "next", "search", "copy", "free", "tell", "input", "wait", "fill"}
    /\ counter \in Nat /\ p \in Nat /\ taken \subseteq Nat
    /\ ended \in {"running", "empty", "limit", "error"}
    /\ tx \in [TxSlots -> Nat] /\ s_pTxBD \in TxSlots /\ dmaTx \in TxSlots
    /\ queued \in Nat /\ sent \in Nat /\ caller \in {"idle", "input"}

\* Every frame the MAC stored is in the ring or was taken out of it once:
\* descriptors are handed back and forth without a frame being lost, taken
\* twice or overwritten while it is copied.
FramesTakenOnce ==
    /\ taken \cup Frames(rx) = 1..received
    /\ taken \cap Frames(rx) = IF at = "free" THEN {rx[pBD]} ELSE {}

\* rxbd_next() may find a frame past s_pRxBD and still moves s_pRxBD by one.  The
\* driver and the MAC nevertheless agree on the next descriptor whenever the
\* ring is empty.
RingsMeet == Full = {} => s_pRxBD = dmaRx

\* No frame is left behind with nothing to tell of it: when the loop is idle, the
\* flag is set and no interrupt is due, the ring is empty, unless the last pass
\* was cut short by a frame that was dropped.
NoFrameWaits ==
    (at = "idle" /\ s_rxNotAvail /\ ~RXF /\ ended # "error") => Full = {}

\* The MAC never waits for a descriptor that is already empty, except until the
\* driver's next statement.
DmaIsTold == (~RDAR /\ rx[dmaRx] = NoFrame) => at = "tell"

\* What update_bufdesc() made ready is in the ring until it is sent, and it is
\* sent in order: no descriptor is reused too early.
TxInOrder ==
    /\ Frames(tx) = (sent + 1)..queued
    /\ queued > sent => tx[dmaTx] = sent + 1

\* get_bufdesc() waits without a limit, but not forever.
OutputReturns == (at = "wait") ~> (at # "wait")

\* Every frame is taken out of the ring at last, unless a pass ends on a frame
\* that is dropped: what is behind it waits for the next interrupt.
RxDrains ==
    \A f \in 1..MaxFrames : (f \in Frames(rx)) ~> (f \notin Frames(rx) \/ ended = "error")

=============================================================================
