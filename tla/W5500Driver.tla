---------------------------- MODULE W5500Driver ----------------------------
(***************************************************************************)
(* driver_w5500.cpp without an interrupt pin, as driver_w5500_config.h has *)
(* it, and the loop of lwip_driver.cpp that calls it.  The chip receives   *)
(* and sends on its own; the driver talks to it over SPI, one register at  *)
(* a time, so that what it has read may be out of date when it uses it.    *)
(*                                                                         *)
(* A byte that the chip received is <<k, i>>, byte i of the k-th frame,    *)
(* whose first two bytes are the length the chip put before it.            *)
(***************************************************************************)
EXTENDS Integers, Sequences, FiniteSets

CONSTANTS
    Sizes,         \* data lengths of frames that arrive
    WrongLens,     \* wrong lengths that the chip may put before a frame
    kMaxFrameLen,  \* the longest frame the driver keeps
    RxBufSize,     \* kRxBufSizeKB, the chip's memory for received frames
    InputBufSize,  \* kLocalInputBufSize
    TxBufSize,     \* kTxBufSizeKB, the chip's memory for outgoing frames
    OutLens,       \* lengths of frames that are output
    Words,         \* 2^16, the values of a pointer register
    Start,         \* where the chip's pointers start
    MaxFrames,     \* bound: frames that arrive
    MaxOut         \* bound: frames that are output

ASSUME W5500Assumption ==
    /\ Sizes \subseteq Nat \ {0} /\ OutLens \subseteq Nat \ {0}
    /\ {kMaxFrameLen, RxBufSize, InputBufSize, TxBufSize, Words, MaxFrames, MaxOut}
         \subseteq Nat
    /\ WrongLens \subseteq {n \in Nat : n < 2 \/ n > RxBufSize}
    /\ kMaxFrameLen + 2 <= InputBufSize
    /\ Words > RxBufSize /\ Words > TxBufSize
    /\ \A n \in OutLens : n <= TxBufSize
    /\ Start \in 0..(Words - 1)

VARIABLES
    \* The chip
    rxMem,           \* received bytes it still holds; Sn_RX_RSR is their number
    storing,         \* the bytes it has yet to store of the frame it receives
    frames,          \* the frames it has received, a history: len, the length of the
                     \* data, and says, the length the chip put before it
    RX_RD,           \* Sn_RX_RD
    TX_RD, TX_WR,    \* Sn_TX_RD, Sn_TX_WR
    sending,         \* frames between Sn_TX_RD and Sn_TX_WR, as written
    onWire,          \* frames it has sent, a history
    reopened,        \* has OPEN moved the pointers since the last SEND?
    \* The driver
    s_initState,
    buf,             \* s_inputBuf.buf
    rxSize, end,     \* readAndScan()'s locals
    s_lastSendTxWr,  \* -1 if unset
    \* The main loop
    at,              \* what it is about to do
    p,               \* the pbuf it has just filled
    out, len,        \* the frame being output, and its length
    caller,          \* where the sender goes on
    given,           \* frames handed to s_netif.input(), a history
    lost             \* frames that are dropped, a history

rxVars == <<rxMem, storing, frames, RX_RD, buf, rxSize, end, p, given, lost>>
txVars == <<TX_RD, TX_WR, sending, onWire, reopened, s_lastSendTxWr, out, len, caller>>
vars == <<rxVars, txVars, s_initState, at>>

NoByte == <<0, 0>>
B == INSTANCE ByteBuffer

FrameBytes(k) == [i \in 1..(2 + frames[k].len) |-> <<k, i>>]

Init ==
    /\ rxMem = <<>> /\ storing = <<>> /\ frames = <<>> /\ RX_RD = Start
    /\ TX_RD = Start /\ TX_WR = Start /\ sending = <<>> /\ onWire = <<>> /\ reopened = FALSE
    /\ s_initState = "start" /\ buf = B!NewBuffer(InputBufSize)
    /\ rxSize = 0 /\ end = 0 /\ s_lastSendTxWr = -1
    /\ at = "idle" /\ p = <<>> /\ out = 0 /\ len = 0 /\ caller = "idle"
    /\ given = <<>> /\ lost = {}

-----------------------------------------------------------------------------
(* The chip, external to the repository. *)

\* It receives a frame that it has room for, and stores its first bytes; now
\* and then it puts a wrong length before it (before one of the shortest: what
\* follows a wrong length is not looked at).  A wrong length is one that the driver
\* can tell: less than the two bytes it takes itself, or more than the chip can hold.
\* Any other would make the driver take the bytes of several frames, or of part of
\* one, for a frame; that is left out.
ChipReceive == \E n \in Sizes : \E says \in {2 + n} \cup WrongLens :
    /\ says # 2 + n => \A m \in Sizes : n <= m
    /\ s_initState = "initialized" /\ storing = <<>> /\ Len(frames) < MaxFrames
    /\ Len(rxMem) + 2 + n <= RxBufSize
    /\ frames' = Append(frames, [len |-> n, says |-> says])
    /\ LET bytes == [i \in 1..(2 + n) |-> <<Len(frames) + 1, i>>]
       IN  \E m \in {1, 2, 2 + n} :
             /\ rxMem' = rxMem \o SubSeq(bytes, 1, m)
             /\ storing' = SubSeq(bytes, m + 1, 2 + n)
    /\ UNCHANGED <<RX_RD, buf, rxSize, end, p, given, lost, txVars, s_initState, at>>

ChipStore ==
    /\ storing # <<>>
    /\ rxMem' = rxMem \o storing /\ storing' = <<>>
    /\ UNCHANGED <<frames, RX_RD, buf, rxSize, end, p, given, lost, txVars, s_initState, at>>

\* It has sent what was written up to Sn_TX_WR, as one frame.
ChipSent ==
    /\ sending # <<>>
    /\ onWire' = Append(onWire, sending) /\ sending' = <<>>
    /\ TX_RD' = TX_WR
    /\ UNCHANGED <<rxVars, TX_WR, reopened, s_lastSendTxWr, out, len, caller,
                   s_initState, at>>

\* CLOSE and then OPEN: what it had received is gone, and so is what it was
\* sending; its pointers either stay or start again.
Reopen ==
    /\ rxMem' = <<>> /\ storing' = <<>> /\ sending' = <<>>
    /\ \/ RX_RD' = Start /\ TX_RD' = Start /\ TX_WR' = Start /\ reopened' = TRUE
       \/ TX_RD' = TX_WR /\ UNCHANGED <<RX_RD, TX_WR, reopened>>

\* The frames that some of the bytes belong to.
Of(bytes) == {bytes[i][1] : i \in DOMAIN bytes}

\* RECV: it lets go of what lies before the new Sn_RX_RD.
Recv(rd) ==
    /\ rxMem' = SubSeq(rxMem, ((rd - RX_RD) % Words) + 1, Len(rxMem))
    /\ RX_RD' = rd

-----------------------------------------------------------------------------
(* Starting and stopping *)

\* init(), which resets the chip in low_level_init(), and finds no chip or no
\* open socket at worst.  (It may also find the work done by has_hardware();
\* that is left out.)
init ==
    /\ at = "idle" /\ s_initState = "start"
    /\ s_lastSendTxWr' = -1
    /\ RX_RD' = Start /\ TX_RD' = Start /\ TX_WR' = Start /\ reopened' = FALSE
    /\ s_initState' \in {"initialized", "notInitialized", "noHardware"}
    /\ UNCHANGED <<rxMem, storing, frames, buf, rxSize, end, p, given, lost, sending, onWire,
                   out, len, caller, at>>

\* deinit() closes the socket.
deinit ==
    /\ at = "idle" /\ s_initState \notin {"start", "noHardware"}
    /\ s_initState' = "start"
    /\ lost' = lost \cup Of(rxMem) \cup Of(storing)
    /\ rxMem' = <<>> /\ storing' = <<>> /\ sending' = <<>> /\ TX_RD' = TX_WR
    /\ UNCHANGED <<frames, RX_RD, buf, rxSize, end, p, given, TX_WR, onWire, reopened,
                   s_lastSendTxWr, out, len, caller, at>>

-----------------------------------------------------------------------------
(* Receiving *)

\* Ethernet.loop() calls enet::proc_input().
loop == at = "idle" /\ at' = "call" /\ UNCHANGED <<rxVars, txVars, s_initState>>

\* driver::proc_input() is called by enet::proc_input().
proc_input ==
    /\ at = "call"
    /\ at' = IF s_initState = "initialized" THEN "read" ELSE "idle"
    /\ UNCHANGED <<rxVars, txVars, s_initState>>

\* readAndScan() reads Sn_RX_RSR twice; it makes do with 0 when the two differ,
\* which they may while the chip stores a frame.
read_RSR ==
    /\ at = "read"
    /\ \E n \in {Len(rxMem)} \cup (IF storing # <<>> THEN {0} ELSE {}) :
         IF n >= 2 THEN rxSize' = n /\ at' = "scan"
         ELSE rxSize' = 0 /\ at' = "take"
    /\ end' = 0
    /\ UNCHANGED <<rxMem, storing, frames, RX_RD, buf, p, given, lost, txVars, s_initState>>

\* readFrameLen() of two bytes: the length the chip put before the frame, which
\* counts itself unless it is wrong.  Two bytes that are no frame's length read as 0.
FrameLen(b1, b2) ==
    IF b1[2] = 1 /\ b2 = <<b1[1], 2>> THEN frames[b1[1]].says ELSE 0

More     == end + 2 <= rxSize
frameLen == FrameLen(rxMem[end + 1], rxMem[end + 2])
Whole    == More /\ frameLen >= 2 /\ end + frameLen <= rxSize
TooLong  == frameLen - 2 > kMaxFrameLen
NoSpace  == frameLen > B!remaining(buf)

\* The chip is told what has been read, if anything has.
Received_Mutant == IF end # 0 THEN Recv((RX_RD + rxSize) % Words)
                   ELSE UNCHANGED <<rxMem, RX_RD>>
Received == IF end # 0 THEN Recv((RX_RD + end) % Words)
            ELSE UNCHANGED <<rxMem, RX_RD>>

\* readAndScan() returns, and its locals are gone.
Leave == rxSize' = 0 /\ end' = 0

\* A frame is appended, or dropped if it is too long.
scan_frame ==
    /\ at = "scan" /\ Whole /\ (TooLong \/ ~NoSpace)
    /\ end' = end + frameLen
    /\ IF TooLong
       THEN lost' = lost \cup {rxMem[end + 1][1]} /\ UNCHANGED buf
       ELSE /\ buf' = B!write(buf, SubSeq(rxMem, end + 1, end + frameLen))
            /\ UNCHANGED lost
    /\ UNCHANGED <<rxMem, storing, frames, RX_RD, rxSize, p, given, txVars, s_initState, at>>

\* What readAndScan() returns when the next frame does not fit, and what
\* proc_input() does then.  Mutants: it tries again; it gives up.
AfterFull_Mutant == "read"
AfterFull_Null == "idle"
AfterFull == "take"

scan_full ==
    /\ at = "scan" /\ Whole /\ ~TooLong /\ NoSpace
    /\ Received /\ Leave
    /\ at' = AfterFull
    /\ UNCHANGED <<storing, frames, buf, p, given, lost, txVars, s_initState>>

\* All that could be read has been read: readAndScan() is called again, also if a
\* length that is larger than what the chip holds has ended it at once.
scan_end ==
    /\ at = "scan"
    /\ More => frameLen >= 2 /\ end + frameLen > rxSize
    /\ Received /\ Leave
    /\ at' = "read"
    /\ UNCHANGED <<storing, frames, buf, p, given, lost, txVars, s_initState>>

\* Bad data: restartSocket(), which may fail; and readAndScan() is called again.
scan_bad ==
    /\ at = "scan" /\ More /\ frameLen < 2
    /\ lost' = lost \cup Of(SubSeq(rxMem, end + 1, Len(rxMem))) \cup Of(storing)
    /\ Reopen /\ Leave
    /\ s_initState' \in {s_initState, "notInitialized"}
    /\ at' = "read"
    /\ UNCHANGED <<frames, buf, p, given, onWire, s_lastSendTxWr, out, len, caller>>

\* The oldest frame in the buffer: its length, and the buffer without that.
BufLen  == FrameLen(B!Front(buf, 2)[1], B!Front(buf, 2)[2])
BufRest == B!read(buf, 2)

\* proc_input() returns NULL: nothing is buffered.
take_none ==
    /\ at = "take" /\ buf.size_ = 0
    /\ at' = "idle"
    /\ UNCHANGED <<rxVars, txVars, s_initState>>

\* proc_input() takes the oldest frame out of the buffer, into a pbuf.
take_frame ==
    /\ at = "take" /\ buf.size_ # 0
    /\ p' = B!Front(BufRest, BufLen - 2)
    /\ buf' = B!read(BufRest, BufLen - 2)
    /\ at' = "input"
    /\ UNCHANGED <<rxMem, storing, frames, RX_RD, rxSize, end, given, lost, txVars, s_initState>>

\* There is no pbuf: the frame's bytes are skipped, and proc_input() returns
\* NULL.  Mutant: they stay.
Skip_Mutant == BufRest
Skip == B!read(BufRest, BufLen - 2)

take_nomem ==
    /\ at = "take" /\ buf.size_ # 0
    /\ lost' = lost \cup {B!Front(buf, 1)[1][1]}
    /\ buf' = Skip
    /\ at' = "idle"
    /\ UNCHANGED <<rxMem, storing, frames, RX_RD, rxSize, end, p, given, txVars, s_initState>>

\* s_netif.input() takes the frame, and enet::proc_input() goes on.
netif_input ==
    /\ at = "input"
    /\ given' = Append(given, p[1][1])
    /\ at' = "call" /\ p' = <<>>
    /\ UNCHANGED <<rxMem, storing, frames, RX_RD, buf, rxSize, end, lost, txVars,
                   s_initState>>

-----------------------------------------------------------------------------
(* Sending *)

\* output() and output_frame(): the frame is copied to s_frameBuf.  The program
\* sends between two calls of loop(), the stack also while it handles a frame.
output == \E n \in OutLens :
    /\ at \in {"idle", "input"} /\ s_initState = "initialized" /\ out < MaxOut
    /\ out' = out + 1 /\ len' = n /\ caller' = at
    /\ at' = "wait"
    /\ UNCHANGED <<rxVars, TX_RD, TX_WR, sending, onWire, reopened, s_lastSendTxWr,
                   s_initState>>

\* Has the last SEND completed?
SendDone_Mutant == TRUE
SendDone == s_lastSendTxWr < 0 \/ TX_RD = s_lastSendTxWr

\* waitForSendDoneNoInterrupts() spins until then.
waitForSendDone ==
    /\ at = "wait" /\ SendDone
    /\ at' = "space"
    /\ UNCHANGED <<rxVars, txVars, s_initState>>

\* The value that Sn_TX_WR and s_lastSendTxWr get.  Mutant: without the cast to
\* 16 bits.
NextTxWr_Mutant == TX_WR + len
NextTxWr == (TX_WR + len) % Words

\* There is space, Sn_TX_FSR: the frame is written, and SEND.
send_frame ==
    /\ at = "space"
    /\ len <= TxBufSize - ((TX_WR - TX_RD) % Words)
    /\ TX_WR' = (TX_WR + len) % Words
    /\ s_lastSendTxWr' = NextTxWr
    /\ sending' = Append(sending, out) /\ reopened' = FALSE
    /\ at' = caller /\ caller' = "idle" /\ len' = 0
    /\ UNCHANGED <<rxVars, TX_RD, onWire, out, s_initState>>

-----------------------------------------------------------------------------
Chip == ChipReceive \/ ChipStore \/ ChipSent
Reading == \/ proc_input \/ read_RSR \/ scan_frame \/ scan_full \/ scan_end \/ scan_bad
           \/ take_none \/ take_frame \/ take_nomem \/ netif_input
Next == Chip \/ init \/ deinit \/ loop \/ Reading \/ output \/ waitForSendDone \/ send_frame

\* The chip finishes what it has begun, code that runs goes on, and the program
\* calls loop() again and again, whatever else it does.
Fairness ==
    /\ WF_vars(ChipStore) /\ WF_vars(ChipSent)
    /\ WF_vars(Reading) /\ WF_vars(waitForSendDone \/ send_frame)
    /\ SF_vars(loop)

Spec == Init /\ [][Next]_vars /\ Fairness

-----------------------------------------------------------------------------
(* Properties *)

Buffered == B!Front(buf, buf.size_)
InChip   == SubSeq(rxMem, end + 1, Len(rxMem)) \o storing
InPbuf   == IF p = <<>> THEN <<>> ELSE <<p[1][1]>>

\* Byte a comes before byte b.
Before(a, b) == a[1] < b[1] \/ (a[1] = b[1] /\ a[2] < b[2])

\* Frames are neither reordered nor duplicated, and none is missing but those
\* the code drops: what lwIP was given, what is in a pbuf, in the driver's buffer
\* and in the chip are, in that order, the frames received without the lost ones.
\* The driver reads the chip's memory again from Sn_RX_RD on, as far as a size
\* that is out of date, and stops wherever its buffer is full.
EndToEnd ==
    LET taken == given \o InPbuf
        bytes == Buffered \o InChip
    IN  /\ \A i, j \in DOMAIN taken : i < j => taken[i] < taken[j]
        /\ \A i, j \in DOMAIN bytes : i < j => Before(bytes[i], bytes[j])
        /\ \A i \in DOMAIN taken, j \in DOMAIN bytes : taken[i] < bytes[j][1]
        /\ {taken[i] : i \in DOMAIN taken} \cup Of(bytes) = DOMAIN frames \ lost

\* Byte i of a sequence lies in a whole frame.
InFrame(bytes, i) ==
    LET k == bytes[i][1]
        start == i - bytes[i][2]
    IN  /\ k \in DOMAIN frames /\ start >= 0 /\ start + 2 + frames[k].len <= Len(bytes)
        /\ \A m \in 1..(2 + frames[k].len) : bytes[start + m] = <<k, m>>

\* The bytes of two frames are never mixed, wherever the ring of bytes wraps and
\* however frames are skipped: the buffer holds whole frames that are not too
\* long, and a pbuf is one frame's data.
WholeFrames ==
    /\ \A i \in DOMAIN Buffered :
         InFrame(Buffered, i) /\ frames[Buffered[i][1]].len <= kMaxFrameLen
    /\ p # <<>> => /\ p = SubSeq(FrameBytes(p[1][1]), 3, 2 + frames[p[1][1]].len)
                   /\ Len(p) <= kMaxFrameLen

\* The chip is never given a SEND while it works on another one, so that every
\* frame goes out alone, and in order; whatever init(), deinit() and restarts of
\* the socket come between.
SendsAlone ==
    /\ Len(sending) <= 1
    /\ \A i \in DOMAIN onWire : Len(onWire[i]) = 1
    /\ \A i, j \in DOMAIN onWire : i < j => onWire[i][1] < onWire[j][1]

\* A length that is more than the chip can hold is in its memory.
Stuck == \E k \in Of(rxMem) : frames[k].says > RxBufSize

\* loop() ends once the chip receives nothing more, however many frames it has,
\* whichever of them do not fit, and whatever the stack sends meanwhile: neither
\* while (readAndScan()) nor enet::proc_input() goes round for ever.  That the chip
\* stops is part of it, since proc_input() does not look at its counter; and so are that
\* no length is too large, which readAndScan() would find again for ever, and that no
\* restart of the socket has moved the pointer that a send waits for.
LoopReturns ==
    <>[][~ChipReceive]_vars => (at = "call" ~> at = "idle" \/ Stuck \/ reopened)

\* A send ends, at every value of the 16-bit pointers, unless a restart of the
\* socket has moved them since the last one.
SendReturns == at = "wait" ~> at \in {"idle", "input"} \/ reopened

\* A frame does not stay in the chip's memory: once the chip receives nothing more, it
\* is fetched or dropped, unless a length that is too large stays before it.
ChipDrains == <>[][~ChipReceive]_vars => \A k \in 1..MaxFrames :
    k \in Of(rxMem) ~> k \notin Of(rxMem) \/ Stuck \/ reopened \/ s_initState # "initialized"

=============================================================================
