--------------------------- MODULE EthernetFrame ---------------------------
(***************************************************************************)
(* QNEthernetFrame.cpp, the one object for raw frames, with the function   *)
(* of lwip_driver.cpp it sends through.  Frames come in when the program   *)
(* or parseFrame() itself runs Ethernet.loop(), and when the program sends *)
(* to its own address or to everyone.                                      *)
(*                                                                         *)
(* A frame is its number, counted from 1 in the order of recvFunc(), and   *)
(* the size of its data.                                                   *)
(***************************************************************************)
EXTENDS Integers, Sequences

CONSTANTS
    Sizes,       \* sizes of received frames
    Capacities,  \* arguments of setReceiveQueueCapacity()
    MinLen,      \* destination, source and type: 14
    VlanLen,     \* what a VLAN tag adds: 4
    maxFrameLen,
    MaxFrames    \* bound: calls of recvFunc()

\* They are values of size_t.
ASSUME FrameAssumption ==
    /\ Sizes \subseteq Nat /\ Capacities \subseteq Nat
    /\ {MinLen, VlanLen, maxFrameLen, MaxFrames} \subseteq Nat

Blank == [n |-> 0, size |-> 0]
Queue == INSTANCE CircularBuffer

VARIABLES
    inBuf_, frame_, framePos_,
    outFrame_,             \* the length written so far, -1 if no value
    droppedReceiveCount_,
    totalReceiveCount_,
    parsing,               \* is parseFrame() in its call of loop()?
    parsed,                \* the frames parseFrame() took, a history
    cut                    \* how many the program threw away itself, a history

inVars  == <<inBuf_, droppedReceiveCount_, totalReceiveCount_>>
vars == <<inVars, frame_, framePos_, outFrame_, parsing, parsed, cut>>

Init ==
    /\ inBuf_ = Queue!NewRing(1) /\ frame_ = Blank /\ framePos_ = -1
    /\ outFrame_ = -1 /\ droppedReceiveCount_ = 0 /\ totalReceiveCount_ = 0
    /\ parsing = FALSE /\ parsed = <<>> /\ cut = 0

-----------------------------------------------------------------------------
(* Reception *)

\* Does recvFunc() overwrite a frame?  Mutant: one look too late.
Overwrites_Mutant == Queue!full(inBuf_) /\ inBuf_.head_ # 0
Overwrites == Queue!full(inBuf_)

recvFunc(size) ==
    /\ totalReceiveCount_ < MaxFrames
    /\ droppedReceiveCount_' = droppedReceiveCount_ + (IF Overwrites THEN 1 ELSE 0)
    /\ inBuf_' = Queue!put(inBuf_, [n |-> totalReceiveCount_ + 1, size |-> size])
    /\ totalReceiveCount_' = totalReceiveCount_ + 1

\* s_netif.input() in loop() hands over a frame of a protocol lwIP does not know.
unknown_eth_protocol == \E size \in Sizes :
    /\ recvFunc(size)
    /\ UNCHANGED <<frame_, framePos_, outFrame_, parsing, parsed, cut>>

parse_empty ==
    /\ ~parsing /\ Queue!empty(inBuf_)
    /\ framePos_' = -1
    /\ UNCHANGED <<inVars, frame_, outFrame_, parsing, parsed, cut>>

\* parseFrame() moves the oldest frame out of the queue, and calls loop().
\* Mutant: the newest one.
Popped_Mutant == Queue!Contents(inBuf_)[inBuf_.size_]
Popped == Queue!Oldest(inBuf_)

parse_pop ==
    /\ ~parsing /\ ~Queue!empty(inBuf_)
    /\ frame_' = Popped /\ inBuf_' = Queue!get(inBuf_)
    /\ parsing' = TRUE /\ parsed' = Append(parsed, frame_'.n)
    /\ UNCHANGED <<droppedReceiveCount_, totalReceiveCount_, framePos_, outFrame_,
                   cut>>

\* The rest of parseFrame().  Mutant: it starts where it finds the position.
Position_Mutant == IF framePos_ < 0 THEN 0 ELSE framePos_
Position == IF frame_.size > 0 THEN 0 ELSE -1

parse_end ==
    /\ parsing
    /\ framePos_' = Position /\ parsing' = FALSE
    /\ UNCHANGED <<inVars, frame_, outFrame_, parsed, cut>>

isAvailable == 0 <= framePos_ /\ framePos_ < frame_.size

\* read() of up to n bytes.
read == \E n \in 1..3 :
    /\ ~parsing /\ isAvailable
    /\ framePos_' = IF n <= frame_.size - framePos_ THEN framePos_ + n ELSE frame_.size
    /\ UNCHANGED <<inVars, frame_, outFrame_, parsing, parsed, cut>>

setReceiveQueueCapacity == \E c \in Capacities :
    /\ ~parsing
    /\ inBuf_' = Queue!setCapacity(inBuf_, c)
    /\ cut' = cut + (inBuf_.size_ - inBuf_'.size_)
    /\ UNCHANGED <<droppedReceiveCount_, totalReceiveCount_, frame_, framePos_,
                   outFrame_, parsing, parsed>>

\* clear() leaves the frame being read alone.
clear ==
    /\ ~parsing
    /\ inBuf_' = Queue!NewRing(Queue!capacity(inBuf_)) /\ outFrame_' = -1
    /\ cut' = cut + inBuf_.size_
    /\ UNCHANGED <<droppedReceiveCount_, totalReceiveCount_, frame_, framePos_,
                   parsing, parsed>>

-----------------------------------------------------------------------------
(* Transmission *)

beginFrame ==
    /\ ~parsing /\ outFrame_' = 0
    /\ UNCHANGED <<inVars, frame_, framePos_, parsing, parsed, cut>>

\* write() of n bytes: as many as availableForWrite().
write == \E n \in 1..3 :
    /\ ~parsing /\ outFrame_ >= 0 /\ outFrame_ < maxFrameLen
    /\ outFrame_' = IF outFrame_ + n <= maxFrameLen THEN outFrame_ + n ELSE maxFrameLen
    /\ UNCHANGED <<inVars, frame_, framePos_, parsing, parsed, cut>>

\* The lengths that enet::output_frame() lets through.
Sendable(n, vlan) ==
    IF vlan THEN n >= MinLen + VlanLen /\ n <= maxFrameLen
    ELSE n >= MinLen /\ n <= maxFrameLen - VlanLen

\* endFrame() of a frame for nobody here, for this MAC only, or for everyone;
\* the last two are looped back if there is a pbuf.  What goes to the driver
\* changes nothing here.
endFrame == \E looped \in BOOLEAN :
    /\ ~parsing /\ outFrame_ >= 0
    /\ outFrame_' = -1
    /\ IF looped /\ \E vlan \in BOOLEAN : Sendable(outFrame_, vlan)
       THEN recvFunc(outFrame_) ELSE UNCHANGED inVars
    /\ UNCHANGED <<frame_, framePos_, parsing, parsed, cut>>

-----------------------------------------------------------------------------
Next == \/ unknown_eth_protocol \/ parse_empty \/ parse_pop \/ parse_end \/ read
        \/ setReceiveQueueCapacity \/ clear \/ beginFrame \/ write \/ endFrame

Spec == Init /\ [][Next]_vars

-----------------------------------------------------------------------------
(* Properties *)

\* The queue holds the newest frames recvFunc() has seen, in order, although
\* parseFrame() runs loop() with a frame half taken; and every other frame was
\* parsed, counted as dropped, or thrown away by clear() or with the capacity.
QueueAddsUp ==
    LET q == Queue!Contents(inBuf_)
    IN  /\ \A i \in DOMAIN q : q[i].n = totalReceiveCount_ - Len(q) + i
        /\ totalReceiveCount_ = Len(parsed) + Len(q) + droppedReceiveCount_ + cut

\* parseFrame() returns frames in the order of their arrival, none of them twice,
\* and the frame being read is the last one it returned, whatever comes in while
\* it is read.
ParsedOnce ==
    /\ \A i, j \in DOMAIN parsed : i < j => parsed[i] < parsed[j]
    /\ parsed # <<>> => frame_.n = parsed[Len(parsed)]

\* Whenever the program can read, the position is one in the frame it has parsed:
\* it is not what reading an older, longer frame has left.
PositionFits == ~parsing => framePos_ \in -1..frame_.size

=============================================================================
