--------------------------- MODULE Teensy41Proofs ---------------------------
(***************************************************************************)
(* Teensy41Driver for rings of any size and any number of frames: no frame *)
(* is lost or taken twice, the driver and the MAC meet, no frame is left   *)
(* behind, the MAC is told, and output is in order.                        *)
(*                                                                         *)
(* The driver moves s_pRxBD by one for every frame, wherever it found it,  *)
(* so nothing says that the frames in the ring are next to each other.     *)
(* What can be said is how old they are (Stamped), how many they are       *)
(* (Counted), and, of a pass during which nothing has arrived, which       *)
(* descriptors it has seen and how many frames it can still find           *)
(* (PassSeesAll).                                                          *)
(***************************************************************************)
EXTENDS Teensy41Driver, FiniteSetTheorems, TLAPS

\* How many descriptors of a ring one has to go on from descriptor from to i.
Dist(i, from, size) == IF i < from THEN i - from + size ELSE i - from

\* A frame's number says when it was stored: the descriptor before dmaRx has been
\* filled last, and dmaRx itself a whole turn ago.
Stamped ==
    \A i \in Slots : rx[i] # NoFrame =>
        rx[i] = received + 1 - RxSize + Dist(i, dmaRx, RxSize)

\* The descriptor that is being emptied holds a frame.
InHand == at \in {"copy", "free"} => rx[pBD] # NoFrame

\* s_pRxBD has moved past the frame that is being copied.
Passed == IF at \in {"copy", "free"} THEN 1 ELSE 0

\* As many frames are in the ring as s_pRxBD is behind dmaRx.
Counted == s_pRxBD + Cardinality(Full) - Passed \in {dmaRx, dmaRx + RxSize}

\* The loop is between two passes, perhaps sending.
BetweenPasses == at = "idle" \/ (at \in {"wait", "fill"} /\ caller = "idle")

\* A frame that was taken and not yet counted.
Uncounted == IF at \in {"tell", "input"} \/ (at \in {"wait", "fill"} /\ caller = "input")
             THEN 1 ELSE 0

\* If nothing has arrived since the flag was taken: a pass that has ended well
\* has left nothing, one that runs finds at most what the ring can hold, and
\* what it has seen empty is empty.
Quiet == s_rxNotAvail /\ ~RXF
PassSeesAll ==
    Quiet => /\ BetweenPasses /\ ended # "error" => Full = {}
             /\ ~BetweenPasses => Cardinality(Full) + counter + Uncounted <= RxSize
             /\ at = "search" => \A i \in Slots :
                    Dist(i, s_pRxBD, RxSize) < Dist(pBD, s_pRxBD, RxSize) => rx[i] = NoFrame

\* The frames that are ready lie from dmaTx up to s_pTxBD, in order.
TxRing ==
    /\ queued - sent \in 0..TxSize
    /\ s_pTxBD \in {dmaTx + (queued - sent), dmaTx + (queued - sent) - TxSize}
    /\ \A i \in TxSlots :
         tx[i] = IF Dist(i, dmaTx, TxSize) < queued - sent
                 THEN sent + 1 + Dist(i, dmaTx, TxSize) ELSE NoFrame
    /\ at = "fill" => tx[s_pTxBD] = NoFrame

Inv == /\ TypeOK /\ Stamped /\ InHand /\ FramesTakenOnce /\ Counted
       /\ PassSeesAll /\ DmaIsTold /\ TxRing

-----------------------------------------------------------------------------
(* The descriptors that hold a frame.                                      *)

\* There are no more of them than descriptors (s_rxRing).
LEMMA FullFacts ==
    ASSUME TypeOK
    PROVE  /\ IsFiniteSet(Full) /\ Cardinality(Full) \in 0..RxSize
           /\ Cardinality(Full) = 0 <=> Full = {}
<1>1. IsFiniteSet(Slots) /\ Cardinality(Slots) = RxSize
  BY RingAssumption, FS_Interval DEF Slots
<1>2. Full \subseteq Slots
  BY DEF Full
<1>3. IsFiniteSet(Full) /\ Cardinality(Full) <= RxSize
  BY <1>1, <1>2, FS_Subset
<1>4. Cardinality(Full) \in Nat
  BY <1>3, FS_CardinalityType
<1> QED
  BY <1>3, <1>4, FS_EmptySet, RingAssumption

\* The MAC fills one more (DmaStore).
LEMMA StoreFills ==
    ASSUME TypeOK, DmaStore
    PROVE  /\ dmaRx \notin Full /\ Full' = Full \cup {dmaRx}
           /\ Cardinality(Full') = Cardinality(Full) + 1
           /\ Cardinality(Full) < RxSize
<1>1. dmaRx \in Slots /\ dmaRx \notin Full /\ received' \in Nat /\ received' # NoFrame
  BY DEF TypeOK, DmaStore, Full, NoFrame
<1>2. Full' = Full \cup {dmaRx}
  BY <1>1 DEF TypeOK, DmaStore, Full, NoFrame
<1>3. Cardinality(Full') = Cardinality(Full) + 1
  BY <1>1, <1>2, FullFacts, FS_AddElement
<1>4. IsFiniteSet(Slots) /\ Cardinality(Slots) = RxSize
  BY RingAssumption, FS_Interval DEF Slots
<1>5. Cardinality(Full') <= RxSize
  <2>1. Full' \subseteq Slots
    BY <1>1, <1>2 DEF Full
  <2> QED
    BY <1>4, <2>1, FS_Subset
<1> QED
  BY <1>1, <1>2, <1>3, <1>5, FullFacts, RingAssumption

\* The driver empties one (the end of low_level_input()).
LEMMA FreeEmpties ==
    ASSUME TypeOK, InHand, set_empty
    PROVE  /\ pBD \in Full /\ Full' = Full \ {pBD}
           /\ Cardinality(Full') = Cardinality(Full) - 1
<1>1. pBD \in Full
  BY DEF TypeOK, InHand, set_empty, Full
<1>2. Full' = Full \ {pBD}
  BY DEF TypeOK, set_empty, FreeSlot, Full
<1> QED
  BY <1>1, <1>2, FullFacts, FS_RemoveElement

\* Nothing else writes to the receive ring.
LEMMA RxSteps ==
    ASSUME [Next]_vars
    PROVE  DmaStore \/ set_empty \/ UNCHANGED <<rx, dmaRx, received>>
  BY DEF Next, Main, vars, rxVars, txVars, loopVars, DmaStop, DmaSend, enet_isr, proc_input,
         proc_input_next, rxbd_next_empty, rxbd_next_found, low_level_input, set_RDAR,
         netif_input, output, get_bufdesc, update_bufdesc, output_fails

\* After() stays within a ring.
LEMMA AfterType ==
    /\ \A i \in Slots : After(i, RxSize) \in Slots
    /\ \A i \in TxSlots : After(i, TxSize) \in TxSlots
  BY RingAssumption DEF After, Slots, TxSlots

\* Distances in a ring.
LEMMA DistType ==
    ASSUME NEW size \in Nat \ {0}, NEW i \in 0..(size - 1), NEW from \in 0..(size - 1)
    PROVE  Dist(i, from, size) \in 0..(size - 1) /\ Dist(from, from, size) = 0
  BY DEF Dist

\* What becomes of a distance when its start moves on.
LEMMA DistFromAfter ==
    ASSUME NEW size \in Nat \ {0}, NEW i \in 0..(size - 1), NEW from \in 0..(size - 1)
    PROVE  /\ i = from => Dist(i, After(from, size), size) = size - 1
           /\ i # from => Dist(i, After(from, size), size) = Dist(i, from, size) - 1
  BY DEF Dist, After

\* What becomes of it when its end moves on, short of the start.
LEMMA DistToAfter ==
    ASSUME NEW size \in Nat \ {0}, NEW i \in 0..(size - 1), NEW from \in 0..(size - 1)
    PROVE  /\ After(i, size) = from => Dist(i, from, size) = size - 1
           /\ After(i, size) # from
                => Dist(After(i, size), from, size) = Dist(i, from, size) + 1
  BY DEF Dist, After

\* Descriptors at the same distance are the same.
LEMMA DistDiffers ==
    ASSUME NEW size \in Nat \ {0}, NEW i \in 0..(size - 1), NEW j \in 0..(size - 1),
           NEW from \in 0..(size - 1), Dist(i, from, size) = Dist(j, from, size)
    PROVE  i = j
  BY DEF Dist

-----------------------------------------------------------------------------
(* Every step keeps each part of the invariant.                            *)

\* Types are kept.
LEMMA TypeStep ==
    ASSUME TypeOK, [Next]_vars
    PROVE  TypeOK'
<1> USE DEF TypeOK, rxVars, loopVars, txVars, NoFrame
<1>1. CASE DmaStore
  BY <1>1, AfterType DEF DmaStore
<1>2. CASE DmaStop \/ enet_isr
  BY <1>2, ZenonT(60) DEF DmaStop, enet_isr
<1>3. CASE DmaSend
  BY <1>3, AfterType DEF DmaSend
<1>4. CASE proc_input
  <2>1. s_rxNotAvail' \in BOOLEAN
    BY <1>4 DEF proc_input, TakeFlag
  <2> QED
    BY <1>4, <2>1 DEF proc_input, Search
<1>13. CASE proc_input_next
  BY <1>13 DEF proc_input_next, Search
<1>5. CASE rxbd_next_empty
  BY <1>5, AfterType DEF rxbd_next_empty
<1>6. CASE rxbd_next_found
  BY <1>6, AfterType DEF rxbd_next_found, Advance
<1>7. ASSUME NEW ok \in BOOLEAN, low_level_input(ok) PROVE TypeOK'
  BY <1>7 DEF low_level_input, CopyFrame
<1>8. CASE set_empty
  BY <1>8 DEF set_empty, FreeSlot
<1>14. CASE set_RDAR
  <2>1. RDAR' \in BOOLEAN
    BY <1>14 DEF set_RDAR, TellDma
  <2> QED
    BY <1>14, <2>1 DEF set_RDAR
<1>9. CASE netif_input
  BY <1>9 DEF netif_input
<1>10. CASE output \/ get_bufdesc \/ output_fails
  BY <1>10, ZenonT(60) DEF output, get_bufdesc, output_fails
<1>11. CASE update_bufdesc
  BY <1>11, AfterType DEF update_bufdesc
<1>12. CASE UNCHANGED vars
  BY <1>12 DEF vars
<1> QED
  BY <1>1, <1>2, <1>3, <1>4, <1>5, <1>6, <1>7, <1>8, <1>9, <1>10, <1>11, <1>12,
     <1>13, <1>14
  DEF Next, Main

\* Every frame in the ring is one descriptor further back when another comes.
LEMMA StampedStep ==
    ASSUME TypeOK, Stamped, InHand, [Next]_vars
    PROVE  Stamped'
<1>1. CASE DmaStore
  <2> SUFFICES ASSUME NEW i \in Slots, rx'[i] # NoFrame
               PROVE  rx'[i] = received' + 1 - RxSize + Dist(i, dmaRx', RxSize)
    BY DEF Stamped
  <2>1. /\ received' = received + 1 /\ received \in Nat /\ RxSize \in Nat
        /\ rx' = [rx EXCEPT ![dmaRx] = received'] /\ dmaRx' = After(dmaRx, RxSize)
    BY <1>1, RingAssumption DEF DmaStore, TypeOK
  <2>2. i \in 0..(RxSize - 1) /\ dmaRx \in 0..(RxSize - 1) /\ RxSize \in Nat \ {0}
    BY RingAssumption DEF TypeOK, Slots
  <2>3. CASE i = dmaRx
    <3>1. Dist(i, dmaRx', RxSize) = RxSize - 1
      BY <2>1, <2>2, <2>3, DistFromAfter
    <3> QED
      BY <2>1, <2>3, <3>1 DEF TypeOK
  <2>4. CASE i # dmaRx
    <3>1. rx'[i] = rx[i]
      BY <2>1, <2>4 DEF TypeOK
    <3>2. rx[i] = received + 1 - RxSize + Dist(i, dmaRx, RxSize)
      BY <3>1 DEF Stamped
    <3>3. Dist(i, dmaRx', RxSize) = Dist(i, dmaRx, RxSize) - 1
      BY <2>1, <2>2, <2>4, DistFromAfter
    <3>4. Dist(i, dmaRx, RxSize) \in Int
      BY <2>2, DistType
    <3> QED
      BY <2>1, <3>1, <3>2, <3>3, <3>4
  <2> QED
    BY <2>3, <2>4
<1>2. CASE set_empty
  BY <1>2 DEF set_empty, FreeSlot, TypeOK, Stamped
<1>3. CASE UNCHANGED <<rx, dmaRx, received>>
  BY <1>3 DEF Stamped
<1> QED
  BY <1>1, <1>2, <1>3, RxSteps

\* Frames that lie in different descriptors are different.
LEMMA StampsDiffer ==
    ASSUME TypeOK, Stamped, NEW i \in Slots, NEW j \in Slots, rx[i] = rx[j], rx[i] # NoFrame
    PROVE  i = j
<1>1. Dist(i, dmaRx, RxSize) \in Int /\ Dist(j, dmaRx, RxSize) \in Int
  BY DistType, RingAssumption DEF TypeOK, Slots
<1>2. Dist(i, dmaRx, RxSize) = Dist(j, dmaRx, RxSize)
  BY <1>1, RingAssumption DEF Stamped, TypeOK
<1> QED
  BY <1>2, DistDiffers, RingAssumption DEF TypeOK, Slots

\* The MAC leaves a full descriptor alone.
LEMMA InHandStep ==
    ASSUME TypeOK, InHand, [Next]_vars
    PROVE  InHand'
<1> USE DEF rxVars, loopVars, txVars, InHand
<1>1. CASE DmaStore
  BY <1>1 DEF DmaStore, TypeOK
<1>2. CASE rxbd_next_found
  BY <1>2 DEF rxbd_next_found
<1>3. ASSUME NEW ok \in BOOLEAN, low_level_input(ok) PROVE InHand'
  BY <1>3 DEF low_level_input
<1>4. CASE proc_input \/ proc_input_next \/ rxbd_next_empty
  BY <1>4 DEF proc_input, proc_input_next, rxbd_next_empty, Search
<1>5. CASE set_empty \/ set_RDAR \/ netif_input
  BY <1>5 DEF set_empty, set_RDAR, netif_input
<1>6. CASE output \/ get_bufdesc \/ update_bufdesc \/ output_fails
  BY <1>6 DEF output, get_bufdesc, update_bufdesc, output_fails, TypeOK
<1>7. CASE DmaStop \/ DmaSend \/ enet_isr \/ UNCHANGED vars
  BY <1>7 DEF DmaStop, DmaSend, enet_isr, vars
<1> QED
  BY <1>1, <1>2, <1>3, <1>4, <1>5, <1>6, <1>7 DEF Next, Main

\* A frame leaves the ring only after it has been taken.
LEMMA TakenStep ==
    ASSUME TypeOK, Stamped, InHand, FramesTakenOnce, [Next]_vars
    PROVE  FramesTakenOnce'
<1>1. CASE DmaStore
  <2>1. /\ at' = at /\ pBD' = pBD /\ taken' = taken /\ received' = received + 1
        /\ rx' = [rx EXCEPT ![dmaRx] = received + 1] /\ rx[dmaRx] = NoFrame
    BY <1>1 DEF DmaStore, loopVars
  <2>2. Frames(rx') = Frames(rx) \cup {received + 1}
    BY <2>1 DEF Frames, TypeOK, NoFrame
  <2>3. at = "free" => rx'[pBD] = rx[pBD]
    BY <2>1 DEF InHand, TypeOK
  <2>4. 1..received' = (1..received) \cup {received + 1} /\ received + 1 \notin 1..received
    BY <2>1 DEF TypeOK
  <2>5. received + 1 \notin taken
    BY <2>4 DEF FramesTakenOnce
  <2> QED
    BY <2>1, <2>2, <2>3, <2>4, <2>5 DEF FramesTakenOnce
<1>2. CASE set_empty
  <2>1. /\ at = "free" /\ at' = "tell" /\ taken' = taken /\ received' = received
        /\ rx' = [rx EXCEPT ![pBD] = NoFrame] /\ pBD \in Slots /\ rx[pBD] # NoFrame
    BY <1>2 DEF set_empty, FreeSlot, loopVars, TypeOK, InHand
  <2>2. Frames(rx') = Frames(rx) \ {rx[pBD]}
    BY <2>1, StampsDiffer DEF Frames, TypeOK
  <2> QED
    BY <2>1, <2>2 DEF FramesTakenOnce
<1>3. ASSUME NEW ok \in BOOLEAN, low_level_input(ok) PROVE FramesTakenOnce'
  <2>1. /\ at = "copy" /\ at' = "free" /\ taken' = taken \cup {rx[pBD]} /\ pBD' = pBD
        /\ received' = received /\ rx' = rx /\ rx[pBD] # NoFrame
    BY <1>3 DEF low_level_input, CopyFrame, rxVars, InHand
  <2>2. rx[pBD] \in Frames(rx)
    BY <2>1 DEF Frames, TypeOK
  <2> QED
    BY <2>1, <2>2 DEF FramesTakenOnce
<1>4. CASE UNCHANGED <<rx, received, taken>> /\ ~(at = "free") /\ ~(at' = "free")
  BY <1>4 DEF FramesTakenOnce
<1>5. CASE UNCHANGED <<rx, received, taken, at, pBD>>
  BY <1>5 DEF FramesTakenOnce
<1> QED
  BY <1>1, <1>2, <1>3, <1>4, <1>5
  DEF Next, Main, vars, rxVars, txVars, loopVars, DmaStop, DmaSend, enet_isr, proc_input,
      proc_input_next, rxbd_next_empty, rxbd_next_found, set_RDAR, netif_input, output,
      get_bufdesc, update_bufdesc, output_fails, Search, TypeOK

\* The numbers that Counted is about.
LEMMA CountTypes ==
    ASSUME TypeOK
    PROVE  /\ s_pRxBD \in 0..(RxSize - 1) /\ dmaRx \in 0..(RxSize - 1)
           /\ Cardinality(Full) \in 0..RxSize /\ Passed \in {0, 1}
           /\ RxSize \in Nat \ {0}
  BY FullFacts, RingAssumption DEF TypeOK, Slots, Passed

\* One frame more and dmaRx goes on; one frame is found and s_pRxBD goes on.
LEMMA CountedStep ==
    ASSUME TypeOK, InHand, Counted, [Next]_vars
    PROVE  Counted'
<1>1. CASE DmaStore
  <2>1. /\ s_pRxBD' = s_pRxBD /\ Passed' = Passed /\ dmaRx' = After(dmaRx, RxSize)
        /\ Cardinality(Full') = Cardinality(Full) + 1 /\ Cardinality(Full) < RxSize
    BY <1>1, StoreFills DEF DmaStore, Passed
  <2> QED
    BY <2>1, CountTypes DEF Counted, After
<1>2. CASE rxbd_next_found
  <2>1. /\ s_pRxBD' = After(s_pRxBD, RxSize) /\ Passed = 0 /\ Passed' = 1 /\ dmaRx' = dmaRx
        /\ Full' = Full
    BY <1>2 DEF rxbd_next_found, Advance, Passed, Full
  <2>2. Cardinality(Full) # 0
    BY <1>2, FullFacts DEF rxbd_next_found, Full, TypeOK
  <2> QED
    BY <2>1, <2>2, CountTypes DEF Counted, After
<1>3. CASE set_empty
  <2>1. /\ s_pRxBD' = s_pRxBD /\ Passed = 1 /\ Passed' = 0 /\ dmaRx' = dmaRx
        /\ Cardinality(Full') = Cardinality(Full) - 1
    BY <1>3, FreeEmpties DEF set_empty, Passed
  <2> QED
    BY <2>1, CountTypes DEF Counted
<1>4. CASE UNCHANGED <<rx, dmaRx, s_pRxBD>> /\ Passed' = Passed
  BY <1>4 DEF Counted, Full
<1> QED
  BY <1>1, <1>2, <1>3, <1>4
  DEF Next, Main, vars, rxVars, txVars, loopVars, DmaStop, DmaSend, enet_isr, proc_input,
      proc_input_next, rxbd_next_empty, low_level_input, set_RDAR, netif_input, output,
      get_bufdesc, update_bufdesc, output_fails, Search, TypeOK, Passed

\* A descriptor is freed before the MAC is told, and nothing comes between that
\* would take its place.
LEMMA ToldStep ==
    ASSUME TypeOK, DmaIsTold, [Next]_vars
    PROVE  DmaIsTold'
<1>1. CASE DmaStore \/ DmaStop
  BY <1>1 DEF DmaStore, DmaStop, DmaIsTold
<1>2. CASE set_empty
  BY <1>2 DEF set_empty, DmaIsTold
<1>3. CASE set_RDAR
  BY <1>3 DEF set_RDAR, TellDma, DmaIsTold
<1>4. CASE UNCHANGED <<RDAR, rx, dmaRx>> /\ (at = "tell" => at' = "tell")
  BY <1>4 DEF DmaIsTold
<1> QED
  BY <1>1, <1>2, <1>3, <1>4
  DEF Next, Main, vars, rxVars, txVars, loopVars, DmaSend, enet_isr, proc_input,
      proc_input_next, rxbd_next_empty, rxbd_next_found, low_level_input, netif_input, output,
      get_bufdesc, update_bufdesc, output_fails

\* The transmit ring: the MAC takes the first, the driver appends.
LEMMA TxStep ==
    ASSUME TypeOK, TxRing, [Next]_vars
    PROVE  TxRing'
<1>1. /\ TxSize \in Nat \ {0} /\ queued \in Nat /\ sent \in Nat
      /\ dmaTx \in 0..(TxSize - 1) /\ s_pTxBD \in 0..(TxSize - 1)
      /\ tx \in [TxSlots -> Nat] /\ TxSlots = 0..(TxSize - 1)
  BY RingAssumption DEF TypeOK, TxSlots
<1>2. CASE DmaSend
  <2>1. /\ tx[dmaTx] # NoFrame /\ tx' = [tx EXCEPT ![dmaTx] = NoFrame]
        /\ dmaTx' = After(dmaTx, TxSize) /\ sent' = sent + 1
        /\ queued' = queued /\ s_pTxBD' = s_pTxBD /\ at' = at
    BY <1>2 DEF DmaSend
  <2>2. queued - sent \in 1..TxSize
    BY <1>1, <2>1, DistType DEF TxRing
  <2>3. /\ queued' - sent' \in 0..TxSize
        /\ s_pTxBD' \in {dmaTx' + (queued' - sent'), dmaTx' + (queued' - sent') - TxSize}
    BY <1>1, <2>1, <2>2 DEF TxRing, After
  <2>4. ASSUME NEW i \in TxSlots
        PROVE  tx'[i] = IF Dist(i, dmaTx', TxSize) < queued' - sent'
                        THEN sent' + 1 + Dist(i, dmaTx', TxSize) ELSE NoFrame
    <3>1. CASE i = dmaTx
      <4>1. Dist(i, dmaTx', TxSize) = TxSize - 1
        BY <1>1, <2>1, <3>1, DistFromAfter
      <4> QED
        BY <1>1, <2>1, <2>2, <3>1, <4>1
    <3>2. CASE i # dmaTx
      <4>1. Dist(i, dmaTx', TxSize) = Dist(i, dmaTx, TxSize) - 1
        BY <1>1, <2>1, <3>2, DistFromAfter
      <4>2. Dist(i, dmaTx, TxSize) \in Int
        BY <1>1, DistType
      <4>3. tx'[i] = tx[i]
        BY <1>1, <2>1, <3>2
      <4> QED
        BY <1>1, <2>1, <4>1, <4>2, <4>3, SMTT(40) DEF TxRing
    <3> QED
      BY <3>1, <3>2
  <2>5. at' = "fill" => tx'[s_pTxBD'] = NoFrame
    BY <1>1, <2>1 DEF TxRing
  <2> QED
    BY <2>3, <2>4, <2>5 DEF TxRing
<1>3. CASE update_bufdesc
  <2>1. /\ tx[s_pTxBD] = NoFrame /\ tx' = [tx EXCEPT ![s_pTxBD] = queued + 1]
        /\ s_pTxBD' = After(s_pTxBD, TxSize) /\ queued' = queued + 1
        /\ dmaTx' = dmaTx /\ sent' = sent /\ at' # "fill"
    BY <1>3 DEF update_bufdesc, TxRing, TypeOK
  <2>2. /\ queued - sent \in 0..(TxSize - 1)
        /\ Dist(s_pTxBD, dmaTx, TxSize) = queued - sent
    <3>1. queued - sent # TxSize
      <4> SUFFICES ASSUME queued - sent = TxSize PROVE FALSE
        OBVIOUS
      <4>1. Dist(s_pTxBD, dmaTx, TxSize) \in 0..(TxSize - 1)
        BY <1>1, DistType
      <4>2. tx[s_pTxBD] = sent + 1 + Dist(s_pTxBD, dmaTx, TxSize)
        BY <1>1, <4>1 DEF TxRing
      <4> QED
        BY <1>1, <2>1, <4>1, <4>2 DEF NoFrame
    <3> QED
      BY <1>1, <3>1 DEF TxRing, Dist
  <2>3. /\ queued' - sent' \in 0..TxSize
        /\ s_pTxBD' \in {dmaTx' + (queued' - sent'), dmaTx' + (queued' - sent') - TxSize}
    BY <1>1, <2>1, <2>2 DEF TxRing, After
  <2>4. ASSUME NEW i \in TxSlots
        PROVE  tx'[i] = IF Dist(i, dmaTx', TxSize) < queued' - sent'
                        THEN sent' + 1 + Dist(i, dmaTx', TxSize) ELSE NoFrame
    <3>1. CASE i = s_pTxBD
      <4>1. Dist(i, dmaTx', TxSize) = queued - sent /\ tx'[i] = queued + 1
        BY <1>1, <2>1, <2>2, <3>1
      <4> QED
        BY <1>1, <2>1, <4>1
    <3>2. CASE i # s_pTxBD
      <4>1. Dist(i, dmaTx, TxSize) # queued - sent
        BY <1>1, <2>2, <3>2, DistDiffers
      <4>2. Dist(i, dmaTx, TxSize) \in Int
        BY <1>1, DistType
      <4>3. tx'[i] = tx[i]
        BY <1>1, <2>1, <3>2
      <4>4. tx[i] = IF Dist(i, dmaTx, TxSize) < queued - sent
                    THEN sent + 1 + Dist(i, dmaTx, TxSize) ELSE NoFrame
        BY DEF TxRing
      <4>5. Dist(i, dmaTx, TxSize) < queued - sent <=> Dist(i, dmaTx, TxSize) < queued + 1 - sent
        BY <1>1, <4>1, <4>2, SMTT(40)
      <4>6. /\ Dist(i, dmaTx', TxSize) = Dist(i, dmaTx, TxSize)
            /\ queued' - sent' = queued + 1 - sent /\ sent' = sent
        BY <1>1, <2>1 DEF Dist
      <4>7. CASE Dist(i, dmaTx, TxSize) < queued - sent
        BY <4>3, <4>4, <4>5, <4>6, <4>7
      <4>8. CASE ~(Dist(i, dmaTx, TxSize) < queued - sent)
        BY <4>3, <4>4, <4>5, <4>6, <4>8
      <4> QED
        BY <4>7, <4>8
    <3> QED
      BY <3>1, <3>2
  <2> QED
    BY <2>1, <2>3, <2>4 DEF TxRing
<1>4. CASE get_bufdesc
  BY <1>4 DEF get_bufdesc, BufFree, TxRing, txVars
<1>5. CASE UNCHANGED txVars /\ (at' = "fill" => at = "fill")
  BY <1>5 DEF TxRing, txVars
<1> QED
  BY <1>2, <1>3, <1>4, <1>5
  DEF Next, Main, vars, rxVars, loopVars, DmaStore, DmaStop, enet_isr, proc_input,
      proc_input_next, rxbd_next_empty, rxbd_next_found, low_level_input, set_empty, set_RDAR,
      netif_input, output, output_fails, Search, TypeOK

\* enet::proc_input(): what a pass has seen empty stays empty while nothing
\* arrives, and every frame found is one that is no longer in the ring.
LEMMA PassStep ==
    ASSUME TypeOK, InHand, PassSeesAll, [Next]_vars
    PROVE  PassSeesAll'
<1> USE DEF rxVars, loopVars, txVars
<1>1. CASE DmaStore
  BY <1>1 DEF DmaStore, PassSeesAll, Quiet
<1>2. CASE enet_isr
  BY <1>2 DEF enet_isr, PassSeesAll, Quiet
<1>3. CASE proc_input
  <2>1. /\ at' = "search" /\ counter' = 0 /\ Full' = Full /\ pBD' = s_pRxBD'
        /\ s_pRxBD' = s_pRxBD
    BY <1>3 DEF proc_input, Search, Full
  <2>2. Uncounted' = 0 /\ ~BetweenPasses'
    BY <2>1 DEF Uncounted, BetweenPasses
  <2>3. Cardinality(Full') + counter' + Uncounted' <= RxSize
    BY <2>1, <2>2, CountTypes
  <2>4. \A i \in Slots : ~(Dist(i, s_pRxBD', RxSize) < Dist(pBD', s_pRxBD', RxSize))
    BY <2>1, DistType, CountTypes DEF Slots
  <2> QED
    BY <2>2, <2>3, <2>4 DEF PassSeesAll
<1>4. CASE proc_input_next
  <2> SUFFICES ASSUME Quiet' PROVE PassSeesAll'
    BY DEF PassSeesAll
  <2>1. /\ Quiet /\ at = "next" /\ counter' = counter /\ Full' = Full
        /\ s_pRxBD' = s_pRxBD
    BY <1>4 DEF proc_input_next, Quiet, Full
  <2>2. Uncounted = 0 /\ ~BetweenPasses
    BY <2>1 DEF Uncounted, BetweenPasses
  <2>3. Cardinality(Full) + counter <= RxSize
    BY <2>1, <2>2, CountTypes DEF PassSeesAll, TypeOK
  <2>4. ~(counter >= PassLimit)
    BY <2>3, CountTypes DEF PassLimit, TypeOK
  <2>5. at' = "search" /\ pBD' = s_pRxBD
    BY <1>4, <2>4 DEF proc_input_next, Search
  <2>6. Uncounted' = 0 /\ ~BetweenPasses'
    BY <2>5 DEF Uncounted, BetweenPasses
  <2>7. Cardinality(Full') + counter' + Uncounted' <= RxSize
    BY <2>1, <2>3, <2>6, CountTypes DEF TypeOK
  <2>8. \A i \in Slots : ~(Dist(i, s_pRxBD', RxSize) < Dist(pBD', s_pRxBD', RxSize))
    BY <2>1, <2>5, DistType, CountTypes DEF Slots
  <2> QED
    BY <2>6, <2>7, <2>8 DEF PassSeesAll
<1>5. CASE rxbd_next_empty
  <2> SUFFICES ASSUME Quiet' PROVE PassSeesAll'
    BY DEF PassSeesAll
  <2>1. /\ Quiet /\ at = "search" /\ rx[pBD] = NoFrame /\ counter' = counter /\ rx' = rx
        /\ s_pRxBD' = s_pRxBD /\ pBD' = After(pBD, RxSize)
    BY <1>5 DEF rxbd_next_empty, Quiet
  <2>2. Uncounted = 0 /\ ~BetweenPasses
    BY <2>1 DEF Uncounted, BetweenPasses
  <2>3. /\ pBD \in 0..(RxSize - 1) /\ s_pRxBD \in 0..(RxSize - 1) /\ RxSize \in Nat \ {0}
    BY CountTypes DEF TypeOK, Slots
  <2>4. \A i \in Slots :
          Dist(i, s_pRxBD, RxSize) <= Dist(pBD, s_pRxBD, RxSize) => rx[i] = NoFrame
    <3> SUFFICES ASSUME NEW i \in Slots,
                        Dist(i, s_pRxBD, RxSize) <= Dist(pBD, s_pRxBD, RxSize)
                 PROVE  rx[i] = NoFrame
      OBVIOUS
    <3>1. i \in 0..(RxSize - 1)
      BY DEF Slots
    <3>2. Dist(i, s_pRxBD, RxSize) \in Int /\ Dist(pBD, s_pRxBD, RxSize) \in Int
      BY <2>3, <3>1, DistType
    <3>3. CASE Dist(i, s_pRxBD, RxSize) = Dist(pBD, s_pRxBD, RxSize)
      BY <2>1, <2>3, <3>1, <3>3, DistDiffers
    <3>4. CASE Dist(i, s_pRxBD, RxSize) < Dist(pBD, s_pRxBD, RxSize)
      BY <2>1, <3>4 DEF PassSeesAll
    <3> QED
      BY <3>2, <3>3, <3>4
  <2>5. CASE pBD' = s_pRxBD
    <3>1. at' = "idle"
      BY <1>5, <2>5 DEF rxbd_next_empty
    <3>2. Dist(pBD, s_pRxBD, RxSize) = RxSize - 1
      BY <2>1, <2>3, <2>5, DistToAfter
    <3>3. \A i \in Slots : Dist(i, s_pRxBD, RxSize) <= RxSize - 1
      BY <2>3, DistType DEF Slots
    <3>4. Full' = {}
      BY <2>1, <2>4, <3>2, <3>3 DEF Full
    <3>5. BetweenPasses'
      BY <3>1 DEF BetweenPasses
    <3> QED
      BY <3>1, <3>4, <3>5 DEF PassSeesAll
  <2>6. CASE pBD' # s_pRxBD
    <3>1. at' = "search"
      BY <1>5, <2>1, <2>6 DEF rxbd_next_empty
    <3>2. Uncounted' = 0 /\ ~BetweenPasses'
      BY <3>1 DEF Uncounted, BetweenPasses
    <3>3. Cardinality(Full') + counter' + Uncounted' <= RxSize
      <4>1. Full' = Full
        BY <2>1 DEF Full
      <4> QED
        BY <2>1, <2>2, <3>2, <4>1 DEF PassSeesAll
    <3>4. Dist(pBD', s_pRxBD', RxSize) = Dist(pBD, s_pRxBD, RxSize) + 1
      BY <2>1, <2>3, <2>6, DistToAfter
    <3>5. \A i \in Slots : /\ Dist(i, s_pRxBD, RxSize) \in Int
                           /\ Dist(pBD, s_pRxBD, RxSize) \in Int
      BY <2>3, DistType DEF Slots
    <3>6. \A i \in Slots :
            Dist(i, s_pRxBD', RxSize) < Dist(pBD', s_pRxBD', RxSize) => rx'[i] = NoFrame
      <4> SUFFICES ASSUME NEW i \in Slots,
                          Dist(i, s_pRxBD', RxSize) < Dist(pBD', s_pRxBD', RxSize)
                   PROVE  rx'[i] = NoFrame
        OBVIOUS
      <4>1. Dist(i, s_pRxBD, RxSize) < Dist(pBD, s_pRxBD, RxSize) + 1
        BY <2>1, <3>4
      <4>2. Dist(i, s_pRxBD, RxSize) <= Dist(pBD, s_pRxBD, RxSize)
        BY <3>5, <4>1
      <4> QED
        BY <2>1, <2>4, <4>2
    <3> QED
      BY <3>2, <3>3, <3>6 DEF PassSeesAll
  <2> QED
    BY <2>5, <2>6
<1>6. CASE set_empty
  <2> SUFFICES ASSUME Quiet' PROVE PassSeesAll'
    BY DEF PassSeesAll
  <2>1. Quiet /\ at = "free" /\ at' = "tell" /\ counter' = counter
    BY <1>6 DEF set_empty, Quiet
  <2>2. Uncounted = 0 /\ ~BetweenPasses /\ Uncounted' = 1 /\ ~BetweenPasses'
    BY <2>1 DEF Uncounted, BetweenPasses
  <2>3. Cardinality(Full') = Cardinality(Full) - 1
    BY <1>6, FreeEmpties
  <2>4. Cardinality(Full) + counter <= RxSize
    BY <2>1, <2>2, CountTypes DEF PassSeesAll, TypeOK
  <2>5. Cardinality(Full') + counter' + Uncounted' <= RxSize
    BY <2>1, <2>2, <2>3, <2>4, CountTypes DEF TypeOK
  <2> QED
    BY <2>1, <2>2, <2>5 DEF PassSeesAll
<1>7. CASE netif_input
  <2> SUFFICES ASSUME Quiet' PROVE PassSeesAll'
    BY DEF PassSeesAll
  <2>1. Quiet /\ at = "input" /\ at' = "next" /\ counter' = counter + 1 /\ Full' = Full
    BY <1>7 DEF netif_input, Quiet, Full
  <2>2. Uncounted = 1 /\ ~BetweenPasses /\ Uncounted' = 0 /\ ~BetweenPasses'
    BY <2>1 DEF Uncounted, BetweenPasses
  <2>3. Cardinality(Full) + counter + 1 <= RxSize
    BY <2>1, <2>2 DEF PassSeesAll
  <2>4. Cardinality(Full') + counter' + Uncounted' <= RxSize
    BY <2>1, <2>2, <2>3, CountTypes DEF TypeOK
  <2> QED
    BY <2>1, <2>2, <2>4 DEF PassSeesAll
<1>8. CASE set_RDAR
  <2>1. UNCHANGED <<rx, s_rxNotAvail, RXF, counter, caller>> /\ at = "tell"
    BY <1>8 DEF set_RDAR
  <2>2. Full' = Full /\ (Quiet' => Quiet) /\ Uncounted = 1 /\ ~BetweenPasses
    BY <2>1 DEF Full, Quiet, Uncounted, BetweenPasses
  <2>3. CASE p = NoFrame
    <3>1. at' = "idle" /\ ended' = "error"
      BY <1>8, <2>3 DEF set_RDAR
    <3> QED
      BY <3>1 DEF PassSeesAll, BetweenPasses
  <2>4. CASE p # NoFrame
    <3>1. at' = "input"
      BY <1>8, <2>4 DEF set_RDAR
    <3>2. Uncounted' = 1 /\ ~BetweenPasses'
      BY <3>1 DEF Uncounted, BetweenPasses
    <3> QED
      BY <2>1, <2>2, <3>1, <3>2 DEF PassSeesAll
  <2> QED
    BY <2>3, <2>4
<1>9. CASE /\ UNCHANGED <<rx, s_rxNotAvail, RXF, counter, ended>> /\ at' # "search"
           /\ BetweenPasses' = BetweenPasses /\ Uncounted' = Uncounted
  <2>1. Full' = Full /\ Quiet' = Quiet
    BY <1>9 DEF Full, Quiet
  <2> QED
    BY <1>9, <2>1 DEF PassSeesAll
<1>10. CASE rxbd_next_found \/ (\E ok \in BOOLEAN : low_level_input(ok))
  BY <1>9, <1>10 DEF rxbd_next_found, low_level_input, BetweenPasses, Uncounted
<1>11. CASE output \/ get_bufdesc
  BY <1>9, <1>11 DEF output, get_bufdesc, BetweenPasses, Uncounted
<1>12. CASE update_bufdesc \/ output_fails
  <2>1. caller \in {"idle", "input"}
    BY DEF TypeOK
  <2> QED
    BY <1>9, <1>12, <2>1 DEF update_bufdesc, output_fails, BetweenPasses, Uncounted
<1>13. CASE DmaStop \/ DmaSend \/ UNCHANGED vars
  <2>1. UNCHANGED <<rx, s_rxNotAvail, RXF, at, pBD, s_pRxBD, counter, ended, caller>>
    BY <1>13 DEF DmaStop, DmaSend, vars
  <2> QED
    BY <2>1 DEF PassSeesAll, Quiet, BetweenPasses, Uncounted, Full
<1> QED
  BY <1>1, <1>2, <1>3, <1>4, <1>5, <1>6, <1>7, <1>8, <1>10, <1>11, <1>12, <1>13
  DEF Next, Main

-----------------------------------------------------------------------------
(* The theorems.                                                           *)

\* The invariant holds as long as the driver runs: what init() sets up satisfies
\* it, and every step of the MAC, the interrupt and the loop keeps it.
THEOREM Invariance == Spec => []Inv
<1>1. ASSUME Init PROVE Inv
  <2>1. TypeOK
    <3>1. 0 \in Slots /\ 0 \in TxSlots /\ NoFrame \in Nat
      BY RingAssumption DEF Slots, TxSlots, NoFrame
    <3>2. /\ rx \in [Slots -> Nat] /\ dmaRx \in Slots /\ received \in Nat
          /\ s_pRxBD \in Slots /\ pBD \in Slots /\ counter \in Nat /\ p \in Nat
          /\ taken \subseteq Nat /\ tx \in [TxSlots -> Nat] /\ s_pTxBD \in TxSlots
          /\ dmaTx \in TxSlots /\ queued \in Nat /\ sent \in Nat
      BY <1>1, <3>1 DEF Init
    <3>3. RDAR \in BOOLEAN /\ RXF \in BOOLEAN /\ s_rxNotAvail \in BOOLEAN
      BY <1>1 DEF Init
    <3>4. at = "idle" /\ ended = "empty" /\ caller = "idle"
      BY <1>1 DEF Init
    <3> QED
      BY <3>2, <3>3, <3>4 DEF TypeOK
  <2>2. Full = {}
    BY <1>1 DEF Init, Full
  <2>3. Cardinality(Full) = 0
    BY <2>1, <2>2, FullFacts
  <2>4. Stamped /\ InHand /\ DmaIsTold
    BY <1>1 DEF Init, Stamped, InHand, DmaIsTold
  <2>5. FramesTakenOnce
    <3>1. Frames(rx) = {}
      BY <1>1 DEF Init, Frames
    <3> QED
      BY <1>1, <3>1 DEF Init, FramesTakenOnce
  <2>6. Counted
    <3>1. s_pRxBD = 0 /\ dmaRx = 0 /\ Passed = 0
      BY <1>1 DEF Init, Passed
    <3> QED
      BY <2>3, <3>1 DEF Counted
  <2>7. PassSeesAll
    BY <1>1, <2>2 DEF Init, PassSeesAll, BetweenPasses
  <2>8. TxRing
    <3>1. \A i \in TxSlots : tx[i] = NoFrame /\ ~(Dist(i, dmaTx, TxSize) < queued - sent)
      BY <1>1, DistType, RingAssumption DEF Init, TxSlots
    <3>2. queued - sent = 0 /\ s_pTxBD = dmaTx + (queued - sent) /\ at # "fill"
      BY <1>1 DEF Init
    <3> QED
      BY <3>1, <3>2, RingAssumption DEF TxRing
  <2> QED
    BY <2>1, <2>4, <2>5, <2>6, <2>7, <2>8 DEF Inv
<1>2. ASSUME Inv, [Next]_vars PROVE Inv'
  <2>1. TypeOK /\ Stamped /\ InHand /\ FramesTakenOnce
    BY <1>2 DEF Inv
  <2>2. Counted /\ PassSeesAll /\ DmaIsTold /\ TxRing
    BY <1>2 DEF Inv
  <2>3. TypeOK' /\ Stamped' /\ InHand' /\ FramesTakenOnce'
    BY <1>2, <2>1, TypeStep, StampedStep, InHandStep, TakenStep
  <2>4. Counted' /\ PassSeesAll' /\ DmaIsTold' /\ TxRing'
    BY <1>2, <2>1, <2>2, CountedStep, PassStep, ToldStep, TxStep
  <2> QED
    BY <2>3, <2>4 DEF Inv
<1> QED
  BY <1>1, <1>2, PTL DEF Spec

\* Every frame the MAC stores is in the ring or was copied out of it once
\* (low_level_input()), in rings of any size.
THEOREM TakenCorrect == Spec => []FramesTakenOnce
<1>1. Inv => FramesTakenOnce
  BY DEF Inv
<1> QED
  BY <1>1, Invariance, PTL

\* When the ring is empty rxbd_next() begins where the MAC goes on, although it
\* does not search from the last frame it found.
THEOREM MeetCorrect == Spec => []RingsMeet
<1>1. Inv => RingsMeet
  <2> SUFFICES ASSUME Inv, Full = {} PROVE s_pRxBD = dmaRx
    BY DEF RingsMeet
  <2>1. TypeOK /\ InHand /\ Counted
    BY DEF Inv
  <2>2. Cardinality(Full) = 0
    BY <2>1, FullFacts
  <2>3. Passed = 0
    BY <2>1 DEF InHand, Passed, Full, TypeOK
  <2> QED
    BY <2>1, <2>2, <2>3, CountTypes DEF Counted
<1> QED
  BY <1>1, Invariance, PTL

\* A pass that was not cut short by a dropped frame leaves no frame without an
\* interrupt that tells of it (s_rxNotAvail, kRxSize * 2).
THEOREM NoneWaits == Spec => []NoFrameWaits
<1>1. Inv => NoFrameWaits
  BY DEF Inv, PassSeesAll, NoFrameWaits, Quiet, BetweenPasses
<1> QED
  BY <1>1, Invariance, PTL

\* The MAC does not wait for a descriptor that low_level_input() has emptied.
THEOREM ToldCorrect == Spec => []DmaIsTold
<1>1. Inv => DmaIsTold
  BY DEF Inv
<1> QED
  BY <1>1, Invariance, PTL

\* What is ready in the transmit ring are the frames not yet sent, and the MAC is
\* at the oldest (get_bufdesc(), update_bufdesc()).
THEOREM TxCorrect == Spec => []TxInOrder
<1>1. Inv => TxInOrder
  <2> SUFFICES ASSUME Inv PROVE TxInOrder
    OBVIOUS
  <2>1. /\ TxSize \in Nat \ {0} /\ queued \in Nat /\ sent \in Nat
        /\ dmaTx \in 0..(TxSize - 1) /\ DOMAIN tx = TxSlots /\ TxSlots = 0..(TxSize - 1)
    BY RingAssumption DEF Inv, TypeOK, TxSlots
  <2>2. /\ queued - sent \in 0..TxSize
        /\ \A i \in TxSlots :
             tx[i] = IF Dist(i, dmaTx, TxSize) < queued - sent
                     THEN sent + 1 + Dist(i, dmaTx, TxSize) ELSE NoFrame
    BY DEF Inv, TxRing
  <2>3. \A i \in TxSlots : Dist(i, dmaTx, TxSize) \in 0..(TxSize - 1)
    BY <2>1, DistType
  <2>4. \A i \in TxSlots : tx[i] # NoFrame => tx[i] \in (sent + 1)..queued
    <3> SUFFICES ASSUME NEW i \in TxSlots, tx[i] # NoFrame
                 PROVE  tx[i] \in (sent + 1)..queued
      OBVIOUS
    <3>1. Dist(i, dmaTx, TxSize) \in 0..(TxSize - 1)
      BY <2>3
    <3>2. Dist(i, dmaTx, TxSize) < queued - sent
      BY <2>2
    <3>3. tx[i] = sent + 1 + Dist(i, dmaTx, TxSize)
      BY <2>2, <3>2
    <3> QED
      BY <2>1, <3>1, <3>2, <3>3
  <2>5. ASSUME NEW n \in (sent + 1)..queued PROVE \E i \in TxSlots : tx[i] = n
    <3>1. PICK i \in TxSlots : Dist(i, dmaTx, TxSize) = n - sent - 1
      <4> DEFINE d == n - sent - 1
      <4> DEFINE i == IF dmaTx + d < TxSize THEN dmaTx + d ELSE dmaTx + d - TxSize
      <4>1. d \in 0..(TxSize - 1)
        BY <2>1, <2>2
      <4>2. i \in TxSlots
        BY <2>1, <4>1
      <4>3. Dist(i, dmaTx, TxSize) = d
        BY <2>1, <4>1 DEF Dist
      <4> QED
        BY <4>2, <4>3
    <3>2. Dist(i, dmaTx, TxSize) < queued - sent
      BY <2>1, <3>1
    <3>3. tx[i] = sent + 1 + Dist(i, dmaTx, TxSize)
      BY <2>2, <3>2
    <3>4. tx[i] = n
      BY <2>1, <3>1, <3>3
    <3> QED
      BY <3>4
  <2>6. Frames(tx) = (sent + 1)..queued
    <3>1. NoFrame \notin (sent + 1)..queued
      BY <2>1 DEF NoFrame
    <3> QED
      BY <2>1, <2>4, <2>5, <3>1 DEF Frames
  <2>7. queued > sent => tx[dmaTx] = sent + 1
    <3>1. Dist(dmaTx, dmaTx, TxSize) = 0
      BY <2>1, DistType
    <3> QED
      BY <2>1, <2>2, <3>1
  <2> QED
    BY <2>6, <2>7 DEF TxInOrder
<1> QED
  BY <1>1, Invariance, PTL

=============================================================================
