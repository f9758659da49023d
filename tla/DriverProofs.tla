---------------------------- MODULE DriverProofs ----------------------------
(***************************************************************************)
(* Two of the drivers, for all values of their constants.                  *)
(*                                                                         *)
(* The W5500 driver (W5500Driver).  Sending: SendInv, which says of the    *)
(* 16-bit pointers that while a frame is being sent they differ and        *)
(* s_lastSendTxWr is the one the chip is to reach, so that waitForSend-    *)
(* Done() cannot end early.  Receiving: RxInv.  Its heart is Good: what    *)
(* has been taken, the bytes in the driver's ring and the bytes in the     *)
(* chip that have not been scanned are chains of whole frames, each before *)
(* the next, which together are all frames but the lost ones.  Every step  *)
(* moves a whole frame from the head of one chain to the end of the other, *)
(* or drops one; that the ring of bytes, which wraps, does that to its     *)
(* contents is proved apart (RingWrite, RingRead).                         *)
(*                                                                         *)
(* Joining a network with the CYW4343W (WifiJoin): types, the              *)
(* interface is down between attempts, and attempts are spaced by          *)
(* JOIN_RETRY.  join_ticks is one timer with three uses, so the spacing    *)
(* follows only from what the timer means in each state: JoinTimerCounts   *)
(* says that while the state is JOIN_FAIL the timer is not ahead of the    *)
(* time since join_stop(), and that JOIN_IDLE is only reached when         *)
(* JOIN_RETRY is over.                                                     *)
(***************************************************************************)
EXTENDS W5500Driver, WifiJoin, SequenceTheorems, TLAPS

-----------------------------------------------------------------------------
(* Sending.                                                                *)

\* What the chip is sending and has sent was output, in order, and before the
\* frame that waits.
Sent ==
    /\ out \in Nat /\ sending \in Seq(Nat) /\ onWire \in Seq(Seq(Nat))
    /\ Len(sending) <= 1
    /\ \A i \in DOMAIN onWire : Len(onWire[i]) = 1 /\ onWire[i][1] <= out
    /\ sending # <<>> => sending[1] <= out
    /\ at \in {"wait", "space"} => /\ \A i \in DOMAIN onWire : onWire[i][1] < out
                                   /\ sending # <<>> => sending[1] < out
    /\ \A i, j \in DOMAIN onWire : i < j => onWire[i][1] < onWire[j][1]
    /\ sending # <<>> => \A i \in DOMAIN onWire : onWire[i][1] < sending[1]

\* While the chip sends, its pointers differ and s_lastSendTxWr is the one it is
\* to reach; so that the wait ends only when nothing is being sent.
Pointers ==
    /\ TX_RD \in 0..(Words - 1) /\ TX_WR \in 0..(Words - 1)
    /\ s_lastSendTxWr \in -1..(Words - 1)
    /\ sending = <<>> => TX_RD = TX_WR
    /\ sending # <<>> => s_lastSendTxWr = TX_WR /\ TX_RD # TX_WR /\ s_initState # "start"
    /\ at = "space" => sending = <<>>
    /\ at \in {"wait", "space"} => len \in OutLens /\ s_initState # "start" /\ caller # "space"
                                   /\ caller # "wait"

\* What is sent, and how the pointers tell.
SendInv == Sent /\ Pointers

\* Nothing has been sent (Init).
LEMMA SendInit == Init => SendInv
<1> SUFFICES ASSUME Init PROVE SendInv
  OBVIOUS
<1>1. Sent
  BY DEF Init, Sent
<1>2. Pointers
  BY W5500Assumption DEF Init, Pointers
<1> QED
  BY <1>1, <1>2 DEF SendInv

\* A pointer of the chip that has moved on by a frame's length.
LEMMA PointerMoves ==
    ASSUME NEW a \in 0..(Words - 1), NEW n \in OutLens
    PROVE  (a + n) % Words \in 0..(Words - 1) /\ (a + n) % Words # a
<1>1. n \in 1..(Words - 1) /\ Words \in Nat \ {0}
  BY W5500Assumption
<1>2. CASE a + n < Words
  BY <1>1, <1>2
<1>3. CASE a + n >= Words
  <2>1. (a + n) % Words = a + n - Words
    BY <1>1, <1>3
  <2> QED
    BY <1>1, <2>1
<1> QED
  BY <1>1, <1>2, <1>3

\* No step of the chip, the driver or the program breaks the invariant of sending.
LEMMA SendKeeps == SendInv /\ [Next]_vars => SendInv'
<1> SUFFICES ASSUME SendInv, [Next]_vars PROVE SendInv'
  OBVIOUS
<1>1. Sent /\ Pointers
  BY DEF SendInv
<1>2. Start \in 0..(Words - 1) /\ Words \in Nat
  BY W5500Assumption
\* Steps that leave alone what is being sent.
<1>3. ASSUME UNCHANGED <<TX_RD, TX_WR, sending, onWire, s_lastSendTxWr, out, len, caller>>,
             s_initState' # "start" \/ s_initState' = s_initState,
             at' \notin {"wait", "space"} \/ at' = at
      PROVE  SendInv'
  <2>1. Sent'
    BY <1>1, <1>3 DEF Sent
  <2>2. Pointers'
    BY <1>1, <1>3 DEF Pointers
  <2> QED
    BY <2>1, <2>2 DEF SendInv
<1>4. CASE Chip /\ ~ChipSent
  BY <1>3, <1>4 DEF Chip, ChipReceive, ChipStore, txVars
<1>5. CASE ChipSent
  <2>1. /\ sending # <<>> /\ onWire' = Append(onWire, sending) /\ sending' = <<>>
        /\ TX_RD' = TX_WR
        /\ UNCHANGED <<TX_WR, s_lastSendTxWr, out, len, caller, s_initState, at>>
    BY <1>5 DEF ChipSent
  <2>2. Pointers'
    BY <1>1, <2>1 DEF Pointers
  <2>3. /\ sending \in Seq(Nat) /\ Len(sending) = 1 /\ onWire \in Seq(Seq(Nat))
        /\ sending[1] <= out /\ (at \in {"wait", "space"} => sending[1] < out)
    <3>1. sending \in Seq(Nat) /\ Len(sending) <= 1 /\ sending # <<>>
      BY <1>1, <2>1 DEF Sent
    <3>2. Len(sending) = 1
      <4>1. PICK n \in Nat : n = Len(sending) /\ n # 0
        BY <3>1, EmptySeq
      <4> QED
        BY <3>1, <4>1
    <3> QED
      BY <1>1, <2>1, <3>1, <3>2 DEF Sent
  <2>4. /\ onWire' \in Seq(Seq(Nat)) /\ DOMAIN onWire' = 1..(Len(onWire) + 1)
        /\ onWire'[Len(onWire) + 1] = sending
        /\ \A i \in 1..Len(onWire) : onWire'[i] = onWire[i]
        /\ DOMAIN onWire = 1..Len(onWire) /\ Len(onWire) \in Nat
    BY <2>1, <2>3
  <2>5. ASSUME NEW i \in DOMAIN onWire'
        PROVE  \/ i \in DOMAIN onWire /\ onWire'[i] = onWire[i]
               \/ i = Len(onWire) + 1 /\ onWire'[i] = sending
    <3>1. i \in 1..Len(onWire) \/ i = Len(onWire) + 1
      BY <2>4
    <3> QED
      BY <2>4, <3>1
  <2>6. ASSUME NEW i \in DOMAIN onWire'
        PROVE  /\ Len(onWire'[i]) = 1 /\ onWire'[i][1] <= out
               /\ at \in {"wait", "space"} => onWire'[i][1] < out
    <3>1. CASE i \in DOMAIN onWire /\ onWire'[i] = onWire[i]
      BY <1>1, <3>1 DEF Sent
    <3>2. CASE i = Len(onWire) + 1 /\ onWire'[i] = sending
      BY <2>3, <3>2
    <3> QED
      BY <2>5, <3>1, <3>2
  <2>7. ASSUME NEW i \in DOMAIN onWire', NEW j \in DOMAIN onWire', i < j
        PROVE  onWire'[i][1] < onWire'[j][1]
    <3>1. i \in DOMAIN onWire /\ onWire'[i] = onWire[i]
      BY <2>4, <2>5, <2>7
    <3>2. CASE j = Len(onWire) + 1 /\ onWire'[j] = sending
      BY <1>1, <2>1, <3>1, <3>2 DEF Sent
    <3>3. CASE j \in DOMAIN onWire /\ onWire'[j] = onWire[j]
      BY <1>1, <2>7, <3>1, <3>3 DEF Sent
    <3> QED
      BY <2>5, <3>2, <3>3
  <2>8. Sent'
    BY <1>1, <2>1, <2>4, <2>6, <2>7 DEF Sent
  <2> QED
    BY <2>2, <2>8 DEF SendInv
<1>6. CASE init
  <2>1. sending = <<>>
    BY <1>1, <1>6 DEF init, Pointers
  <2>2. Sent'
    BY <1>1, <1>6 DEF init, Sent
  <2>3. Pointers'
    BY <1>2, <1>6, <2>1 DEF init, Pointers
  <2> QED
    BY <2>2, <2>3 DEF SendInv
<1>7. ASSUME sending' = <<>>, TX_RD' = TX_WR', TX_WR' \in {TX_WR, Start},
             at' \notin {"wait", "space"},
             UNCHANGED <<onWire, s_lastSendTxWr, out>>
      PROVE  SendInv'
  <2>1. Sent'
    BY <1>1, <1>7 DEF Sent
  <2>2. Pointers'
    BY <1>1, <1>2, <1>7 DEF Pointers
  <2> QED
    BY <2>1, <2>2 DEF SendInv
<1>8. CASE deinit
  BY <1>7, <1>8 DEF deinit
<1>9. CASE scan_bad
  <2>1. sending' = <<>> /\ TX_RD' = TX_WR' /\ TX_WR' \in {TX_WR, Start}
    BY <1>9 DEF scan_bad, Reopen
  <2> QED
    BY <1>7, <1>9, <2>1 DEF scan_bad
<1>10. CASE loop
  BY <1>3, <1>10 DEF loop, txVars
<1>11. CASE Reading /\ ~scan_bad
  BY <1>3, <1>11 DEF Reading, proc_input, read_RSR, scan_frame, scan_full, scan_end, take_none,
         take_frame, take_nomem, netif_input, AfterFull, txVars
<1>12. CASE output
  <2>1. PICK n \in OutLens :
          /\ at \in {"idle", "input"} /\ s_initState = "initialized"
          /\ out' = out + 1 /\ len' = n /\ caller' = at /\ at' = "wait"
          /\ UNCHANGED <<TX_RD, TX_WR, sending, onWire, s_lastSendTxWr, s_initState>>
    BY <1>12 DEF output
  <2>2. Sent'
    BY <1>1, <2>1 DEF Sent
  <2>3. Pointers'
    BY <1>1, <2>1 DEF Pointers
  <2> QED
    BY <2>2, <2>3 DEF SendInv
<1>13. CASE waitForSendDone
  <2>1. sending = <<>>
    BY <1>1, <1>2, <1>13 DEF waitForSendDone, SendDone, Pointers
  <2>2. Sent'
    BY <1>1, <1>13, <2>1 DEF waitForSendDone, txVars, Sent
  <2>3. Pointers'
    BY <1>1, <1>13, <2>1 DEF waitForSendDone, txVars, Pointers
  <2> QED
    BY <2>2, <2>3 DEF SendInv
<1>14. CASE send_frame
  <2>1. /\ at = "space" /\ TX_WR' = (TX_WR + len) % Words /\ s_lastSendTxWr' = TX_WR'
        /\ sending' = Append(sending, out) /\ at' = caller
        /\ UNCHANGED <<TX_RD, onWire, out, s_initState>>
    BY <1>14 DEF send_frame, NextTxWr
  <2>2. /\ sending = <<>> /\ len \in OutLens /\ TX_RD = TX_WR /\ s_initState # "start"
        /\ at' \notin {"wait", "space"}
    BY <1>1, <2>1 DEF Pointers
  <2>3. TX_WR' \in 0..(Words - 1) /\ TX_WR' # TX_RD'
    BY <1>1, <2>1, <2>2, PointerMoves DEF Pointers
  <2>4. sending' = <<out>> /\ out \in Nat
    BY <1>1, <2>1, <2>2 DEF Sent
  <2>5. sending' \in Seq(Nat) /\ Len(sending') = 1 /\ sending'[1] = out /\ sending' # <<>>
    BY <2>4
  <2>6. Sent'
    BY <1>1, <2>1, <2>2, <2>5 DEF Sent
  <2>7. Pointers'
    BY <1>1, <2>1, <2>2, <2>3, <2>5 DEF Pointers
  <2> QED
    BY <2>6, <2>7 DEF SendInv
<1>15. CASE UNCHANGED vars
  BY <1>3, <1>15 DEF vars, txVars
<1> QED
  BY <1>4, <1>5, <1>6, <1>8, <1>9, <1>10, <1>11, <1>12, <1>13, <1>14, <1>15 DEF Next, Chip

\* The chip is never given a SEND while it works on another one: every frame that
\* output_frame() writes goes out alone and in order, at every value of the
\* pointers and whatever init(), deinit() and restarts of the socket come between.
THEOREM SendsCorrect == Spec => []SendsAlone
<1>1. Init => SendInv
  BY SendInit
<1>2. SendInv /\ [Next]_vars => SendInv'
  BY SendKeeps
<1>3. SendInv => SendsAlone
  BY DEF SendInv, Sent, SendsAlone
<1> QED
  BY <1>1, <1>2, <1>3, PTL DEF Spec

-----------------------------------------------------------------------------
(* Sequences of bytes.                                                     *)

\* A byte is <<k, i>>, byte i of frame k.
Byte == Nat \X Nat

\* r is a with b behind it.
Cat(r, a, b) ==
    /\ r \in Seq(Byte) /\ a \in Seq(Byte) /\ b \in Seq(Byte)
    /\ Len(r) = Len(a) + Len(b)
    /\ \A i \in 1..Len(a) : r[i] = a[i]
    /\ \A i \in 1..Len(b) : r[Len(a) + i] = b[i]

\* The parts of a byte in a sequence.
LEMMA ByteParts ==
    ASSUME NEW t \in Seq(Byte), NEW i \in 1..Len(t)
    PROVE  t[i] \in Byte /\ t[i][1] \in Nat /\ t[i][2] \in Nat /\ Len(t) \in Nat
  BY DEF Byte

\* \o puts one behind the other.
LEMMA CatConcat ==
    ASSUME NEW a \in Seq(Byte), NEW b \in Seq(Byte)
    PROVE  Cat(a \o b, a, b)
  BY ConcatProperties DEF Cat

\* A sequence is its first n bytes and then the others.
LEMMA CatSplit ==
    ASSUME NEW t \in Seq(Byte), NEW n \in 0..Len(t)
    PROVE  Cat(t, SubSeq(t, 1, n), SubSeq(t, n + 1, Len(t)))
<1>1. /\ SubSeq(t, 1, n) \in Seq(Byte) /\ Len(SubSeq(t, 1, n)) = n
      /\ \A i \in 1..n : SubSeq(t, 1, n)[i] = t[i]
  OBVIOUS
<1>2. /\ SubSeq(t, n + 1, Len(t)) \in Seq(Byte) /\ Len(SubSeq(t, n + 1, Len(t))) = Len(t) - n
      /\ \A i \in 1..(Len(t) - n) : SubSeq(t, n + 1, Len(t))[i] = t[n + i]
  OBVIOUS
<1>3. PICK a \in Seq(Byte), b \in Seq(Byte) :
        a = SubSeq(t, 1, n) /\ b = SubSeq(t, n + 1, Len(t))
  BY <1>1, <1>2
<1>4. Len(a) = n /\ Len(b) = Len(t) - n /\ Len(t) \in Nat
  BY <1>1, <1>2, <1>3
<1>5. (\A i \in 1..n : t[i] = a[i]) /\ \A i \in 1..(Len(t) - n) : t[n + i] = b[i]
  BY <1>1, <1>2, <1>3
<1>6. Cat(t, a, b)
  BY <1>4, <1>5 DEF Cat
<1> QED
  BY <1>3, <1>6

\* A position in r is one in a or one in b.
LEMMA CatCases ==
    ASSUME NEW r, NEW a, NEW b, Cat(r, a, b), NEW i \in 1..Len(r)
    PROVE  \/ i \in 1..Len(a) /\ r[i] = a[i]
           \/ \E j \in 1..Len(b) : i = Len(a) + j /\ r[i] = b[j]
<1>1. Len(a) \in Nat /\ Len(b) \in Nat /\ Len(r) = Len(a) + Len(b)
  BY DEF Cat
<1>2. i \in 1..Len(a) \/ (i - Len(a) \in 1..Len(b) /\ i = Len(a) + (i - Len(a)))
  BY <1>1
<1>3. CASE i \in 1..Len(a)
  BY <1>3 DEF Cat
<1>4. CASE i - Len(a) \in 1..Len(b) /\ i = Len(a) + (i - Len(a))
  BY <1>4 DEF Cat
<1> QED
  BY <1>2, <1>3, <1>4

\* The frames that the bytes of r belong to.
LEMMA CatOf ==
    ASSUME NEW r, NEW a, NEW b, Cat(r, a, b)
    PROVE  Of(r) = Of(a) \cup Of(b)
<1>1. /\ DOMAIN r = 1..Len(r) /\ DOMAIN a = 1..Len(a) /\ DOMAIN b = 1..Len(b)
      /\ Len(a) \in Nat /\ Len(b) \in Nat /\ Len(r) = Len(a) + Len(b)
  BY DEF Cat
<1>2. ASSUME NEW x \in Of(r)
      PROVE  x \in Of(a) \cup Of(b)
  <2>1. PICK i \in 1..Len(r) : x = r[i][1]
    BY <1>1 DEF Of
  <2>2. CASE i \in 1..Len(a) /\ r[i] = a[i]
    BY <1>1, <2>1, <2>2 DEF Of
  <2>3. CASE \E j \in 1..Len(b) : i = Len(a) + j /\ r[i] = b[j]
    BY <1>1, <2>1, <2>3 DEF Of
  <2> QED
    BY <2>2, <2>3, CatCases
<1>3. ASSUME NEW x \in Of(a)
      PROVE  x \in Of(r)
  <2>1. PICK i \in 1..Len(a) : x = a[i][1]
    BY <1>1 DEF Of
  <2>2. i \in DOMAIN r /\ r[i] = a[i]
    BY <1>1 DEF Cat
  <2> QED
    BY <2>1, <2>2 DEF Of
<1>4. ASSUME NEW x \in Of(b)
      PROVE  x \in Of(r)
  <2>1. PICK i \in 1..Len(b) : x = b[i][1]
    BY <1>1 DEF Of
  <2>2. Len(a) + i \in DOMAIN r /\ r[Len(a) + i] = b[i]
    BY <1>1 DEF Cat
  <2> QED
    BY <2>1, <2>2 DEF Of
<1> QED
  BY <1>2, <1>3, <1>4

\* What \o does, element by element.
LEMMA ConcatBytes ==
    ASSUME NEW a \in Seq(Byte), NEW b \in Seq(Byte)
    PROVE  /\ a \o b \in Seq(Byte) /\ Len(a \o b) = Len(a) + Len(b)
           /\ Len(a) \in Nat /\ Len(b) \in Nat
           /\ \A i \in 1..Len(a) : (a \o b)[i] = a[i]
           /\ \A i \in 1..Len(b) : (a \o b)[Len(a) + i] = b[i]
  OBVIOUS

\* \o is associative.
LEMMA ConcatBytesAssoc ==
    ASSUME NEW a \in Seq(Byte), NEW b \in Seq(Byte), NEW c \in Seq(Byte)
    PROVE  (a \o b) \o c = a \o (b \o c)
  OBVIOUS

\* There is only one such sequence.
LEMMA CatIs ==
    ASSUME NEW r, NEW a, NEW b, Cat(r, a, b)
    PROVE  r = a \o b
<1>1. PICK m \in Nat, n \in Nat : m = Len(a) /\ n = Len(b) /\ Len(r) = m + n
  BY DEF Cat
<1>2. /\ r \in Seq(Byte) /\ a \in Seq(Byte) /\ b \in Seq(Byte)
      /\ \A i \in 1..m : r[i] = a[i]
      /\ \A i \in 1..n : r[m + i] = b[i]
  BY <1>1 DEF Cat
<1>3. PICK s \in Seq(Byte) : s = a \o b
  BY <1>2, ConcatBytes
<1>4. /\ Len(s) = m + n
      /\ \A i \in 1..m : s[i] = a[i]
      /\ \A i \in 1..n : s[m + i] = b[i]
  BY <1>1, <1>2, <1>3, ConcatBytes
<1>5. ASSUME NEW i \in 1..(m + n)
      PROVE  r[i] = s[i]
  <2>1. CASE i \in 1..m
    BY <1>2, <1>4, <2>1
  <2>2. CASE i \notin 1..m
    <3>1. PICK j \in 1..n : i = m + j
      <4>1. i - m \in 1..n /\ i = m + (i - m)
        BY <2>2
      <4> QED
        BY <4>1
    <3> QED
      BY <1>2, <1>4, <3>1
  <2> QED
    BY <2>1, <2>2
<1>6. r = s
  BY <1>1, <1>2, <1>4, <1>5, SeqEqual
<1> QED
  BY <1>3, <1>6

\* What is behind the first e bytes.
After(s, e) == SubSeq(s, e + 1, Len(s))

\* Its length and its elements.
LEMMA AfterFacts ==
    ASSUME NEW s \in Seq(Byte), NEW e \in 0..Len(s)
    PROVE  /\ After(s, e) \in Seq(Byte) /\ Len(After(s, e)) = Len(s) - e
           /\ \A i \in 1..(Len(s) - e) : After(s, e)[i] = s[e + i]
  BY DEF After

\* Behind nothing lies all of it.
LEMMA AfterNone ==
    ASSUME NEW s \in Seq(Byte)
    PROVE  After(s, 0) = s
  BY SubSeqFull DEF After

\* What is put behind a sequence is behind its first e bytes (ChipStore).
LEMMA AfterConcat ==
    ASSUME NEW s \in Seq(Byte), NEW t \in Seq(Byte), NEW e \in 0..Len(s)
    PROVE  After(s \o t, e) = After(s, e) \o t
<1>1. PICK m \in Nat, n \in Nat, w \in Seq(Byte) :
        m = Len(s) /\ n = Len(t) /\ w = s \o t /\ Len(w) = m + n
  BY ConcatBytes
<1>2. /\ \A i \in 1..m : w[i] = s[i]
      /\ \A i \in 1..n : w[m + i] = t[i]
  BY <1>1, ConcatBytes
<1>3. e \in 0..Len(w) /\ e \in 0..m
  BY <1>1
<1>4. PICK r \in Seq(Byte) : r = After(w, e)
  BY <1>3, AfterFacts
<1>5. Len(r) = (m + n) - e /\ \A i \in 1..((m + n) - e) : r[i] = w[e + i]
  <2>1. /\ Len(After(w, e)) = Len(w) - e
        /\ \A i \in 1..(Len(w) - e) : After(w, e)[i] = w[e + i]
    BY <1>3, AfterFacts
  <2> QED
    BY <1>1, <1>4, <2>1
<1>6. PICK a \in Seq(Byte) : a = After(s, e)
  BY AfterFacts
<1>7. Len(a) = m - e /\ \A i \in 1..(m - e) : a[i] = s[e + i]
  BY <1>1, <1>6, AfterFacts
<1>8. ASSUME NEW i \in 1..(m - e)
      PROVE  r[i] = a[i]
  <2>1. i \in 1..((m + n) - e) /\ e + i \in 1..m
    BY <1>3
  <2> QED
    BY <1>2, <1>5, <1>7, <2>1
<1>9. ASSUME NEW i \in 1..n
      PROVE  r[(m - e) + i] = t[i]
  <2>1. PICK x \in 1..((m + n) - e) : x = (m - e) + i /\ e + x = m + i
    <3>1. (m - e) + i \in 1..((m + n) - e) /\ e + ((m - e) + i) = m + i
      BY <1>3
    <3> QED
      BY <3>1
  <2> QED
    BY <1>2, <1>5, <2>1
<1>10. Cat(r, a, t)
  <2>1. Len(r) = Len(a) + Len(t)
    <3>1. Len(r) = (m + n) - e /\ Len(a) = m - e /\ Len(t) = n
      BY <1>1, <1>5, <1>7, Zenon
    <3>2. (m + n) - e = (m - e) + n
      BY <1>3
    <3> QED
      BY <3>1, <3>2, Zenon
  <2> QED
    BY <1>1, <1>7, <1>8, <1>9, <2>1 DEF Cat
<1> QED
  BY <1>1, <1>4, <1>6, <1>10, CatIs

\* The next d bytes, and what lies behind them (readAndScan()).
LEMMA AfterSplit ==
    ASSUME NEW s \in Seq(Byte), NEW e \in Nat, NEW d \in Nat, e + d <= Len(s)
    PROVE  /\ SubSeq(s, e + 1, e + d) \in Seq(Byte) /\ Len(SubSeq(s, e + 1, e + d)) = d
           /\ After(s, e) = SubSeq(s, e + 1, e + d) \o After(s, e + d)
<1>1. PICK m \in Nat : m = Len(s)
  OBVIOUS
<1>2. e \in 0..m /\ e + d \in 0..m
  BY <1>1
<1>3. /\ SubSeq(s, e + 1, e + d) \in Seq(Byte) /\ Len(SubSeq(s, e + 1, e + d)) = d
      /\ \A i \in 1..d : SubSeq(s, e + 1, e + d)[i] = s[e + i]
  BY <1>1, <1>2
<1>4. PICK a \in Seq(Byte) : a = SubSeq(s, e + 1, e + d)
  BY <1>3
<1>5. PICK r \in Seq(Byte), b \in Seq(Byte) : r = After(s, e) /\ b = After(s, e + d)
  BY <1>1, <1>2, AfterFacts
<1>6. Len(r) = m - e /\ \A i \in 1..(m - e) : r[i] = s[e + i]
  BY <1>1, <1>2, <1>5, AfterFacts
<1>7. Len(b) = m - (e + d) /\ \A i \in 1..(m - (e + d)) : b[i] = s[(e + d) + i]
  BY <1>1, <1>2, <1>5, AfterFacts
<1>8. ASSUME NEW i \in 1..d
      PROVE  r[i] = a[i]
  <2>1. i \in 1..(m - e)
    BY <1>2
  <2> QED
    BY <1>3, <1>4, <1>6, <2>1
<1>9. ASSUME NEW i \in 1..(m - (e + d))
      PROVE  r[d + i] = b[i]
  <2>1. PICK x \in 1..(m - e) : x = d + i /\ e + x = (e + d) + i
    <3>1. d + i \in 1..(m - e) /\ e + (d + i) = (e + d) + i
      BY <1>2
    <3> QED
      BY <3>1
  <2> QED
    BY <1>6, <1>7, <2>1
<1>10. Cat(r, a, b)
  <2>1. Len(a) = d /\ Len(r) = d + Len(b)
    BY <1>2, <1>3, <1>4, <1>6, <1>7
  <2> QED
    BY <1>7, <1>8, <1>9, <2>1 DEF Cat
<1> QED
  BY <1>3, <1>4, <1>5, <1>10, CatIs

-----------------------------------------------------------------------------
(* Chains of frames.                                                       *)

\* n frames whose bytes are sz[1], sz[2] ... many.
Sized(n, sz) == n \in Nat /\ sz \in [1..n -> Nat \ {0, 1, 2}]

\* Byte i of t lies in a whole frame.
Within(t, i, n, sz) ==
    /\ t[i][1] \in 1..n /\ t[i][2] \in 1..sz[t[i][1]]
    /\ i - t[i][2] >= 0 /\ i - t[i][2] + sz[t[i][1]] <= Len(t)
    /\ \A m \in 1..sz[t[i][1]] : t[i - t[i][2] + m] = <<t[i][1], m>>

\* In the order they were received.
Sorted(t) == \A i, j \in 1..Len(t) : i < j => Before(t[i], t[j])

\* Whole frames, in order.
Chain(t, n, sz) ==
    /\ t \in Seq(Byte) /\ Sorted(t)
    /\ \A i \in 1..Len(t) : Within(t, i, n, sz)

\* The bytes of frame k.
IsFrame(f, k, n, sz) ==
    /\ f \in Seq(Byte) /\ k \in 1..n /\ Len(f) = sz[k]
    /\ \A m \in 1..Len(f) : f[m] = <<k, m>>

\* All of a's frames come before all of b's.
Ahead(a, b) == \A i \in 1..Len(a), j \in 1..Len(b) : a[i][1] < b[j][1]

\* All of X is below all of Y.
Below(X, Y) == \A x \in X, y \in Y : x < y

\* The elements of a sequence.
Elems(g) == {g[i] : i \in 1..Len(g)}

\* Taken frames g, then the bytes b in the driver's buffer, then the bytes c in
\* the chip: whole frames, in order, all but the lost ones of n.
Good(g, b, c, n, sz, l) ==
    /\ Sized(n, sz) /\ n \in Nat /\ g \in Seq(Nat) /\ l \in SUBSET (1..n)
    /\ Chain(b, n, sz) /\ Chain(c, n, sz)
    /\ \A i, j \in 1..Len(g) : i < j => g[i] < g[j]
    /\ Below(Elems(g), Of(b)) /\ Below(Elems(g), Of(c)) /\ Below(Of(b), Of(c))
    /\ Elems(g) \cup Of(b) \cup Of(c) = (1..n) \ l
    /\ \A k \in Of(b) : sz[k] <= kMaxFrameLen + 2

\* Two chains, one ahead of the other, make one.
LEMMA ChainCat ==
    ASSUME NEW n \in Nat, NEW sz, Sized(n, sz), NEW r, NEW a, NEW b, Cat(r, a, b),
           Chain(a, n, sz), Chain(b, n, sz), Ahead(a, b)
    PROVE  Chain(r, n, sz)
<1>1. /\ r \in Seq(Byte) /\ a \in Seq(Byte) /\ b \in Seq(Byte)
      /\ Len(a) \in Nat /\ Len(b) \in Nat /\ Len(r) = Len(a) + Len(b)
  BY DEF Cat
<1>2. ASSUME NEW i \in 1..Len(r), NEW j \in 1..Len(r), i < j
      PROVE  Before(r[i], r[j])
  <2>1. CASE j \in 1..Len(a) /\ r[j] = a[j]
    <3>1. i \in 1..Len(a) /\ r[i] = a[i]
      BY <1>1, <1>2, <2>1 DEF Cat
    <3> QED
      BY <1>2, <2>1, <3>1 DEF Chain, Sorted
  <2>2. ASSUME NEW k \in 1..Len(b), j = Len(a) + k, r[j] = b[k]
        PROVE  Before(r[i], r[j])
    <3>1. CASE i \in 1..Len(a) /\ r[i] = a[i]
      BY <2>2, <3>1 DEF Ahead, Before
    <3>2. ASSUME NEW h \in 1..Len(b), i = Len(a) + h, r[i] = b[h]
          PROVE  Before(r[i], r[j])
      <4>1. h < k
        BY <1>1, <1>2, <2>2, <3>2
      <4> QED
        BY <2>2, <3>2, <4>1 DEF Chain, Sorted
    <3> QED
      BY <3>1, <3>2, CatCases
  <2>3. \/ j \in 1..Len(a) /\ r[j] = a[j]
        \/ \E k \in 1..Len(b) : j = Len(a) + k /\ r[j] = b[k]
    BY CatCases
  <2> QED
    BY <2>1, <2>2, <2>3
<1>3. ASSUME NEW i \in 1..Len(r)
      PROVE  Within(r, i, n, sz)
  <2>1. CASE i \in 1..Len(a) /\ r[i] = a[i]
    <3>1. Within(a, i, n, sz)
      BY <2>1 DEF Chain
    <3>2. PICK k \in Nat, j \in Nat, s \in Nat :
            k = a[i][1] /\ j = a[i][2] /\ s = sz[k] /\ k \in 1..n
      BY <3>1 DEF Within, Sized
    <3>3. /\ j \in 1..s /\ i - j >= 0 /\ i - j + s <= Len(a)
          /\ \A m \in 1..s : a[i - j + m] = <<k, m>>
      BY <3>1, <3>2 DEF Within
    <3>4. ASSUME NEW m \in 1..s
          PROVE  r[i - j + m] = <<k, m>>
      <4>1. i - j + m \in 1..Len(a)
        BY <1>1, <3>3
      <4> QED
        BY <3>3, <4>1 DEF Cat
    <3>5. i - j + s <= Len(r)
      BY <1>1, <3>3
    <3> QED
      BY <2>1, <3>2, <3>3, <3>4, <3>5 DEF Within
  <2>2. ASSUME NEW h \in 1..Len(b), i = Len(a) + h, r[i] = b[h]
        PROVE  Within(r, i, n, sz)
    <3>1. Within(b, h, n, sz)
      BY DEF Chain
    <3>2. PICK k \in Nat, j \in Nat, s \in Nat :
            k = b[h][1] /\ j = b[h][2] /\ s = sz[k] /\ k \in 1..n
      BY <3>1 DEF Within, Sized
    <3>3. /\ j \in 1..s /\ h - j >= 0 /\ h - j + s <= Len(b)
          /\ \A m \in 1..s : b[h - j + m] = <<k, m>>
      BY <3>1, <3>2 DEF Within
    <3>4. ASSUME NEW m \in 1..s
          PROVE  r[i - j + m] = <<k, m>>
      <4>1. h - j + m \in 1..Len(b) /\ i - j + m = Len(a) + (h - j + m)
        BY <1>1, <2>2, <3>3
      <4>2. r[Len(a) + (h - j + m)] = b[h - j + m]
        BY <4>1 DEF Cat
      <4>3. b[h - j + m] = <<k, m>>
        BY <3>3
      <4> QED
        BY <4>1, <4>2, <4>3
    <3>5. i - j + s <= Len(r) /\ i - j >= 0
      BY <1>1, <2>2, <3>3
    <3> QED
      BY <2>2, <3>2, <3>3, <3>4, <3>5 DEF Within
  <2> QED
    BY <2>1, <2>2, CatCases
<1> QED
  BY <1>1, <1>2, <1>3 DEF Chain, Sorted

\* A frame is a chain of one.
LEMMA ChainFrame ==
    ASSUME NEW n \in Nat, NEW sz, Sized(n, sz), NEW f, NEW k, IsFrame(f, k, n, sz)
    PROVE  Chain(f, n, sz) /\ Of(f) = {k}
<1>1. /\ f \in Seq(Byte) /\ k \in 1..n /\ Len(f) = sz[k] /\ sz[k] \in Nat /\ sz[k] > 2
      /\ \A m \in 1..Len(f) : f[m] = <<k, m>>
  BY DEF IsFrame, Sized
<1>2. \A m \in 1..Len(f) : f[m][1] = k /\ f[m][2] = m
  BY <1>1
<1>3. Sorted(f)
  BY <1>1, <1>2 DEF Sorted, Before
<1>4. ASSUME NEW i \in 1..Len(f)
      PROVE  Within(f, i, n, sz)
  <2>1. /\ f[i][1] = k /\ f[i][2] = i /\ i - i = 0 /\ 0 + sz[k] = Len(f)
        /\ \A m \in 1..sz[k] : 0 + m = m
    BY <1>1, <1>2
  <2> QED
    BY <1>1, <2>1 DEF Within
<1>5. Of(f) = {k}
  <2>1. DOMAIN f = 1..Len(f) /\ 1 \in 1..Len(f)
    BY <1>1
  <2> QED
    BY <1>2, <2>1 DEF Of
<1> QED
  BY <1>1, <1>3, <1>4, <1>5 DEF Chain

\* More frames have arrived.
LEMMA ChainMore ==
    ASSUME NEW n \in Nat, NEW sz, NEW z, Sized(n, sz), Sized(n + 1, z),
           \A k \in 1..n : z[k] = sz[k],
           NEW t, Chain(t, n, sz)
    PROVE  Chain(t, n + 1, z)
<1>1. t \in Seq(Byte) /\ Sorted(t)
  BY DEF Chain
<1>2. ASSUME NEW i \in 1..Len(t)
      PROVE  Within(t, i, n + 1, z)
  <2>1. Within(t, i, n, sz)
    BY DEF Chain
  <2>2. t[i][1] \in 1..n /\ t[i][1] \in 1..(n + 1) /\ z[t[i][1]] = sz[t[i][1]]
    BY <2>1 DEF Within
  <2> QED
    BY <2>1, <2>2 DEF Within
<1> QED
  BY <1>1, <1>2 DEF Chain

\* A chain begins with a whole frame.
LEMMA ChainHead ==
    ASSUME NEW n \in Nat, NEW sz, Sized(n, sz), NEW t, Chain(t, n, sz), Len(t) > 0
    PROVE  /\ t[1][1] \in 1..n /\ sz[t[1][1]] \in Nat /\ sz[t[1][1]] > 2
           /\ sz[t[1][1]] <= Len(t)
           /\ \A m \in 1..sz[t[1][1]] : t[m] = <<t[1][1], m>>
<1>1. 1 \in 1..Len(t) /\ Len(t) \in Nat
  BY DEF Chain
<1>2. Within(t, 1, n, sz)
  BY <1>1 DEF Chain
<1>3. PICK k \in Nat, j \in Nat, s \in Nat :
        k = t[1][1] /\ j = t[1][2] /\ s = sz[k] /\ k \in 1..n /\ s > 2
  BY <1>2 DEF Within, Sized
<1>4. /\ j \in 1..s /\ 1 - j >= 0 /\ 1 - j + s <= Len(t)
      /\ \A m \in 1..s : t[1 - j + m] = <<k, m>>
  BY <1>2, <1>3 DEF Within
<1>5. j = 1 /\ s <= Len(t) /\ \A m \in 1..s : 1 - j + m = m
  BY <1>1, <1>4
<1>6. \A m \in 1..s : t[m] = <<k, m>>
  BY <1>4, <1>5
<1> QED
  BY <1>3, <1>5, <1>6

\* Without its first frame it is a chain still, of the other frames.
LEMMA ChainRest ==
    ASSUME NEW n \in Nat, NEW sz, Sized(n, sz), NEW t, Chain(t, n, sz), Len(t) > 0,
           NEW f, NEW r, Cat(t, f, r), Len(f) = sz[t[1][1]]
    PROVE  /\ IsFrame(f, t[1][1], n, sz) /\ Chain(r, n, sz)
           /\ \A i \in 1..Len(r) : t[1][1] < r[i][1]
<1>1. /\ t[1][1] \in 1..n /\ sz[t[1][1]] \in Nat /\ sz[t[1][1]] > 2
      /\ sz[t[1][1]] <= Len(t)
      /\ \A m \in 1..sz[t[1][1]] : t[m] = <<t[1][1], m>>
  BY ChainHead
<1>2. PICK x \in 1..n, L \in Nat : x = t[1][1] /\ L = sz[x] /\ L > 2
  BY <1>1
<1>3. PICK q \in Nat : q = Len(r) /\ Len(t) = L + q
  BY <1>2 DEF Cat
<1>4. /\ t \in Seq(Byte) /\ f \in Seq(Byte) /\ r \in Seq(Byte) /\ Len(f) = L
      /\ \A i \in 1..L : t[i] = f[i]
      /\ \A i \in 1..q : t[L + i] = r[i]
  BY <1>2, <1>3 DEF Cat
<1>5. \A m \in 1..L : t[m] = <<x, m>> /\ t[m][1] = x /\ t[m][2] = m
  BY <1>1, <1>2
<1>6. IsFrame(f, x, n, sz)
  BY <1>2, <1>4, <1>5 DEF IsFrame
<1>7. \A i, j \in 1..(L + q) : i < j => Before(t[i], t[j])
  BY <1>3 DEF Chain, Sorted
<1>8. \A i \in 1..(L + q) : Within(t, i, n, sz)
  BY <1>3 DEF Chain
<1>9. Sorted(r)
  <2> SUFFICES ASSUME NEW i \in 1..q, NEW j \in 1..q, i < j
               PROVE  Before(r[i], r[j])
    BY <1>3 DEF Sorted
  <2>1. L + i \in 1..(L + q) /\ L + j \in 1..(L + q) /\ L + i < L + j
    OBVIOUS
  <2>2. t[L + i] = r[i] /\ t[L + j] = r[j]
    BY <1>4
  <2> QED
    BY <1>7, <2>1, <2>2
<1>10. ASSUME NEW i \in 1..q
       PROVE  Within(r, i, n, sz) /\ x < r[i][1]
  <2>1. PICK y \in 1..(L + q) : y = L + i
    OBVIOUS
  <2>2. t[y] = r[i] /\ Within(t, y, n, sz)
    BY <1>4, <1>8, <2>1
  <2>3. PICK k \in 1..n, s \in Nat, j \in Nat :
          /\ k = t[y][1] /\ j = t[y][2] /\ s = sz[k] /\ s > 2 /\ n \in Nat
          /\ j \in 1..s /\ y - j >= 0 /\ y - j + s <= Len(t)
          /\ \A m \in 1..s : t[y - j + m] = <<k, m>>
    <3>1. PICK k \in 1..n : k = t[y][1]
      BY <2>2 DEF Within
    <3>2. PICK s \in Nat : s = sz[k] /\ s > 2
      BY DEF Sized
    <3>3. PICK j \in Nat : j = t[y][2] /\ j \in 1..s
      BY <2>2, <3>1, <3>2 DEF Within
    <3> QED
      BY <2>2, <3>1, <3>2, <3>3 DEF Within
  <2>4. j <= s /\ j >= 1 /\ y - j >= 0 /\ y - j + s <= L + q
    <3>1. j \in 1..s /\ y - j >= 0 /\ y - j + s <= Len(t)
      BY <2>3, Zenon
    <3> QED
      BY <1>3, <3>1
  <2>5. x < k
    <3>1. 1 \in 1..(L + q) /\ 1 < y /\ L \in 1..(L + q) /\ L < y /\ 1 \in 1..L /\ L \in 1..L
      BY <1>2, <2>1, SMTT(30)
    <3>2. Before(t[1], t[y]) /\ Before(t[L], t[y])
      BY <1>7, <3>1
    <3>3. t[1][1] = x /\ t[1][2] = 1 /\ t[L][1] = x /\ t[L][2] = L
      BY <1>5, <3>1
    <3>4. t[y][1] = k /\ t[y][2] = j
      BY <2>3
    <3>5. x < k \/ (x = k /\ L < j)
      BY <3>2, <3>3, <3>4 DEF Before
    <3>6. x = k => s = L
      BY <1>2, <2>3
    <3> QED
      BY <2>4, <3>5, <3>6
  <2>6. y - j >= L
    <3> SUFFICES ASSUME y - j < L PROVE FALSE
      OBVIOUS
    <3>1. y - j + 1 \in 1..L /\ 1 \in 1..s
      BY <2>4
    <3>2. t[y - j + 1] = <<k, 1>>
      BY <2>3, <3>1
    <3>3. t[y - j + 1][1] = k
      BY <3>2
    <3>4. t[y - j + 1][1] = x
      BY <1>5, <3>1
    <3> QED
      BY <2>5, <3>3, <3>4
  <2>7. i - j >= 0 /\ i - j + s <= q
    BY <2>1, <2>4, <2>6
  <2>8. ASSUME NEW m \in 1..s
        PROVE  r[i - j + m] = <<k, m>>
    <3>1. i - j + m \in 1..q /\ L + (i - j + m) = y - j + m
      BY <2>1, <2>7
    <3>2. t[L + (i - j + m)] = r[i - j + m]
      BY <1>4, <3>1
    <3>3. t[y - j + m] = <<k, m>>
      BY <2>3
    <3> QED
      BY <3>1, <3>2, <3>3
  <2>9. r[i][1] = k /\ r[i][2] = j /\ sz[k] = s
    BY <2>2, <2>3
  <2>10. Within(r, i, n, sz)
    <3>1. k \in 1..n /\ j \in 1..s /\ i - j >= 0 /\ i - j + s <= Len(r)
      BY <1>3, <2>4, <2>7
    <3> QED
      BY <2>8, <2>9, <3>1 DEF Within
  <2> QED
    BY <2>5, <2>9, <2>10
<1> QED
  BY <1>2, <1>3, <1>4, <1>6, <1>9, <1>10 DEF Chain

\* Order of frames, and order of the sequences that their bytes are in.
LEMMA BelowAhead ==
    ASSUME NEW a \in Seq(Byte), NEW b \in Seq(Byte), Below(Of(a), Of(b))
    PROVE  Ahead(a, b)
<1> SUFFICES ASSUME NEW i \in 1..Len(a), NEW j \in 1..Len(b)
             PROVE  a[i][1] < b[j][1]
  BY DEF Ahead
<1>1. a[i][1] \in Of(a) /\ b[j][1] \in Of(b)
  BY DEF Of
<1> QED
  BY <1>1 DEF Below

\* t is frame k, which is f, and then r.
FirstFrame(t, f, r, k, n, sz) ==
    /\ IsFrame(f, k, n, sz) /\ Chain(f, n, sz) /\ Chain(r, n, sz)
    /\ Of(f) = {k} /\ Of(t) = {k} \cup Of(r) /\ Below({k}, Of(r))

\* A chain that is split behind its first frame.
LEMMA OfRest ==
    ASSUME NEW n \in Nat, NEW sz, Sized(n, sz), NEW t, Chain(t, n, sz), Len(t) > 0,
           NEW f, NEW r, Cat(t, f, r), Len(f) = sz[t[1][1]]
    PROVE  FirstFrame(t, f, r, t[1][1], n, sz)
<1>1. /\ IsFrame(f, t[1][1], n, sz) /\ Chain(r, n, sz)
      /\ \A i \in 1..Len(r) : t[1][1] < r[i][1]
  BY ChainRest
<1>2. Chain(f, n, sz) /\ Of(f) = {t[1][1]}
  BY <1>1, ChainFrame
<1>3. Of(t) = Of(f) \cup Of(r)
  BY CatOf
<1>4. DOMAIN r = 1..Len(r)
  BY DEF Cat
<1>5. Below({t[1][1]}, Of(r))
  BY <1>1, <1>4 DEF Below, Of
<1> QED
  BY <1>1, <1>2, <1>3, <1>5 DEF FirstFrame

\* A frame arrives behind what is in the chip.
LEMMA GoodReceive ==
    ASSUME NEW g, NEW b, NEW c, NEW n, NEW sz, NEW l, Good(g, b, c, n, sz, l),
           NEW z, Sized(n + 1, z), \A k \in 1..n : z[k] = sz[k],
           NEW f, IsFrame(f, n + 1, n + 1, z), NEW d, Cat(d, c, f)
    PROVE  Good(g, b, d, n + 1, z, l)
<1>1. n \in Nat /\ Sized(n, sz) /\ n + 1 \in Nat
  BY DEF Good
<1>2. Chain(b, n + 1, z) /\ Chain(c, n + 1, z)
  BY <1>1, ChainMore DEF Good
<1>3. Chain(f, n + 1, z) /\ Of(f) = {n + 1}
  BY <1>1, ChainFrame
<1>4. Elems(g) \cup Of(b) \cup Of(c) = (1..n) \ l /\ l \in SUBSET (1..n)
  BY DEF Good
<1>5. Below(Of(c), Of(f)) /\ Below(Of(b), Of(f)) /\ Below(Elems(g), Of(f))
  BY <1>1, <1>3, <1>4 DEF Below
<1>6. Chain(d, n + 1, z)
  <2>1. Ahead(c, f)
    BY <1>5, BelowAhead DEF Cat
  <2> QED
    BY <1>1, <1>2, <1>3, <2>1, ChainCat
<1>7. Of(d) = Of(c) \cup {n + 1}
  BY <1>3, CatOf
<1>8. Below(Elems(g), Of(d)) /\ Below(Of(b), Of(d))
  BY <1>3, <1>5, <1>7 DEF Good, Below
<1>9. Elems(g) \cup Of(b) \cup Of(d) = (1..(n + 1)) \ l /\ l \in SUBSET (1..(n + 1))
  <2>1. 1..(n + 1) = (1..n) \cup {n + 1} /\ (n + 1) \notin 1..n
    BY <1>1
  <2> QED
    BY <1>4, <1>7, <2>1
<1>10. \A k \in Of(b) : z[k] <= kMaxFrameLen + 2
  <2>1. \A k \in Of(b) : k \in 1..n /\ sz[k] <= kMaxFrameLen + 2
    BY <1>4 DEF Good
  <2> QED
    BY <2>1
<1> QED
  BY <1>1, <1>2, <1>6, <1>8, <1>9, <1>10 DEF Good

\* readAndScan() copies the first frame in the chip to the buffer.
LEMMA GoodMove ==
    ASSUME NEW g, NEW b, NEW c, NEW n, NEW sz, NEW l, Good(g, b, c, n, sz, l),
           Len(c) > 0, NEW f, NEW r, Cat(c, f, r), Len(f) = sz[c[1][1]],
           sz[c[1][1]] <= kMaxFrameLen + 2, NEW d, Cat(d, b, f)
    PROVE  Good(g, d, r, n, sz, l)
<1>1. n \in Nat /\ Sized(n, sz) /\ Chain(b, n, sz) /\ Chain(c, n, sz)
  BY DEF Good
<1>2. PICK k : k = c[1][1]
  OBVIOUS
<1>3. /\ Chain(r, n, sz) /\ Chain(f, n, sz) /\ Of(f) = {k} /\ Of(c) = {k} \cup Of(r)
      /\ Below({k}, Of(r))
  <2>1. FirstFrame(c, f, r, c[1][1], n, sz)
    BY <1>1, OfRest
  <2> QED
    BY <1>2, <2>1 DEF FirstFrame
<1>4. Ahead(b, f)
  <2>1. Below(Of(b), Of(f))
    BY <1>3 DEF Good, Below
  <2> QED
    BY <2>1, BelowAhead DEF Cat
<1>5. Chain(d, n, sz)
  BY <1>1, <1>3, <1>4, ChainCat
<1>6. Of(d) = Of(b) \cup {k}
  BY <1>3, CatOf
<1>7. Below(Elems(g), Of(d)) /\ Below(Elems(g), Of(r)) /\ Below(Of(d), Of(r))
  BY <1>3, <1>6 DEF Good, Below
<1>8. Elems(g) \cup Of(d) \cup Of(r) = (1..n) \ l
  BY <1>3, <1>6 DEF Good
<1>9. \A x \in Of(d) : sz[x] <= kMaxFrameLen + 2
  BY <1>2, <1>6 DEF Good
<1> QED
  BY <1>3, <1>5, <1>7, <1>8, <1>9 DEF Good

\* readAndScan() drops the first frame in the chip.
LEMMA GoodDrop ==
    ASSUME NEW g, NEW b, NEW c, NEW n, NEW sz, NEW l, Good(g, b, c, n, sz, l),
           Len(c) > 0, NEW f, NEW r, Cat(c, f, r), Len(f) = sz[c[1][1]]
    PROVE  Good(g, b, r, n, sz, l \cup {c[1][1]})
<1>1. n \in Nat /\ Sized(n, sz) /\ Chain(b, n, sz) /\ Chain(c, n, sz)
  BY DEF Good
<1>2. PICK k : k = c[1][1]
  OBVIOUS
<1>3. Chain(r, n, sz) /\ Of(c) = {k} \cup Of(r) /\ Below({k}, Of(r))
  <2>1. FirstFrame(c, f, r, c[1][1], n, sz)
    BY <1>1, OfRest
  <2> QED
    BY <1>2, <2>1 DEF FirstFrame
<1>4. Below(Elems(g), Of(r)) /\ Below(Of(b), Of(r))
  BY <1>3 DEF Good, Below
<1>5. Elems(g) \cup Of(b) \cup Of(c) = (1..n) \ l /\ l \in SUBSET (1..n)
      /\ Below(Elems(g), Of(c)) /\ Below(Of(b), Of(c))
  BY DEF Good
<1>6. k \in 1..n /\ k \notin Of(r) /\ k \notin Elems(g) /\ k \notin Of(b)
  <2>1. k \in 1..n /\ k \in Of(c)
    BY <1>3, <1>5
  <2>2. ~(k < k)
    BY <1>1, <2>1
  <2> QED
    BY <1>3, <1>5, <2>1, <2>2 DEF Below
<1>7. Elems(g) \cup Of(b) \cup Of(r) = (1..n) \ (l \cup {k}) /\ l \cup {k} \in SUBSET (1..n)
  BY <1>3, <1>5, <1>6
<1> QED
  BY <1>2, <1>3, <1>4, <1>7 DEF Good

\* proc_input() drops the first frame in the buffer.
LEMMA GoodSkip ==
    ASSUME NEW g, NEW b, NEW c, NEW n, NEW sz, NEW l, Good(g, b, c, n, sz, l),
           Len(b) > 0, NEW f, NEW r, Cat(b, f, r), Len(f) = sz[b[1][1]]
    PROVE  Good(g, r, c, n, sz, l \cup {b[1][1]})
<1>1. n \in Nat /\ Sized(n, sz) /\ Chain(b, n, sz) /\ Chain(c, n, sz)
  BY DEF Good
<1>2. PICK k : k = b[1][1]
  OBVIOUS
<1>3. Chain(r, n, sz) /\ Of(b) = {k} \cup Of(r) /\ Below({k}, Of(r))
  <2>1. FirstFrame(b, f, r, b[1][1], n, sz)
    BY <1>1, OfRest
  <2> QED
    BY <1>2, <2>1 DEF FirstFrame
<1>4. Below(Elems(g), Of(r)) /\ Below(Of(r), Of(c))
  BY <1>3 DEF Good, Below
<1>5. Elems(g) \cup Of(b) \cup Of(c) = (1..n) \ l /\ l \in SUBSET (1..n)
      /\ Below(Elems(g), Of(b)) /\ Below(Of(b), Of(c))
  BY DEF Good
<1>6. k \in 1..n /\ k \notin Of(r) /\ k \notin Elems(g) /\ k \notin Of(c)
  <2>1. k \in 1..n /\ k \in Of(b)
    BY <1>3, <1>5
  <2>2. ~(k < k)
    BY <1>1, <2>1
  <2> QED
    BY <1>3, <1>5, <2>1, <2>2 DEF Below
<1>7. Elems(g) \cup Of(r) \cup Of(c) = (1..n) \ (l \cup {k}) /\ l \cup {k} \in SUBSET (1..n)
  BY <1>3, <1>5, <1>6
<1>8. \A x \in Of(r) : sz[x] <= kMaxFrameLen + 2
  BY <1>3 DEF Good
<1> QED
  BY <1>2, <1>3, <1>4, <1>7, <1>8 DEF Good

\* proc_input() takes the first frame out of the buffer.
LEMMA GoodTake ==
    ASSUME NEW g, NEW b, NEW c, NEW n, NEW sz, NEW l, Good(g, b, c, n, sz, l),
           Len(b) > 0, NEW f, NEW r, Cat(b, f, r), Len(f) = sz[b[1][1]]
    PROVE  Good(Append(g, b[1][1]), r, c, n, sz, l)
<1>1. n \in Nat /\ Sized(n, sz) /\ Chain(b, n, sz) /\ Chain(c, n, sz) /\ g \in Seq(Nat)
  BY DEF Good
<1>2. PICK k : k = b[1][1]
  OBVIOUS
<1>3. Chain(r, n, sz) /\ Of(b) = {k} \cup Of(r) /\ Below({k}, Of(r))
  <2>1. FirstFrame(b, f, r, b[1][1], n, sz)
    BY <1>1, OfRest
  <2> QED
    BY <1>2, <2>1 DEF FirstFrame
<1>4. k \in Nat
  BY <1>3 DEF Good
<1>5. PICK h : h = Append(g, k)
  OBVIOUS
<1>6. /\ h \in Seq(Nat) /\ Len(h) = Len(g) + 1 /\ h[Len(g) + 1] = k /\ Len(g) \in Nat
      /\ \A i \in 1..Len(g) : h[i] = g[i]
  BY <1>1, <1>4, <1>5
<1>7. Elems(h) = Elems(g) \cup {k}
  <2>1. ASSUME NEW x \in Elems(h) PROVE x \in Elems(g) \cup {k}
    <3>1. PICK i \in 1..Len(h) : x = h[i]
      BY DEF Elems
    <3>2. i \in 1..Len(g) \/ i = Len(g) + 1
      BY <1>6
    <3> QED
      BY <1>6, <3>1, <3>2 DEF Elems
  <2>2. ASSUME NEW x \in Elems(g) PROVE x \in Elems(h)
    <3>1. PICK i \in 1..Len(g) : x = g[i]
      BY DEF Elems
    <3>2. i \in 1..Len(h) /\ h[i] = x
      BY <1>6, <3>1
    <3> QED
      BY <3>2 DEF Elems
  <2>3. k \in Elems(h)
    <3>1. Len(g) + 1 \in 1..Len(h)
      BY <1>6
    <3> QED
      BY <1>6, <3>1 DEF Elems
  <2> QED
    BY <2>1, <2>2, <2>3
<1>8. ASSUME NEW i \in 1..Len(h), NEW j \in 1..Len(h), i < j
      PROVE  h[i] < h[j]
  <2>1. i \in 1..Len(g) /\ h[i] = g[i]
    BY <1>6, <1>8
  <2>2. CASE j = Len(g) + 1
    <3>1. g[i] \in Elems(g) /\ k \in Of(b)
      BY <1>3, <2>1 DEF Elems
    <3> QED
      BY <1>6, <2>1, <2>2, <3>1 DEF Good, Below
  <2>3. CASE j \in 1..Len(g)
    BY <1>6, <1>8, <2>1, <2>3 DEF Good
  <2> QED
    BY <1>6, <2>2, <2>3
<1>9. Below(Elems(h), Of(r)) /\ Below(Elems(h), Of(c)) /\ Below(Of(r), Of(c))
  BY <1>3, <1>7 DEF Good, Below
<1>10. Elems(h) \cup Of(r) \cup Of(c) = (1..n) \ l
  BY <1>3, <1>7 DEF Good
<1>11. \A x \in Of(r) : sz[x] <= kMaxFrameLen + 2
  BY <1>3 DEF Good
<1> QED
  BY <1>2, <1>3, <1>5, <1>6, <1>8, <1>9, <1>10, <1>11 DEF Good

\* What is in the chip is lost.
LEMMA GoodClear ==
    ASSUME NEW g, NEW b, NEW c, NEW n, NEW sz, NEW l, Good(g, b, c, n, sz, l)
    PROVE  Good(g, b, <<>>, n, sz, l \cup Of(c))
<1>1. Of(<<>>) = {} /\ Chain(<<>>, n, sz)
  BY DEF Of, Chain, Sorted
<1>2. Elems(g) \cup Of(b) \cup Of(c) = (1..n) \ l /\ l \in SUBSET (1..n)
      /\ Below(Elems(g), Of(c)) /\ Below(Of(b), Of(c)) /\ n \in Nat
  BY DEF Good
<1>3. \A k \in Of(c) : k \in 1..n /\ k \notin Elems(g) /\ k \notin Of(b)
  <2> SUFFICES ASSUME NEW k \in Of(c) PROVE k \in 1..n /\ k \notin Elems(g) /\ k \notin Of(b)
    OBVIOUS
  <2>1. k \in 1..n
    BY <1>2
  <2>2. ~(k < k)
    BY <1>2, <2>1
  <2> QED
    BY <1>2, <2>1, <2>2 DEF Below
<1>4. Elems(g) \cup Of(b) \cup Of(<<>>) = (1..n) \ (l \cup Of(c)) /\ l \cup Of(c) \in SUBSET (1..n)
  BY <1>1, <1>2, <1>3
<1> QED
  BY <1>1, <1>4 DEF Good, Below

-----------------------------------------------------------------------------
(* ByteBuffer.h: the ring of bytes.                                        *)

\* An index of the array, of one that may have passed its end once.
Turn(x, C) == IF x < C THEN x ELSE x - C

\* The ring as ByteBuffer.h keeps it: the head is size_ elements behind the tail.
Ring(b) ==
    /\ b \in [buf_ : [1..InputBufSize -> Byte], size_ : 0..InputBufSize,
              head_ : 0..(InputBufSize - 1), tail_ : 0..(InputBufSize - 1)]
    /\ b.head_ = Turn(b.tail_ + b.size_, InputBufSize)

\* The bytes in it, oldest first.
Content(b) == B!Front(b, b.size_)

\* It holds at least a length (kLocalInputBufSize).
LEMMA RingSize == InputBufSize \in Nat \ {0, 1}
  BY W5500Assumption

\* The remainder that the code computes.
LEMMA TurnMod ==
    ASSUME NEW C \in Nat \ {0}, NEW x \in Nat, x < 2 * C
    PROVE  x % C = Turn(x, C) /\ Turn(x, C) \in 0..(C - 1)
<1>1. CASE x < C
  BY <1>1 DEF Turn
<1>2. CASE x >= C
  <2>1. x - C \in 0..(C - 1)
    BY <1>2
  <2>2. x % C = x - C
    BY <1>2, <2>1
  <2> QED
    BY <1>2, <2>1, <2>2 DEF Turn
<1> QED
  BY <1>1, <1>2

\* An index that has passed the end, or has not.
LEMMA TurnCases ==
    ASSUME NEW C \in Nat \ {0}, NEW x \in Nat, x < 2 * C
    PROVE  /\ Turn(x, C) \in 0..(C - 1)
           /\ x < C => Turn(x, C) = x
           /\ x >= C => Turn(x, C) = x - C
  BY DEF Turn

\* Going on by s and then by n is going on by s + n.
LEMMA TurnAdd ==
    ASSUME NEW C \in Nat \ {0}, NEW t \in 0..(C - 1), NEW s \in Nat, NEW n \in Nat, s + n <= C
    PROVE  Turn(Turn(t + s, C) + n, C) = Turn(t + (s + n), C)
<1>1. PICK x \in Nat : x = t + s /\ x < 2 * C
  OBVIOUS
<1>2. CASE x < C
  <2>1. Turn(x, C) = x /\ x + n = t + (s + n)
    BY <1>1, <1>2, TurnCases
  <2> QED
    BY <1>1, <2>1
<1>3. CASE x >= C
  <2>1. Turn(x, C) = x - C
    BY <1>1, <1>3, TurnCases
  <2>2. PICK y \in Nat : y = (x - C) + n /\ y < C
    BY <1>1, <1>3
  <2>3. Turn(y, C) = y
    BY <2>2, TurnCases
  <2>4. PICK z \in Nat : z = t + (s + n) /\ z < 2 * C /\ z >= C /\ z - C = y
    BY <1>1, <1>3, <2>2
  <2>5. Turn(z, C) = z - C
    BY <2>4, TurnCases
  <2> QED
    BY <1>1, <2>1, <2>2, <2>3, <2>4, <2>5
<1> QED
  BY <1>1, <1>2, <1>3

\* How far the byte at distance d from index t is from index Turn(t + s, C).
LEMMA Distance ==
    ASSUME NEW C \in Nat \ {0}, NEW t \in 0..(C - 1), NEW s \in 0..C, NEW d \in 0..(C - 1)
    PROVE  /\ Turn(t + d, C) \in 0..(C - 1)
           /\ (Turn(t + d, C) + C - Turn(t + s, C)) % C
                = IF d < s THEN C + d - s ELSE d - s
<1>1. PICK h \in 0..(C - 1) : h = Turn(t + s, C) /\ (h = t + s \/ h = t + s - C)
  <2>1. PICK x \in Nat : x = t + s /\ x < 2 * C
    OBVIOUS
  <2>2. Turn(x, C) \in 0..(C - 1) /\ (x < C => Turn(x, C) = x) /\ (x >= C => Turn(x, C) = x - C)
    BY <2>1, TurnCases
  <2>3. PICK h \in 0..(C - 1) : h = Turn(x, C)
    BY <2>2
  <2>4. h = x \/ h = x - C
    BY <2>2, <2>3
  <2> QED
    BY <2>1, <2>3, <2>4
<1>2. PICK x \in 0..(C - 1) : x = Turn(t + d, C) /\ (x = t + d \/ x = t + d - C)
  <2>1. PICK x \in Nat : x = t + d /\ x < 2 * C
    OBVIOUS
  <2> QED
    BY <2>1, TurnCases
<1>3. PICK y \in Nat : y = x + C - h /\ y < 2 * C
  OBVIOUS
<1>4. y % C = Turn(y, C)
  BY <1>3, TurnMod
<1>5. Turn(y, C) = IF y < C THEN y ELSE y - C
  BY DEF Turn
<1>6. (IF y < C THEN y ELSE y - C) = IF d < s THEN C + d - s ELSE d - s
  BY <1>1, <1>2, <1>3
<1> QED
  BY <1>1, <1>2, <1>3, <1>4, <1>5, <1>6

\* The parts of a ring.
LEMMA RingParts ==
    ASSUME NEW b, Ring(b)
    PROVE  /\ b.buf_ \in [1..InputBufSize -> Byte] /\ B!capacity(b) = InputBufSize
           /\ b.size_ \in 0..InputBufSize /\ b.tail_ \in 0..(InputBufSize - 1)
           /\ b.head_ = Turn(b.tail_ + b.size_, InputBufSize) /\ b.head_ \in 0..(InputBufSize - 1)
           /\ b.size_ \in Nat /\ b.tail_ \in Nat
<1>1. /\ b.buf_ \in [1..InputBufSize -> Byte]
      /\ b.size_ \in 0..InputBufSize /\ b.tail_ \in 0..(InputBufSize - 1)
      /\ b.head_ = Turn(b.tail_ + b.size_, InputBufSize) /\ b.head_ \in 0..(InputBufSize - 1)
  BY DEF Ring
<1>2. Len(b.buf_) = InputBufSize
  BY <1>1, RingSize
<1> QED
  BY <1>1, <1>2, RingSize DEF B!capacity

\* The first n bytes of a ring.
LEMMA FrontFacts ==
    ASSUME NEW b, Ring(b), NEW C \in Nat \ {0}, C = InputBufSize, NEW n \in 0..C
    PROVE  /\ B!Front(b, n) \in Seq(Byte) /\ Len(B!Front(b, n)) = n
           /\ \A d \in 0..(n - 1) : B!Front(b, n)[d + 1] = b.buf_[Turn(b.tail_ + d, C) + 1]
<1>2. PICK t \in 0..(C - 1) : t = b.tail_
  BY RingParts
<1>3. PICK u : u = b.buf_ /\ u \in [1..C -> Byte]
  BY RingParts
<1>4. ASSUME NEW d \in 0..(n - 1)
      PROVE  /\ Turn(t + d, C) \in 0..(C - 1)
             /\ (t + (d + 1) - 1) % C = Turn(t + d, C)
  <2>1. PICK x \in Nat : x = t + d /\ x < 2 * C /\ t + (d + 1) - 1 = x
    OBVIOUS
  <2> QED
    BY <2>1, TurnMod
<1>5. B!Front(b, n) = [i \in 1..n |-> u[((t + i - 1) % C) + 1]]
  BY <1>2, <1>3, RingParts DEF B!Front
<1>6. \A i \in 1..n : u[((t + i - 1) % C) + 1] \in Byte
  <2> SUFFICES ASSUME NEW i \in 1..n PROVE u[((t + i - 1) % C) + 1] \in Byte
    OBVIOUS
  <2>1. PICK x \in Nat : x = t + i - 1
    OBVIOUS
  <2>2. (x % C) + 1 \in 1..C
    OBVIOUS
  <2> QED
    BY <1>3, <2>1, <2>2
<1>7. n \in Nat
  OBVIOUS
<1>8. PICK v : v = B!Front(b, n)
  OBVIOUS
<1>9. v \in Seq(Byte) /\ Len(v) = n
  BY <1>5, <1>6, <1>7, <1>8
<1>10. ASSUME NEW d \in 0..(n - 1)
       PROVE  v[d + 1] = u[Turn(t + d, C) + 1]
  <2>1. d + 1 \in 1..n
    OBVIOUS
  <2> QED
    BY <1>4, <1>5, <1>8, <2>1
<1> QED
  BY <1>2, <1>3, <1>8, <1>9, <1>10

\* The constructor makes an empty one.
LEMMA NewRing == Ring(B!NewBuffer(InputBufSize)) /\ Content(B!NewBuffer(InputBufSize)) = <<>>
<1>1. Ring(B!NewBuffer(InputBufSize))
  BY RingSize DEF Ring, B!NewBuffer, Turn, NoByte, Byte
<1>2. B!NewBuffer(InputBufSize).size_ = 0
  BY DEF B!NewBuffer
<1> QED
  BY <1>1, <1>2 DEF Content, B!Front

\* write() of what fits lays the bytes behind what the ring holds.
LEMMA RingWrite ==
    ASSUME NEW b, Ring(b), NEW e \in Seq(Byte), Len(e) <= B!remaining(b)
    PROVE  Ring(B!write(b, e)) /\ Cat(Content(B!write(b, e)), Content(b), e)
<1>1. PICK C \in Nat \ {0} : C = InputBufSize
  BY RingSize
<1>2. PICK t \in 0..(C - 1), s \in 0..C, h \in 0..(C - 1) :
        t = b.tail_ /\ s = b.size_ /\ h = b.head_ /\ h = Turn(t + s, C)
  BY <1>1, RingParts
<1>3. PICK u \in [1..C -> Byte] : u = b.buf_
  BY <1>1, RingParts
<1>4. B!capacity(b) = C
  BY <1>1, RingParts
<1>5. PICK n \in Nat : n = Len(e) /\ n <= C - s
  BY <1>2, <1>4 DEF B!remaining
<1>6. B!Least(Len(e), B!remaining(b)) = n
  BY <1>2, <1>4, <1>5 DEF B!remaining, B!Least
<1>7. PICK w : w = B!write(b, e)
  OBVIOUS
<1>8. PICK v : v = [i \in 1..C |-> IF (i - 1 + C - h) % C < n
                                    THEN e[((i - 1 + C - h) % C) + 1] ELSE u[i]]
  OBVIOUS
<1>9. w = [b EXCEPT !.buf_ = v, !.head_ = (h + n) % C, !.size_ = s + n]
  BY <1>2, <1>3, <1>4, <1>6, <1>7, <1>8 DEF B!write, B!Offset
<1>10. (h + n) % C \in 0..(C - 1) /\ (h + n) % C = Turn(t + (s + n), C)
  <2>1. PICK x \in Nat : x = h + n /\ x < 2 * C
    BY <1>5
  <2>2. x % C = Turn(x, C) /\ Turn(x, C) \in 0..(C - 1)
    BY <2>1, TurnMod
  <2>3. s \in Nat /\ s + n <= C
    BY <1>5
  <2>4. Turn(h + n, C) = Turn(t + (s + n), C)
    BY <1>2, <2>3, TurnAdd
  <2> QED
    BY <2>1, <2>2, <2>4
<1>11. v \in [1..C -> Byte]
  <2> SUFFICES ASSUME NEW i \in 1..C PROVE v[i] \in Byte
    BY <1>8
  <2>1. PICK o : o = (i - 1 + C - h) % C
    OBVIOUS
  <2>2. o \in Nat
    BY <1>1, <1>2, <2>1
  <2>3. CASE o < n
    <3>1. o + 1 \in 1..Len(e)
      BY <1>5, <2>2, <2>3
    <3> QED
      BY <1>8, <2>1, <2>3, <3>1
  <2>4. CASE ~(o < n)
    BY <1>8, <2>1, <2>4
  <2> QED
    BY <2>3, <2>4
<1>12. /\ w.buf_ = v /\ w.head_ = (h + n) % C /\ w.size_ = s + n /\ w.tail_ = t
       /\ w \in [buf_ : [1..C -> Byte], size_ : 0..C, head_ : 0..(C - 1), tail_ : 0..(C - 1)]
  <2>1. s + n \in 0..C
    BY <1>5
  <2>2. b \in [buf_ : [1..C -> Byte], size_ : 0..C, head_ : 0..(C - 1), tail_ : 0..(C - 1)]
    BY <1>1 DEF Ring
  <2> QED
    BY <1>2, <1>9, <1>10, <1>11, <2>1, <2>2
<1>13. Ring(w)
  BY <1>1, <1>10, <1>12 DEF Ring
<1>14. PICK p1, p2 : p1 = Content(b) /\ p2 = Content(w)
  OBVIOUS
<1>15. /\ p1 \in Seq(Byte) /\ Len(p1) = s
       /\ \A d \in 0..(s - 1) : p1[d + 1] = u[Turn(t + d, C) + 1]
  <2>1. /\ B!Front(b, s) \in Seq(Byte) /\ Len(B!Front(b, s)) = s
        /\ \A d \in 0..(s - 1) : B!Front(b, s)[d + 1] = b.buf_[Turn(b.tail_ + d, C) + 1]
    BY <1>1, FrontFacts
  <2>2. p1 = B!Front(b, s)
    BY <1>2, <1>14 DEF Content
  <2> QED
    BY <1>2, <1>3, <2>1, <2>2
<1>16. /\ p2 \in Seq(Byte) /\ Len(p2) = s + n
       /\ \A d \in 0..(s + n - 1) : p2[d + 1] = v[Turn(t + d, C) + 1]
  <2>1. PICK k \in 0..C : k = s + n
    BY <1>5
  <2>2. /\ B!Front(w, k) \in Seq(Byte) /\ Len(B!Front(w, k)) = k
        /\ \A d \in 0..(k - 1) : B!Front(w, k)[d + 1] = w.buf_[Turn(w.tail_ + d, C) + 1]
    BY <1>1, <1>13, FrontFacts
  <2>3. p2 = B!Front(w, k)
    BY <1>12, <1>14, <2>1 DEF Content
  <2> QED
    BY <1>12, <2>1, <2>2, <2>3
<1>17. ASSUME NEW d \in 0..(s + n - 1)
       PROVE  \E x \in 1..C, o \in Int :
                /\ x = Turn(t + d, C) + 1
                /\ o = (x - 1 + C - h) % C
                /\ o = IF d < s THEN C + d - s ELSE d - s
  <2>1. d \in 0..(C - 1)
    BY <1>5
  <2>2. /\ Turn(t + d, C) \in 0..(C - 1)
        /\ (Turn(t + d, C) + C - Turn(t + s, C)) % C
             = IF d < s THEN C + d - s ELSE d - s
    BY <2>1, Distance
  <2>3. PICK y \in 0..(C - 1) : y = Turn(t + d, C)
    BY <2>2
  <2>4. y + 1 \in 1..C /\ (y + 1) - 1 = y
    OBVIOUS
  <2> QED
    BY <1>2, <2>2, <2>3, <2>4
<1>18. ASSUME NEW i \in 1..s
       PROVE  p2[i] = p1[i]
  <2>1. PICK d \in 0..(s - 1) : d + 1 = i /\ d \in 0..(s + n - 1)
    BY <1>5
  <2>2. PICK x \in 1..C, o \in Int :
                /\ x = Turn(t + d, C) + 1
                /\ o = (x - 1 + C - h) % C
                /\ o = IF d < s THEN C + d - s ELSE d - s
    BY <1>17, <2>1
  <2>3. ~(o < n)
    BY <1>5, <2>1, <2>2
  <2>4. v[x] = u[x]
    BY <1>8, <2>2, <2>3
  <2> QED
    BY <1>15, <1>16, <2>1, <2>2, <2>4
<1>19. ASSUME NEW j \in 1..n
       PROVE  p2[s + j] = e[j]
  <2>1. PICK d \in 0..(s + n - 1) : d + 1 = s + j
    BY <1>5
  <2>2. PICK x \in 1..C, o \in Int :
                /\ x = Turn(t + d, C) + 1
                /\ o = (x - 1 + C - h) % C
                /\ o = IF d < s THEN C + d - s ELSE d - s
    BY <1>17
  <2>3. o < n /\ o + 1 = j
    <3>1. ~(d < s) /\ d - s = j - 1
      BY <2>1
    <3>2. o = d - s
      BY <2>2, <3>1
    <3> QED
      BY <3>1, <3>2
  <2>4. v[x] = e[j]
    BY <1>8, <2>2, <2>3
  <2> QED
    BY <1>16, <2>1, <2>2, <2>4
<1>20. Cat(p2, p1, e)
  BY <1>5, <1>15, <1>16, <1>18, <1>19 DEF Cat
<1> QED
  BY <1>7, <1>13, <1>14, <1>20

\* read() of n bytes takes the first n off.
LEMMA RingRead ==
    ASSUME NEW b, Ring(b), NEW n \in 0..b.size_
    PROVE  Ring(B!read(b, n)) /\ Cat(Content(b), B!Front(b, n), Content(B!read(b, n)))
<1>1. PICK C \in Nat \ {0} : C = InputBufSize
  BY RingSize
<1>2. PICK t \in 0..(C - 1), s \in 0..C, h \in 0..(C - 1) :
        t = b.tail_ /\ s = b.size_ /\ h = b.head_ /\ h = Turn(t + s, C)
  BY <1>1, RingParts
<1>3. PICK u \in [1..C -> Byte] : u = b.buf_
  BY <1>1, RingParts
<1>4. B!capacity(b) = C
  BY <1>1, RingParts
<1>5. n \in Nat /\ n \in 0..s /\ n \in 0..C /\ s - n \in 0..C
  BY <1>2
<1>6. B!Least(n, b.size_) = n
  BY <1>2, <1>5 DEF B!Least
<1>7. PICK w : w = B!read(b, n)
  OBVIOUS
<1>8. PICK v : v = [i \in 1..C |-> IF (i - 1 + C - t) % C < n THEN NoByte ELSE u[i]]
  OBVIOUS
<1>9. w = [b EXCEPT !.buf_ = v, !.tail_ = (t + n) % C, !.size_ = s - n]
  BY <1>2, <1>3, <1>4, <1>6, <1>7, <1>8 DEF B!read, B!Offset
<1>10. PICK r \in 0..(C - 1) : r = (t + n) % C /\ r = Turn(t + n, C)
  <2>1. PICK x \in Nat : x = t + n /\ x < 2 * C
    BY <1>5
  <2>2. x % C = Turn(x, C) /\ Turn(x, C) \in 0..(C - 1)
    BY <2>1, TurnMod
  <2> QED
    BY <2>1, <2>2
<1>11. v \in [1..C -> Byte]
  BY <1>8 DEF NoByte, Byte
<1>12. /\ w.buf_ = v /\ w.head_ = h /\ w.size_ = s - n /\ w.tail_ = r
       /\ w \in [buf_ : [1..C -> Byte], size_ : 0..C, head_ : 0..(C - 1), tail_ : 0..(C - 1)]
  <2>1. b \in [buf_ : [1..C -> Byte], size_ : 0..C, head_ : 0..(C - 1), tail_ : 0..(C - 1)]
    BY <1>1 DEF Ring
  <2> QED
    BY <1>2, <1>5, <1>9, <1>10, <1>11, <2>1
<1>13. Ring(w)
  <2>1. PICK k \in Nat : k = s - n /\ n + k = s
    BY <1>5
  <2>2. n + k <= C
    BY <2>1
  <2>3. Turn(Turn(t + n, C) + k, C) = Turn(t + (n + k), C)
    BY <1>5, <2>2, TurnAdd
  <2>4. h = Turn(r + (s - n), C)
    BY <1>2, <1>10, <2>1, <2>3
  <2> QED
    BY <1>1, <1>12, <2>4 DEF Ring
<1>14. PICK p1, p2, p3 : p1 = Content(b) /\ p2 = Content(w) /\ p3 = B!Front(b, n)
  OBVIOUS
<1>15. /\ p1 \in Seq(Byte) /\ Len(p1) = s
       /\ \A d \in 0..(s - 1) : p1[d + 1] = u[Turn(t + d, C) + 1]
  <2>1. /\ B!Front(b, s) \in Seq(Byte) /\ Len(B!Front(b, s)) = s
        /\ \A d \in 0..(s - 1) : B!Front(b, s)[d + 1] = b.buf_[Turn(b.tail_ + d, C) + 1]
    BY <1>1, FrontFacts
  <2>2. p1 = B!Front(b, s)
    BY <1>2, <1>14 DEF Content
  <2> QED
    BY <1>2, <1>3, <2>1, <2>2
<1>16. /\ p2 \in Seq(Byte) /\ Len(p2) = s - n
       /\ \A d \in 0..(s - n - 1) : p2[d + 1] = v[Turn(r + d, C) + 1]
  <2>1. PICK k \in 0..C : k = s - n
    BY <1>5
  <2>2. /\ B!Front(w, k) \in Seq(Byte) /\ Len(B!Front(w, k)) = k
        /\ \A d \in 0..(k - 1) : B!Front(w, k)[d + 1] = w.buf_[Turn(w.tail_ + d, C) + 1]
    BY <1>1, <1>13, FrontFacts
  <2>3. p2 = B!Front(w, k)
    BY <1>12, <1>14, <2>1 DEF Content
  <2> QED
    BY <1>12, <2>1, <2>2, <2>3
<1>17. /\ p3 \in Seq(Byte) /\ Len(p3) = n
       /\ \A d \in 0..(n - 1) : p3[d + 1] = u[Turn(t + d, C) + 1]
  <2>1. /\ B!Front(b, n) \in Seq(Byte) /\ Len(B!Front(b, n)) = n
        /\ \A d \in 0..(n - 1) : B!Front(b, n)[d + 1] = b.buf_[Turn(b.tail_ + d, C) + 1]
    BY <1>1, <1>5, FrontFacts
  <2> QED
    BY <1>2, <1>3, <1>14, <2>1
<1>18. ASSUME NEW i \in 1..n
       PROVE  p1[i] = p3[i]
  <2>1. PICK d \in 0..(n - 1) : d + 1 = i /\ d \in 0..(s - 1)
    BY <1>5
  <2> QED
    BY <1>15, <1>17, <2>1
<1>19. ASSUME NEW j \in 1..(s - n)
       PROVE  p1[n + j] = p2[j]
  <2>1. PICK d \in 0..(s - n - 1) : d + 1 = j
    BY <1>5
  <2>2. PICK c \in 0..(s - 1) : c = n + d /\ c + 1 = n + j /\ c \in 0..(C - 1)
    BY <1>5, <2>1
  <2>3. Turn(r + d, C) = Turn(t + c, C)
    <3>1. d \in Nat /\ n + d <= C
      BY <1>5
    <3>2. Turn(Turn(t + n, C) + d, C) = Turn(t + (n + d), C)
      BY <1>5, <3>1, TurnAdd
    <3> QED
      BY <1>10, <2>2, <3>2
  <2>4. /\ Turn(t + c, C) \in 0..(C - 1)
        /\ (Turn(t + c, C) + C - Turn(t + 0, C)) % C = IF c < 0 THEN C + c - 0 ELSE c - 0
    <3>1. 0 \in 0..C
      OBVIOUS
    <3> QED
      BY <2>2, <3>1, Distance
  <2>5. PICK y \in 0..(C - 1) : y = Turn(t + c, C)
    BY <2>4
  <2>6. Turn(t + 0, C) = t
    BY DEF Turn
  <2>7. (y + C - t) % C = c
    <3>1. ~(c < 0) /\ c - 0 = c
      OBVIOUS
    <3> QED
      BY <2>4, <2>5, <2>6, <3>1
  <2>8. y + 1 \in 1..C /\ (y + 1) - 1 = y /\ ~(c < n)
    BY <1>5, <2>1, <2>2
  <2>9. v[y + 1] = u[y + 1]
    BY <1>8, <2>7, <2>8
  <2> QED
    BY <1>15, <1>16, <2>1, <2>2, <2>3, <2>5, <2>9
<1>20. Cat(p1, p3, p2)
  BY <1>5, <1>15, <1>16, <1>17, <1>18, <1>19 DEF Cat
<1> QED
  BY <1>7, <1>13, <1>14, <1>20

-----------------------------------------------------------------------------
(* Receiving.                                                              *)

\* The sizes of the frames, with the length before each of them.
FrameSize == [k \in 1..Len(frames) |-> 2 + frames[k].len]

\* The frames that lwIP has, and the one in a pbuf.
Taken == given \o InPbuf

\* A frame and the length before it, which is right or is none that fits.
Right(r) == r.says = 2 + r.len
Headed == {r \in [len : Nat \ {0}, says : Nat] : Right(r) \/ r.says < 2 \/ r.says > RxBufSize}

\* Types.
RxTypes ==
    /\ rxMem \in Seq(Byte) /\ storing \in Seq(Byte) /\ p \in Seq(Byte)
    /\ frames \in Seq(Headed) /\ given \in Seq(Nat)
    /\ RX_RD \in 0..(Words - 1) /\ end \in Nat /\ rxSize \in Nat

\* What has been scanned is still in the chip's memory, which is smaller than
\* what its pointers can tell apart.
Scanned ==
    /\ end <= rxSize /\ rxSize <= Len(rxMem)
    /\ at # "scan" => rxSize = 0
    /\ Len(rxMem) + Len(storing) <= RxBufSize

\* A pbuf holds the data of frame k, of n bytes.
IsData(q, k, n) == Len(q) = n /\ \A m \in 1..n : q[m] = <<k, m + 2>>

\* There is a pbuf from when proc_input() returns it until it is handed over,
\* and while the stack sends meanwhile.
Holding ==
    /\ p # <<>> => \E k \in 1..Len(frames) :
                     IsData(p, k, frames[k].len) /\ frames[k].len <= kMaxFrameLen
    /\ p # <<>> <=> at = "input" \/ (at \in {"wait", "space"} /\ caller = "input")
    /\ at \in {"wait", "space"} => caller \in {"idle", "input"}

\* The frames that have arrived, and what has become of them.
InOrder == Good(Taken, Buffered, InChip, Len(frames), FrameSize, lost)

\* No frame with a wrong length before it has been fetched.
Sound == \A k \in Of(Buffered) : Right(frames[k])

\* The invariant of receiving.
RxInv == RxTypes /\ Scanned /\ Holding /\ Ring(buf) /\ InOrder /\ Sound

\* Nothing has arrived (Init).
LEMMA RxInit == Init => RxInv
<1> SUFFICES ASSUME Init PROVE RxInv
  OBVIOUS
<1>1. RxTypes
  BY W5500Assumption DEF Init, RxTypes
<1>2. Scanned
  BY W5500Assumption DEF Init, Scanned
<1>3. Holding
  BY DEF Init, Holding
<1>4. Ring(buf) /\ Buffered = <<>>
  BY NewRing DEF Init, Buffered, Content
<1>5. Of(<<>>) = {}
  BY DEF Of
<1>6. Taken = <<>> /\ InChip = <<>> /\ Len(frames) = 0 /\ lost = {}
  BY DEF Init, Taken, InPbuf, InChip
<1>7. Sized(0, FrameSize)
  BY DEF Init, Sized, FrameSize
<1>8. Good(<<>>, <<>>, <<>>, 0, FrameSize, {})
  <2>1. Elems(<<>>) = {}
    BY DEF Elems
  <2>2. Chain(<<>>, 0, FrameSize)
    BY DEF Chain, Sorted
  <2> QED
    BY <1>5, <1>7, <2>1, <2>2 DEF Good, Below
<1>9. InOrder
  BY <1>4, <1>6, <1>8 DEF InOrder
<1> QED
  BY <1>1, <1>2, <1>3, <1>4, <1>5, <1>9 DEF RxInv, Sound

\* What the invariant says when the frames, and what has become of them, are as
\* before.
LEMMA OrderSame ==
    ASSUME InOrder, UNCHANGED <<Taken, Buffered, InChip, frames, lost>>
    PROVE  InOrder'
<1>1. FrameSize' = FrameSize /\ Len(frames)' = Len(frames)
  BY DEF FrameSize
<1> QED
  BY <1>1 DEF InOrder

\* Steps that concern neither the chip's memory nor the driver's buffer.
LEMMA RxSame ==
    ASSUME RxInv, UNCHANGED rxVars, at = "scan" <=> at' = "scan", Holding'
    PROVE  RxInv'
<1>1. UNCHANGED <<rxMem, storing, frames, RX_RD, buf, rxSize, end, p, given, lost>>
  BY DEF rxVars
<1>2. RxTypes' /\ Scanned' /\ Ring(buf)'
  BY <1>1 DEF RxInv, RxTypes, Scanned
<1>3. UNCHANGED <<Taken, Buffered, InChip, frames, lost>>
  BY <1>1 DEF Taken, InPbuf, Buffered, InChip
<1>4. InOrder'
  BY <1>3, OrderSame DEF RxInv
<1>5. Sound'
  BY <1>3 DEF RxInv, Sound
<1> QED
  BY <1>2, <1>4, <1>5 DEF RxInv

\* Sizes are those of the frames.
LEMMA SizeOf ==
    ASSUME RxTypes
    PROVE  /\ Sized(Len(frames), FrameSize) /\ Len(frames) \in Nat
           /\ \A k \in 1..Len(frames) : /\ frames[k] \in Headed /\ frames[k].len \in Nat \ {0}
                                        /\ FrameSize[k] = 2 + frames[k].len
<1>1. /\ Len(frames) \in Nat
      /\ \A k \in 1..Len(frames) : frames[k] \in Headed
  <2>1. frames \in Seq(Headed)
    BY DEF RxTypes
  <2> QED
    BY <2>1, ElementOfSeq, LenProperties
<1>2. ASSUME NEW k \in 1..Len(frames)
      PROVE  /\ frames[k] \in Headed /\ frames[k].len \in Nat \ {0}
             /\ FrameSize[k] = 2 + frames[k].len
  BY <1>1 DEF FrameSize, Headed
<1>3. Sized(Len(frames), FrameSize)
  <2>1. ASSUME NEW k \in 1..Len(frames)
        PROVE  2 + frames[k].len \in Nat \ {0, 1, 2}
    BY <1>2
  <2> QED
    BY <1>1, <2>1 DEF Sized, FrameSize
<1> QED
  BY <1>1, <1>2, <1>3

\* The bytes in the chip that have not been scanned.
LEMMA ChipBytes ==
    ASSUME RxTypes, Scanned
    PROVE  /\ InChip = After(rxMem, end) \o storing
           /\ After(rxMem, end) \in Seq(Byte) /\ InChip \in Seq(Byte)
           /\ Len(After(rxMem, end)) = Len(rxMem) - end /\ end \in 0..Len(rxMem)
           /\ Len(rxMem) \in Nat /\ Len(storing) \in Nat
<1>1. end \in 0..Len(rxMem) /\ Len(rxMem) \in Nat /\ Len(storing) \in Nat
  <2>1. Len(rxMem) \in Nat /\ Len(storing) \in Nat
    BY DEF RxTypes
  <2> QED
    BY <2>1 DEF RxTypes, Scanned
<1>2. After(rxMem, end) \in Seq(Byte) /\ Len(After(rxMem, end)) = Len(rxMem) - end
  BY <1>1, AfterFacts DEF RxTypes
<1>3. InChip = After(rxMem, end) \o storing
  BY DEF InChip, After
<1> QED
  BY <1>1, <1>2, <1>3, ConcatBytes DEF RxTypes

\* ChipReceive: the frame is behind what the chip has, in two pieces.
LEMMA ReceiveKeeps ==
    ASSUME RxInv, ChipReceive
    PROVE  RxInv'
<1>1. RxTypes /\ Scanned /\ Holding /\ Ring(buf) /\ InOrder /\ Sound
  BY DEF RxInv
<1>2. PICK n \in Nat \ {0}, says \in Nat, m \in Nat :
        /\ storing = <<>> /\ Len(rxMem) + 2 + n <= RxBufSize
        /\ frames' = Append(frames, [len |-> n, says |-> says]) /\ m \in 1..(2 + n)
        /\ [len |-> n, says |-> says] \in Headed
        /\ rxMem' = rxMem \o SubSeq([i \in 1..(2 + n) |-> <<Len(frames) + 1, i>>], 1, m)
        /\ storing' = SubSeq([i \in 1..(2 + n) |-> <<Len(frames) + 1, i>>], m + 1, 2 + n)
        /\ UNCHANGED <<RX_RD, buf, rxSize, end, p, given, lost, caller, at>>
  <2>0. PICK n \in Sizes : \E says \in {2 + n} \cup WrongLens :
          /\ storing = <<>> /\ Len(rxMem) + 2 + n <= RxBufSize
          /\ frames' = Append(frames, [len |-> n, says |-> says])
          /\ \E m \in {1, 2, 2 + n} :
               /\ rxMem' = rxMem \o SubSeq([i \in 1..(2 + n) |-> <<Len(frames) + 1, i>>], 1, m)
               /\ storing' = SubSeq([i \in 1..(2 + n) |-> <<Len(frames) + 1, i>>], m + 1, 2 + n)
          /\ UNCHANGED <<RX_RD, buf, rxSize, end, p, given, lost, caller, at>>
    BY DEF ChipReceive, txVars
  <2>1. PICK says \in {2 + n} \cup WrongLens :
          /\ storing = <<>> /\ Len(rxMem) + 2 + n <= RxBufSize
          /\ frames' = Append(frames, [len |-> n, says |-> says])
          /\ \E m \in {1, 2, 2 + n} :
               /\ rxMem' = rxMem \o SubSeq([i \in 1..(2 + n) |-> <<Len(frames) + 1, i>>], 1, m)
               /\ storing' = SubSeq([i \in 1..(2 + n) |-> <<Len(frames) + 1, i>>], m + 1, 2 + n)
          /\ UNCHANGED <<RX_RD, buf, rxSize, end, p, given, lost, caller, at>>
    BY <2>0
  <2>2. n \in Nat \ {0} /\ says \in Nat /\ [len |-> n, says |-> says] \in Headed
    BY W5500Assumption DEF Headed, Right
  <2>3. PICK m \in {1, 2, 2 + n} :
               /\ rxMem' = rxMem \o SubSeq([i \in 1..(2 + n) |-> <<Len(frames) + 1, i>>], 1, m)
               /\ storing' = SubSeq([i \in 1..(2 + n) |-> <<Len(frames) + 1, i>>], m + 1, 2 + n)
    BY <2>1
  <2>4. m \in Nat /\ m \in 1..(2 + n)
    BY <2>2, <2>3
  <2> QED
    BY <2>1, <2>2, <2>3, <2>4, Zenon
<1>f. PICK f : f = [i \in 1..(2 + n) |-> <<Len(frames) + 1, i>>]
  OBVIOUS
<1>3. PICK N \in Nat : N = Len(frames)
  BY <1>1, SizeOf
<1>4. f \in Seq(Byte) /\ Len(f) = 2 + n /\ \A i \in 1..(2 + n) : f[i] = <<N + 1, i>>
  <2>1. \A i \in 1..(2 + n) : <<N + 1, i>> \in Byte
    BY DEF Byte
  <2> QED
    BY <1>f, <1>3, <2>1
<1>5. PICK a \in Seq(Byte), b \in Seq(Byte) :
        /\ a = SubSeq(f, 1, m) /\ b = SubSeq(f, m + 1, 2 + n) /\ f = a \o b
        /\ Len(a) = m /\ Len(b) = 2 + n - m
  <2>1. m \in 0..Len(f) /\ Len(f) = 2 + n
    BY <1>2, <1>4
  <2>2. Cat(f, SubSeq(f, 1, m), SubSeq(f, m + 1, 2 + n))
    BY <1>4, <2>1, CatSplit
  <2>3. f = SubSeq(f, 1, m) \o SubSeq(f, m + 1, 2 + n)
    BY <2>2, CatIs
  <2>4. SubSeq(f, 1, m) \in Seq(Byte) /\ SubSeq(f, m + 1, 2 + n) \in Seq(Byte)
    BY <2>2 DEF Cat
  <2>5. Len(SubSeq(f, 1, m)) = m /\ Len(SubSeq(f, m + 1, 2 + n)) = 2 + n - m
    BY <1>2, <1>4, <2>1
  <2> QED
    BY <2>3, <2>4, <2>5
<1>6. /\ rxMem' = rxMem \o a /\ storing' = b /\ rxMem' \in Seq(Byte)
      /\ Len(rxMem') = Len(rxMem) + m /\ Len(rxMem) \in Nat
  <2>1. rxMem \in Seq(Byte)
    BY <1>1 DEF RxTypes
  <2>2. rxMem' = rxMem \o a /\ storing' = b
    BY <1>2, <1>f, <1>5
  <2> QED
    BY <1>5, <2>1, <2>2, ConcatBytes
<1>7. /\ frames' \in Seq(Headed)
      /\ Len(frames') = N + 1 /\ frames'[N + 1].len = n
      /\ \A k \in 1..N : frames'[k] = frames[k]
  BY <1>1, <1>2, <1>3 DEF RxTypes
<1>8. RxTypes'
  BY <1>1, <1>2, <1>5, <1>6, <1>7 DEF RxTypes
<1>9. Scanned'
  <2>1. Len(rxMem') + Len(storing') <= RxBufSize
    <3>1. Len(rxMem') + Len(storing') = Len(rxMem) + 2 + n
      <4>1. PICK x \in Nat : x = Len(rxMem) /\ Len(rxMem') = x + m
        BY <1>6
      <4>2. Len(storing') = 2 + n - m
        BY <1>5, <1>6
      <4> QED
        BY <4>1, <4>2
    <3> QED
      BY <1>2, <3>1
  <2>2. end <= rxSize /\ rxSize <= Len(rxMem')
    BY <1>1, <1>2, <1>6 DEF Scanned, RxTypes
  <2> QED
    BY <1>1, <1>2, <2>1, <2>2 DEF Scanned
<1>10. Holding'
  <2>1. ASSUME p # <<>>
        PROVE  \E k \in 1..Len(frames') :
                 IsData(p, k, frames'[k].len) /\ frames'[k].len <= kMaxFrameLen
    <3>1. PICK k \in 1..N : IsData(p, k, frames[k].len) /\ frames[k].len <= kMaxFrameLen
      BY <1>1, <1>3, <2>1 DEF Holding
    <3>2. k \in 1..Len(frames') /\ frames'[k] = frames[k]
      BY <1>7
    <3> QED
      BY <3>1, <3>2
  <2> QED
    BY <1>1, <1>2, <2>1 DEF Holding
<1>11. Cat(InChip', InChip, f)
  <2>1. InChip = After(rxMem, end)
    BY <1>1, <1>2, ChipBytes, ConcatEmptySeq
  <2>2. InChip' = After(rxMem', end) \o b
    BY <1>2, <1>6 DEF InChip, After
  <2>3. After(rxMem', end) = After(rxMem, end) \o a
    BY <1>1, <1>6, ChipBytes, AfterConcat DEF RxTypes
  <2>4. InChip' = InChip \o (a \o b)
    <3>1. After(rxMem, end) \in Seq(Byte)
      BY <1>1, ChipBytes
    <3>2. (After(rxMem, end) \o a) \o b = After(rxMem, end) \o (a \o b)
      BY <1>5, <3>1, ConcatBytesAssoc
    <3> QED
      BY <2>1, <2>2, <2>3, <3>2
  <2> QED
    BY <1>1, <1>4, <1>5, <2>4, ChipBytes, CatConcat
<1>12. Taken' = Taken /\ Buffered' = Buffered /\ lost' = lost
  BY <1>2 DEF Taken, InPbuf, Buffered
<1>13. /\ Sized(N, FrameSize) /\ Sized(N + 1, FrameSize')
       /\ \A k \in 1..N : FrameSize'[k] = FrameSize[k]
       /\ FrameSize'[N + 1] = 2 + n
  <2>1. Sized(N, FrameSize) /\ \A k \in 1..N : FrameSize[k] = 2 + frames[k].len
    BY <1>1, <1>3, SizeOf
  <2>2. FrameSize' = [k \in 1..(N + 1) |-> 2 + frames'[k].len]
    BY <1>7 DEF FrameSize
  <2>3. \A k \in 1..(N + 1) : frames'[k] \in Headed
    BY <1>7, ElementOfSeq
  <2>4. \A k \in 1..(N + 1) : 2 + frames'[k].len \in Nat \ {0, 1, 2}
    BY <2>3 DEF Headed
  <2>5. Sized(N + 1, FrameSize')
    BY <2>2, <2>4 DEF Sized
  <2>6. N + 1 \in 1..(N + 1) /\ \A k \in 1..N : k \in 1..(N + 1)
    OBVIOUS
  <2>7. FrameSize'[N + 1] = 2 + n /\ \A k \in 1..N : FrameSize'[k] = 2 + frames[k].len
    BY <1>7, <2>2, <2>6
  <2> QED
    BY <2>1, <2>5, <2>7
<1>14. IsFrame(f, N + 1, N + 1, FrameSize')
  BY <1>4, <1>13 DEF IsFrame
<1>15. InOrder'
  <2>1. Good(Taken, Buffered, InChip, N, FrameSize, lost)
    BY <1>1, <1>3 DEF InOrder
  <2>2. Good(Taken, Buffered, InChip', N + 1, FrameSize', lost)
    BY <1>11, <1>13, <1>14, <2>1, GoodReceive
  <2> QED
    BY <1>7, <1>12, <2>2 DEF InOrder
<1>16. Sound'
  <2>1. ASSUME NEW k \in Of(Buffered)
        PROVE  Right(frames'[k])
    <3>1. k \in 1..N /\ Right(frames[k])
      BY <1>1, <1>3 DEF InOrder, Good, Sound
    <3> QED
      BY <1>7, <3>1
  <2> QED
    BY <1>12, <2>1 DEF Sound
<1> QED
  BY <1>2, <1>1, <1>8, <1>9, <1>10, <1>15, <1>16 DEF RxInv

\* Steps that move bytes in the chip's memory, but lose none that have not been
\* scanned.
LEMMA ChipSame ==
    ASSUME RxInv, RxTypes', Scanned', Holding', InChip' = InChip,
           UNCHANGED <<frames, buf, p, given, lost>>
    PROVE  RxInv'
<1>1. UNCHANGED <<Taken, Buffered, InChip, frames, lost>> /\ Ring(buf)'
  BY DEF RxInv, Taken, InPbuf, Buffered
<1>2. InOrder'
  BY <1>1, OrderSame DEF RxInv
<1>3. Sound'
  BY <1>1 DEF RxInv, Sound
<1> QED
  BY <1>1, <1>2, <1>3 DEF RxInv

\* ChipStore: the second piece joins the first.
LEMMA StoreKeeps ==
    ASSUME RxInv, ChipStore
    PROVE  RxInv'
<1>1. RxTypes /\ Scanned /\ Holding
  BY DEF RxInv
<1>2. /\ rxMem' = rxMem \o storing /\ storing' = <<>>
      /\ UNCHANGED <<frames, RX_RD, buf, rxSize, end, p, given, lost, caller, at>>
  BY DEF ChipStore, txVars
<1>3. rxMem \in Seq(Byte) /\ storing \in Seq(Byte)
  BY <1>1 DEF RxTypes
<1>4. /\ rxMem' \in Seq(Byte) /\ Len(rxMem') = Len(rxMem) + Len(storing)
      /\ Len(rxMem) \in Nat /\ Len(storing) \in Nat
  BY <1>2, <1>3, ConcatBytes
<1>5. RxTypes'
  BY <1>1, <1>2, <1>4 DEF RxTypes
<1>6. Scanned'
  <2>1. rxSize \in Nat /\ rxSize <= Len(rxMem) /\ Len(storing') = 0
    BY <1>1, <1>2 DEF RxTypes, Scanned
  <2> QED
    BY <1>1, <1>2, <1>4, <2>1 DEF Scanned
<1>7. Holding'
  BY <1>1, <1>2 DEF Holding
<1>8. InChip' = InChip
  <2>1. InChip' = After(rxMem \o storing, end) \o <<>>
    BY <1>2 DEF InChip, After
  <2>2. After(rxMem \o storing, end) = InChip /\ InChip \in Seq(Byte)
    BY <1>1, <1>3, ChipBytes, AfterConcat
  <2> QED
    BY <2>1, <2>2, ConcatEmptySeq
<1> QED
  BY <1>2, <1>5, <1>6, <1>7, <1>8, ChipSame

\* readAndScan() begins with a size that is not more than what is there.
LEMMA SizeReadKeeps ==
    ASSUME RxInv, read_RSR
    PROVE  RxInv'
<1>1. RxTypes /\ Scanned /\ Holding
  BY DEF RxInv
<1>2. /\ at = "read" /\ end' = 0
      /\ \/ rxSize' = Len(rxMem) /\ at' = "scan"
         \/ rxSize' = 0 /\ at' = "take"
      /\ UNCHANGED <<rxMem, storing, frames, RX_RD, buf, p, given, lost, caller>>
  BY DEF read_RSR, txVars
<1>3. Len(rxMem) \in Nat /\ rxSize = 0 /\ end = 0
  BY <1>1, <1>2, ChipBytes DEF Scanned, RxTypes
<1>4. RxTypes'
  BY <1>1, <1>2, <1>3 DEF RxTypes
<1>5. Scanned'
  BY <1>1, <1>2, <1>3 DEF Scanned
<1>6. Holding'
  BY <1>1, <1>2 DEF Holding
<1>7. InChip' = InChip
  BY <1>2, <1>3 DEF InChip
<1> QED
  BY <1>2, <1>4, <1>5, <1>6, <1>7, ChipSame

\* readAndScan() has told the chip what it has read.
LEMMA ReceivedKeeps ==
    ASSUME RxInv, at = "scan", at' \in {"read", "take"}, Received, Leave,
           UNCHANGED <<storing, frames, buf, p, given, lost, caller>>
    PROVE  RxInv'
<1>1. RxTypes /\ Scanned /\ Holding
  BY DEF RxInv
<1>2. rxSize' = 0 /\ end' = 0
  BY DEF Leave
<1>3. PICK e \in Nat, n \in Nat, W \in Nat, r \in Nat :
        r < W /\ e = end /\ n = Len(rxMem) /\ W = Words /\ r = RX_RD /\ e <= n /\ n < W
  <2>1. Words \in Nat /\ RxBufSize \in Nat /\ Words > RxBufSize
    BY W5500Assumption
  <2>2. Len(rxMem) \in Nat /\ Len(storing) \in Nat /\ end \in 0..Len(rxMem)
    BY <1>1, ChipBytes
  <2>3. Len(rxMem) + Len(storing) <= RxBufSize /\ RX_RD \in 0..(Words - 1)
    BY <1>1 DEF Scanned, RxTypes
  <2> QED
    BY <2>1, <2>2, <2>3
<1>4. rxMem' = After(rxMem, end) /\ RX_RD' \in 0..(W - 1)
  <2>1. CASE end = 0
    BY <1>1, <1>3, <2>1, AfterNone DEF Received, RxTypes
  <2>2. CASE end # 0
    <3>1. (r + e) % W \in 0..(W - 1) /\ (((r + e) % W) - r) % W = e
      <4>1. CASE r + e < W
        <5>1. (r + e) % W = r + e
          BY <1>3, <4>1
        <5> QED
          BY <1>3, <4>1, <5>1
      <4>2. CASE r + e >= W
        <5>1. (r + e) % W = r + e - W
          BY <1>3, <4>2
        <5>2. (e - W) % W = e
          BY <1>3
        <5>3. (r + e - W) - r = e - W /\ r + e - W \in 0..(W - 1)
          BY <1>3, <4>2
        <5> QED
          BY <5>1, <5>2, <5>3
      <4> QED
        BY <1>3, <4>1, <4>2
    <3>2. /\ rxMem' = SubSeq(rxMem, ((((r + e) % W) - r) % W) + 1, Len(rxMem))
          /\ RX_RD' = (r + e) % W
      BY <1>3, <2>2 DEF Received, Recv
    <3> QED
      BY <1>3, <3>1, <3>2 DEF After
  <2> QED
    BY <2>1, <2>2
<1>5. /\ rxMem' \in Seq(Byte) /\ Len(rxMem') \in Nat /\ Len(rxMem') <= Len(rxMem)
      /\ Len(rxMem) \in Nat /\ Len(storing) \in Nat
  BY <1>1, <1>4, ChipBytes
<1>6. RxTypes'
  BY <1>1, <1>2, <1>3, <1>4, <1>5 DEF RxTypes
<1>7. Scanned'
  <2>1. Len(rxMem') + Len(storing) <= RxBufSize
    BY <1>1, <1>5, W5500Assumption DEF Scanned
  <2> QED
    BY <1>2, <1>5, <2>1 DEF Scanned
<1>8. Holding'
  BY <1>1 DEF Holding
<1>9. InChip' = InChip
  <2>1. InChip' = After(rxMem', 0) \o storing
    BY <1>2 DEF InChip, After
  <2>2. After(rxMem', 0) = rxMem'
    BY <1>5, AfterNone
  <2> QED
    BY <1>1, <1>4, <2>1, <2>2, ChipBytes
<1> QED
  BY <1>6, <1>7, <1>8, <1>9, ChipSame

\* CLOSE: what the chip had received is lost.
LEMMA ClearedKeeps ==
    ASSUME RxInv, at \in {"idle", "scan"}, at' \in {"idle", "read"},
           rxMem' = <<>>, storing' = <<>>, RX_RD' \in 0..(Words - 1),
           rxSize' = 0, end' = 0,
           lost' = lost \cup Of(After(rxMem, end)) \cup Of(storing),
           UNCHANGED <<frames, buf, p, given, caller>>
    PROVE  RxInv'
<1>1. RxTypes /\ Scanned /\ Holding /\ InOrder
  BY DEF RxInv
<1>2. RxTypes'
  BY <1>1 DEF RxTypes
<1>3. Scanned'
  BY W5500Assumption DEF Scanned
<1>4. Holding'
  BY <1>1 DEF Holding
<1>5. Taken' = Taken /\ Buffered' = Buffered /\ InChip' = <<>>
  BY DEF Taken, InPbuf, Buffered, InChip
<1>6. lost' = lost \cup Of(InChip)
  <2>1. Cat(InChip, After(rxMem, end), storing)
    BY <1>1, ChipBytes, CatConcat DEF RxTypes
  <2>2. Of(InChip) = Of(After(rxMem, end)) \cup Of(storing)
    BY <2>1, CatOf
  <2> QED
    BY <2>2
<1>7. InOrder'
  <2>1. Good(Taken, Buffered, <<>>, Len(frames), FrameSize, lost \cup Of(InChip))
    BY <1>1, GoodClear DEF InOrder
  <2>2. FrameSize' = FrameSize
    BY DEF FrameSize
  <2> QED
    BY <1>5, <1>6, <2>1, <2>2 DEF InOrder
<1> QED
  BY <1>2, <1>3, <1>4, <1>5, <1>7 DEF RxInv, Sound

\* The scan stands at the length before a frame, which readFrameLen() reads.
AtFrame(k) ==
    /\ k \in 1..Len(frames) /\ Len(InChip) > 0 /\ InChip[1][1] = k /\ rxMem[end + 1][1] = k
    /\ frameLen = frames[k].says

\* The two bytes at the scan are the length of the first frame that is left.
LEMMA ScanHead ==
    ASSUME RxInv, at = "scan", More
    PROVE  \E k : AtFrame(k)
<1>1. RxTypes /\ Scanned /\ InOrder
  BY DEF RxInv
<1>2. PICK N \in Nat : N = Len(frames) /\ Sized(N, FrameSize)
  BY <1>1, SizeOf
<1>3. PICK c \in Seq(Byte), a \in Seq(Byte), e \in Nat, n \in Nat :
        /\ c = InChip /\ a = After(rxMem, end) /\ e = end /\ n = Len(rxMem)
        /\ c = a \o storing /\ Len(a) = n - e /\ e \in 0..n /\ storing \in Seq(Byte)
        /\ rxMem \in Seq(Byte)
  BY <1>1, ChipBytes DEF RxTypes
<1>4. e + 2 <= n
  BY <1>1, <1>3 DEF More, Scanned, RxTypes
<1>5. 1 \in 1..(n - e) /\ 2 \in 1..(n - e)
  BY <1>3, <1>4
<1>6. a[1] = rxMem[e + 1] /\ a[2] = rxMem[e + 2]
  <2>1. \A i \in 1..(n - e) : a[i] = rxMem[e + i]
    BY <1>3, AfterFacts
  <2> QED
    BY <1>5, <2>1
<1>7. c[1] = a[1] /\ c[2] = a[2] /\ Len(c) > 0
  <2>1. Len(c) = Len(a) + Len(storing) /\ Len(storing) \in Nat
        /\ \A i \in 1..Len(a) : c[i] = a[i]
    <3>1. /\ Len(a \o storing) = Len(a) + Len(storing) /\ Len(storing) \in Nat
          /\ \A i \in 1..Len(a) : (a \o storing)[i] = a[i]
      BY <1>3, ConcatBytes
    <3> QED
      BY <1>3, <3>1
  <2> QED
    BY <1>3, <1>4, <1>5, <2>1
<1>8. Chain(c, N, FrameSize)
  BY <1>1, <1>2, <1>3 DEF InOrder, Good
<1>9. PICK k \in 1..N, s \in Nat :
         k = c[1][1] /\ s = FrameSize[k] /\ s > 2 /\ \A m \in 1..s : c[m] = <<k, m>>
  <2>1. /\ c[1][1] \in 1..N /\ FrameSize[c[1][1]] \in Nat /\ FrameSize[c[1][1]] > 2
        /\ \A m \in 1..FrameSize[c[1][1]] : c[m] = <<c[1][1], m>>
    BY <1>2, <1>7, <1>8, ChainHead
  <2> QED
    BY <2>1
<1>10. c[1] = <<k, 1>> /\ c[2] = <<k, 2>>
  BY <1>9
<1>11. rxMem[end + 1] = <<k, 1>> /\ rxMem[end + 2] = <<k, 2>>
  BY <1>3, <1>6, <1>7, <1>10
<1>12. frameLen = frames[k].says
  <2>2. <<k, 1>>[2] = 1 /\ <<k, 1>>[1] = k
    OBVIOUS
  <2> QED
    BY <1>11, <2>2 DEF frameLen, FrameLen
<1>13. AtFrame(k)
  BY <1>2, <1>3, <1>7, <1>9, <1>11, <1>12 DEF AtFrame
<1> QED
  BY <1>13

\* readAndScan() appends a frame to the buffer, or drops it.
LEMMA FrameKeeps ==
    ASSUME RxInv, scan_frame
    PROVE  RxInv'
<1>1. RxTypes /\ Scanned /\ Holding /\ Ring(buf) /\ InOrder /\ Sound
  BY DEF RxInv
<1>2. /\ at = "scan" /\ More /\ frameLen >= 2 /\ end + frameLen <= rxSize
      /\ end' = end + frameLen
      /\ UNCHANGED <<rxMem, storing, frames, RX_RD, rxSize, p, given, caller, at>>
  BY DEF scan_frame, Whole, txVars
<1>3. PICK k : AtFrame(k)
  BY <1>2, ScanHead
<1>4. PICK N \in Nat : N = Len(frames) /\ Sized(N, FrameSize)
  BY <1>1, SizeOf
<1>5. PICK L \in Nat : /\ L = FrameSize[k] /\ frameLen = L /\ L > 2 /\ k \in 1..N
                       /\ Right(frames[k])
  <2>1. /\ FrameSize[k] \in Nat /\ FrameSize[k] > 2 /\ k \in 1..N
        /\ frames[k] \in Headed /\ FrameSize[k] = 2 + frames[k].len
    BY <1>1, <1>3, <1>4, SizeOf DEF AtFrame
  <2>2. frameLen = frames[k].says /\ frames[k].says \in Nat
    BY <1>3, <2>1 DEF AtFrame, Headed
  <2>3. frames[k].says >= 2 /\ frames[k].says <= RxBufSize
    <3>1. /\ end \in Nat /\ rxSize \in Nat /\ Len(rxMem) \in Nat /\ Len(storing) \in Nat
          /\ rxSize <= Len(rxMem) /\ Len(rxMem) + Len(storing) <= RxBufSize
      BY <1>1, ChipBytes DEF RxTypes, Scanned
    <3>2. RxBufSize \in Nat /\ end + frames[k].says <= rxSize /\ frames[k].says >= 2
      BY <1>2, <2>2, W5500Assumption
    <3> QED
      BY <2>2, <3>1, <3>2
  <2>4. Right(frames[k])
    BY <2>1, <2>2, <2>3, W5500Assumption DEF Headed
  <2> QED
    BY <2>1, <2>2, <2>4 DEF Right
<1>6. PICK e \in Nat, n \in Nat :
         e = end /\ n = Len(rxMem) /\ e + L <= n /\ e + L <= rxSize /\ rxSize \in Nat
  <2>1. end \in Nat /\ rxSize \in Nat /\ Len(rxMem) \in Nat /\ rxSize <= Len(rxMem)
    BY <1>1, ChipBytes DEF RxTypes, Scanned
  <2>2. end + L <= rxSize
    BY <1>2, <1>5
  <2> QED
    BY <2>1, <2>2
<1>7. end' = e + L
  BY <1>2, <1>5, <1>6
<1>8. RxTypes'
  BY <1>1, <1>2, <1>7 DEF RxTypes
<1>9. Scanned'
  BY <1>1, <1>2, <1>6, <1>7 DEF Scanned
<1>10. Holding'
  BY <1>1, <1>2 DEF Holding
<1>11. rxMem \in Seq(Byte) /\ storing \in Seq(Byte)
  BY <1>1 DEF RxTypes
<1>12. PICK f : /\ f = SubSeq(rxMem, e + 1, e + L) /\ f \in Seq(Byte) /\ Len(f) = L
                /\ After(rxMem, e) = f \o After(rxMem, e + L)
  <2>1. /\ SubSeq(rxMem, e + 1, e + L) \in Seq(Byte) /\ Len(SubSeq(rxMem, e + 1, e + L)) = L
        /\ After(rxMem, e) = SubSeq(rxMem, e + 1, e + L) \o After(rxMem, e + L)
    BY <1>6, <1>11, AfterSplit
  <2> QED
    BY <2>1
<1>13. Cat(InChip, f, InChip')
  <2>1. After(rxMem, e + L) \in Seq(Byte)
    BY <1>6, <1>11, AfterFacts
  <2>2. InChip = (f \o After(rxMem, e + L)) \o storing
    BY <1>1, <1>6, <1>12, ChipBytes
  <2>3. InChip' = After(rxMem, e + L) \o storing /\ InChip' \in Seq(Byte)
    BY <1>2, <1>7, <1>11, <2>1, ConcatBytes DEF InChip, After
  <2>4. InChip = f \o InChip'
    BY <1>11, <1>12, <2>1, <2>2, <2>3, ConcatBytesAssoc
  <2> QED
    BY <1>12, <2>3, <2>4, CatConcat
<1>14. /\ Good(Taken, Buffered, InChip, N, FrameSize, lost)
       /\ Len(InChip) > 0 /\ InChip[1][1] = k /\ Len(f) = FrameSize[InChip[1][1]]
  BY <1>1, <1>3, <1>4, <1>5, <1>12 DEF InOrder, AtFrame
<1>15. FrameSize' = FrameSize /\ Taken' = Taken
  BY <1>2 DEF FrameSize, Taken, InPbuf
<1>16. CASE TooLong
  <2>1. lost' = lost \cup {k} /\ buf' = buf
    BY <1>3, <1>16 DEF scan_frame, AtFrame
  <2>2. Good(Taken, Buffered, InChip', N, FrameSize, lost \cup {k})
    <3>1. Good(Taken, Buffered, InChip', N, FrameSize, lost \cup {InChip[1][1]})
      BY <1>13, <1>14, GoodDrop
    <3> QED
      BY <1>14, <3>1
  <2>3. Buffered' = Buffered
    BY <2>1 DEF Buffered
  <2>4. InOrder' /\ Sound' /\ Ring(buf)'
    BY <1>1, <1>2, <1>4, <1>15, <2>1, <2>2, <2>3 DEF InOrder, Sound
  <2> QED
    BY <1>8, <1>9, <1>10, <2>4 DEF RxInv
<1>17. CASE ~TooLong
  <2>1. ~NoSpace /\ lost' = lost /\ buf' = B!write(buf, f)
    BY <1>5, <1>6, <1>12, <1>17 DEF scan_frame
  <2>2. Len(f) <= B!remaining(buf)
    <3>1. B!remaining(buf) \in Int
      BY <1>1, RingParts, RingSize DEF B!remaining
    <3>2. ~(frameLen > B!remaining(buf))
      BY <2>1 DEF NoSpace
    <3>3. PICK x \in Int : x = B!remaining(buf)
      BY <3>1
    <3>4. ~(L > x)
      BY <1>5, <3>2, <3>3
    <3>5. L <= x
      BY <3>4
    <3> QED
      BY <1>12, <3>3, <3>5
  <2>3. Ring(buf') /\ Cat(Content(buf'), Content(buf), f)
    BY <1>1, <1>12, <2>1, <2>2, RingWrite
  <2>4. Content(buf) = Buffered /\ Content(buf') = Buffered'
    BY DEF Content, Buffered
  <2>5. FrameSize[InChip[1][1]] <= kMaxFrameLen + 2
    BY <1>5, <1>14, <1>17, W5500Assumption, SMTT(30) DEF TooLong
  <2>6. Cat(Buffered', Buffered, f)
    BY <2>3, <2>4
  <2>7. Good(Taken, Buffered', InChip', N, FrameSize, lost)
    BY <1>13, <1>14, <2>5, <2>6, GoodMove
  <2>8. InOrder'
    BY <1>2, <1>4, <1>15, <2>1, <2>7 DEF InOrder
  <2>9. Of(Buffered') = Of(Buffered) \cup {k}
    <3>1. Chain(InChip, N, FrameSize)
      BY <1>14 DEF Good
    <3>2. FirstFrame(InChip, f, InChip', InChip[1][1], N, FrameSize)
      BY <1>4, <1>13, <1>14, <3>1, OfRest
    <3>3. Of(f) = {k}
      BY <1>14, <3>2 DEF FirstFrame
    <3> QED
      BY <2>6, <3>3, CatOf
  <2>10. Sound'
    BY <1>1, <1>2, <1>5, <2>9 DEF Sound
  <2> QED
    BY <1>8, <1>9, <1>10, <2>3, <2>8, <2>10 DEF RxInv
<1> QED
  BY <1>16, <1>17

\* proc_input() finds a whole frame in the buffer: frame k, whose bytes are f;
\* d is its data, and the buffer without it is c.
Oldest(k, f, d, c) ==
    /\ k \in 1..Len(frames) /\ Right(frames[k]) /\ frames[k].len <= kMaxFrameLen
    /\ Len(Buffered) > 0 /\ k = Buffered[1][1] /\ Len(f) = FrameSize[k]
    /\ BufLen = FrameSize[k] /\ BufLen - 2 = frames[k].len
    /\ d \in Seq(Byte) /\ IsData(d, k, frames[k].len) /\ d = B!Front(BufRest, BufLen - 2)
    /\ Ring(c) /\ c = B!read(BufRest, BufLen - 2)
    /\ Cat(Buffered, f, Content(c))
    /\ B!Front(buf, 1)[1][1] = k

\* So it does whenever the buffer is not empty.
LEMMA OldestFrame ==
    ASSUME RxInv, buf.size_ # 0
    PROVE  \E k, f, d, c : Oldest(k, f, d, c)
<1>1. RxTypes /\ Ring(buf) /\ InOrder /\ Sound
  BY DEF RxInv
<1>2. PICK N \in Nat : N = Len(frames) /\ Sized(N, FrameSize)
  BY <1>1, SizeOf
<1>3. PICK C \in Nat \ {0}, z \in Nat : C = InputBufSize /\ z = buf.size_ /\ z > 0 /\ z \in 0..C
  BY <1>1, RingSize, RingParts
<1>4. PICK b \in Seq(Byte) : b = Buffered /\ b = Content(buf) /\ Len(b) = z
  <2>1. B!Front(buf, z) \in Seq(Byte) /\ Len(B!Front(buf, z)) = z
    BY <1>1, <1>3, FrontFacts
  <2> QED
    BY <1>3, <2>1 DEF Content, Buffered
<1>5. Chain(b, N, FrameSize) /\ \A x \in Of(b) : FrameSize[x] <= kMaxFrameLen + 2
  BY <1>1, <1>2, <1>4 DEF InOrder, Good
<1>6. PICK k \in 1..N, L \in Nat :
         /\ k = b[1][1] /\ L = FrameSize[k] /\ L > 2 /\ L <= z
         /\ \A m \in 1..L : b[m] = <<k, m>>
  <2>1. /\ b[1][1] \in 1..N /\ FrameSize[b[1][1]] \in Nat /\ FrameSize[b[1][1]] > 2
        /\ FrameSize[b[1][1]] <= Len(b)
        /\ \A m \in 1..FrameSize[b[1][1]] : b[m] = <<b[1][1], m>>
    BY <1>2, <1>3, <1>4, <1>5, ChainHead
  <2> QED
    BY <1>4, <2>1
<1>7. k \in Of(b)
  BY <1>3, <1>4, <1>6 DEF Of
<1>8. /\ Right(frames[k]) /\ L = 2 + frames[k].len /\ frames[k].len \in Nat
      /\ L - 2 = frames[k].len /\ frames[k].len <= kMaxFrameLen
  <2>1. Right(frames[k])
    BY <1>1, <1>4, <1>7 DEF Sound
  <2>2. PICK w \in Nat : w = frames[k].len /\ L = 2 + w
    BY <1>1, <1>2, <1>6, SizeOf
  <2>3. L <= kMaxFrameLen + 2 /\ kMaxFrameLen \in Nat
    BY <1>5, <1>6, <1>7, W5500Assumption
  <2> QED
    BY <2>1, <2>2, <2>3
<1>9. PICK h, r : h = B!Front(buf, 2) /\ r = BufRest /\ Ring(r) /\ Cat(b, h, Content(r))
  <2>1. 2 \in 0..buf.size_
    BY <1>3, <1>6
  <2>2. Ring(B!read(buf, 2)) /\ Cat(Content(buf), B!Front(buf, 2), Content(B!read(buf, 2)))
    BY <1>1, <2>1, RingRead
  <2> QED
    BY <1>4, <2>2 DEF BufRest
<1>10. h \in Seq(Byte) /\ Len(h) = 2
  <2>1. 2 \in 0..C
    BY <1>3, <1>6
  <2>2. B!Front(buf, 2) \in Seq(Byte) /\ Len(B!Front(buf, 2)) = 2
    BY <1>1, <1>3, <2>1, FrontFacts
  <2> QED
    BY <1>9, <2>2
<1>11. h[1] = <<k, 1>> /\ h[2] = <<k, 2>>
  <2>1. \A i \in 1..Len(h) : b[i] = h[i]
    BY <1>9 DEF Cat
  <2>2. 1 \in 1..Len(h) /\ 2 \in 1..Len(h) /\ 1 \in 1..L /\ 2 \in 1..L
    BY <1>6, <1>10
  <2> QED
    BY <1>6, <2>1, <2>2
<1>12. BufLen = L
  <2>1. <<k, 1>>[2] = 1 /\ <<k, 1>>[1] = k
    OBVIOUS
  <2> QED
    BY <1>8, <1>9, <1>11, <2>1 DEF BufLen, FrameLen, Right
<1>13. PICK q \in Nat : q = L - 2
  BY <1>6
<1>14. r.size_ = z - 2 /\ r.size_ \in Nat /\ r.size_ \in 0..C
  <2>1. Content(r) \in Seq(Byte) /\ Len(b) = Len(h) + Len(Content(r))
    BY <1>9 DEF Cat
  <2>2. r.size_ \in 0..C
    BY <1>3, <1>9, RingParts
  <2>3. Len(B!Front(r, r.size_)) = r.size_
    BY <1>3, <1>9, <2>2, FrontFacts
  <2>4. Len(Content(r)) = r.size_
    BY <2>3 DEF Content
  <2>5. PICK y \in Nat : y = r.size_
    BY <2>2
  <2>6. z = 2 + y
    BY <1>4, <1>10, <2>1, <2>4, <2>5
  <2> QED
    BY <2>2, <2>5, <2>6
<1>15. q \in 0..r.size_ /\ q \in 0..C
  BY <1>6, <1>13, <1>14
<1>16. PICK d, c : /\ d = B!Front(r, q) /\ c = B!read(r, q) /\ Ring(c)
                   /\ Cat(Content(r), d, Content(c))
  <2>1. Ring(B!read(r, q)) /\ Cat(Content(r), B!Front(r, q), Content(B!read(r, q)))
    BY <1>9, <1>15, RingRead
  <2> QED
    BY <2>1
<1>17. d \in Seq(Byte) /\ Len(d) = q
  BY <1>3, <1>9, <1>15, <1>16, FrontFacts
<1>18. ASSUME NEW m \in 1..q
       PROVE  d[m] = <<k, m + 2>>
  <2>1. Content(r)[m] = d[m] /\ Len(Content(r)) = Len(d) + Len(Content(c))
        /\ Len(Content(c)) \in Nat
    BY <1>16, <1>17 DEF Cat
  <2>2. m \in 1..Len(Content(r))
    BY <1>17, <2>1
  <2>3. b[Len(h) + m] = Content(r)[m]
    BY <1>9, <2>2 DEF Cat
  <2>4. 2 + m \in 1..L /\ 2 + m = m + 2
    BY <1>13
  <2>5. b[2 + m] = <<k, 2 + m>>
    BY <1>6, <2>4
  <2> QED
    BY <1>10, <2>1, <2>3, <2>4, <2>5
<1>19. PICK f : f = h \o d /\ f \in Seq(Byte) /\ Len(f) = L
  <2>1. h \o d \in Seq(Byte) /\ Len(h \o d) = Len(h) + Len(d)
    BY <1>10, <1>17, ConcatBytes
  <2>2. Len(h \o d) = L
    <3>1. 2 + q = L
      BY <1>13
    <3> QED
      BY <1>10, <1>17, <2>1, <3>1, Zenon
  <2> QED
    BY <2>1, <2>2
<1>20. Cat(b, f, Content(c))
  <2>1. Content(c) \in Seq(Byte)
    BY <1>16 DEF Cat
  <2>2. b = h \o Content(r) /\ Content(r) = d \o Content(c)
    <3>1. b = h \o Content(r)
      BY <1>9, CatIs
    <3>2. Content(r) = d \o Content(c)
      BY <1>16, CatIs
    <3> QED
      BY <3>1, <3>2
  <2>3. b = f \o Content(c)
    <3>1. (h \o d) \o Content(c) = h \o (d \o Content(c))
      BY <1>10, <1>17, <2>1, ConcatBytesAssoc
    <3> QED
      BY <1>19, <2>2, <3>1
  <2> QED
    BY <1>19, <2>1, <2>3, CatConcat
<1>21. B!Front(buf, 1)[1][1] = k
  <2>1. 1 \in 0..buf.size_ /\ 1 \in 0..C
    BY <1>3, <1>6
  <2>2. Cat(b, B!Front(buf, 1), Content(B!read(buf, 1)))
    BY <1>1, <1>4, <2>1, RingRead
  <2>3. Len(B!Front(buf, 1)) = 1
    BY <1>1, <1>3, <2>1, FrontFacts
  <2>4. B!Front(buf, 1)[1] = b[1]
    BY <2>2, <2>3 DEF Cat
  <2> QED
    BY <1>6, <2>4
<1>22. IsData(d, k, frames[k].len)
  BY <1>8, <1>13, <1>17, <1>18 DEF IsData
<1>23. d = B!Front(BufRest, BufLen - 2) /\ c = B!read(BufRest, BufLen - 2)
  BY <1>9, <1>12, <1>13, <1>16
<1>24. Oldest(k, f, d, c)
  BY <1>2, <1>3, <1>4, <1>6, <1>8, <1>12, <1>16, <1>17, <1>19, <1>20, <1>21, <1>22, <1>23
     DEF Oldest
<1> QED
  BY <1>24

\* proc_input() takes the oldest frame into a pbuf.
LEMMA TakeKeeps ==
    ASSUME RxInv, take_frame
    PROVE  RxInv'
<1>1. RxTypes /\ Scanned /\ Holding /\ InOrder /\ Sound
  BY DEF RxInv
<1>2. /\ at = "take" /\ buf.size_ # 0 /\ at' = "input"
      /\ p' = B!Front(BufRest, BufLen - 2) /\ buf' = B!read(BufRest, BufLen - 2)
      /\ UNCHANGED <<rxMem, storing, frames, RX_RD, rxSize, end, given, lost>>
  BY DEF take_frame
<1>3. PICK k, f, d, c : Oldest(k, f, d, c)
  BY <1>2, OldestFrame
<1>4. PICK N \in Nat : N = Len(frames) /\ Sized(N, FrameSize)
  BY <1>1, SizeOf
<1>5. /\ p' = d /\ buf' = c /\ d \in Seq(Byte) /\ Ring(buf') /\ Buffered' = Content(c)
      /\ IsData(d, k, frames[k].len) /\ frames[k].len <= kMaxFrameLen /\ k \in 1..N
  BY <1>2, <1>3, <1>4 DEF Oldest, Buffered, Content
<1>6. d # <<>> /\ d[1][1] = k
  <2>1. PICK w \in Nat : w = frames[k].len /\ w > 0
    BY <1>1, <1>4, <1>5, SizeOf
  <2>2. Len(d) = w /\ d[1] = <<k, 1 + 2>>
    BY <1>5, <2>1 DEF IsData
  <2> QED
    BY <2>1, <2>2
<1>7. RxTypes' /\ Scanned'
  BY <1>1, <1>2, <1>5 DEF RxTypes, Scanned
<1>8. Holding'
  BY <1>2, <1>4, <1>5, <1>6 DEF Holding
<1>9. InChip' = InChip /\ FrameSize' = FrameSize
  BY <1>2 DEF InChip, FrameSize
<1>10. Taken' = Append(Taken, k)
  <2>1. given \in Seq(Nat) /\ k \in Nat
    BY <1>1, <1>5 DEF RxTypes
  <2>2. p = <<>>
    BY <1>1, <1>2 DEF Holding
  <2>3. Taken = given
    BY <2>1, <2>2, ConcatEmptySeq DEF Taken, InPbuf
  <2>4. Taken' = given \o <<k>>
    BY <1>2, <1>5, <1>6 DEF Taken, InPbuf
  <2> QED
    BY <2>1, <2>3, <2>4, AppendIsConcat
<1>11. Good(Taken, Buffered, InChip, N, FrameSize, lost)
  BY <1>1, <1>4 DEF InOrder
<1>12. /\ Len(Buffered) > 0 /\ k = Buffered[1][1] /\ Len(f) = FrameSize[Buffered[1][1]]
       /\ Cat(Buffered, f, Buffered')
  BY <1>3, <1>5 DEF Oldest
<1>13. InOrder'
  <2>1. Good(Append(Taken, Buffered[1][1]), Buffered', InChip, N, FrameSize, lost)
    BY <1>11, <1>12, GoodTake
  <2> QED
    BY <1>2, <1>4, <1>9, <1>10, <1>12, <2>1 DEF InOrder
<1>14. Sound'
  <2>1. Of(Buffered) = Of(f) \cup Of(Buffered')
    BY <1>12, CatOf
  <2> QED
    BY <1>1, <1>2, <2>1 DEF Sound
<1> QED
  BY <1>5, <1>7, <1>8, <1>13, <1>14 DEF RxInv

\* There is no pbuf: the frame is skipped.
LEMMA SkipKeeps ==
    ASSUME RxInv, take_nomem
    PROVE  RxInv'
<1>1. RxTypes /\ Scanned /\ Holding /\ InOrder /\ Sound
  BY DEF RxInv
<1>2. /\ at = "take" /\ buf.size_ # 0 /\ at' = "idle"
      /\ lost' = lost \cup {B!Front(buf, 1)[1][1]} /\ buf' = B!read(BufRest, BufLen - 2)
      /\ UNCHANGED <<rxMem, storing, frames, RX_RD, rxSize, end, p, given, caller>>
  BY DEF take_nomem, Skip, txVars
<1>3. PICK k, f, d, c : Oldest(k, f, d, c)
  BY <1>2, OldestFrame
<1>4. PICK N \in Nat : N = Len(frames) /\ Sized(N, FrameSize)
  BY <1>1, SizeOf
<1>5. buf' = c /\ Ring(buf') /\ Buffered' = Content(c) /\ lost' = lost \cup {k}
  BY <1>2, <1>3 DEF Oldest, Buffered, Content
<1>6. RxTypes' /\ Scanned'
  BY <1>1, <1>2 DEF RxTypes, Scanned
<1>7. Holding'
  BY <1>1, <1>2 DEF Holding
<1>8. InChip' = InChip /\ FrameSize' = FrameSize /\ Taken' = Taken
  BY <1>2 DEF InChip, FrameSize, Taken, InPbuf
<1>9. Good(Taken, Buffered, InChip, N, FrameSize, lost)
  BY <1>1, <1>4 DEF InOrder
<1>10. /\ Len(Buffered) > 0 /\ k = Buffered[1][1] /\ Len(f) = FrameSize[Buffered[1][1]]
       /\ Cat(Buffered, f, Buffered')
  BY <1>3, <1>5 DEF Oldest
<1>11. InOrder'
  <2>1. Good(Taken, Buffered', InChip, N, FrameSize, lost \cup {Buffered[1][1]})
    BY <1>9, <1>10, GoodSkip
  <2> QED
    BY <1>2, <1>4, <1>5, <1>8, <1>10, <2>1 DEF InOrder
<1>12. Sound'
  <2>1. Of(Buffered) = Of(f) \cup Of(Buffered')
    BY <1>10, CatOf
  <2> QED
    BY <1>1, <1>2, <2>1 DEF Sound
<1> QED
  BY <1>5, <1>6, <1>7, <1>11, <1>12 DEF RxInv

\* s_netif.input() gets the frame that was in the pbuf.
LEMMA InputKeeps ==
    ASSUME RxInv, netif_input
    PROVE  RxInv'
<1>1. RxTypes /\ Scanned /\ Holding /\ Ring(buf) /\ InOrder /\ Sound
  BY DEF RxInv
<1>2. /\ at = "input" /\ at' = "call" /\ given' = Append(given, p[1][1]) /\ p' = <<>>
      /\ UNCHANGED <<rxMem, storing, frames, RX_RD, buf, rxSize, end, lost, caller>>
  BY DEF netif_input, txVars
<1>3. p # <<>> /\ p[1][1] \in Nat
  <2>1. p # <<>>
    BY <1>1, <1>2 DEF Holding
  <2>2. p \in Seq(Byte) /\ Len(p) > 0
    BY <1>1, <2>1, EmptySeq DEF RxTypes
  <2>3. 1 \in 1..Len(p)
    BY <2>2
  <2> QED
    BY <2>1, <2>2, <2>3, ByteParts
<1>4. given \in Seq(Nat)
  BY <1>1 DEF RxTypes
<1>5. given' \in Seq(Nat) /\ given' = given \o <<p[1][1]>>
  BY <1>2, <1>3, <1>4, AppendIsConcat
<1>6. RxTypes' /\ Scanned'
  BY <1>1, <1>2, <1>5 DEF RxTypes, Scanned
<1>7. Holding'
  BY <1>2 DEF Holding
<1>8. Taken' = Taken
  <2>1. Taken = given \o <<p[1][1]>>
    BY <1>3 DEF Taken, InPbuf
  <2>2. Taken' = given'
    BY <1>2, <1>5, ConcatEmptySeq DEF Taken, InPbuf
  <2> QED
    BY <1>5, <2>1, <2>2
<1>9. UNCHANGED <<Taken, Buffered, InChip, frames, lost>>
  BY <1>2, <1>8 DEF Buffered, InChip
<1>10. InOrder' /\ Sound' /\ Ring(buf')
  BY <1>1, <1>2, <1>9, OrderSame DEF Sound
<1> QED
  BY <1>6, <1>7, <1>10 DEF RxInv

\* Every step keeps the invariant; the others do not concern received frames, but
\* for a pbuf that waits while the stack sends.
LEMMA RxKeeps == RxInv /\ [Next]_vars => RxInv'
<1> SUFFICES ASSUME RxInv, [Next]_vars PROVE RxInv'
  OBVIOUS
<1>1. RxTypes /\ Scanned /\ Holding
  BY DEF RxInv
<1>2. Start \in 0..(Words - 1)
  BY W5500Assumption
<1>3. CASE ChipReceive
  BY <1>3, ReceiveKeeps
<1>4. CASE ChipStore
  BY <1>4, StoreKeeps
<1>5. CASE ChipSent
  <2>1. UNCHANGED <<rxVars, at>> /\ Holding'
    BY <1>1, <1>5 DEF ChipSent, rxVars, Holding
  <2> QED
    BY <2>1, RxSame
<1>6. CASE init
  <2>1. /\ RX_RD' = Start
        /\ UNCHANGED <<rxMem, storing, frames, buf, rxSize, end, p, given, lost, caller, at>>
    BY <1>6 DEF init
  <2>2. RxTypes' /\ Scanned' /\ Holding' /\ InChip' = InChip
    BY <1>1, <1>2, <2>1 DEF RxTypes, Scanned, Holding, InChip
  <2> QED
    BY <2>1, <2>2, ChipSame
<1>7. CASE deinit
  <2>1. /\ at = "idle" /\ at' = "idle" /\ lost' = lost \cup Of(rxMem) \cup Of(storing)
        /\ rxMem' = <<>> /\ storing' = <<>>
        /\ UNCHANGED <<frames, RX_RD, buf, rxSize, end, p, given, caller>>
    BY <1>7 DEF deinit
  <2>2. rxSize = 0 /\ end = 0 /\ RX_RD \in 0..(Words - 1)
    BY <1>1, <2>1 DEF RxTypes, Scanned
  <2>3. After(rxMem, end) = rxMem
    BY <1>1, <2>2, AfterNone DEF RxTypes
  <2> QED
    BY <2>1, <2>2, <2>3, ClearedKeeps
<1>8. CASE scan_bad
  <2>1. /\ at = "scan" /\ at' = "read" /\ rxMem' = <<>> /\ storing' = <<>>
        /\ lost' = lost \cup Of(After(rxMem, end)) \cup Of(storing)
        /\ rxSize' = 0 /\ end' = 0 /\ RX_RD' \in {Start, RX_RD}
        /\ UNCHANGED <<frames, buf, p, given, caller>>
    BY <1>8 DEF scan_bad, Reopen, Leave, After
  <2>2. RX_RD' \in 0..(Words - 1)
    BY <1>1, <1>2, <2>1 DEF RxTypes
  <2> QED
    BY <2>1, <2>2, ClearedKeeps
<1>9. CASE loop \/ proc_input \/ take_none
  <2>1. UNCHANGED rxVars /\ at # "scan" /\ at' # "scan" /\ caller' = caller
        /\ at \in {"idle", "call", "take"} /\ at' \in {"idle", "call", "read"}
    BY <1>9 DEF loop, proc_input, take_none, txVars
  <2>2. Holding'
    BY <1>1, <2>1 DEF Holding, rxVars
  <2> QED
    BY <2>1, <2>2, RxSame
<1>10. CASE read_RSR
  BY <1>10, SizeReadKeeps
<1>11. CASE scan_frame
  BY <1>11, FrameKeeps
<1>12. CASE scan_full \/ scan_end
  <2>1. /\ at = "scan" /\ at' \in {"read", "take"} /\ Received /\ Leave
        /\ UNCHANGED <<storing, frames, buf, p, given, lost, caller>>
    BY <1>12 DEF scan_full, scan_end, AfterFull, txVars
  <2> QED
    BY <2>1, ReceivedKeeps
<1>13. CASE take_frame
  BY <1>13, TakeKeeps
<1>14. CASE take_nomem
  BY <1>14, SkipKeeps
<1>15. CASE netif_input
  BY <1>15, InputKeeps
<1>16. CASE output
  <2>1. UNCHANGED rxVars /\ at \in {"idle", "input"} /\ at' = "wait" /\ caller' = at
    BY <1>16 DEF output
  <2>2. Holding'
    BY <1>1, <2>1 DEF Holding, rxVars
  <2> QED
    BY <2>1, <2>2, RxSame
<1>17. CASE waitForSendDone
  <2>1. UNCHANGED rxVars /\ at = "wait" /\ at' = "space" /\ caller' = caller
    BY <1>17 DEF waitForSendDone, txVars
  <2>2. Holding'
    BY <1>1, <2>1 DEF Holding, rxVars
  <2> QED
    BY <2>1, <2>2, RxSame
<1>18. CASE send_frame
  <2>1. UNCHANGED rxVars /\ at = "space" /\ at' = caller /\ caller' = "idle"
    BY <1>18 DEF send_frame
  <2>2. Holding' /\ at' # "scan"
    BY <1>1, <2>1 DEF Holding, rxVars
  <2> QED
    BY <2>1, <2>2, RxSame
<1>19. CASE UNCHANGED vars
  <2>1. UNCHANGED <<rxVars, at>> /\ Holding'
    BY <1>1, <1>19 DEF vars, rxVars, txVars, Holding
  <2> QED
    BY <2>1, RxSame
<1> QED
  BY <1>3, <1>4, <1>5, <1>6, <1>7, <1>8, <1>9, <1>10, <1>11, <1>12, <1>13, <1>14, <1>15,
     <1>16, <1>17, <1>18, <1>19 DEF Next, Chip, Reading

\* The invariant says what EndToEnd does.
LEMMA RxEndToEnd == RxInv => EndToEnd
<1> SUFFICES ASSUME RxInv PROVE EndToEnd
  OBVIOUS
<1>1. RxTypes
  BY DEF RxInv
<1>2. PICK N \in Nat : N = Len(frames) /\ Sized(N, FrameSize) /\ DOMAIN frames = 1..N
  BY <1>1, SizeOf DEF RxTypes
<1>3. Good(Taken, Buffered, InChip, N, FrameSize, lost)
  BY <1>2 DEF RxInv, InOrder
<1>4. Taken \in Seq(Nat) /\ Buffered \in Seq(Byte) /\ InChip \in Seq(Byte)
  BY <1>3 DEF Good, Chain
<1>5. PICK t, b : /\ t = given \o InPbuf /\ t = Taken /\ t \in Seq(Nat) /\ DOMAIN t = 1..Len(t)
                  /\ b = Buffered \o InChip /\ Cat(b, Buffered, InChip)
                  /\ b \in Seq(Byte) /\ DOMAIN b = 1..Len(b)
  <2>1. Cat(Buffered \o InChip, Buffered, InChip)
    BY <1>4, CatConcat
  <2>2. Buffered \o InChip \in Seq(Byte)
    BY <2>1 DEF Cat
  <2>3. Taken = given \o InPbuf
    BY DEF Taken
  <2>4. DOMAIN Taken = 1..Len(Taken) /\ DOMAIN (Buffered \o InChip) = 1..Len(Buffered \o InChip)
    BY <1>4, <2>2, LenProperties
  <2> QED
    BY <1>4, <2>1, <2>2, <2>3, <2>4, Zenon
<1>6. Of(b) = Of(Buffered) \cup Of(InChip)
  BY <1>5, CatOf
<1>7. Sorted(b)
  <2>1. Chain(Buffered, N, FrameSize) /\ Chain(InChip, N, FrameSize)
        /\ Below(Of(Buffered), Of(InChip))
    BY <1>3 DEF Good
  <2>2. Ahead(Buffered, InChip)
    BY <1>4, <2>1, BelowAhead
  <2>3. Chain(b, N, FrameSize)
    BY <1>2, <1>5, <2>1, <2>2, ChainCat
  <2> QED
    BY <2>3 DEF Chain
<1>8. \A i, j \in DOMAIN t : i < j => t[i] < t[j]
  BY <1>3, <1>5 DEF Good
<1>9. \A i, j \in DOMAIN b : i < j => Before(b[i], b[j])
  BY <1>5, <1>7 DEF Sorted
<1>10. ASSUME NEW i \in DOMAIN t, NEW j \in DOMAIN b
       PROVE  t[i] < b[j][1]
  <2>1. t[i] \in Elems(t) /\ b[j][1] \in Of(b)
    BY <1>5 DEF Elems, Of
  <2>2. Below(Elems(t), Of(Buffered)) /\ Below(Elems(t), Of(InChip))
    BY <1>3, <1>5 DEF Good
  <2> QED
    BY <1>6, <2>1, <2>2 DEF Below
<1>11. {t[i] : i \in DOMAIN t} \cup Of(b) = DOMAIN frames \ lost
  <2>1. {t[i] : i \in DOMAIN t} = Elems(t)
    BY <1>5 DEF Elems
  <2>2. Elems(t) \cup Of(Buffered) \cup Of(InChip) = (1..N) \ lost
    BY <1>3, <1>5 DEF Good
  <2> QED
    BY <1>2, <1>6, <2>1, <2>2
<1> QED
  BY <1>5, <1>8, <1>9, <1>10, <1>11 DEF EndToEnd

\* The invariant says what WholeFrames does.
LEMMA RxWholeFrames == RxInv => WholeFrames
<1> SUFFICES ASSUME RxInv PROVE WholeFrames
  OBVIOUS
<1>1. RxTypes /\ Holding
  BY DEF RxInv
<1>2. PICK N \in Nat : N = Len(frames) /\ Sized(N, FrameSize) /\ DOMAIN frames = 1..N
  BY <1>1, SizeOf DEF RxTypes
<1>3. Good(Taken, Buffered, InChip, N, FrameSize, lost)
  BY <1>2 DEF RxInv, InOrder
<1>4. ASSUME NEW i \in DOMAIN Buffered
      PROVE  InFrame(Buffered, i) /\ frames[Buffered[i][1]].len <= kMaxFrameLen
  <2>1. PICK b \in Seq(Byte) : b = Buffered /\ i \in 1..Len(b)
    BY <1>3 DEF Good, Chain
  <2>2. Within(b, i, N, FrameSize)
    BY <1>3, <2>1 DEF Good, Chain
  <2>3. PICK k \in 1..N : k = b[i][1]
    BY <2>2 DEF Within
  <2>4. PICK w \in Nat : w = frames[k].len /\ FrameSize[k] = 2 + w
    BY <1>1, <1>2, SizeOf
  <2>5. PICK j \in Nat : j = b[i][2]
    BY <2>1, ByteParts
  <2>6. /\ i - j >= 0 /\ i - j + (2 + w) <= Len(b)
        /\ \A m \in 1..(2 + w) : b[i - j + m] = <<k, m>>
    BY <2>2, <2>3, <2>4, <2>5 DEF Within
  <2>7. i - j + 2 + w <= Len(b)
    BY <2>1, <2>6
  <2>8. InFrame(b, i)
    BY <1>2, <2>3, <2>4, <2>5, <2>6, <2>7 DEF InFrame
  <2>9. k \in Of(b)
    BY <2>1, <2>3 DEF Of
  <2>10. 2 + w <= kMaxFrameLen + 2 /\ kMaxFrameLen \in Nat
    BY <1>3, <2>1, <2>4, <2>9, W5500Assumption DEF Good
  <2>11. w <= kMaxFrameLen
    BY <2>10
  <2> QED
    BY <2>1, <2>3, <2>4, <2>8, <2>11
<1>5. ASSUME p # <<>>
      PROVE  /\ p = SubSeq(FrameBytes(p[1][1]), 3, 2 + frames[p[1][1]].len)
             /\ Len(p) <= kMaxFrameLen
  <2>1. PICK k \in 1..N : IsData(p, k, frames[k].len) /\ frames[k].len <= kMaxFrameLen
    BY <1>1, <1>2, <1>5 DEF Holding
  <2>2. PICK w \in Nat : w = frames[k].len /\ w > 0
    BY <1>1, <1>2, SizeOf
  <2>3. p \in Seq(Byte) /\ Len(p) = w /\ \A m \in 1..w : p[m] = <<k, m + 2>>
    BY <1>1, <2>1, <2>2 DEF IsData, RxTypes
  <2>4. p[1][1] = k
    <3>1. p[1] = <<k, 1 + 2>>
      BY <2>2, <2>3
    <3> QED
      BY <3>1
  <2>5. PICK g : g = FrameBytes(k) /\ g = [i \in 1..(2 + w) |-> <<k, i>>]
    BY <2>2 DEF FrameBytes
  <2>6. g \in Seq(Byte) /\ Len(g) = 2 + w /\ \A m \in 1..(2 + w) : g[m] = <<k, m>>
    <3>1. \A m \in 1..(2 + w) : <<k, m>> \in Byte
      BY DEF Byte
    <3> QED
      BY <2>5, <3>1
  <2>7. PICK s \in Seq(Byte) : /\ s = SubSeq(g, 3, 2 + w) /\ Len(s) = w
                               /\ \A m \in 1..w : s[m] = g[2 + m]
    <3>1. /\ SubSeq(g, 2 + 1, 2 + w) \in Seq(Byte) /\ Len(SubSeq(g, 2 + 1, 2 + w)) = w
          /\ \A m \in 1..w : SubSeq(g, 2 + 1, 2 + w)[m] = g[2 + m]
      BY <2>6
    <3>2. 2 + 1 = 3
      OBVIOUS
    <3> QED
      BY <3>1, <3>2
  <2>8. ASSUME NEW m \in 1..w
        PROVE  s[m] = p[m]
    <3>1. 2 + m \in 1..(2 + w) /\ 2 + m = m + 2
      OBVIOUS
    <3> QED
      BY <2>3, <2>6, <2>7, <3>1
  <2>9. p = s
    BY <2>3, <2>7, <2>8, SeqEqual
  <2> QED
    BY <2>1, <2>2, <2>3, <2>4, <2>5, <2>7, <2>9
<1> QED
  BY <1>4, <1>5 DEF WholeFrames

\* The invariant holds in every reachable state of the driver and the chip.
LEMMA RxInvariance == Spec => []RxInv
  BY RxInit, RxKeeps, PTL DEF Spec

\* From the chip's memory through the driver's ring of bytes to lwIP, no frame is
\* reordered, duplicated or missing but those the code drops: readAndScan() may
\* work with a size that is out of date, stop at a full buffer or restart the
\* socket, and the 16-bit pointers wrap.
THEOREM EndToEndCorrect == Spec => []EndToEnd
  BY RxInvariance, RxEndToEnd, PTL

\* The ring of bytes holds whole frames of at most kMaxFrameLen bytes, and
\* proc_input() takes exactly one frame's data out of it.
THEOREM WholeFramesCorrect == Spec => []WholeFrames
  BY RxInvariance, RxWholeFrames, PTL

-----------------------------------------------------------------------------
(* Joining a network with the CYW4343W.                                    *)

\* What join_ticks means in each state.
JoinTimerCounts ==
    /\ join = "FAIL" => age <= down
    /\ join = "IDLE" /\ pc # "start" => down >= JOIN_RETRY

\* The inductive invariant of the state machine in join.cpp.
JoinInv == TypeOK /\ OffBetweenAttempts /\ JoinTimerCounts

\* Longest is at least JOIN_RETRY, and Later() counts up to it (Tick).
LEMMA LaterFacts ==
    /\ Longest \in Nat /\ JOIN_RETRY <= Longest
    /\ \A t \in 0..Longest : Later(t) \in 0..Longest /\ t <= Later(t)
    /\ \A t, u \in 0..Longest : t <= u => Later(t) <= Later(u)
  BY TimesAssumption DEF Longest, Later

\* What an ioctl leaves of the frames in the chip are frames (Discarded).
LEMMA DiscardedType ==
    ASSUME NEW q \in Seq(Frames)
    PROVE  \A r \in Discarded(q) : r \in Seq(Frames)
<1> SUFFICES ASSUME NEW n \in 0..Len(q)
             PROVE  SubSeq(q, n + 1, Len(q)) \in Seq(Frames)
  BY DEF Discarded
<1>1. \A i \in (n + 1)..Len(q) : q[i] \in Frames
  OBVIOUS
<1> QED
  BY <1>1, SubSeqProperties

\* pollEvents() leaves bits in event_info.link and frames in the chip.
LEMMA PolledType ==
    ASSUME TypeOK
    PROVE  /\ \A b \in Polled(link, rx) : b \in SUBSET LinkBits
           /\ Rest(rx) \in Seq(Frames)
<1>1. Rest(rx) \in Seq(Frames)
  BY DEF TypeOK, Rest
<1>2. ASSUME NEW f, NEW b \in join_event_handler(link, f)
      PROVE  b \in SUBSET LinkBits
  BY <1>2 DEF TypeOK, join_event_handler, LinkBits
<1>3. \A b \in Polled(link, rx) : b \in SUBSET LinkBits
  BY <1>2 DEF Polled, TypeOK
<1> QED
  BY <1>1, <1>3

\* join_state_poll() keeps all but the type of pc, which it does not touch.
LEMMA PollKeeps ==
    ASSUME JoinInv,
           NEW bits \in SUBSET LinkBits, NEW queue \in Seq(Frames), NEW air \in Radio,
           join_state_poll(bits, queue, air)
    PROVE  /\ join' \in JoinStates /\ link' \in SUBSET LinkBits
           /\ age' \in 0..Longest /\ down' \in 0..Longest
           /\ radio' \in Radio /\ rx' \in Seq(Frames)
           /\ Between(join') => radio' = "off" \/ (Between(join) /\ radio' = air)
           /\ join' = "FAIL" => age' <= down'
           /\ join' = "IDLE" => down' >= JOIN_RETRY
<1>1. rx' \in Seq(Frames)
  BY DiscardedType DEF join_state_poll
<1>2. join' \in JoinStates /\ link' \in SUBSET LinkBits
  BY DEF join_state_poll, AttemptFailed, JoinInv, TypeOK, JoinStates
<1>3. age' \in 0..Longest /\ down' \in 0..Longest
  BY LaterFacts DEF join_state_poll, AttemptFailed, join_stop, join_restart, JoinInv, TypeOK
<1>4. /\ radio' \in Radio
      /\ Between(join') => radio' = "off" \/ (Between(join) /\ radio' = air)
  BY DEF join_state_poll, AttemptFailed, join_stop, join_restart, Between, Radio
<1>5. join' = "FAIL" => age' <= down'
  BY <1>3 DEF join_state_poll, AttemptFailed, join_stop, join_restart, JoinInv, TypeOK,
             JoinTimerCounts
<1>6. join' = "IDLE" => down' >= JOIN_RETRY
  <2>1. join' = "IDLE" => join = "FAIL" /\ age >= JOIN_RETRY /\ down' = down
    BY DEF join_state_poll, AttemptFailed
  <2>2. join = "FAIL" => age <= down
    BY DEF JoinInv, JoinTimerCounts
  <2>3. age \in Nat /\ down \in Nat /\ JOIN_RETRY \in Nat
    BY LaterFacts, TimesAssumption DEF JoinInv, TypeOK
  <2> QED
    BY <2>1, <2>2, <2>3
<1> QED
  BY <1>1, <1>2, <1>3, <1>4, <1>5, <1>6

\* The inductive invariant holds in every reachable state of join.cpp's state
\* machine and the driver that polls it.
THEOREM JoinInvariance == JoinSpec => []JoinInv
<1>1. JoinInit => JoinInv
  <2> SUFFICES ASSUME JoinInit PROVE JoinInv
    OBVIOUS
  <2>1. age \in 0..Longest /\ down \in 0..Longest
    BY LaterFacts DEF JoinInit
  <2>2. rx \in Seq(Frames) /\ link \in SUBSET LinkBits
    BY DEF JoinInit
  <2>3. TypeOK
    BY <2>1, <2>2 DEF JoinInit, TypeOK, JoinStates, Radio
  <2> QED
    BY <2>3 DEF JoinInit, JoinInv, OffBetweenAttempts, JoinTimerCounts
<1>2. JoinInv /\ [JoinNext]_joinVars => JoinInv'
  <2> SUFFICES ASSUME JoinInv, [JoinNext]_joinVars
               PROVE  JoinInv'
    OBVIOUS
  <2>1. CASE join_start
    <3>1. PICK queue \in Discarded(rx) : join_state_poll(link, queue, "joining")
      BY <2>1 DEF join_start
    <3>2. queue \in Seq(Frames) /\ link \in SUBSET LinkBits /\ "joining" \in Radio
      BY <3>1, DiscardedType DEF JoinInv, TypeOK, Radio
    <3>3. /\ pc' \in {"start", "input", "init"} /\ netifUp' = netifUp /\ due' = due
          /\ asked' = Between(join')
      BY <2>1 DEF join_start, Returns
    <3>4. asked' \in BOOLEAN
      <4>1. (join' \in {"IDLE", "FAIL"}) \in BOOLEAN
        OBVIOUS
      <4> QED
        BY <3>3, <4>1, Zenon DEF Between
    <3>5. OffBetweenAttempts'
      BY <3>3, Zenon DEF OffBetweenAttempts
    <3> QED
      BY <3>1, <3>2, <3>3, <3>4, <3>5, PollKeeps DEF JoinInv, TypeOK, JoinTimerCounts
  <2>2. CASE WIFIinit
    <3>1. PICK bits \in Polled(link, rx) : join_state_poll(bits, Rest(rx), radio)
      BY <2>2 DEF WIFIinit
    <3>2. bits \in SUBSET LinkBits /\ Rest(rx) \in Seq(Frames) /\ radio \in Radio
      BY <3>1, PolledType DEF JoinInv, TypeOK
    <3>3. /\ pc' \in {"start", "input", "init"} /\ netifUp' = netifUp /\ due' = due
          /\ asked' = (asked /\ Between(join'))
      BY <2>2 DEF WIFIinit, Returns
    <3>4. asked' \in BOOLEAN /\ OffBetweenAttempts'
      BY <3>1, <3>2, <3>3, PollKeeps DEF JoinInv, OffBetweenAttempts, Between
    <3> QED
      BY <3>1, <3>2, <3>3, <3>4, PollKeeps DEF JoinInv, TypeOK, JoinTimerCounts
  <2>3. CASE CYW4343W_proc_input
    <3>1. rx' \in Seq(Frames)
      BY <2>3, DiscardedType DEF CYW4343W_proc_input, JoinInv, TypeOK
    <3> QED
      BY <2>3, <3>1 DEF CYW4343W_proc_input, JoinInv, TypeOK, OffBetweenAttempts, JoinTimerCounts
  <2>4. CASE CYW4343W_poll
    <3>1. pc = "poll" /\ pc' = "input" /\ netifUp' \in BOOLEAN /\ due' \in BOOLEAN
      BY <2>4 DEF CYW4343W_poll, JoinInv, TypeOK
    <3>2. ASSUME NEW bits \in Polled(link, rx), join_state_poll(bits, Rest(rx), radio),
                 asked' = (asked /\ Between(join'))
          PROVE  JoinInv'
      <4>1. bits \in SUBSET LinkBits /\ Rest(rx) \in Seq(Frames) /\ radio \in Radio
        BY <3>2, PolledType DEF JoinInv, TypeOK
      <4>2. asked' \in BOOLEAN /\ OffBetweenAttempts'
        BY <3>2, <4>1, PollKeeps DEF JoinInv, OffBetweenAttempts, Between
      <4> QED
        BY <3>1, <3>2, <4>1, <4>2, PollKeeps DEF JoinInv, TypeOK, JoinTimerCounts
    <3>3. CASE UNCHANGED <<join, link, age, due, radio, rx, down, asked>>
      BY <3>1, <3>3 DEF JoinInv, TypeOK, OffBetweenAttempts, JoinTimerCounts
    <3> QED
      BY <2>4, <3>2, <3>3 DEF CYW4343W_poll
  <2>5. CASE CYW4343W_deinit
    <3>1. rx' \in Seq(Frames)
      BY <2>5, DiscardedType DEF CYW4343W_deinit, JoinInv, TypeOK
    <3> QED
      BY <2>5, <3>1 DEF CYW4343W_deinit, JoinInv, TypeOK, OffBetweenAttempts, JoinTimerCounts, Radio
  <2>6. CASE RadioSends
    <3>1. rx' \in Seq(Frames) /\ radio' \in Radio /\ (radio = "off" => radio' = "off")
      BY <2>6, SMTT(40) DEF RadioSends, Sends, JoinInv, TypeOK, Frames, Events, Radio
    <3> QED
      BY <2>6, <3>1 DEF RadioSends, JoinInv, TypeOK, OffBetweenAttempts, JoinTimerCounts
  <2>7. CASE Tick
    <3>1. /\ age' \in 0..Longest /\ down' \in 0..Longest /\ down <= down'
          /\ age <= down => age' <= down'
      BY <2>7, LaterFacts DEF Tick, JoinInv, TypeOK
    <3>2. JoinTimerCounts'
      <4>1. down >= JOIN_RETRY => down' >= JOIN_RETRY
        BY <3>1, LaterFacts, TimesAssumption DEF JoinInv, TypeOK
      <4> QED
        BY <2>7, <3>1, <4>1 DEF Tick, JoinInv, JoinTimerCounts
    <3> QED
      BY <2>7, <3>1, <3>2 DEF Tick, JoinInv, TypeOK, OffBetweenAttempts
  <2>8. CASE UNCHANGED joinVars
    BY <2>8 DEF joinVars, JoinInv, TypeOK, OffBetweenAttempts, JoinTimerCounts
  <2> QED
    BY <2>1, <2>2, <2>3, <2>4, <2>5, <2>6, <2>7, <2>8 DEF JoinNext, Host
<1> QED
  BY <1>1, <1>2, PTL DEF JoinSpec

\* Types (join.cpp, driver_CYW4343W.cpp).
THEOREM JoinTypesCorrect == JoinSpec => []TypeOK
<1>1. JoinInv => TypeOK
  BY DEF JoinInv
<1> QED
  BY <1>1, JoinInvariance, PTL

\* The chip's interface is down whenever no attempt and no connection is on, unless
\* has_hardware() has made join_start() ask for one.
THEOREM JoinOffCorrect == JoinSpec => []OffBetweenAttempts
<1>1. JoinInv => OffBetweenAttempts
  BY DEF JoinInv
<1> QED
  BY <1>1, JoinInvariance, PTL

\* Attempts are spaced by JOIN_RETRY, whatever ended the last one.
THEOREM JoinSpacingCorrect == JoinSpec => RetriesAreSpaced
<1>1. JoinInv /\ [JoinNext]_joinVars =>
        [join = "IDLE" /\ join' = "JOINING" /\ pc # "start" => down >= JOIN_RETRY]_joinVars
  BY DEF JoinInv, JoinTimerCounts
<1> QED
  BY <1>1, JoinInvariance, PTL DEF JoinSpec, RetriesAreSpaced

=============================================================================
