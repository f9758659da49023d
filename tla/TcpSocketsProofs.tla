------------------------- MODULE TcpSocketsProofs -------------------------
(***************************************************************************)
(* Proofs about TcpSockets.                                                *)
(***************************************************************************)
EXTENDS TcpSockets, TLAPS

-----------------------------------------------------------------------------
(* What the stack's operations do to a PCB.                                *)

\* A buffer that was emptied is a buffer.
LEMMA EmptySeq == <<>> \in Seq(Nat) /\ Len(<<>>) = 0
OBVIOUS

\* tcp_free() keeps a PCB's argument and leaves nothing that can call back.
LEMMA FreedPcb ==
    ASSUME NEW r \in PcbRecord
    PROVE  /\ Freed(r) \in PcbRecord
           /\ Freed(r).arg = r.arg
           /\ Freed(r).state \in {"FREE", "FREED_TWICE"}
           /\ ~Freed(r).fin
           /\ ~MayCallBack(Freed(r))
BY EmptySeq DEF Freed, Purged, PcbRecord, TcpStates, MayCallBack, ActiveStates

\* ~ConnectionState() changes the argument of a PCB and nothing else.
LEMMA NoArgPcb ==
    ASSUME NEW r \in PcbRecord
    PROVE  /\ NoArg(r) \in PcbRecord
           /\ NoArg(r) = [r EXCEPT !.arg = NULL]
           /\ NoArg(r).arg = NULL
           /\ NoArg(r).state = r.state
           /\ NoArg(r).refused = r.refused
           /\ NoArg(r).fin = r.fin
           /\ MayCallBack(NoArg(r)) <=> MayCallBack(r)
BY DEF NoArg, PcbRecord, MayCallBack

\* The states a PCB can be in while it keeps a FIN for later.
FinStates == {"CLOSE_WAIT", "CLOSING", "TIME_WAIT", "LAST_ACK"}

\* tcp_close() keeps the argument, frees an attempt, and makes no PCB able to
\* call back that could not before; after a FIN has arrived and the data before
\* it has been taken, the PCB makes no more calls.
LEMMA ClosedPcb ==
    ASSUME NEW r \in PcbRecord
    PROVE  /\ Closed(r) \in PcbRecord
           /\ Closed(r).arg = r.arg
           /\ MayCallBack(Closed(r)) => MayCallBack(r)
           /\ (r.fin => r.state \in FinStates) => (Closed(r).fin => Closed(r).state \in FinStates)
           /\ r.state \in {"SYN_SENT", "FREE", "FREED_TWICE"}
              => Closed(r).state \in {"FREE", "FREED_TWICE"}
           /\ r.state = "SYN_SENT" => ~MayCallBack(Closed(r))
           /\ r.state \in FinStates /\ r.refused = <<>> => ~MayCallBack(Closed(r))
<1>1. CASE \/ r.state = "SYN_SENT"
           \/ r.state \in {"ESTABLISHED", "CLOSE_WAIT"} /\ r.refused # <<>>
  BY <1>1, FreedPcb DEF Closed
<1>2. CASE ~(\/ r.state = "SYN_SENT"
             \/ r.state \in {"ESTABLISHED", "CLOSE_WAIT"} /\ r.refused # <<>>)
  BY <1>2 DEF Closed, FinSent, PcbRecord, TcpStates, MayCallBack, ActiveStates, FinStates
<1> QED BY <1>1, <1>2

\* tcp_shutdown() of the transmit side: the same, but nothing is freed.
LEMMA ShutdownTxPcb ==
    ASSUME NEW r \in PcbRecord
    PROVE  /\ ShutdownTx(r) \in PcbRecord
           /\ ShutdownTx(r).arg = r.arg
           /\ MayCallBack(ShutdownTx(r)) => MayCallBack(r)
           /\ (r.fin => r.state \in FinStates)
              => (ShutdownTx(r).fin => ShutdownTx(r).state \in FinStates)
           /\ r.state \in {"SYN_SENT", "FREE", "FREED_TWICE"}
              => ShutdownTx(r).state \in {"SYN_SENT", "FREE", "FREED_TWICE"}
BY DEF ShutdownTx, FinSent, PcbRecord, TcpStates, MayCallBack, ActiveStates, FinStates

\* tcp_pcb_purge().
LEMMA PurgedPcb ==
    ASSUME NEW r \in PcbRecord
    PROVE  /\ Purged(r) \in PcbRecord
           /\ Purged(r).arg = r.arg
           /\ Purged(r).state = r.state
           /\ Purged(r).refused = <<>>
           /\ ~Purged(r).fin
           /\ MayCallBack(Purged(r)) => MayCallBack(r)
BY EmptySeq DEF Purged, PcbRecord, MayCallBack

-----------------------------------------------------------------------------
(* What the callbacks do to a holder.                                      *)

\* The parts of HolderIsConsistent, for one holder.
Consistent(hr) ==
    /\ hr.remaining # <<>> => /\ ~hr.connected /\ hr.state = NULL
                              /\ hr.remainingPos < Len(hr.remaining)
    /\ hr.bufPos <= Len(hr.buf) /\ Len(hr.buf) <= TCP_WND
    /\ hr.connected => hr.state # NULL

\* What is unread is a sequence of bytes, as long as the buffer behind bufPos.
LEMMA UnreadType ==
    ASSUME NEW hr \in HolderRecord, Consistent(hr)
    PROVE  /\ Unread(hr) \in Seq(Nat)
           /\ Len(Unread(hr)) = Len(hr.buf) - hr.bufPos
<1>1. hr.buf \in Seq(Nat) /\ hr.bufPos \in Nat /\ hr.bufPos <= Len(hr.buf)
  BY WndAssumption DEF HolderRecord, Consistent
<1>2. Len(hr.buf) \in Nat /\ \A i \in 1..Len(hr.buf) : hr.buf[i] \in Nat
  BY <1>1
<1> QED BY <1>1, <1>2, SMTT(40) DEF Unread

\* A holder that is closed keeps what was unread, has no state and is consistent.
LEMMA HolderClosedType ==
    ASSUME NEW hr \in HolderRecord, Consistent(hr)
    PROVE  /\ HolderClosed(hr) \in HolderRecord
           /\ Consistent(HolderClosed(hr))
           /\ HolderClosed(hr).state = NULL /\ HolderClosed(hr).buf = <<>>
           /\ ~HolderClosed(hr).connected
<1> DEFINE copied == IF hr.state # NULL THEN maybeCopyRemaining(hr) ELSE hr
<1>1. copied \in HolderRecord
  BY UnreadType, EmptySeq DEF maybeCopyRemaining, HolderRecord
<1>2. copied.remaining # <<>> => copied.remainingPos < Len(copied.remaining)
  BY UnreadType DEF maybeCopyRemaining, isAvailable, HolderRecord, Consistent
<1>3. HolderClosed(hr) = [copied EXCEPT !.state = NULL, !.buf = <<>>, !.bufPos = 0,
                                        !.connected = FALSE]
  BY <1>1 DEF HolderClosed, StateReset, HolderRecord
<1> HIDE DEF copied
<1>4. 0 \in 0..TCP_WND
  BY WndAssumption
<1>5. HolderClosed(hr) \in HolderRecord
  BY <1>1, <1>3, <1>4, EmptySeq DEF HolderRecord
<1>6. /\ HolderClosed(hr).state = NULL /\ HolderClosed(hr).buf = <<>>
      /\ HolderClosed(hr).bufPos = 0 /\ HolderClosed(hr).connected = FALSE
      /\ HolderClosed(hr).remaining = copied.remaining
      /\ HolderClosed(hr).remainingPos = copied.remainingPos
  BY <1>1, <1>3 DEF HolderRecord
<1>7. Consistent(HolderClosed(hr))
  BY <1>2, <1>6, EmptySeq, WndAssumption DEF Consistent
<1> QED BY <1>5, <1>6, <1>7

\* Data that fits is appended within the capacity; the holder keeps its state.
LEMMA HolderReceivedType ==
    ASSUME NEW hr \in HolderRecord, Consistent(hr), hr.state # NULL,
           NEW data \in Seq(Nat), Fits(hr, data)
    PROVE  /\ HolderReceived(hr, data) \in HolderRecord
           /\ Consistent(HolderReceived(hr, data))
           /\ HolderReceived(hr, data).state = hr.state
           /\ HolderReceived(hr, data).connected
<1> DEFINE move == TCP_WND - Len(hr.buf) < Len(data)
           kept == IF move THEN Unread(hr) ELSE hr.buf
           pos  == IF move THEN 0 ELSE hr.bufPos
<1>1. hr.buf \in Seq(Nat) /\ hr.bufPos \in Nat /\ hr.bufPos <= Len(hr.buf)
  BY WndAssumption DEF HolderRecord, Consistent
<1>2. kept \in Seq(Nat) /\ pos <= Len(kept) /\ pos \in 0..TCP_WND
  <2>1. CASE move
    BY <2>1, <1>1, UnreadType, WndAssumption
  <2>2. CASE ~move
    BY <2>2, <1>1, WndAssumption DEF HolderRecord
  <2> QED BY <2>1, <2>2
<1>3. Len(kept) + Len(data) <= TCP_WND
  BY <1>1, UnreadType, WndAssumption DEF Fits
<1>4. HolderReceived(hr, data) =
        [hr EXCEPT !.connected = TRUE, !.buf = kept \o data, !.bufPos = pos]
  BY DEF HolderReceived
<1> HIDE DEF move, kept, pos
<1>5. kept \o data \in Seq(Nat) /\ Len(kept \o data) = Len(kept) + Len(data)
  BY <1>2
<1>6. HolderReceived(hr, data) \in HolderRecord
  BY <1>2, <1>4, <1>5 DEF HolderRecord
<1>7. LET new == HolderReceived(hr, data) IN
      /\ new.connected = TRUE /\ new.buf = kept \o data /\ new.bufPos = pos
      /\ new.state = hr.state /\ new.remaining = hr.remaining
  BY <1>4 DEF HolderRecord
<1>8. hr.remaining = <<>>
  BY DEF Consistent
<1>9. Len(kept) \in Nat /\ Len(data) \in Nat /\ pos \in Nat
  BY <1>2
<1>10. Consistent(HolderReceived(hr, data))
  BY <1>2, <1>3, <1>5, <1>7, <1>8, <1>9, WndAssumption DEF Consistent
<1> QED BY <1>6, <1>7, <1>10

-----------------------------------------------------------------------------
(* The list.                                                               *)

InList(list, h) == \E i \in DOMAIN list : list[i] = h

NoDuplicates(list) == \A i, j \in DOMAIN list : list[i] = list[j] => i = j

\* erase() of a holder removes it, and nothing else.
LEMMA EraseList ==
    ASSUME NEW list \in Seq(Holders), NoDuplicates(list), NEW h
    PROVE  /\ Erase(list, h) \in Seq(Holders)
           /\ NoDuplicates(Erase(list, h))
           /\ \A g : InList(Erase(list, h), g) <=> InList(list, g) /\ g # h
<1>1. CASE ~InList(list, h)
  BY <1>1 DEF Erase, InList
<1>2. CASE InList(list, h)
  <2> DEFINE Here(i) == list[i] = h /\ \A j \in 1..(i-1) : list[j] # h
             k == CHOOSE i \in DOMAIN list : Here(i)
             short == [j \in 1..(Len(list) - 1) |-> IF j < k THEN list[j] ELSE list[j+1]]
  <2>1. Len(list) \in Nat /\ DOMAIN list = 1..Len(list)
    OBVIOUS
  <2>2. \E i \in DOMAIN list : Here(i)
    <3>1. PICK i \in DOMAIN list : list[i] = h
      BY <1>2 DEF InList
    <3>2. \A j \in 1..(i-1) : j \in DOMAIN list /\ j # i
      BY <2>1, <3>1
    <3> QED BY <3>1, <3>2 DEF NoDuplicates
  <2>3. k \in DOMAIN list /\ Here(k)
    BY <2>2
  <2>4. Erase(list, h) = short
    BY <1>2 DEF Erase, InList
  <2>5. k \in 1..Len(list) /\ list[k] = h
    BY <2>1, <2>3
  <2> HIDE DEF k
  <2>6. Len(list) - 1 \in Nat
    BY <2>1, <2>5
  <2>7. \A j \in 1..(Len(list) - 1) : j \in DOMAIN list /\ j + 1 \in DOMAIN list
    BY <2>1, <2>6
  <2>8. short \in Seq(Holders) /\ DOMAIN short = 1..(Len(list) - 1)
    BY <2>6, <2>7
  <2>9. NoDuplicates(short)
    <3> SUFFICES ASSUME NEW i \in 1..(Len(list) - 1), NEW j \in 1..(Len(list) - 1),
                        short[i] = short[j]
                 PROVE  i = j
      BY <2>8 DEF NoDuplicates
    <3> DEFINE at(m) == IF m < k THEN m ELSE m + 1
    <3>1. list[at(i)] = list[at(j)] /\ at(i) \in DOMAIN list /\ at(j) \in DOMAIN list
      BY <2>7
    <3>2. at(i) = at(j)
      BY <3>1 DEF NoDuplicates
    <3> QED BY <3>2, <2>5, <2>6
  <2>10. ASSUME NEW g, InList(short, g)
         PROVE  InList(list, g) /\ g # h
    <3>1. PICK j \in 1..(Len(list) - 1) : short[j] = g
      BY <2>8, <2>10 DEF InList
    <3> DEFINE m == IF j < k THEN j ELSE j + 1
    <3>2. m \in DOMAIN list /\ list[m] = g /\ m # k
      BY <3>1, <2>5, <2>6, <2>7
    <3> QED BY <3>2, <2>5, <2>1 DEF InList, NoDuplicates
  <2>11. ASSUME NEW g, InList(list, g), g # h
         PROVE  InList(short, g)
    <3>1. PICK m \in DOMAIN list : list[m] = g
      BY <2>11 DEF InList
    <3> DEFINE j == IF m < k THEN m ELSE m - 1
    <3>2. j \in 1..(Len(list) - 1)
      BY <3>1, <2>1, <2>5, <2>11
    <3>3. short[j] = g
      <4>1. CASE m < k
        BY <4>1, <3>1, <3>2
      <4>2. CASE ~(m < k)
        BY <4>2, <3>1, <3>2, <2>1, <2>5, <2>11
      <4> QED BY <4>1, <4>2
    <3> QED BY <3>2, <3>3, <2>8 DEF InList
  <2> QED BY <2>4, <2>8, <2>9, <2>10, <2>11
<1> QED BY <1>1, <1>2

\* push_back() of a holder that is not in the list.
LEMMA AppendList ==
    ASSUME NEW list \in Seq(Holders), NoDuplicates(list), NEW h \in Holders,
           ~InList(list, h)
    PROVE  /\ Append(list, h) \in Seq(Holders)
           /\ NoDuplicates(Append(list, h))
           /\ \A g : InList(Append(list, h), g) <=> InList(list, g) \/ g = h
<1>1. /\ Len(list) \in Nat /\ DOMAIN list = 1..Len(list)
      /\ Append(list, h) \in Seq(Holders)
      /\ DOMAIN Append(list, h) = 1..(Len(list) + 1)
      /\ Append(list, h)[Len(list) + 1] = h
      /\ \A i \in 1..Len(list) : Append(list, h)[i] = list[i]
  OBVIOUS
<1>2. \A i \in 1..(Len(list) + 1) : i \in 1..Len(list) \/ i = Len(list) + 1
  BY <1>1
<1>3. \A i \in 1..Len(list) : i \in 1..(Len(list) + 1) /\ list[i] # h
  BY <1>1 DEF InList
<1>4. Len(list) + 1 \in 1..(Len(list) + 1)
  BY <1>1
<1>5. NoDuplicates(Append(list, h))
  BY <1>1, <1>2, <1>3 DEF NoDuplicates
<1>6. \A g : InList(Append(list, h), g) <=> InList(list, g) \/ g = h
  BY <1>1, <1>2, <1>3, <1>4, Zenon DEF InList
<1> QED BY <1>1, <1>5, <1>6

-----------------------------------------------------------------------------
(* The inductive invariant of ConnectionManager, and the three kinds of    *)
(* step that preserve it.                                                  *)

CMTypeOK ==
    /\ pcb \in [Pcbs -> PcbRecord]
    /\ holder \in [Holders -> HolderRecord]
    /\ connections_ \in Seq(Holders)
    /\ hist \in [Holders -> HistRecord]

\* A PCB's argument is the holder that owns it, whatever the PCB's state.
ArgIsOwner == \A p \in Pcbs : pcb[p].arg # NULL => holder[pcb[p].arg].state = p

\* A FIN is kept for later only after the PCB has changed state for it.
FinIsLate == \A p \in Pcbs : pcb[p].fin => pcb[p].state \in FinStates

Quiet == {"SYN_SENT", "FREE", "FREED_TWICE"}

\* The PCB of a holder that is not connected has not been connected either.
AttemptIsQuiet ==
    \A p \in Pcbs : /\ pcb[p].arg # NULL
                    /\ ~holder[pcb[p].arg].connected
                    => pcb[p].state \in Quiet

CMInv ==
    /\ CMTypeOK
    /\ ListIsExact
    /\ HolderIsConsistent
    /\ ArgIsOwner
    /\ FinIsLate
    /\ AttemptIsQuiet

\* CMInv in the words of the lemmas above.
LEMMA CMInvFacts ==
    ASSUME CMInv
    PROVE  /\ NoDuplicates(connections_)
           /\ \A h \in Holders : InList(connections_, h) <=> holder[h].state # NULL
           /\ \A h \in Holders : Consistent(holder[h])
           /\ \A h \in Holders : holder[h] \in HolderRecord
           /\ \A h \in Holders : hist[h] \in HistRecord
           /\ \A p \in Pcbs : pcb[p] \in PcbRecord
           /\ \A p \in Pcbs : pcb[p].arg # NULL => pcb[p].arg \in Holders
BY DEF CMInv, CMTypeOK, ListIsExact, Listed, InList, NoDuplicates,
       HolderIsConsistent, Consistent, PcbRecord

\* A step that gives no PCB another argument and no holder another state.
LEMMA StableStep ==
    ASSUME CMInv,
           pcb' \in [Pcbs -> PcbRecord],
           holder' \in [Holders -> HolderRecord],
           hist' \in [Holders -> HistRecord],
           UNCHANGED connections_,
           \A q \in Pcbs : pcb'[q].arg = pcb[q].arg,
           \A q \in Pcbs : pcb'[q].fin => pcb'[q].state \in FinStates,
           \A q \in Pcbs : pcb[q].state \in Quiet =>
               pcb'[q].state \in Quiet \/ (pcb[q].arg # NULL /\ holder'[pcb[q].arg].connected),
           \A g \in Holders : holder'[g].state = holder[g].state,
           \A g \in Holders : holder[g].connected => holder'[g].connected,
           \A g \in Holders : Consistent(holder'[g])
    PROVE  CMInv'
<1>1. CMTypeOK'
  BY DEF CMInv, CMTypeOK
<1>2. ListIsExact'
  BY DEF CMInv, ListIsExact, Listed
<1>3. HolderIsConsistent'
  BY DEF HolderIsConsistent, Consistent
<1>4. ArgIsOwner'
  BY CMInvFacts DEF CMInv, ArgIsOwner
<1>5. FinIsLate'
  BY DEF FinIsLate
<1>6. AttemptIsQuiet'
  BY CMInvFacts DEF CMInv, AttemptIsQuiet
<1> QED BY <1>1, <1>2, <1>3, <1>4, <1>5, <1>6 DEF CMInv

\* A step that takes its state from a holder: the holder leaves the list, and
\* the PCB its state pointed to loses its argument.
LEMMA ClosingStep ==
    ASSUME CMInv, NEW p \in Pcbs, NEW h \in Holders,
           holder[h].state = p,
           NEW r \in PcbRecord, r.arg = NULL, r.fin => r.state \in FinStates,
           NEW hr \in HolderRecord, hr.state = NULL, Consistent(hr),
           pcb' = [pcb EXCEPT ![p] = r],
           holder' = [holder EXCEPT ![h] = hr],
           hist' \in [Holders -> HistRecord],
           Detach(h)
    PROVE  CMInv'
<1> USE CMInvFacts
<1>0. /\ \A q \in Pcbs : pcb'[q] = IF q = p THEN r ELSE pcb[q]
      /\ \A g \in Holders : holder'[g] = IF g = h THEN hr ELSE holder[g]
  BY DEF CMInv, CMTypeOK
<1>1. /\ connections_' \in Seq(Holders)
      /\ NoDuplicates(connections_')
      /\ \A g : InList(connections_', g) <=> InList(connections_, g) /\ g # h
  BY EraseList DEF CMInv, CMTypeOK, Detach
<1>2. CMTypeOK'
  BY <1>1 DEF CMInv, CMTypeOK
<1>3. ListIsExact'
  <2>1. ASSUME NEW g \in Holders
        PROVE  Listed(g)' <=> holder'[g].state # NULL
    <3>1. Listed(g)' <=> InList(connections_, g) /\ g # h
      BY <1>1 DEF Listed, InList
    <3> QED BY <3>1, <1>0
  <2> QED BY <2>1, <1>1 DEF ListIsExact, NoDuplicates
<1>4. HolderIsConsistent'
  BY <1>0 DEF HolderIsConsistent, Consistent
<1>5. \A q \in Pcbs : q # p /\ pcb[q].arg # NULL => pcb[q].arg # h
  BY DEF CMInv, ArgIsOwner
<1>6. ArgIsOwner'
  BY <1>0, <1>5 DEF CMInv, ArgIsOwner
<1>7. FinIsLate'
  BY <1>0 DEF CMInv, FinIsLate
<1>8. AttemptIsQuiet'
  BY <1>0, <1>5 DEF CMInv, AttemptIsQuiet
<1> QED BY <1>2, <1>3, <1>4, <1>6, <1>7, <1>8 DEF CMInv

\* A step that puts a new holder, for a new PCB, in the list.
LEMMA AddingStep ==
    ASSUME CMInv, NEW p \in Pcbs, NEW h \in Holders,
           ~Listed(h),
           NEW state \in {"SYN_SENT", "ESTABLISHED"}, NEW port \in Ports \cup {NULL},
           NEW isConnected \in BOOLEAN, NEW isAccepted \in BOOLEAN,
           state = "ESTABLISHED" => isConnected,
           pcb' = [pcb EXCEPT ![p] = NewPcb(state, h, port)],
           addConnection(h, p, isConnected, isAccepted)
    PROVE  CMInv'
<1> USE CMInvFacts
<1> DEFINE r  == NewPcb(state, h, port)
           hr == NewHolder(isConnected, p, isAccepted)
<1>1. /\ r \in PcbRecord /\ r.arg = h /\ r.state = state /\ r.fin = FALSE
  BY EmptySeq DEF NewPcb, PcbRecord, TcpStates
<1>2. hr \in HolderRecord /\ hr.state = p /\ hr.connected = isConnected
  <2>1. 0 \in 0..TCP_WND
    BY WndAssumption
  <2> QED BY <2>1, EmptySeq DEF NewHolder, HolderRecord
<1>3. Consistent(hr)
  <2>1. /\ hr.remaining = <<>> /\ hr.buf = <<>> /\ hr.bufPos = 0
    BY DEF NewHolder
  <2>2. p # NULL
    BY NullAssumption
  <2> QED BY <1>2, <2>1, <2>2, EmptySeq, WndAssumption DEF Consistent
<1>4. ~InList(connections_, h) /\ holder[h].state = NULL
  BY DEF Listed, InList, CMInv, ListIsExact
<1>5. /\ connections_' \in Seq(Holders)
      /\ NoDuplicates(connections_')
      /\ \A g : InList(connections_', g) <=> InList(connections_, g) \/ g = h
  BY <1>4, AppendList DEF CMInv, CMTypeOK, addConnection
<1>6. /\ pcb' = [pcb EXCEPT ![p] = r] /\ holder' = [holder EXCEPT ![h] = hr]
      /\ hist' = [hist EXCEPT ![h] = NoHist]
  BY DEF addConnection
<1>7. NoHist \in HistRecord
  BY EmptySeq DEF NoHist, HistRecord
<1> HIDE DEF r, hr
<1>8. /\ \A q \in Pcbs : pcb'[q] = IF q = p THEN r ELSE pcb[q]
      /\ \A g \in Holders : holder'[g] = IF g = h THEN hr ELSE holder[g]
  BY <1>6 DEF CMInv, CMTypeOK
<1>9. CMTypeOK'
  BY <1>1, <1>2, <1>5, <1>6, <1>7 DEF CMInv, CMTypeOK
<1>10. ListIsExact'
  <2>1. p # NULL
    BY NullAssumption
  <2>2. ASSUME NEW g \in Holders
        PROVE  Listed(g)' <=> holder'[g].state # NULL
    <3>1. Listed(g)' <=> InList(connections_, g) \/ g = h
      BY <1>5 DEF Listed, InList
    <3> QED BY <3>1, <2>1, <1>2, <1>8
  <2> QED BY <2>2, <1>5 DEF ListIsExact, NoDuplicates
<1>11. HolderIsConsistent'
  BY <1>3, <1>8 DEF HolderIsConsistent, Consistent
<1>12. \A q \in Pcbs : pcb[q].arg # h
  BY <1>4, NullAssumption DEF CMInv, ArgIsOwner
<1>13. ArgIsOwner'
  BY <1>1, <1>2, <1>8, <1>12 DEF CMInv, ArgIsOwner
<1>14. FinIsLate'
  BY <1>1, <1>8 DEF CMInv, FinIsLate
<1>15. AttemptIsQuiet'
  <2> SUFFICES ASSUME NEW q \in Pcbs, pcb'[q].arg # NULL, ~holder'[pcb'[q].arg].connected
               PROVE  pcb'[q].state \in Quiet
    BY DEF AttemptIsQuiet
  <2>1. CASE q = p
    <3>1. pcb'[q].arg = h /\ pcb'[q].state = state /\ ~isConnected
      BY <2>1, <1>1, <1>2, <1>8
    <3> QED BY <3>1 DEF Quiet
  <2>2. CASE q # p
    BY <2>2, <1>8, <1>12 DEF CMInv, AttemptIsQuiet
  <2> QED BY <2>1, <2>2
<1> QED BY <1>9, <1>10, <1>11, <1>13, <1>14, <1>15 DEF CMInv

-----------------------------------------------------------------------------
(* The callbacks preserve the invariant.                                   *)

\* Every PCB that may call back has an argument.
Reached == \A p \in Pcbs : MayCallBack(pcb[p]) => pcb[p].arg # NULL

\* The bytes that come next are bytes.
LEMMA NextBytesType ==
    ASSUME CMInv, NEW h \in Holders, NEW n \in Nat
    PROVE  NextBytes(h, n) \in Seq(Nat) /\ Len(NextBytes(h, n)) = n
<1>1. hist[h].sent \in Nat
  BY CMInvFacts DEF HistRecord
<1> QED BY <1>1 DEF NextBytes

\* The history of a holder stays one when bytes arrive and when it ends.
LEMMA HistType ==
    ASSUME CMInv, NEW h \in Holders, NEW n \in Nat,
           NEW why \in {"none", "fin", "err", "user"}
    PROVE  /\ [hist EXCEPT ![h].sent = @ + n] \in [Holders -> HistRecord]
           /\ [hist EXCEPT ![h].sent = @ + n, ![h].end = why] \in [Holders -> HistRecord]
<1>1. hist[h] \in HistRecord /\ hist \in [Holders -> HistRecord]
  BY CMInvFacts DEF CMInv, CMTypeOK
<1>2. hist[h].sent + n \in Nat
  BY <1>1 DEF HistRecord
<1> DEFINE m == hist[h].sent + n
<1> HIDE DEF m
<1>3. /\ [hist[h] EXCEPT !.sent = m] \in HistRecord
      /\ [hist[h] EXCEPT !.sent = m, !.end = why] \in HistRecord
  BY <1>1, <1>2 DEF HistRecord, m
<1> QED BY <1>1, <1>3 DEF m

\* errFunc(): the holder that is the argument is closed; if there is none the
\* PCB is freed all the same.
LEMMA errFuncStep ==
    ASSUME CMInv, NEW p \in Pcbs, NEW why \in {"err", "user"}, errFunc(p, why)
    PROVE  CMInv' /\ (Reached => Reached')
<1> DEFINE r == NoArg(Freed(pcb[p]))
           h == pcb[p].arg
<1>1. pcb[p] \in PcbRecord
  BY CMInvFacts
<1>2. /\ r \in PcbRecord /\ r.arg = NULL /\ ~r.fin /\ ~MayCallBack(r)
      /\ r.state \in Quiet
  BY <1>1, FreedPcb, NoArgPcb DEF Quiet
<1>3. pcb' = [pcb EXCEPT ![p] = r]
  BY DEF errFunc
<1> HIDE DEF r
<1>4. \A q \in Pcbs : pcb'[q] = IF q = p THEN r ELSE pcb[q]
  BY <1>3 DEF CMInv, CMTypeOK
<1>5. Reached => Reached'
  BY <1>2, <1>4 DEF Reached
<1>6. CASE h = NULL
  <2>1. UNCHANGED <<holder, connections_, hist>>
    BY <1>6 DEF errFunc
  <2>2. /\ pcb' \in [Pcbs -> PcbRecord]
        /\ holder' \in [Holders -> HolderRecord]
        /\ hist' \in [Holders -> HistRecord]
    BY <1>2, <1>3, <2>1 DEF CMInv, CMTypeOK
  <2>3. /\ \A q \in Pcbs : pcb'[q].arg = pcb[q].arg
        /\ \A q \in Pcbs : pcb'[q].fin => pcb'[q].state \in FinStates
        /\ \A q \in Pcbs : pcb[q].state \in Quiet => pcb'[q].state \in Quiet
    BY <1>2, <1>4, <1>6 DEF CMInv, FinIsLate
  <2>4. CMInv'
    BY <2>1, <2>2, <2>3, CMInvFacts, StableStep
  <2> QED BY <2>4, <1>5
<1>7. CASE h # NULL
  <2>1. h \in Holders /\ holder[h].state = p /\ holder[h] \in HolderRecord
        /\ Consistent(holder[h])
    BY <1>7, CMInvFacts DEF CMInv, ArgIsOwner
  <2>2. /\ holder' = [holder EXCEPT ![h] = HolderClosed(holder[h])]
        /\ Detach(h)
        /\ hist' = [hist EXCEPT ![h].end = why]
    BY <1>7 DEF errFunc
  <2>3. hist' \in [Holders -> HistRecord]
    BY <2>2, ZenonT(60) DEF CMInv, CMTypeOK, HistRecord
  <2>4. /\ HolderClosed(holder[h]) \in HolderRecord
        /\ Consistent(HolderClosed(holder[h]))
        /\ HolderClosed(holder[h]).state = NULL
    BY <2>1, HolderClosedType
  <2> HIDE DEF h
  <2>5. CMInv'
    BY <1>2, <1>3, <2>1, <2>2, <2>3, <2>4, ClosingStep
  <2> QED BY <2>5, <1>5
<1> QED BY <1>6, <1>7

\* A PCB changes and keeps its argument; no holder changes.
LEMMA PcbStep ==
    ASSUME CMInv, NEW p \in Pcbs, NEW r \in PcbRecord,
           pcb' = [pcb EXCEPT ![p] = r],
           r.arg = pcb[p].arg,
           r.fin => r.state \in FinStates,
           pcb[p].state \in Quiet => r.state \in Quiet,
           hist' \in [Holders -> HistRecord],
           UNCHANGED <<holder, connections_>>
    PROVE  CMInv' /\ (Reached /\ (MayCallBack(r) => r.arg # NULL) => Reached')
<1>1. \A q \in Pcbs : pcb'[q] = IF q = p THEN r ELSE pcb[q]
  BY DEF CMInv, CMTypeOK
<1>2. pcb' \in [Pcbs -> PcbRecord] /\ holder' \in [Holders -> HolderRecord]
  BY DEF CMInv, CMTypeOK
<1>3. /\ \A q \in Pcbs : pcb'[q].arg = pcb[q].arg
      /\ \A q \in Pcbs : pcb'[q].fin => pcb'[q].state \in FinStates
      /\ \A q \in Pcbs : pcb[q].state \in Quiet => pcb'[q].state \in Quiet
  BY <1>1 DEF CMInv, FinIsLate
<1>4. CMInv'
  BY <1>2, <1>3, CMInvFacts, StableStep
<1>5. Reached /\ (MayCallBack(r) => r.arg # NULL) => Reached'
  BY <1>1 DEF Reached
<1> QED BY <1>4, <1>5

\* A PCB freed without a callback makes no calls.
LEMMA FreeSilentlyStep ==
    ASSUME CMInv, NEW p \in Pcbs, FreeSilently(p)
    PROVE  CMInv' /\ (Reached => Reached')
<1>1. pcb[p] \in PcbRecord
  BY CMInvFacts
<1>2. /\ Freed(pcb[p]) \in PcbRecord /\ Freed(pcb[p]).arg = pcb[p].arg
      /\ ~Freed(pcb[p]).fin /\ ~MayCallBack(Freed(pcb[p]))
      /\ Freed(pcb[p]).state \in Quiet
  BY <1>1, FreedPcb DEF Quiet
<1>3. /\ pcb' = [pcb EXCEPT ![p] = Freed(pcb[p])]
      /\ UNCHANGED <<holder, connections_>>
      /\ hist' \in [Holders -> HistRecord]
  BY DEF FreeSilently, CMInv, CMTypeOK
<1> QED BY <1>2, <1>3, PcbStep

\* A holder changes and its PCB with it; both keep to one another, and the
\* holder is connected.
LEMMA HolderStep ==
    ASSUME CMInv, NEW p \in Pcbs, NEW h \in Holders, pcb[p].arg = h,
           NEW r \in PcbRecord, r.arg = h,
           r.fin => r.state \in FinStates,
           NEW hr \in HolderRecord, Consistent(hr), hr.state = p, hr.connected,
           pcb' = [pcb EXCEPT ![p] = r],
           holder' = [holder EXCEPT ![h] = hr],
           hist' \in [Holders -> HistRecord],
           UNCHANGED connections_
    PROVE  CMInv' /\ (Reached => Reached')
<1>0. h # NULL /\ holder[h].state = p
  BY NullAssumption DEF CMInv, ArgIsOwner
<1>1. /\ \A q \in Pcbs : pcb'[q] = IF q = p THEN r ELSE pcb[q]
      /\ \A g \in Holders : holder'[g] = IF g = h THEN hr ELSE holder[g]
  BY DEF CMInv, CMTypeOK
<1>2. pcb' \in [Pcbs -> PcbRecord] /\ holder' \in [Holders -> HolderRecord]
  BY DEF CMInv, CMTypeOK
<1>3. /\ \A q \in Pcbs : pcb'[q].arg = pcb[q].arg
      /\ \A q \in Pcbs : pcb'[q].fin => pcb'[q].state \in FinStates
      /\ \A q \in Pcbs : pcb[q].state \in Quiet =>
           pcb'[q].state \in Quiet \/ (pcb[q].arg # NULL /\ holder'[pcb[q].arg].connected)
  BY <1>0, <1>1 DEF CMInv, FinIsLate
<1>4. /\ \A g \in Holders : holder'[g].state = holder[g].state
      /\ \A g \in Holders : holder[g].connected => holder'[g].connected
      /\ \A g \in Holders : Consistent(holder'[g])
  BY <1>0, <1>1, CMInvFacts
<1>5. CMInv'
  BY <1>2, <1>3, <1>4, StableStep
<1>6. Reached => Reached'
  BY <1>0, <1>1 DEF Reached
<1> QED BY <1>5, <1>6

\* connectedFunc(): the attempt's holder becomes connected.
LEMMA connectedFuncStep ==
    ASSUME CMInv, NEW p \in Pcbs, connectedFunc(p)
    PROVE  CMInv' /\ (Reached => Reached')
<1> DEFINE h  == pcb[p].arg
           r  == [pcb[p] EXCEPT !.state = "ESTABLISHED"]
           hr == [holder[h] EXCEPT !.connected = TRUE]
<1>1. /\ h \in Holders /\ holder[h].state = p /\ holder[h] \in HolderRecord
      /\ Consistent(holder[h]) /\ pcb[p] \in PcbRecord /\ p # NULL
  BY CMInvFacts, NullAssumption DEF connectedFunc, CMInv, ArgIsOwner
<1>2. r \in PcbRecord /\ r.arg = h /\ (r.fin => r.state \in FinStates)
  BY <1>1 DEF PcbRecord, TcpStates, connectedFunc, CMInv, FinIsLate, FinStates
<1>3. hr \in HolderRecord /\ Consistent(hr) /\ hr.state = p /\ hr.connected
  BY <1>1 DEF HolderRecord, Consistent
<1>4. /\ pcb' = [pcb EXCEPT ![p] = r] /\ holder' = [holder EXCEPT ![h] = hr]
      /\ UNCHANGED connections_ /\ hist' \in [Holders -> HistRecord]
  BY DEF connectedFunc, CMInv, CMTypeOK
<1>5. pcb[p].arg = h
  OBVIOUS
<1> HIDE DEF h, r, hr
<1> QED BY <1>1, <1>2, <1>3, <1>4, <1>5, HolderStep

\* A holder that is added makes its PCB reach it.
LEMMA AddedIsReached ==
    ASSUME CMInv, NEW p \in Pcbs, NEW h \in Holders, NEW state, NEW port,
           pcb' = [pcb EXCEPT ![p] = NewPcb(state, h, port)]
    PROVE  Reached => Reached'
<1>1. \A q \in Pcbs : pcb'[q] = IF q = p THEN NewPcb(state, h, port) ELSE pcb[q]
  BY DEF CMInv, CMTypeOK
<1>2. NewPcb(state, h, port).arg # NULL
  BY NullAssumption DEF NewPcb
<1> QED BY <1>1, <1>2 DEF Reached

\* acceptFunc(), for a holder nobody has a reference to.
LEMMA acceptFuncStep ==
    ASSUME CMInv, NEW p \in Pcbs, NEW h \in Holders, NEW port \in Ports,
           ~Listed(h), acceptFunc(p, h, port)
    PROVE  CMInv' /\ (Reached => Reached')
BY AddingStep, AddedIsReached, ZenonT(60) DEF acceptFunc

\* recvFunc(), on every path.
LEMMA recvFuncStep ==
    ASSUME CMInv, NEW p \in Pcbs, NEW n \in 0..MaxBytes, NEW fin \in BOOLEAN,
           recvFunc(p, n, fin)
    PROVE  CMInv' /\ (Reached => Reached')
<1> DEFINE h    == pcb[p].arg
           data == NextBytes(h, n)
           next == IF fin THEN FinReceived(pcb[p].state) ELSE {pcb[p].state}
<1>1. /\ h \in Holders /\ holder[h].state = p /\ holder[h] \in HolderRecord
      /\ Consistent(holder[h]) /\ pcb[p] \in PcbRecord /\ p # NULL
      /\ hist[h] \in HistRecord
  BY CMInvFacts, NullAssumption, ZenonT(60) DEF recvFunc, CMInv, ArgIsOwner
<1>2. n \in Nat /\ data \in Seq(Nat)
  BY <1>1, NextBytesType, WndAssumption
<1>3. \A s \in next : s \in TcpStates /\ (fin => s \in FinStates)
  BY <1>1 DEF FinReceived, PcbRecord, TcpStates, FinStates
<1>4. pcb[p].fin => pcb[p].state \in FinStates
  BY DEF CMInv, FinIsLate
<1>5. pcb[p].arg = h
  OBVIOUS
<1>6. CASE FreeSilently(p) \/ errFunc(p, "user")
  BY <1>6, FreeSilentlyStep, errFuncStep
<1>7. CASE /\ \E s \in next :
                pcb' = [pcb EXCEPT ![p].state = s, ![p].refused = data, ![p].fin = fin]
           /\ holder' = [holder EXCEPT ![h].connected = TRUE]
           /\ hist' = [hist EXCEPT ![h].sent = @ + n]
           /\ UNCHANGED connections_
  <2>1. PICK s \in next :
          pcb' = [pcb EXCEPT ![p].state = s, ![p].refused = data, ![p].fin = fin]
    BY <1>7
  <2> DEFINE r  == [pcb[p] EXCEPT !.state = s, !.refused = data, !.fin = fin]
             hr == [holder[h] EXCEPT !.connected = TRUE]
  <2>2. r \in PcbRecord /\ r.arg = h /\ (r.fin => r.state \in FinStates)
    BY <1>1, <1>2, <1>3 DEF PcbRecord
  <2>3. hr \in HolderRecord /\ Consistent(hr) /\ hr.state = p /\ hr.connected
    BY <1>1 DEF HolderRecord, Consistent
  <2>4. pcb' = [pcb EXCEPT ![p] = r] /\ holder' = [holder EXCEPT ![h] = hr]
    BY <1>7, <2>1 DEF CMInv, CMTypeOK
  <2>5. hist' \in [Holders -> HistRecord]
    BY <1>1, <1>2, <1>7, HistType
  <2> HIDE DEF h, r, hr
  <2> QED BY <1>1, <1>5, <1>7, <2>2, <2>3, <2>4, <2>5, HolderStep, ZenonT(60)
<1>8. CASE /\ Fits(holder[h], data)
           /\ holder' = [holder EXCEPT ![h] = HolderReceived(@, data)]
           /\ hist' = [hist EXCEPT ![h].sent = @ + n]
           /\ UNCHANGED <<pcb, connections_>>
  <2> DEFINE hr == HolderReceived(holder[h], data)
             r  == pcb[p]
  <2>1. hr \in HolderRecord /\ Consistent(hr) /\ hr.state = p /\ hr.connected
    BY <1>1, <1>2, <1>8, HolderReceivedType
  <2>2. pcb' = [pcb EXCEPT ![p] = r] /\ holder' = [holder EXCEPT ![h] = hr]
    BY <1>8 DEF CMInv, CMTypeOK
  <2>3. hist' \in [Holders -> HistRecord]
    BY <1>1, <1>2, <1>8, HistType
  <2>4. r \in PcbRecord /\ r.arg = h /\ (r.fin => r.state \in FinStates)
    BY <1>1, <1>4
  <2>5. UNCHANGED connections_
    BY <1>8
  <2> HIDE DEF h, hr, r
  <2> QED BY <1>1, <1>5, <2>1, <2>2, <2>3, <2>4, <2>5, HolderStep
<1>9. CASE /\ fin /\ (n = 0 \/ Fits(holder[h], data))
           /\ holder' = [holder EXCEPT ![h] =
                HolderClosed(IF n = 0 THEN @ ELSE HolderReceived(@, data))]
           /\ Detach(h)
           /\ hist' = [hist EXCEPT ![h].sent = @ + n, ![h].end = "fin"]
           /\ \E s \in next :
                pcb' = [pcb EXCEPT ![p] = Closed(NoArg([@ EXCEPT !.state = s]))]
  <2>1. PICK s \in next : pcb' = [pcb EXCEPT ![p] = Closed(NoArg([@ EXCEPT !.state = s]))]
    BY <1>9
  <2> DEFINE r0 == [pcb[p] EXCEPT !.state = s]
             r  == Closed(NoArg(r0))
             h0 == IF n = 0 THEN holder[h] ELSE HolderReceived(holder[h], data)
             hr == HolderClosed(h0)
  <2>2. r0 \in PcbRecord /\ r0.state \in FinStates /\ r0.refused = <<>>
    BY <1>1, <1>3, <1>9, <2>1 DEF PcbRecord, recvFunc
  <2>3. /\ r \in PcbRecord /\ r.arg = NULL /\ (r.fin => r.state \in FinStates)
        /\ ~MayCallBack(r)
    BY <2>2, NoArgPcb, ClosedPcb, ZenonT(60)
  <2>4. h0 \in HolderRecord /\ Consistent(h0)
    BY <1>1, <1>2, <1>9, HolderReceivedType
  <2>5. hr \in HolderRecord /\ Consistent(hr) /\ hr.state = NULL
    BY <2>4, HolderClosedType
  <2>6. pcb' = [pcb EXCEPT ![p] = r] /\ holder' = [holder EXCEPT ![h] = hr]
    BY <1>9, <2>1
  <2>7. hist' \in [Holders -> HistRecord]
    BY <1>1, <1>2, <1>9, HistType
  <2> HIDE DEF h, r, hr
  <2>8. CMInv'
    BY <1>1, <1>9, <2>3, <2>5, <2>6, <2>7, ClosingStep
  <2>9. \A q \in Pcbs : pcb'[q] = IF q = p THEN r ELSE pcb[q]
    BY <2>6 DEF CMInv, CMTypeOK
  <2> QED BY <2>3, <2>8, <2>9 DEF Reached
<1> QED BY <1>6, <1>7, <1>8, <1>9, ZenonT(60) DEF recvFunc

\* recvFunc() again with what it refused.
LEMMA recvFuncRetryStep ==
    ASSUME CMInv, NEW p \in Pcbs, recvFuncRetry(p)
    PROVE  CMInv' /\ (Reached => Reached')
<1> DEFINE h  == pcb[p].arg
           h0 == HolderReceived(holder[h], pcb[p].refused)
<1>1. /\ h \in Holders /\ holder[h].state = p /\ holder[h] \in HolderRecord
      /\ Consistent(holder[h]) /\ pcb[p] \in PcbRecord /\ p # NULL
      /\ hist[h] \in HistRecord
  BY CMInvFacts, NullAssumption DEF recvFuncRetry, CMInv, ArgIsOwner
<1>2. pcb[p].refused \in Seq(Nat) /\ Fits(holder[h], pcb[p].refused)
  BY <1>1 DEF PcbRecord, recvFuncRetry
<1>3. h0 \in HolderRecord /\ Consistent(h0) /\ h0.state = p /\ h0.connected
  BY <1>1, <1>2, HolderReceivedType
<1>4. pcb[p].fin => pcb[p].state \in FinStates
  BY DEF CMInv, FinIsLate
<1>5. pcb[p].arg = h
  OBVIOUS
<1>6. CASE ~pcb[p].fin
  <2>1. /\ pcb' = [pcb EXCEPT ![p] = Purged(pcb[p])]
        /\ holder' = [holder EXCEPT ![h] = h0]
        /\ UNCHANGED connections_ /\ hist' \in [Holders -> HistRecord]
    BY <1>6 DEF recvFuncRetry, CMInv, CMTypeOK
  <2>2. /\ Purged(pcb[p]) \in PcbRecord /\ Purged(pcb[p]).arg = h /\ ~Purged(pcb[p]).fin
    BY <1>1, PurgedPcb
  <2> HIDE DEF h, h0
  <2> QED BY <1>1, <1>3, <1>5, <2>1, <2>2, HolderStep
<1>7. CASE pcb[p].fin
  <2> DEFINE r  == Closed(NoArg(Purged(pcb[p])))
             hr == HolderClosed(h0)
  <2>1. /\ pcb' = [pcb EXCEPT ![p] = r] /\ holder' = [holder EXCEPT ![h] = hr]
        /\ Detach(h) /\ hist' = [hist EXCEPT ![h].end = "fin"]
    BY <1>7 DEF recvFuncRetry
  <2>2. /\ r \in PcbRecord /\ r.arg = NULL /\ (r.fin => r.state \in FinStates)
        /\ ~MayCallBack(r)
    BY <1>1, <1>4, <1>7, PurgedPcb, NoArgPcb, ClosedPcb
  <2>3. hr \in HolderRecord /\ Consistent(hr) /\ hr.state = NULL
    BY <1>3, HolderClosedType
  <2>4. hist' \in [Holders -> HistRecord]
    BY <1>1, <2>1 DEF CMInv, CMTypeOK, HistRecord
  <2> HIDE DEF h, r, hr
  <2>5. CMInv'
    BY <1>1, <2>1, <2>2, <2>3, <2>4, ClosingStep
  <2>6. \A q \in Pcbs : pcb'[q] = IF q = p THEN r ELSE pcb[q]
    BY <2>1 DEF CMInv, CMTypeOK
  <2> QED BY <2>2, <2>5, <2>6 DEF Reached
<1> QED BY <1>6, <1>7

\* The peer acknowledges our FIN.
LEMMA FinAckedStep ==
    ASSUME CMInv, NEW p \in Pcbs, FinAcked(p)
    PROVE  CMInv' /\ (Reached => Reached')
<1>1. CASE FreeSilently(p)
  BY <1>1, FreeSilentlyStep
<1>2. CASE errFunc(p, "err")
  BY <1>2, errFuncStep
<1>3. CASE /\ pcb[p].state = "CLOSING"
           /\ pcb' = [pcb EXCEPT ![p] = [Purged(@) EXCEPT !.state = "TIME_WAIT"]]
           /\ UNCHANGED <<holder, connections_, hist>>
  <2> DEFINE r == [Purged(pcb[p]) EXCEPT !.state = "TIME_WAIT"]
  <2>1. pcb[p] \in PcbRecord /\ Purged(pcb[p]) \in PcbRecord
    BY CMInvFacts, PurgedPcb
  <2>2. /\ r \in PcbRecord /\ r.arg = pcb[p].arg /\ r.state = "TIME_WAIT"
    BY <2>1, PurgedPcb DEF PcbRecord, TcpStates
  <2>3. ~MayCallBack(r) /\ (r.fin => r.state \in FinStates)
    BY <2>2 DEF MayCallBack, ActiveStates, FinStates
  <2>4. pcb[p].state \notin Quiet
    BY <1>3 DEF Quiet
  <2>5. pcb' = [pcb EXCEPT ![p] = r] /\ hist' \in [Holders -> HistRecord]
    BY <1>3 DEF CMInv, CMTypeOK
  <2> HIDE DEF r
  <2> QED BY <1>3, <2>2, <2>3, <2>4, <2>5, PcbStep
<1> QED BY <1>1, <1>2, <1>3 DEF FinAcked

-----------------------------------------------------------------------------
(* The program's calls: what they do to the connections.                   *)

\* The second half of CallbacksFindHolder.
ReachedUnlessStray == ~strayCall => Reached

\* The half of the inductive invariant that is about the connections.
ConnInv == CMInv /\ ReachedUnlessStray

\* A step that leaves the connections alone.
LEMMA SameConnections ==
    ASSUME ConnInv, UNCHANGED <<cmVars, strayCall>>
    PROVE  ConnInv'
BY DEF ConnInv, ReachedUnlessStray, Reached, CMInv, CMTypeOK, ListIsExact, Listed,
       HolderIsConsistent, ArgIsOwner, FinIsLate, AttemptIsQuiet, cmVars

\* altcp_close() in close(): it keeps the argument, so the PCB reaches its
\* holder if it is the holder's PCB.
LEMMA altcp_closeStep ==
    ASSUME ConnInv, NEW h \in Holders, holder[h].state # NULL, altcp_close(h)
    PROVE  ConnInv'
<1> DEFINE p == holder[h].state
           r == Closed(pcb[p])
<1>1. p \in Pcbs /\ pcb[p] \in PcbRecord /\ CMInv
  BY CMInvFacts DEF ConnInv, HolderRecord
<1>2. /\ r \in PcbRecord /\ r.arg = pcb[p].arg /\ (r.fin => r.state \in FinStates)
      /\ pcb[p].state \in Quiet => r.state \in Quiet
  BY <1>1, ClosedPcb DEF CMInv, FinIsLate, Quiet
<1>3. /\ pcb' = [pcb EXCEPT ![p] = r] /\ UNCHANGED <<holder, connections_>>
      /\ hist' = [hist EXCEPT ![h].end = "user"]
      /\ strayCall' = (strayCall \/ Strays(h))
  BY DEF altcp_close
<1>4. hist' \in [Holders -> HistRecord]
  BY <1>1, <1>3 DEF CMInv, CMTypeOK, HistRecord
<1>5. ~Strays(h) => pcb[p].arg = h /\ h # NULL
  BY NullAssumption DEF Strays
<1> HIDE DEF p, r
<1>6. CMInv' /\ (Reached /\ (MayCallBack(r) => r.arg # NULL) => Reached')
  BY <1>1, <1>2, <1>3, <1>4, PcbStep
<1>7. ReachedUnlessStray'
  BY <1>2, <1>3, <1>5, <1>6 DEF ConnInv, ReachedUnlessStray
<1> QED BY <1>6, <1>7 DEF ConnInv

\* altcp_shutdown() in closeOutput().
LEMMA ShutdownStep ==
    ASSUME ConnInv, NEW h \in Holders, holder[h].state # NULL,
           pcb' = [pcb EXCEPT ![holder[h].state] = ShutdownTx(@)],
           strayCall' = (strayCall \/ Strays(h)),
           UNCHANGED <<holder, connections_, hist>>
    PROVE  ConnInv'
<1> DEFINE p == holder[h].state
           r == ShutdownTx(pcb[p])
<1>1. p \in Pcbs /\ pcb[p] \in PcbRecord /\ CMInv
  BY CMInvFacts DEF ConnInv, HolderRecord
<1>2. /\ r \in PcbRecord /\ r.arg = pcb[p].arg /\ (r.fin => r.state \in FinStates)
      /\ pcb[p].state \in Quiet => r.state \in Quiet
  BY <1>1, ShutdownTxPcb DEF CMInv, FinIsLate, Quiet
<1>3. pcb' = [pcb EXCEPT ![p] = r] /\ hist' \in [Holders -> HistRecord]
  BY <1>1 DEF CMInv, CMTypeOK
<1>4. ~Strays(h) => pcb[p].arg = h /\ h # NULL
  BY NullAssumption DEF Strays
<1> HIDE DEF p, r
<1>5. CMInv' /\ (Reached /\ (MayCallBack(r) => r.arg # NULL) => Reached')
  BY <1>1, <1>2, <1>3, PcbStep
<1>6. ReachedUnlessStray'
  BY <1>2, <1>4, <1>5 DEF ConnInv, ReachedUnlessStray
<1> QED BY <1>5, <1>6 DEF ConnInv

\* altcp_abort() in abort(), whichever holder its error callback goes to.
LEMMA altcp_abortStep ==
    ASSUME ConnInv, NEW h \in Holders, holder[h].state # NULL, altcp_abort(h)
    PROVE  ConnInv'
<1> DEFINE p == holder[h].state
<1>1. p \in Pcbs /\ CMInv
  BY CMInvFacts DEF ConnInv, HolderRecord
<1>2. FreeSilently(p) \/ errFunc(p, "user")
  BY DEF altcp_abort
<1>3. strayCall' = (strayCall \/ Strays(h))
  BY DEF altcp_abort
<1> HIDE DEF p
<1>4. CMInv' /\ (Reached => Reached')
  BY <1>1, <1>2, FreeSilentlyStep, errFuncStep
<1> QED BY <1>3, <1>4 DEF ConnInv, ReachedUnlessStray

\* close() of a pending attempt: unless the PCB has become another
\* connection's, tcp_close() frees it, so that it needs no argument.
LEMMA CloseAttemptStep ==
    ASSUME ConnInv, NEW h \in Holders, holder[h].state # NULL, ~holder[h].connected,
           CloseAttempt(h)
    PROVE  ConnInv'
<1> DEFINE p  == holder[h].state
           r  == NoArg(Closed(pcb[p]))
           hr == StateReset(holder[h])
<1>1. /\ p \in Pcbs /\ pcb[p] \in PcbRecord /\ CMInv
      /\ holder[h] \in HolderRecord /\ Consistent(holder[h])
  BY CMInvFacts DEF ConnInv, HolderRecord
<1>2. r \in PcbRecord /\ r.arg = NULL /\ (r.fin => r.state \in FinStates)
  BY <1>1, ClosedPcb, NoArgPcb DEF CMInv, FinIsLate
<1>3. hr \in HolderRecord /\ hr.state = NULL
  <2>1. 0 \in 0..TCP_WND
    BY WndAssumption
  <2> QED BY <1>1, <2>1, EmptySeq DEF StateReset, HolderRecord
<1>4. Consistent(hr)
  <2>1. /\ hr.buf = <<>> /\ hr.bufPos = 0 /\ hr.remaining = <<>> /\ ~hr.connected
    BY <1>1 DEF StateReset, HolderRecord, Consistent
  <2> QED BY <2>1, EmptySeq, WndAssumption DEF Consistent
<1>5. /\ pcb' = [pcb EXCEPT ![p] = r] /\ holder' = [holder EXCEPT ![h] = hr]
      /\ Detach(h) /\ hist' = [hist EXCEPT ![h].end = "user"]
      /\ strayCall' = (strayCall \/ Strays(h))
  BY DEF CloseAttempt
<1>6. hist' \in [Holders -> HistRecord]
  BY <1>1, <1>5 DEF CMInv, CMTypeOK, HistRecord
<1>7. ~Strays(h) => ~MayCallBack(r)
  <2> SUFFICES ASSUME ~Strays(h) PROVE ~MayCallBack(r)
    OBVIOUS
  <2>1. pcb[p].arg = h /\ pcb[p].state \notin {"FREE", "FREED_TWICE"}
    BY DEF Strays
  <2>2. pcb[p].state = "SYN_SENT"
    BY <1>1, <2>1, NullAssumption DEF CMInv, AttemptIsQuiet, Quiet
  <2> QED BY <1>1, <2>2, ClosedPcb, NoArgPcb
<1>8. holder[h].state = p
  OBVIOUS
<1> HIDE DEF p, r, hr
<1>9. CMInv'
  BY <1>1, <1>2, <1>3, <1>4, <1>5, <1>6, <1>8, ClosingStep
<1>10. \A q \in Pcbs : pcb'[q] = IF q = p THEN r ELSE pcb[q]
  BY <1>1, <1>5 DEF CMInv, CMTypeOK
<1>11. ReachedUnlessStray'
  BY <1>5, <1>7, <1>10 DEF ConnInv, ReachedUnlessStray, Reached
<1> QED BY <1>9, <1>11 DEF ConnInv

\* Reading, and accept()'s mark, change one holder and nothing else.
LEMMA HolderOnlyStep ==
    ASSUME ConnInv, NEW h \in Holders, NEW hr \in HolderRecord, Consistent(hr),
           hr.state = holder[h].state, hr.connected = holder[h].connected,
           holder' = [holder EXCEPT ![h] = hr],
           hist' \in [Holders -> HistRecord],
           UNCHANGED <<pcb, connections_, strayCall>>
    PROVE  ConnInv'
<1>1. CMInv
  BY DEF ConnInv
<1>2. \A g \in Holders : holder'[g] = IF g = h THEN hr ELSE holder[g]
  BY <1>1 DEF CMInv, CMTypeOK
<1>3. /\ pcb' \in [Pcbs -> PcbRecord] /\ holder' \in [Holders -> HolderRecord]
      /\ \A q \in Pcbs : pcb'[q].fin => pcb'[q].state \in FinStates
  BY <1>1 DEF CMInv, CMTypeOK, FinIsLate
<1>4. /\ \A g \in Holders : holder'[g].state = holder[g].state
      /\ \A g \in Holders : holder[g].connected => holder'[g].connected
      /\ \A g \in Holders : Consistent(holder'[g])
  BY <1>1, <1>2, CMInvFacts
<1>5. CMInv'
  BY <1>1, <1>3, <1>4, StableStep
<1> QED BY <1>5 DEF ConnInv, ReachedUnlessStray, Reached

\* A piece of a buffer is a sequence of bytes.
LEMMA PieceType ==
    ASSUME NEW s \in Seq(Nat), NEW from \in Nat, NEW to \in Nat, to <= Len(s)
    PROVE  SubSeq(s, from + 1, to) \in Seq(Nat)
<1>1. Len(s) \in Nat /\ \A i \in 1..Len(s) : s[i] \in Nat
  OBVIOUS
<1> QED BY <1>1

\* What the program reads is added to what it has read.
LEMMA GotType ==
    ASSUME ConnInv, NEW h \in Holders, NEW s \in Seq(Nat)
    PROVE  [hist EXCEPT ![h].got = @ \o s] \in [Holders -> HistRecord]
<1>1. hist \in [Holders -> HistRecord] /\ hist[h] \in HistRecord
  BY CMInvFacts DEF ConnInv, CMInv, CMTypeOK
<1>2. hist[h].got \o s \in Seq(Nat)
  BY <1>1 DEF HistRecord
<1> DEFINE g == hist[h].got \o s
<1> HIDE DEF g
<1>3. [hist[h] EXCEPT !.got = g] \in HistRecord
  BY <1>1, <1>2 DEF HistRecord, g
<1> QED BY <1>1, <1>3 DEF g

\* read() from the remaining buffer.
LEMMA readRemainingStep ==
    ASSUME ConnInv, NEW c \in Clients, NEW size \in 1..MaxBytes,
           conn(c) \in Holders, readRemaining(c, size)
    PROVE  ConnInv'
<1> DEFINE h   == conn(c)
           rem == holder[h].remaining
           pos == holder[h].remainingPos
           to  == IF size < Len(rem) - pos THEN pos + size ELSE Len(rem)
           newRem == IF to >= Len(rem) THEN <<>> ELSE rem
           newPos == IF to >= Len(rem) THEN 0 ELSE to
           hr  == [holder[h] EXCEPT !.remaining = newRem, !.remainingPos = newPos]
<1>1. CMInv /\ holder[h] \in HolderRecord /\ Consistent(holder[h]) /\ rem # <<>>
  BY CMInvFacts DEF ConnInv, readRemaining
<1>2. /\ rem \in Seq(Nat) /\ pos \in Nat /\ pos < Len(rem) /\ size \in Nat
      /\ Len(rem) \in Nat
  BY <1>1, WndAssumption DEF HolderRecord, Consistent
<1>3. to \in Nat /\ to <= Len(rem)
  BY <1>2, SMTT(40)
<1>4. SubSeq(rem, pos + 1, to) \in Seq(Nat)
  BY <1>2, <1>3, PieceType
<1>5. hist' = [hist EXCEPT ![h].got = @ \o SubSeq(rem, pos + 1, to)]
  BY DEF readRemaining
<1>6. hist' \in [Holders -> HistRecord]
  BY <1>4, <1>5, GotType
<1>7. newRem \in Seq(Nat) /\ newPos \in Nat /\ (newRem # <<>> => newPos < Len(newRem))
  BY <1>2, <1>3, EmptySeq
<1>8. /\ holder' = [holder EXCEPT ![h] = hr]
      /\ UNCHANGED <<pcb, connections_, strayCall>>
  BY <1>1 DEF readRemaining, CMInv, CMTypeOK
<1> HIDE DEF h, newRem, newPos
<1>9. hr \in HolderRecord /\ hr.state = holder[h].state /\ hr.connected = holder[h].connected
  BY <1>1, <1>7 DEF HolderRecord
<1>10. hr.remaining = newRem /\ hr.remainingPos = newPos /\ hr.buf = holder[h].buf
       /\ hr.bufPos = holder[h].bufPos
  BY <1>1 DEF HolderRecord
<1>11. Consistent(hr)
  BY <1>1, <1>7, <1>9, <1>10 DEF Consistent
<1>12. h \in Holders
  BY DEF h
<1> HIDE DEF hr
<1> QED BY <1>6, <1>8, <1>9, <1>11, <1>12, HolderOnlyStep

\* read() from the buffer of the connection's state.
LEMMA readEndStep ==
    ASSUME ConnInv, NEW size \in 1..MaxBytes, conn(call.c) \in Holders, readEnd(size)
    PROVE  ConnInv'
<1> DEFINE h   == conn(call.c)
           buf == holder[h].buf
           pos == holder[h].bufPos
           to  == IF size < Len(buf) - pos THEN pos + size ELSE Len(buf)
           hr  == [holder[h] EXCEPT !.bufPos = to]
<1>1. CMInv /\ holder[h] \in HolderRecord /\ Consistent(holder[h])
  BY CMInvFacts DEF ConnInv
<1>2. CASE UNCHANGED <<hist, holder>>
  BY <1>2, SameConnections DEF readEnd, cmVars
<1>3. CASE /\ hist' = [hist EXCEPT ![h].got = @ \o SubSeq(buf, pos + 1, to)]
           /\ holder' = [holder EXCEPT ![h].bufPos = to]
  <2>1. /\ buf \in Seq(Nat) /\ pos \in Nat /\ pos <= Len(buf) /\ size \in Nat
        /\ Len(buf) \in Nat /\ Len(buf) <= TCP_WND
    BY <1>1, WndAssumption DEF HolderRecord, Consistent
  <2>2. to \in Nat /\ to <= Len(buf) /\ to \in 0..TCP_WND
    <3>1. to \in Nat /\ to <= Len(buf)
      BY <2>1, SMTT(40)
    <3> HIDE DEF to, buf
    <3> QED BY <2>1, <3>1, WndAssumption
  <2>3. SubSeq(buf, pos + 1, to) \in Seq(Nat)
    BY <2>1, <2>2, PieceType
  <2>4. hist' \in [Holders -> HistRecord]
    BY <1>3, <2>3, GotType
  <2>5. holder' = [holder EXCEPT ![h] = hr] /\ UNCHANGED <<pcb, connections_, strayCall>>
    BY <1>1, <1>3 DEF readEnd, CMInv, CMTypeOK
  <2> HIDE DEF h, to
  <2>6. hr \in HolderRecord /\ hr.state = holder[h].state /\ hr.connected = holder[h].connected
    BY <1>1, <2>2 DEF HolderRecord
  <2>7. hr.remaining = holder[h].remaining /\ hr.remainingPos = holder[h].remainingPos
        /\ hr.buf = buf /\ hr.bufPos = to
    BY <1>1 DEF HolderRecord
  <2>8. Consistent(hr)
    BY <1>1, <2>1, <2>2, <2>6, <2>7 DEF Consistent
  <2>9. h \in Holders
    BY DEF h
  <2> HIDE DEF hr
  <2> QED BY <2>4, <2>5, <2>6, <2>8, <2>9, HolderOnlyStep
<1> QED BY <1>2, <1>3 DEF readEnd

\* accept() marks the connection.
LEMMA acceptEndStep ==
    ASSUME ConnInv, call.h \in Holders, acceptEnd
    PROVE  ConnInv'
<1> DEFINE h  == call.h
           hr == [holder[h] EXCEPT !.accepted = TRUE]
<1>1. CMInv /\ holder[h] \in HolderRecord /\ Consistent(holder[h])
  BY CMInvFacts DEF ConnInv
<1>2. /\ holder' = [holder EXCEPT ![h] = hr]
      /\ UNCHANGED <<pcb, connections_, strayCall>>
      /\ hist' \in [Holders -> HistRecord]
  BY <1>1 DEF acceptEnd, ReturnClient, CMInv, CMTypeOK
<1>3. /\ hr \in HolderRecord /\ Consistent(hr)
      /\ hr.state = holder[h].state /\ hr.connected = holder[h].connected
  BY <1>1 DEF HolderRecord, Consistent
<1> HIDE DEF hr
<1> QED BY <1>2, <1>3, HolderOnlyStep

-----------------------------------------------------------------------------
(* The program's calls: what they do to its objects.                       *)

ClientRecord == [conn_ : Holders \cup {NULL}, pendingConnect_ : BOOLEAN]

CallRecord == [op : Ops, c : Clients \cup {NULL}, h : Holders \cup {NULL},
               next : {"none", "connect", "connectNoWait"}]

\* The calls that look at their client's connection again after the loop.
ConnOps == {"close", "stop", "stopWait", "connectWait", "closeOutput", "read"}

\* The other half of the inductive invariant: a call that is inside the loop has
\* its client and the connection it will use.
ProgInv ==
    /\ client \in [Clients -> ClientRecord]
    /\ listeningPort_ \in Ports \cup {NULL}
    /\ call \in CallRecord
    /\ strayCall \in BOOLEAN
    /\ call.op # "none" => call.c \in Clients
    /\ call.op \in ConnOps => conn(call.c) \in Holders
    /\ call.op \in {"accept", "available"} => call.h \in Holders

\* A call record and its fields.
LEMMA CallType ==
    ASSUME NEW op \in Ops, NEW c \in Clients \cup {NULL}, NEW h \in Holders \cup {NULL},
           NEW next \in {"none", "connect", "connectNoWait"}
    PROVE  /\ Call(op, c, h, next) \in CallRecord
           /\ Call(op, c, h, next).op = op
           /\ Call(op, c, h, next).c = c
           /\ Call(op, c, h, next).h = h
BY DEF Call, CallRecord

\* Nothing is in the loop.
LEMMA IdleType == Idle \in CallRecord /\ Idle.op = "none"
BY CallType DEF Idle, Ops

\* A client of the program.
LEMMA ClientType ==
    ASSUME ProgInv, NEW c \in Clients
    PROVE  /\ conn(c) # NULL => conn(c) \in Holders
           /\ client[c].pendingConnect_ \in BOOLEAN
           /\ [client EXCEPT ![c].conn_ = NULL] \in [Clients -> ClientRecord]
BY DEF ProgInv, ClientRecord, conn

\* A call that ends, whatever it does to the clients.
LEMMA CallEnds ==
    ASSUME client' \in [Clients -> ClientRecord], call' = Idle,
           listeningPort_' \in Ports \cup {NULL}, strayCall' \in BOOLEAN
    PROVE  ProgInv'
BY IdleType DEF ProgInv, ConnOps

\* A step between calls, or a callback inside one.
LEMMA CallStays ==
    ASSUME ProgInv, UNCHANGED <<client, call>>,
           listeningPort_' \in Ports \cup {NULL}, strayCall' \in BOOLEAN
    PROVE  ProgInv'
BY DEF ProgInv, conn

\* A call goes into the loop, with a client that has a connection if the rest
\* of the call wants one.
LEMMA CallBegins ==
    ASSUME NEW op \in Ops, NEW c \in Clients, NEW h \in Holders \cup {NULL},
           NEW next \in {"none", "connect", "connectNoWait"},
           call' = Call(op, c, h, next),
           client' \in [Clients -> ClientRecord],
           listeningPort_' \in Ports \cup {NULL}, strayCall' \in BOOLEAN,
           op \in ConnOps => client'[c].conn_ \in Holders,
           op \in {"accept", "available"} => h \in Holders
    PROVE  ProgInv'
BY CallType DEF ProgInv, conn

\* The end of close().
LEMMA CloseReturnsStep ==
    ASSUME ProgInv, NEW c \in Clients, NEW next \in {"none", "connect", "connectNoWait"},
           CloseReturns(c, next), UNCHANGED listeningPort_, strayCall' \in BOOLEAN
    PROVE  ProgInv'
<1>1. client' \in [Clients -> ClientRecord] /\ listeningPort_' \in Ports \cup {NULL}
  BY ClientType DEF CloseReturns, DropConn, ProgInv
<1>2. CASE next = "none"
  BY <1>1, <1>2, CallEnds DEF CloseReturns
<1>3. CASE next # "none"
  <2>1. call' = Call(next, c, NULL, "none") /\ next \in Ops /\ next \notin ConnOps
        /\ next \notin {"accept", "available"}
    BY <1>3 DEF CloseReturns, Ops, ConnOps
  <2> QED BY <1>1, <2>1, CallBegins
<1> QED BY <1>2, <1>3

Inv == ConnInv /\ ProgInv

\* altcp_close(), and the end of close() or the wait of stop().
LEMMA CloseConnectedStep ==
    ASSUME Inv, NEW c \in Clients, NEW op \in {"close", "stop"},
           NEW next \in {"none", "connect", "connectNoWait"},
           conn(c) \in Holders, holder[conn(c)].state # NULL,
           CloseConnected(c, op, next), UNCHANGED listeningPort_
    PROVE  Inv'
<1>1. ConnInv'
  BY altcp_closeStep DEF CloseConnected, Inv
<1>2. strayCall' \in BOOLEAN
  BY DEF CloseConnected, altcp_close
<1>3. CASE op = "stop"
  <2>1. /\ call' = Call("stopWait", c, NULL, "none") /\ UNCHANGED client
        /\ client' \in [Clients -> ClientRecord] /\ listeningPort_' \in Ports \cup {NULL}
        /\ client'[c].conn_ \in Holders /\ "stopWait" \in Ops
    BY <1>3 DEF CloseConnected, Inv, ProgInv, conn, Ops
  <2> QED BY <1>1, <1>2, <2>1, CallBegins DEF Inv
<1>4. CASE op # "stop"
  <2>1. CloseReturns(c, next)
    BY <1>4 DEF CloseConnected
  <2> QED BY <1>1, <1>2, <2>1, CloseReturnsStep DEF Inv
<1> QED BY <1>3, <1>4

\* close(), stop(), and the close() inside connect().
LEMMA closeBeginStep ==
    ASSUME Inv, NEW c \in Clients, NEW op \in {"close", "stop"},
           NEW next \in {"none", "connect", "connectNoWait"},
           closeBegin(c, op, next)
    PROVE  Inv'
<1>1. conn(c) \in Holders /\ UNCHANGED listeningPort_
  BY ClientType DEF Inv, closeBegin
<1>2. CASE CloseReturns(c, next) /\ UNCHANGED <<cmVars, strayCall>>
  <2>1. ConnInv'
    BY <1>2, SameConnections DEF Inv
  <2>2. strayCall' \in BOOLEAN
    BY <1>2 DEF Inv, ProgInv
  <2> QED BY <1>1, <1>2, <2>1, <2>2, CloseReturnsStep DEF Inv
<1>3. CASE call' = Call(op, c, NULL, next) /\ UNCHANGED <<cmVars, client, strayCall>>
  <2>1. ConnInv'
    BY <1>3, SameConnections DEF Inv
  <2>2. /\ client' \in [Clients -> ClientRecord] /\ listeningPort_' \in Ports \cup {NULL}
        /\ strayCall' \in BOOLEAN /\ client'[c].conn_ \in Holders
        /\ op \in Ops /\ op \notin {"accept", "available"}
    BY <1>1, <1>3 DEF Inv, ProgInv, conn, Ops
  <2> QED BY <1>3, <2>1, <2>2, CallBegins DEF Inv
<1>4. CASE /\ holder[conn(c)].state # NULL /\ ~holder[conn(c)].connected
           /\ CloseAttempt(conn(c)) /\ CloseReturns(c, next)
  <2>1. ConnInv'
    BY <1>1, <1>4, CloseAttemptStep DEF Inv
  <2>2. strayCall' \in BOOLEAN
    BY <1>4 DEF CloseAttempt
  <2> QED BY <1>1, <1>4, <2>1, <2>2, CloseReturnsStep DEF Inv
<1>5. CASE holder[conn(c)].state # NULL /\ CloseConnected(c, op, next)
  BY <1>1, <1>5, CloseConnectedStep
<1> QED BY <1>2, <1>3, <1>4, <1>5 DEF closeBegin

\* The connection attempt itself.
LEMMA ConnectStartStep ==
    ASSUME Inv, NEW c \in Clients, NEW wait \in BOOLEAN, ConnectStart(c, wait)
    PROVE  Inv'
<1>1. UNCHANGED <<listeningPort_, strayCall>> /\ strayCall' \in BOOLEAN
      /\ listeningPort_' \in Ports \cup {NULL}
  BY DEF ConnectStart, Inv, ProgInv
<1>2. CASE DropConn(c) /\ call' = Idle /\ UNCHANGED cmVars
  <2>1. ConnInv'
    BY <1>1, <1>2, SameConnections DEF Inv
  <2>2. client' \in [Clients -> ClientRecord]
    BY <1>2, ClientType DEF DropConn, Inv
  <2> QED BY <1>1, <1>2, <2>1, <2>2, CallEnds DEF Inv
<1>3. ASSUME NEW p \in Pcbs, NEW h \in Holders,
             pcb[p].state = "FREE", ~Referenced(h),
             pcb' = [pcb EXCEPT ![p] = NewPcb("SYN_SENT", h, NULL)],
             addConnection(h, p, FALSE, TRUE),
             client' = [client EXCEPT ![c] = [conn_ |-> h, pendingConnect_ |-> ~wait]],
             call' = IF wait THEN Call("connectWait", c, NULL, "none") ELSE Idle
      PROVE  Inv'
  <2>1. CMInv /\ ~Listed(h)
    BY <1>3 DEF Inv, ConnInv, Referenced
  <2>2. CMInv' /\ (Reached => Reached')
    BY <1>3, <2>1, AddingStep, AddedIsReached
  <2>3. ConnInv'
    BY <1>1, <2>2 DEF Inv, ConnInv, ReachedUnlessStray
  <2>4. client' \in [Clients -> ClientRecord] /\ client'[c].conn_ \in Holders
    BY <1>3 DEF Inv, ProgInv, ClientRecord
  <2>5. CASE wait
    <3>1. call' = Call("connectWait", c, NULL, "none") /\ "connectWait" \in Ops
      BY <1>3, <2>5 DEF Ops
    <3> QED BY <1>1, <2>3, <2>4, <3>1, CallBegins DEF Inv
  <2>6. CASE ~wait
    BY <1>1, <1>3, <2>3, <2>4, <2>6, CallEnds DEF Inv
  <2> QED BY <2>5, <2>6
<1> QED BY <1>2, <1>3 DEF ConnectStart

-----------------------------------------------------------------------------
(* The theorems.                                                           *)

\* The program starts in the invariant.
LEMMA InitInv == Init => Inv
<1> SUFFICES ASSUME Init PROVE Inv
  OBVIOUS
<1> USE DEF Init, CMInit
<1>1. NewPcb("FREE", NULL, NULL) \in PcbRecord
  BY EmptySeq DEF NewPcb, PcbRecord, TcpStates
<1>2. NewHolder(FALSE, NULL, FALSE) \in HolderRecord
  <2>1. 0 \in 0..TCP_WND
    BY WndAssumption
  <2> QED BY <2>1, EmptySeq DEF NewHolder, HolderRecord
<1>3. NoHist \in HistRecord
  BY EmptySeq DEF NoHist, HistRecord
<1>4. connections_ \in Seq(Holders) /\ Len(connections_) = 0 /\ DOMAIN connections_ = {}
  OBVIOUS
<1>5. CMTypeOK
  BY <1>1, <1>2, <1>3, <1>4 DEF CMTypeOK
<1>6. ListIsExact
  BY <1>4 DEF ListIsExact, Listed, NewHolder
<1>7. HolderIsConsistent
  BY EmptySeq, WndAssumption DEF HolderIsConsistent, NewHolder
<1>8. ArgIsOwner /\ FinIsLate /\ AttemptIsQuiet
  BY DEF ArgIsOwner, FinIsLate, AttemptIsQuiet, NewPcb
<1>9. Reached
  BY DEF Reached, MayCallBack, ActiveStates, NewPcb
<1>10. client \in [Clients -> ClientRecord]
  BY DEF ClientRecord
<1>11. ProgInv
  BY <1>10, IdleType DEF ProgInv, ConnOps
<1> QED BY <1>5, <1>6, <1>7, <1>8, <1>9, <1>11
        DEF Inv, ConnInv, CMInv, ReachedUnlessStray

\* A callback preserves the invariant, in whichever call it comes.
LEMMA CallbackInv == Inv /\ Callback => Inv'
<1> SUFFICES ASSUME Inv, Callback PROVE Inv'
  OBVIOUS
<1>1. CMInv
  BY DEF Inv, ConnInv
<1>2. UNCHANGED <<client, listeningPort_, call, strayCall>>
  BY DEF Callback
<1>3. ProgInv'
  BY <1>2, CallStays DEF Inv, ProgInv
<1>4. PICK p \in Pcbs :
         \/ StackError(p)
         \/ connectedFunc(p)
         \/ AcceptCallback(p)
         \/ \E n \in 0..MaxBytes, fin \in BOOLEAN : recvFunc(p, n, fin)
         \/ recvFuncRetry(p)
         \/ FinAcked(p)
         \/ TimeWaitOver(p)
  BY DEF Callback
<1>5. CMInv' /\ (Reached => Reached')
  <2>1. CASE StackError(p)
    BY <1>1, <2>1, errFuncStep DEF StackError
  <2>2. CASE connectedFunc(p)
    BY <1>1, <2>2, connectedFuncStep
  <2>3. CASE AcceptCallback(p)
    <3>1. listeningPort_ \in Ports
      BY <2>3 DEF AcceptCallback, Inv, ProgInv
    <3>2. PICK h \in Holders : ~Referenced(h) /\ acceptFunc(p, h, listeningPort_)
      BY <2>3 DEF AcceptCallback
    <3> QED BY <1>1, <3>1, <3>2, acceptFuncStep DEF Referenced
  <2>4. CASE \E n \in 0..MaxBytes, fin \in BOOLEAN : recvFunc(p, n, fin)
    BY <1>1, <2>4, recvFuncStep
  <2>5. CASE recvFuncRetry(p)
    BY <1>1, <2>5, recvFuncRetryStep
  <2>6. CASE FinAcked(p)
    BY <1>1, <2>6, FinAckedStep
  <2>7. CASE TimeWaitOver(p)
    BY <1>1, <2>7, FreeSilentlyStep DEF TimeWaitOver
  <2> QED BY <1>4, <2>1, <2>2, <2>3, <2>4, <2>5, <2>6, <2>7
<1> QED BY <1>2, <1>3, <1>5 DEF Inv, ConnInv, ReachedUnlessStray

\* A call of the program preserves the invariant.
LEMMA ProgramInv == Inv /\ Program => Inv'
<1> SUFFICES ASSUME Inv, Program PROVE Inv'
  OBVIOUS
<1>1. ConnInv /\ ProgInv /\ CMInv
  BY DEF Inv, ConnInv
<1>2. listeningPort_ \in Ports \cup {NULL} /\ strayCall \in BOOLEAN
      /\ client \in [Clients -> ClientRecord]
  BY <1>1 DEF ProgInv
<1>3. ASSUME NEW c \in Clients, close(c) \/ stop(c)
      PROVE  Inv'
  BY <1>3, closeBeginStep DEF close, stop
<1>4. ASSUME NEW c \in Clients, closeOutputBegin(c)
      PROVE  Inv'
  <2>1. ConnInv'
    BY <1>1, <1>4, SameConnections DEF closeOutputBegin
  <2>2. /\ call' = Call("closeOutput", c, NULL, "none") /\ "closeOutput" \in Ops
        /\ client' \in [Clients -> ClientRecord] /\ client'[c].conn_ \in Holders
        /\ listeningPort_' \in Ports \cup {NULL} /\ strayCall' \in BOOLEAN
    BY <1>1, <1>2, <1>4, ClientType DEF closeOutputBegin, conn, Ops
  <2> QED BY <2>1, <2>2, CallBegins DEF Inv
<1>5. ASSUME NEW c \in Clients, abort(c)
      PROVE  Inv'
  <2>1. conn(c) \in Holders /\ DropConn(c) /\ UNCHANGED <<listeningPort_, call>>
        /\ call.op = "none"
    BY <1>1, <1>5, ClientType DEF abort
  <2>2. ConnInv' /\ strayCall' \in BOOLEAN
    <3>1. CASE holder[conn(c)].state # NULL
      BY <1>1, <1>5, <2>1, <3>1, altcp_abortStep DEF abort, altcp_abort
    <3>2. CASE holder[conn(c)].state = NULL
      BY <1>1, <1>2, <1>5, <3>2, SameConnections DEF abort
    <3> QED BY <3>1, <3>2
  <2>3. client' \in [Clients -> ClientRecord]
    BY <1>1, <2>1, ClientType DEF DropConn
  <2>4. ProgInv'
    BY <1>1, <1>2, <2>1, <2>2, <2>3 DEF ProgInv, ConnOps
  <2> QED BY <2>2, <2>4 DEF Inv
<1>6. ASSUME NEW c \in Clients, destroy(c) \/ pollClosed(c)
      PROVE  Inv'
  <2>1. /\ DropConn(c) /\ UNCHANGED <<cmVars, listeningPort_, call, strayCall>>
        /\ call.op = "none"
    BY <1>6 DEF destroy, pollClosed
  <2>2. ConnInv'
    BY <1>1, <2>1, SameConnections
  <2>3. client' \in [Clients -> ClientRecord]
    BY <1>1, <2>1, ClientType DEF DropConn
  <2>4. ProgInv'
    BY <1>1, <1>2, <2>1, <2>3 DEF ProgInv, ConnOps
  <2> QED BY <2>2, <2>4 DEF Inv
<1>7. ASSUME NEW c \in Clients, NEW wait \in BOOLEAN, connect(c, wait)
      PROVE  Inv'
  BY <1>7, ConnectStartStep, closeBeginStep DEF connect
<1>8. ASSUME NEW c \in Clients, watchPendingConnect(c)
      PROVE  Inv'
  <2>1. UNCHANGED <<cmVars, listeningPort_, call, strayCall>> /\ call.op = "none"
        /\ conn(c) \in Holders
    BY <1>1, <1>8, ClientType DEF watchPendingConnect
  <2>2. ConnInv'
    BY <1>1, <2>1, SameConnections
  <2>3. client' \in [Clients -> ClientRecord]
    <3>1. CASE DropConn(c)
      BY <1>1, <3>1, ClientType DEF DropConn
    <3>2. CASE client' = [client EXCEPT ![c].pendingConnect_ = ~holder[conn(c)].connected]
      BY <1>2, <3>2 DEF ClientRecord
    <3> QED BY <1>8, <3>1, <3>2 DEF watchPendingConnect
  <2>4. ProgInv'
    BY <1>1, <1>2, <2>1, <2>3 DEF ProgInv, ConnOps
  <2> QED BY <2>2, <2>4 DEF Inv
<1>9. ASSUME NEW c \in Clients, readBegin(c)
      PROVE  Inv'
  <2>1. ConnInv'
    BY <1>1, <1>9, SameConnections DEF readBegin
  <2>2. /\ call' = Call("read", c, NULL, "none") /\ "read" \in Ops
        /\ client' \in [Clients -> ClientRecord] /\ client'[c].conn_ \in Holders
        /\ listeningPort_' \in Ports \cup {NULL} /\ strayCall' \in BOOLEAN
    BY <1>1, <1>2, <1>9, ClientType DEF readBegin, conn, Ops
  <2> QED BY <2>1, <2>2, CallBegins DEF Inv
<1>10. ASSUME NEW c \in Clients, NEW size \in 1..MaxBytes, readRemaining(c, size)
       PROVE  Inv'
  <2>1. conn(c) \in Holders
    BY <1>1, <1>10, ClientType DEF readRemaining
  <2>2. ConnInv'
    BY <1>1, <1>10, <2>1, readRemainingStep
  <2>3. ProgInv'
    BY <1>1, <1>2, <1>10, CallStays DEF readRemaining
  <2> QED BY <2>2, <2>3 DEF Inv
<1>11. ASSUME NEW c \in Clients, NEW h \in Holders, acceptBegin(c, h) \/ availableBegin(c, h)
       PROVE  Inv'
  <2>1. ConnInv'
    BY <1>1, <1>11, SameConnections DEF acceptBegin, availableBegin
  <2>2. PICK op \in {"accept", "available"} : call' = Call(op, c, h, "none")
    BY <1>11 DEF acceptBegin, availableBegin
  <2>3. /\ client' \in [Clients -> ClientRecord] /\ op \in Ops /\ op \notin ConnOps
        /\ listeningPort_' \in Ports \cup {NULL} /\ strayCall' \in BOOLEAN
    BY <1>2, <1>11 DEF acceptBegin, availableBegin, Ops, ConnOps
  <2> QED BY <2>1, <2>2, <2>3, CallBegins DEF Inv
<1>12. CASE closeEnd
  <2>1. /\ call.c \in Clients /\ conn(call.c) \in Holders /\ call.op \in {"close", "stop"}
        /\ call.next \in {"none", "connect", "connectNoWait"} /\ UNCHANGED listeningPort_
    BY <1>1, <1>12 DEF closeEnd, ProgInv, ConnOps, CallRecord
  <2>2. CASE holder[conn(call.c)].state # NULL
    BY <1>12, <2>1, <2>2, CloseConnectedStep DEF closeEnd
  <2>3. CASE holder[conn(call.c)].state = NULL
    <3>1. CloseReturns(call.c, call.next) /\ UNCHANGED <<cmVars, strayCall>>
      BY <1>12, <2>3 DEF closeEnd
    <3>2. ConnInv'
      BY <1>1, <3>1, SameConnections
    <3> QED BY <1>1, <1>2, <2>1, <3>1, <3>2, CloseReturnsStep DEF Inv
  <2> QED BY <2>2, <2>3
<1>13. CASE stopWaitEnd \/ connectTimesOut
  <2>1. /\ call.c \in Clients /\ CloseReturns(call.c, "none")
        /\ UNCHANGED <<cmVars, listeningPort_, strayCall>>
    BY <1>1, <1>13 DEF stopWaitEnd, connectTimesOut, ProgInv
  <2>2. ConnInv'
    BY <1>1, <2>1, SameConnections
  <2> QED BY <1>1, <1>2, <2>1, <2>2, CloseReturnsStep DEF Inv
<1>14. CASE closeOutputEnd
  <2>1. conn(call.c) \in Holders
    BY <1>1, <1>14 DEF closeOutputEnd, ProgInv, ConnOps
  <2>2. CASE holder[conn(call.c)].state # NULL
    <3>1. ConnInv'
      BY <1>1, <1>14, <2>1, <2>2, ShutdownStep DEF closeOutputEnd
    <3>2. ProgInv'
      BY <1>2, <1>14, <2>2, CallEnds DEF closeOutputEnd
    <3> QED BY <3>1, <3>2 DEF Inv
  <2>3. CASE holder[conn(call.c)].state = NULL
    <3>1. ConnInv'
      BY <1>1, <1>14, <2>3, SameConnections DEF closeOutputEnd, cmVars
    <3>2. ProgInv'
      BY <1>2, <1>14, <2>3, CallEnds DEF closeOutputEnd
    <3> QED BY <3>1, <3>2 DEF Inv
  <2> QED BY <2>2, <2>3
<1>15. CASE connectAfterClose
  <2>1. call.c \in Clients /\ (call.op = "connect") \in BOOLEAN
    BY <1>1, <1>15 DEF connectAfterClose, ProgInv
  <2> QED BY <1>15, <2>1, ConnectStartStep DEF connectAfterClose
<1>16. CASE connectReturns
  <2>1. ConnInv'
    BY <1>1, <1>16, SameConnections DEF connectReturns
  <2>2. ProgInv'
    BY <1>2, <1>16, CallEnds DEF connectReturns
  <2> QED BY <2>1, <2>2 DEF Inv
<1>17. ASSUME NEW size \in 1..MaxBytes, readEnd(size)
       PROVE  Inv'
  <2>1. conn(call.c) \in Holders
    BY <1>1, <1>17 DEF readEnd, ProgInv, ConnOps
  <2>2. ConnInv'
    BY <1>1, <1>17, <2>1, readEndStep
  <2>3. ProgInv'
    BY <1>2, <1>17, CallEnds DEF readEnd
  <2> QED BY <2>2, <2>3 DEF Inv
<1>18. CASE acceptEnd \/ availableEnd
  <2>1. call.h \in Holders /\ call.c \in Clients
    BY <1>1, <1>18 DEF acceptEnd, availableEnd, ProgInv
  <2>2. ConnInv'
    <3>1. CASE acceptEnd
      BY <1>1, <2>1, <3>1, acceptEndStep
    <3>2. CASE availableEnd
      BY <1>1, <3>2, SameConnections DEF availableEnd, ReturnClient, cmVars
    <3> QED BY <1>18, <3>1, <3>2
  <2>3. ReturnClient
    BY <1>18 DEF acceptEnd, availableEnd
  <2>4. client' \in [Clients -> ClientRecord]
    BY <1>2, <2>1, <2>3 DEF ReturnClient, ClientRecord
  <2>5. ProgInv'
    BY <1>2, <2>3, <2>4, CallEnds DEF ReturnClient
  <2> QED BY <2>2, <2>5 DEF Inv
<1>19. CASE (\E port \in Ports : begin(port)) \/ end
  <2>1. /\ UNCHANGED <<cmVars, client, call, strayCall>>
        /\ listeningPort_' \in Ports \cup {NULL}
    BY <1>19 DEF begin, end
  <2>2. ConnInv'
    BY <1>1, <2>1, SameConnections
  <2>3. ProgInv'
    BY <1>1, <1>2, <2>1, CallStays
  <2> QED BY <2>2, <2>3 DEF Inv
<1> QED BY <1>3, <1>4, <1>5, <1>6, <1>7, <1>8, <1>9, <1>10, <1>11, <1>12, <1>13, <1>14,
           <1>15, <1>16, <1>17, <1>18, <1>19 DEF Program

\* The invariant implies the properties.
LEMMA InvImplies == Inv => TypeOK /\ ListIsExact /\ CallbacksFindHolder /\ HolderIsConsistent
<1> SUFFICES ASSUME Inv PROVE TypeOK /\ ListIsExact /\ CallbacksFindHolder /\ HolderIsConsistent
  OBVIOUS
<1>1. CMInv /\ ProgInv /\ ReachedUnlessStray
  BY DEF Inv, ConnInv
<1>2. TypeOK
  BY <1>1 DEF CMInv, CMTypeOK, ProgInv, ClientRecord, CallRecord, TypeOK
<1>3. CallbacksFindHolder
  BY <1>1 DEF CMInv, ArgIsOwner, ReachedUnlessStray, Reached, CallbacksFindHolder
<1> QED BY <1>1, <1>2, <1>3 DEF CMInv

\* Every step keeps the invariant.
LEMMA NextInv == Inv /\ [Next]_vars => Inv'
<1>1. Inv /\ UNCHANGED vars => Inv'
  <2> SUFFICES ASSUME Inv, UNCHANGED vars PROVE Inv'
    OBVIOUS
  <2>1. ConnInv'
    BY SameConnections DEF Inv, vars, cmVars
  <2>2. ProgInv'
    BY CallStays DEF Inv, ProgInv, vars
  <2> QED BY <2>1, <2>2 DEF Inv
<1> QED BY <1>1, CallbackInv, ProgramInv DEF Next

\* The inductive invariant holds in every reachable state.
THEOREM Invariance == Spec => []Inv
<1>1. Init => Inv
  BY InitInv
<1>2. Inv /\ [Next]_vars => Inv'
  BY NextInv
<1> QED BY <1>1, <1>2, PTL DEF Spec

\* Every variable keeps its type, whatever the numbers of PCBs, holders and
\* clients, the size of the window and the length of the streams.
THEOREM TypeCorrect == Spec => []TypeOK
BY Invariance, InvImplies, PTL

\* ConnectionManager's list is exactly the holders that have a state, each once.
THEOREM ListCorrect == Spec => []ListIsExact
BY Invariance, InvImplies, PTL

\* No callback of the stack finds a holder other than the PCB's owner, and none
\* finds a null argument as long as no call has strayed to a reused PCB.
THEOREM CallbacksCorrect == Spec => []CallbacksFindHolder
BY Invariance, InvImplies, PTL

\* A holder's buffers keep within their capacity, and a holder has remaining data
\* only after its connection has ended.
THEOREM HoldersCorrect == Spec => []HolderIsConsistent
BY Invariance, InvImplies, PTL

-----------------------------------------------------------------------------
(* The stream.  What the program has read and can still read, as a value   *)
(* of a holder's record and its history.                                   *)

Counts(s) == \A i \in 1..Len(s) : s[i] = i

ToRead(hr) ==
    IF hr.remaining # <<>>
    THEN SubSeq(hr.remaining, hr.remainingPos + 1, Len(hr.remaining))
    ELSE Unread(hr)

InOrder(hs, hr) == hs.got \o ToRead(hr)

\* What the program sees is the beginning of the stream, and all of it when
\* the peer has closed, after which the holder never has a state again.  The
\* buffer goes with the state: nothing comes after what remained.
Ordered(hs, hr) ==
    /\ hr.state = NULL => hr.buf = <<>>
    /\ Counts(InOrder(hs, hr))
    /\ Len(InOrder(hs, hr)) <= hs.sent
    /\ hs.end = "fin" => Len(InOrder(hs, hr)) = hs.sent /\ hr.state = NULL

\* The refused data of a PCB that can still deliver it is the rest of the stream.
Follows(hs, hr, r) ==
    r.state \in ActiveStates =>
        /\ Len(InOrder(hs, hr)) + Len(r.refused) = hs.sent
        /\ \A i \in 1..Len(r.refused) : r.refused[i] = Len(InOrder(hs, hr)) + i

StreamInv ==
    \A h \in Holders :
        /\ Ordered(hist[h], holder[h])
        /\ \A p \in Pcbs : pcb[p].arg = h => Follows(hist[h], holder[h], pcb[p])

\* A sequence that counts from one is the beginning of the stream.
LEMMA CountsIsFirst ==
    ASSUME NEW s \in Seq(Nat), Counts(s)
    PROVE  s = FirstBytes(Len(s))
<1>1. Len(s) \in Nat /\ DOMAIN s = 1..Len(s) /\ s = [i \in 1..Len(s) |-> s[i]]
  OBVIOUS
<1>2. \A i \in 1..Len(s) : s[i] = i
  BY DEF Counts
<1> QED BY <1>1, <1>2 DEF FirstBytes

\* A piece that continues the count, put behind a sequence that counts.
LEMMA CountsOn ==
    ASSUME NEW s \in Seq(Nat), NEW t \in Seq(Nat), Counts(s),
           \A i \in 1..Len(t) : t[i] = Len(s) + i
    PROVE  Counts(s \o t)
<1>1. Len(s) \in Nat /\ Len(t) \in Nat /\ Len(s \o t) = Len(s) + Len(t)
  OBVIOUS
<1>2. ASSUME NEW i \in 1..Len(s \o t) PROVE (s \o t)[i] = i
  <2>1. CASE i <= Len(s)
    <3>1. i \in 1..Len(s) /\ (s \o t)[i] = s[i]
      BY <1>1, <2>1
    <3> QED BY <3>1 DEF Counts
  <2>2. CASE i > Len(s)
    <3>1. i - Len(s) \in 1..Len(t) /\ (s \o t)[i] = t[i - Len(s)]
      BY <1>1, <2>2
    <3> QED BY <1>1, <3>1
  <2> QED BY <1>1, <2>1, <2>2
<1> QED BY <1>2 DEF Counts

\* The front of a sequence that counts does.
LEMMA CountsFront ==
    ASSUME NEW s \in Seq(Nat), NEW t \in Seq(Nat), Counts(s \o t)
    PROVE  Counts(s)
<1>1. Len(s) \in Nat /\ Len(t) \in Nat /\ Len(s \o t) = Len(s) + Len(t)
  OBVIOUS
<1>2. ASSUME NEW i \in 1..Len(s) PROVE s[i] = i
  <2>1. i \in 1..Len(s \o t) /\ (s \o t)[i] = s[i]
    BY <1>1
  <2> QED BY <2>1 DEF Counts
<1> QED BY <1>2 DEF Counts

\* Reading moves the border between what was read and what was not.
LEMMA ConcatAssoc ==
    ASSUME NEW a \in Seq(Nat), NEW b \in Seq(Nat), NEW c \in Seq(Nat)
    PROVE  (a \o b) \o c = a \o (b \o c)
<1>1. Len(a) \in Nat /\ Len(b) \in Nat /\ Len(c) \in Nat
  OBVIOUS
<1> DEFINE x == (a \o b) \o c
           y == a \o (b \o c)
<1>2. x \in Seq(Nat) /\ y \in Seq(Nat) /\ Len(x) = Len(y)
  BY <1>1
<1>3. ASSUME NEW i \in 1..Len(x) PROVE x[i] = y[i]
  <2>1. CASE i <= Len(a)
    BY <1>1, <2>1
  <2>2. CASE Len(a) < i /\ i <= Len(a) + Len(b)
    BY <1>1, <2>2
  <2>3. CASE Len(a) + Len(b) < i
    BY <1>1, <2>3, SMTT(40)
  <2> QED BY <1>1, <2>1, <2>2, <2>3
<1> HIDE DEF x, y
<1>4. x = [i \in 1..Len(x) |-> x[i]] /\ y = [i \in 1..Len(y) |-> y[i]]
  BY <1>2
<1>5. x = y
  BY <1>2, <1>3, <1>4
<1> QED BY <1>5 DEF x, y

\* A sequence is its two halves.
LEMMA SplitSeq ==
    ASSUME NEW s \in Seq(Nat), NEW m \in Nat, NEW n \in Nat, m <= n, n <= Len(s)
    PROVE  SubSeq(s, m + 1, Len(s)) = SubSeq(s, m + 1, n) \o SubSeq(s, n + 1, Len(s))
<1> DEFINE x == SubSeq(s, m + 1, Len(s))
           u == SubSeq(s, m + 1, n)
           v == SubSeq(s, n + 1, Len(s))
           y == u \o v
<1>1. Len(s) \in Nat /\ \A i \in 1..Len(s) : s[i] \in Nat
  OBVIOUS
<1>2. /\ x \in Seq(Nat) /\ Len(x) = Len(s) - m
      /\ \A i \in 1..(Len(s) - m) : x[i] = s[m + i]
  BY <1>1
<1>3. /\ u \in Seq(Nat) /\ Len(u) = n - m
      /\ \A i \in 1..(n - m) : u[i] = s[m + i]
  BY <1>1
<1>4. /\ v \in Seq(Nat) /\ Len(v) = Len(s) - n
      /\ \A i \in 1..(Len(s) - n) : v[i] = s[n + i]
  BY <1>1
<1> HIDE DEF x, u, v
<1>5. y \in Seq(Nat) /\ Len(y) = Len(s) - m
  <2>0. u \in Seq(Nat) /\ v \in Seq(Nat)
    BY <1>3, <1>4
  <2>1. y \in Seq(Nat) /\ Len(y) = Len(u) + Len(v)
    BY <2>0
  <2> HIDE DEF y
  <2> QED BY <1>1, <1>3, <1>4, <2>1
<1>6. ASSUME NEW i \in 1..Len(x) PROVE x[i] = y[i]
  <2>0. i \in Nat /\ 1 <= i /\ i <= Len(s) - m /\ x[i] = s[m + i]
    BY <1>1, <1>2
  <2>1. CASE i <= n - m
    <3>1. i \in 1..(n - m) /\ i \in 1..Len(u)
      BY <1>3, <2>0, <2>1
    <3>2. y[i] = u[i]
      BY <1>3, <1>4, <3>1
    <3> QED BY <1>3, <2>0, <3>1, <3>2
  <2>2. CASE ~(i <= n - m)
    <3> DEFINE j == i - (n - m)
    <3>1. j \in 1..(Len(s) - n) /\ n + j = m + i /\ j = i - Len(u) /\ i > Len(u)
          /\ i <= Len(u) + Len(v)
      BY <1>1, <1>3, <1>4, <2>0, <2>2
    <3> HIDE DEF j
    <3>5. u \in Seq(Nat) /\ v \in Seq(Nat)
      BY <1>3, <1>4
    <3>2. y[i] = v[j]
      BY <2>0, <3>1, <3>5
    <3>3. v[j] = s[n + j]
      BY <1>4, <3>1
    <3> QED BY <2>0, <3>1, <3>2, <3>3
  <2> QED BY <2>1, <2>2
<1> HIDE DEF y
<1>7. x = [i \in 1..Len(x) |-> x[i]] /\ y = [i \in 1..Len(y) |-> y[i]]
  BY <1>2, <1>5
<1>8. x = y
  BY <1>2, <1>5, <1>6, <1>7
<1> QED BY <1>8 DEF x, y, u, v
\* All of a sequence, and none of it.
LEMMA WholeSeq ==
    ASSUME NEW s \in Seq(Nat)
    PROVE  /\ SubSeq(s, 0 + 1, Len(s)) = s
           /\ Len(s) = 0 => s = <<>>
           /\ s \o <<>> = s
<1>1. Len(s) \in Nat /\ s = [i \in 1..Len(s) |-> s[i]]
  OBVIOUS
<1>2. SubSeq(s, 0 + 1, Len(s)) = [i \in 1..Len(s) |-> s[i]]
  BY <1>1
<1>3. Len(s) = 0 => s = <<>>
  BY <1>1
<1>4. s \o <<>> = s
  <2>1. s \o <<>> \in Seq(Nat) /\ Len(s \o <<>>) = Len(s)
    BY EmptySeq
  <2>2. \A i \in 1..Len(s) : (s \o <<>>)[i] = s[i]
    BY EmptySeq
  <2> DEFINE x == s \o <<>>
  <2> HIDE DEF x
  <2>3. x = [i \in 1..Len(x) |-> x[i]]
    BY <2>1 DEF x
  <2>4. Len(x) = Len(s) /\ \A i \in 1..Len(s) : x[i] = s[i]
    BY <2>1, <2>2 DEF x
  <2>5. x = s
    BY <1>1, <2>3, <2>4
  <2> QED BY <2>5 DEF x
<1> QED BY <1>1, <1>2, <1>3, <1>4

\* What can still be read is a sequence of bytes.
LEMMA ToReadType ==
    ASSUME NEW hr \in HolderRecord, Consistent(hr)
    PROVE  ToRead(hr) \in Seq(Nat)
<1>1. CASE hr.remaining # <<>>
  <2>1. hr.remaining \in Seq(Nat) /\ hr.remainingPos \in Nat
    BY DEF HolderRecord
  <2>2. Len(hr.remaining) \in Nat
    BY <2>1
  <2> QED BY <1>1, <2>1, <2>2, PieceType, SMTT(40) DEF ToRead
<1>2. CASE hr.remaining = <<>>
  BY <1>2, UnreadType DEF ToRead
<1> QED BY <1>1, <1>2

\* A connection that ends keeps what can still be read.
LEMMA ToReadClosed ==
    ASSUME NEW hr \in HolderRecord, Consistent(hr), hr.state # NULL
    PROVE  ToRead(HolderClosed(hr)) = ToRead(hr)
<1> DEFINE u == Unread(hr)
           new == HolderClosed(hr)
<1>1. hr.remaining = <<>> /\ ToRead(hr) = u
  BY DEF Consistent, ToRead
<1>2. u \in Seq(Nat) /\ Len(u) = Len(hr.buf) - hr.bufPos
  BY UnreadType
<1>3. hr.buf \in Seq(Nat) /\ hr.bufPos \in Nat /\ hr.bufPos <= Len(hr.buf) /\ Len(hr.buf) \in Nat
  BY WndAssumption DEF HolderRecord, Consistent
<1>4. /\ new.buf = <<>> /\ new.bufPos = 0 /\ new.remainingPos = 0
      /\ new.remaining = IF isAvailable(hr) THEN u ELSE <<>>
  BY DEF HolderClosed, maybeCopyRemaining, StateReset, HolderRecord
<1> HIDE DEF u, new
<1>5. CASE isAvailable(hr)
  <2>1. Len(u) # 0
    BY <1>2, <1>3, <1>5 DEF isAvailable
  <2>2. u # <<>>
    BY <2>1, EmptySeq
  <2>3. ToRead(new) = SubSeq(u, 0 + 1, Len(u))
    BY <1>4, <1>5, <2>2 DEF ToRead
  <2> QED BY <1>1, <1>2, <2>3, WholeSeq DEF new
<1>6. CASE ~isAvailable(hr)
  <2>1. Len(u) = 0
    BY <1>2, <1>3, <1>6 DEF isAvailable
  <2>2. u = <<>>
    BY <1>2, <2>1, WholeSeq
  <2>3. ToRead(new) = SubSeq(<<>>, 0 + 1, Len(<<>>))
    BY <1>4, <1>6 DEF ToRead, Unread
  <2> QED BY <1>1, <2>2, <2>3, EmptySeq, WholeSeq DEF new
<1> QED BY <1>5, <1>6

\* The end of a sequence that something is appended to.
LEMMA TailAppended ==
    ASSUME NEW s \in Seq(Nat), NEW t \in Seq(Nat), NEW m \in Nat, m <= Len(s)
    PROVE  SubSeq(s \o t, m + 1, Len(s \o t)) = SubSeq(s, m + 1, Len(s)) \o t
<1>1. Len(s) \in Nat /\ Len(t) \in Nat /\ \A i \in 1..Len(s) : s[i] \in Nat
  OBVIOUS
<1> DEFINE st == s \o t
           u == SubSeq(s, m + 1, Len(s))
           x == SubSeq(st, m + 1, Len(st))
           y == u \o t
<1>2. /\ st \in Seq(Nat) /\ Len(st) = Len(s) + Len(t)
      /\ \A i \in 1..Len(s) : st[i] = s[i]
      /\ \A i \in 1..Len(t) : st[Len(s) + i] = t[i]
  BY <1>1
<1> HIDE DEF st
<1>3. \A i \in 1..Len(st) : st[i] \in Nat
  BY <1>2
<1>4. /\ u \in Seq(Nat) /\ Len(u) = Len(s) - m
      /\ \A i \in 1..(Len(s) - m) : u[i] = s[m + i]
  BY <1>1
<1>5. /\ x \in Seq(Nat) /\ Len(x) = Len(st) - m
      /\ \A i \in 1..(Len(st) - m) : x[i] = st[m + i]
  BY <1>1, <1>2, <1>3
<1> HIDE DEF u, x
<1>6. y \in Seq(Nat) /\ Len(y) = Len(x)
  <2>1. u \in Seq(Nat)
    BY <1>4
  <2>2. y \in Seq(Nat) /\ Len(y) = Len(u) + Len(t)
    BY <2>1
  <2> HIDE DEF y
  <2> QED BY <1>1, <1>2, <1>4, <1>5, <2>2
<1>7. ASSUME NEW i \in 1..Len(x) PROVE x[i] = y[i]
  <2>1. /\ i \in Nat /\ 1 <= i /\ i <= Len(s) + Len(t) - m /\ x[i] = st[m + i]
        /\ u \in Seq(Nat) /\ Len(u) = Len(s) - m
    BY <1>1, <1>2, <1>4, <1>5
  <2>2. CASE i <= Len(s) - m
    <3>1. i \in 1..(Len(s) - m) /\ m + i \in 1..Len(s) /\ i \in 1..Len(u)
      BY <1>1, <2>1, <2>2
    <3>2. y[i] = u[i]
      BY <2>1, <3>1
    <3> QED BY <1>2, <1>4, <2>1, <3>1, <3>2
  <2>3. CASE ~(i <= Len(s) - m)
    <3> DEFINE j == i - (Len(s) - m)
    <3>1. /\ j \in 1..Len(t) /\ m + i = Len(s) + j /\ j = i - Len(u)
          /\ i > Len(u) /\ i <= Len(u) + Len(t)
      BY <1>1, <2>1, <2>3
    <3> HIDE DEF j
    <3>2. u \in Seq(Nat) /\ i \in Nat
      BY <2>1
    <3>3. y[i] = t[j]
      BY <3>1, <3>2
    <3> QED BY <1>2, <2>1, <3>1, <3>3
  <2> QED BY <2>2, <2>3
<1> HIDE DEF y
<1>8. x = [i \in 1..Len(x) |-> x[i]] /\ y = [i \in 1..Len(y) |-> y[i]]
  BY <1>5, <1>6
<1>9. x = y
  BY <1>6, <1>7, <1>8
<1> QED BY <1>9 DEF x, y, u, st

\* recvFunc() puts the data behind what can be read, moved to the front or not.
LEMMA ToReadReceived ==
    ASSUME NEW hr \in HolderRecord, Consistent(hr), hr.state # NULL,
           NEW data \in Seq(Nat), Fits(hr, data)
    PROVE  ToRead(HolderReceived(hr, data)) = ToRead(hr) \o data
<1> DEFINE new == HolderReceived(hr, data)
           move == TCP_WND - Len(hr.buf) < Len(data)
<1>1. hr.remaining = <<>> /\ ToRead(hr) = Unread(hr) /\ Unread(hr) \in Seq(Nat)
  BY UnreadType DEF Consistent, ToRead
<1>2. hr.buf \in Seq(Nat) /\ hr.bufPos \in Nat /\ hr.bufPos <= Len(hr.buf)
  BY WndAssumption DEF HolderRecord, Consistent
<1>3. /\ new.buf = (IF move THEN Unread(hr) ELSE hr.buf) \o data
      /\ new.bufPos = IF move THEN 0 ELSE hr.bufPos
      /\ new.remaining = <<>>
  BY <1>1 DEF HolderReceived, HolderRecord
<1>4. ToRead(new) = SubSeq(new.buf, new.bufPos + 1, Len(new.buf))
  BY <1>3 DEF ToRead, Unread
<1>5. CASE move
  <2>1. Unread(hr) \o data \in Seq(Nat)
    BY <1>1
  <2>2. new.buf = Unread(hr) \o data /\ new.bufPos = 0
    BY <1>3, <1>5
  <2> HIDE DEF new
  <2> QED BY <1>1, <1>4, <2>1, <2>2, WholeSeq DEF new
<1>6. CASE ~move
  <2>1. new.buf = hr.buf \o data /\ new.bufPos = hr.bufPos
    BY <1>3, <1>6
  <2> HIDE DEF new
  <2> QED BY <1>1, <1>2, <1>4, <2>1, TailAppended, ZenonT(60) DEF new, Unread
<1> QED BY <1>5, <1>6
\* A step that changes neither what the program sees of a stream nor what was
\* sent, and after which the active PCBs hold the same refused data as before.
LEMMA StreamKept ==
    ASSUME StreamInv,
           \A g \in Holders :
               /\ InOrder(hist'[g], holder'[g]) = InOrder(hist[g], holder[g])
               /\ hist'[g].sent = hist[g].sent
               /\ hist'[g].end = "fin" => hist[g].end = "fin" /\ holder'[g].state = NULL
               /\ holder'[g].state = NULL => holder'[g].buf = <<>>,
           \A q \in Pcbs : pcb'[q].state \in ActiveStates /\ pcb'[q].arg # NULL =>
               /\ pcb[q].state \in ActiveStates
               /\ pcb'[q].arg = pcb[q].arg
               /\ pcb'[q].refused = pcb[q].refused
    PROVE  StreamInv'
<1>1. ASSUME NEW g \in Holders PROVE Ordered(hist'[g], holder'[g])
  <2>1. Ordered(hist[g], holder[g])
    BY DEF StreamInv
  <2> QED BY <2>1 DEF Ordered
<1>2. ASSUME NEW g \in Holders, NEW q \in Pcbs, pcb'[q].arg = g
      PROVE  Follows(hist'[g], holder'[g], pcb'[q])
  <2> SUFFICES ASSUME pcb'[q].state \in ActiveStates
               PROVE  Follows(hist'[g], holder'[g], pcb'[q])
    BY DEF Follows
  <2>1. /\ pcb[q].state \in ActiveStates /\ pcb[q].arg = g
        /\ pcb'[q].refused = pcb[q].refused
    BY <1>2, NullAssumption
  <2>2. Follows(hist[g], holder[g], pcb[q])
    BY <2>1 DEF StreamInv
  <2> QED BY <2>1, <2>2 DEF Follows
<1> QED BY <1>1, <1>2 DEF StreamInv

\* A step of one holder, which no PCB but p reaches.
LEMMA StreamOfOne ==
    ASSUME StreamInv, NEW p \in Pcbs, NEW h \in Holders,
           \A g \in Holders : g # h => hist'[g] = hist[g] /\ holder'[g] = holder[g],
           \A q \in Pcbs : q # p => pcb'[q] = pcb[q] /\ pcb[q].arg # h,
           pcb'[p].arg \in {h, NULL},
           Ordered(hist'[h], holder'[h]),
           pcb'[p].arg = h => Follows(hist'[h], holder'[h], pcb'[p])
    PROVE  StreamInv'
<1>1. ASSUME NEW g \in Holders PROVE Ordered(hist'[g], holder'[g])
  BY DEF StreamInv
<1>2. ASSUME NEW g \in Holders, NEW q \in Pcbs, pcb'[q].arg = g
      PROVE  Follows(hist'[g], holder'[g], pcb'[q])
  <2>1. CASE q = p
    BY <1>2, <2>1, NullAssumption
  <2>2. CASE q # p
    BY <1>2, <2>2 DEF StreamInv
  <2> QED BY <2>1, <2>2
<1> QED BY <1>1, <1>2 DEF StreamInv

\* The buffers of a record are all that can be read from it.
LEMMA ToReadSame ==
    ASSUME NEW a, NEW b, a.buf = b.buf, a.bufPos = b.bufPos,
           a.remaining = b.remaining, a.remainingPos = b.remainingPos
    PROVE  ToRead(a) = ToRead(b)
BY DEF ToRead, Unread

\* What tcp_close(), tcp_shutdown() and tcp_free() leave active was active, and
\* holds the refused data it held.
LEMMA StillActive ==
    ASSUME NEW r \in PcbRecord
    PROVE  /\ Freed(r).state \notin ActiveStates
           /\ Closed(r).state \in ActiveStates
              => r.state \in ActiveStates /\ Closed(r).refused = r.refused
           /\ ShutdownTx(r).state \in ActiveStates => r.state \in ActiveStates
           /\ ShutdownTx(r).refused = r.refused
<1>1. Freed(r).state \notin ActiveStates
  BY FreedPcb DEF ActiveStates
<1>2. Closed(r).state \in ActiveStates
      => r.state \in ActiveStates /\ Closed(r).refused = r.refused
  BY <1>1 DEF Closed, FinSent, PcbRecord, TcpStates, ActiveStates
<1>3. /\ ShutdownTx(r).state \in ActiveStates => r.state \in ActiveStates
      /\ ShutdownTx(r).refused = r.refused
  BY DEF ShutdownTx, FinSent, PcbRecord, TcpStates, ActiveStates
<1> QED BY <1>1, <1>2, <1>3

\* errFunc() keeps what was received for the program.
LEMMA errFuncStream ==
    ASSUME CMInv, StreamInv, NEW p \in Pcbs, NEW why \in {"err", "user"}, errFunc(p, why)
    PROVE  StreamInv'
<1> DEFINE r == NoArg(Freed(pcb[p]))
           h == pcb[p].arg
<1>1. pcb[p] \in PcbRecord /\ Freed(pcb[p]) \in PcbRecord
  BY CMInvFacts, FreedPcb
<1>2. r.arg = NULL
  BY <1>1, NoArgPcb
<1>3. pcb' = [pcb EXCEPT ![p] = r]
  BY DEF errFunc
<1> HIDE DEF r
<1>4. \A q \in Pcbs : pcb'[q] = IF q = p THEN r ELSE pcb[q]
  BY <1>3 DEF CMInv, CMTypeOK
<1>5. \A q \in Pcbs : pcb'[q].state \in ActiveStates /\ pcb'[q].arg # NULL =>
        /\ pcb[q].state \in ActiveStates
        /\ pcb'[q].arg = pcb[q].arg
        /\ pcb'[q].refused = pcb[q].refused
  BY <1>2, <1>4
<1>6. ASSUME NEW g \in Holders
      PROVE  /\ InOrder(hist'[g], holder'[g]) = InOrder(hist[g], holder[g])
             /\ hist'[g].sent = hist[g].sent
             /\ hist'[g].end = "fin" => hist[g].end = "fin" /\ holder'[g].state = NULL
             /\ holder'[g].state = NULL => holder'[g].buf = <<>>
  <2>1. CASE hist'[g] = hist[g] /\ holder'[g] = holder[g]
    BY <2>1 DEF StreamInv, Ordered
  <2>2. CASE h # NULL /\ g = h
    <3>1. /\ holder[g] \in HolderRecord /\ Consistent(holder[g]) /\ holder[g].state # NULL
          /\ hist[g] \in HistRecord
      BY <2>2, CMInvFacts, NullAssumption DEF CMInv, ArgIsOwner
    <3>2. holder'[g] = HolderClosed(holder[g]) /\ hist'[g] = [hist[g] EXCEPT !.end = why]
      BY <2>2 DEF errFunc, CMInv, CMTypeOK
    <3>3. hist'[g].got = hist[g].got /\ hist'[g].sent = hist[g].sent /\ hist'[g].end # "fin"
      BY <3>1, <3>2 DEF HistRecord
    <3>4. ToRead(holder'[g]) = ToRead(holder[g]) /\ holder'[g].buf = <<>>
      BY <3>1, <3>2, ToReadClosed, HolderClosedType
    <3> QED BY <3>3, <3>4 DEF InOrder
  <2>3. CASE ~(h # NULL /\ g = h)
    <3>1. hist'[g] = hist[g] /\ holder'[g] = holder[g]
      BY <2>3 DEF errFunc, CMInv, CMTypeOK
    <3> QED BY <2>1, <3>1
  <2> QED BY <2>2, <2>3
<1> QED BY <1>5, <1>6, StreamKept

\* Steps of PCBs alone.
LEMMA PcbStream ==
    ASSUME CMInv, StreamInv, NEW p \in Pcbs, NEW r \in PcbRecord,
           pcb' = [pcb EXCEPT ![p] = r],
           r.arg = pcb[p].arg,
           r.state \in ActiveStates => pcb[p].state \in ActiveStates /\ r.refused = pcb[p].refused,
           UNCHANGED holder,
           \A g \in Holders : /\ hist'[g].got = hist[g].got /\ hist'[g].sent = hist[g].sent
                              /\ hist'[g].end = "fin" => hist[g].end = "fin"
    PROVE  StreamInv'
<1>1. \A q \in Pcbs : pcb'[q] = IF q = p THEN r ELSE pcb[q]
  BY DEF CMInv, CMTypeOK
<1>2. \A g \in Holders : /\ hist[g].end = "fin" => holder[g].state = NULL
                         /\ holder[g].state = NULL => holder[g].buf = <<>>
  BY DEF StreamInv, Ordered
<1>3. \A g \in Holders :
        /\ InOrder(hist'[g], holder'[g]) = InOrder(hist[g], holder[g])
        /\ hist'[g].sent = hist[g].sent
        /\ hist'[g].end = "fin" => hist[g].end = "fin" /\ holder'[g].state = NULL
        /\ holder'[g].state = NULL => holder'[g].buf = <<>>
  BY <1>2 DEF InOrder
<1>4. \A q \in Pcbs : pcb'[q].state \in ActiveStates /\ pcb'[q].arg # NULL =>
        /\ pcb[q].state \in ActiveStates
        /\ pcb'[q].arg = pcb[q].arg
        /\ pcb'[q].refused = pcb[q].refused
  BY <1>1
<1> QED BY <1>3, <1>4, StreamKept

\* A PCB that is freed in silence had nothing that would be delivered.
LEMMA FreeSilentlyStream ==
    ASSUME CMInv, StreamInv, NEW p \in Pcbs, FreeSilently(p)
    PROVE  StreamInv'
<1>1. pcb[p] \in PcbRecord
  BY CMInvFacts
<1>2. /\ Freed(pcb[p]) \in PcbRecord /\ Freed(pcb[p]).arg = pcb[p].arg
      /\ Freed(pcb[p]).state \notin ActiveStates
  BY <1>1, FreedPcb, StillActive
<1>3. pcb' = [pcb EXCEPT ![p] = Freed(pcb[p])] /\ UNCHANGED <<holder, hist>>
  BY DEF FreeSilently
<1> QED BY <1>2, <1>3, PcbStream
\* connectedFunc() touches no buffer.
LEMMA connectedFuncStream ==
    ASSUME CMInv, StreamInv, NEW p \in Pcbs, connectedFunc(p)
    PROVE  StreamInv'
<1> DEFINE h == pcb[p].arg
<1>1. h \in Holders /\ holder[h].state = p /\ pcb[p] \in PcbRecord /\ p # NULL
  BY CMInvFacts, NullAssumption DEF connectedFunc, CMInv, ArgIsOwner
<1>2. /\ \A q \in Pcbs : pcb'[q] = IF q = p THEN [pcb[p] EXCEPT !.state = "ESTABLISHED"]
                                            ELSE pcb[q]
      /\ pcb[p].state \in ActiveStates
  BY DEF connectedFunc, CMInv, CMTypeOK, ActiveStates
<1>3. \A q \in Pcbs : pcb'[q].state \in ActiveStates /\ pcb'[q].arg # NULL =>
        /\ pcb[q].state \in ActiveStates
        /\ pcb'[q].arg = pcb[q].arg
        /\ pcb'[q].refused = pcb[q].refused
  BY <1>1, <1>2 DEF PcbRecord
<1>4. ASSUME NEW g \in Holders
      PROVE  /\ InOrder(hist'[g], holder'[g]) = InOrder(hist[g], holder[g])
             /\ hist'[g].sent = hist[g].sent
             /\ hist'[g].end = "fin" => hist[g].end = "fin" /\ holder'[g].state = NULL
             /\ holder'[g].state = NULL => holder'[g].buf = <<>>
  <2>1. hist' = hist /\ holder[g] \in HolderRecord
    BY CMInvFacts DEF connectedFunc
  <2>2. holder'[g] = [holder[g] EXCEPT !.connected = holder'[g].connected]
    BY <2>1 DEF connectedFunc, CMInv, CMTypeOK, HolderRecord
  <2>3. /\ ToRead(holder'[g]) = ToRead(holder[g])
        /\ holder'[g].state = holder[g].state /\ holder'[g].buf = holder[g].buf
    BY <2>1, <2>2, ToReadSame DEF HolderRecord
  <2> QED BY <2>1, <2>3 DEF InOrder, StreamInv, Ordered
<1> QED BY <1>3, <1>4, StreamKept

\* A new connection: nothing sent, nothing read, nothing kept.
LEMMA AddedStream ==
    ASSUME CMInv, StreamInv, NEW p \in Pcbs, NEW h \in Holders, ~Listed(h),
           NEW state, NEW port, NEW isConnected, NEW isAccepted,
           pcb' = [pcb EXCEPT ![p] = NewPcb(state, h, port)],
           addConnection(h, p, isConnected, isAccepted)
    PROVE  StreamInv'
<1>1. \A q \in Pcbs : pcb[q].arg # h
  BY NullAssumption DEF CMInv, ArgIsOwner, ListIsExact
<1>2. \A q \in Pcbs : pcb'[q] = IF q = p THEN NewPcb(state, h, port) ELSE pcb[q]
  BY DEF CMInv, CMTypeOK
<1>3. \A g \in Holders :
        /\ holder'[g] = IF g = h THEN NewHolder(isConnected, p, isAccepted) ELSE holder[g]
        /\ hist'[g] = IF g = h THEN NoHist ELSE hist[g]
  BY DEF addConnection, CMInv, CMTypeOK
<1>4. pcb'[p].arg = h /\ pcb'[p].refused = <<>>
  BY <1>2 DEF NewPcb
<1>5. /\ holder'[h].buf = <<>> /\ holder'[h].bufPos = 0 /\ holder'[h].remaining = <<>>
      /\ hist'[h].sent = 0 /\ hist'[h].got = <<>> /\ hist'[h].end = "none"
  BY <1>3 DEF NewHolder, NoHist
<1>6. ToRead(holder'[h]) = <<>>
  <2>1. ToRead(holder'[h]) = SubSeq(<<>>, 0 + 1, Len(<<>>))
    BY <1>5 DEF ToRead, Unread
  <2> QED BY <2>1, EmptySeq, WholeSeq
<1>7. InOrder(hist'[h], holder'[h]) = <<>>
  BY <1>5, <1>6, EmptySeq, WholeSeq DEF InOrder
<1>8. Ordered(hist'[h], holder'[h])
  BY <1>5, <1>7, EmptySeq DEF Ordered, Counts
<1>9. Follows(hist'[h], holder'[h], pcb'[p])
  BY <1>4, <1>5, <1>7, EmptySeq DEF Follows
<1> QED BY <1>1, <1>2, <1>3, <1>4, <1>8, <1>9, StreamOfOne

\* What the program sees is a sequence of bytes.
LEMMA InOrderType ==
    ASSUME CMInv, NEW h \in Holders
    PROVE  InOrder(hist[h], holder[h]) \in Seq(Nat)
<1>1. hist[h].got \in Seq(Nat)
  BY CMInvFacts DEF HistRecord
<1>2. ToRead(holder[h]) \in Seq(Nat)
  BY CMInvFacts, ToReadType
<1> QED BY <1>1, <1>2 DEF InOrder

\* Data that recvFunc() takes comes behind what the program sees already.
LEMMA InOrderReceived ==
    ASSUME CMInv, NEW h \in Holders, holder[h].state # NULL,
           NEW data \in Seq(Nat), Fits(holder[h], data)
    PROVE  hist[h].got \o ToRead(HolderReceived(holder[h], data))
             = InOrder(hist[h], holder[h]) \o data
<1>1. hist[h].got \in Seq(Nat)
  BY CMInvFacts DEF HistRecord
<1>2. ToRead(holder[h]) \in Seq(Nat)
  BY CMInvFacts, ToReadType
<1>3. ToRead(HolderReceived(holder[h], data)) = ToRead(holder[h]) \o data
  BY CMInvFacts, ToReadReceived
<1>4. (hist[h].got \o ToRead(holder[h])) \o data
        = hist[h].got \o (ToRead(holder[h]) \o data)
  BY <1>1, <1>2, ConcatAssoc, ZenonT(60)
<1> QED BY <1>3, <1>4, Zenon DEF InOrder

\* recvFunc(), on every path, neither loses, repeats nor reorders a byte.
LEMMA recvFuncStream ==
    ASSUME CMInv, StreamInv, NEW p \in Pcbs, NEW n \in 0..MaxBytes, NEW fin \in BOOLEAN,
           recvFunc(p, n, fin)
    PROVE  StreamInv'
<1> DEFINE h    == pcb[p].arg
           data == NextBytes(h, n)
           next == IF fin THEN FinReceived(pcb[p].state) ELSE {pcb[p].state}
           old  == InOrder(hist[h], holder[h])
<1>1. /\ h \in Holders /\ holder[h].state = p /\ holder[h] \in HolderRecord
      /\ Consistent(holder[h]) /\ pcb[p] \in PcbRecord /\ p # NULL
      /\ hist[h] \in HistRecord
  BY CMInvFacts, NullAssumption, ZenonT(60) DEF recvFunc, CMInv, ArgIsOwner
<1>2. n \in Nat /\ data \in Seq(Nat) /\ Len(data) = n
  BY <1>1, NextBytesType, WndAssumption
<1>3. \A i \in 1..n : data[i] = hist[h].sent + i
  BY SMTT(40) DEF NextBytes
<1>4. pcb[p].state \in ActiveStates /\ pcb[p].refused = <<>>
  BY ZenonT(60) DEF recvFunc, ActiveStates
<1>5. old \in Seq(Nat) /\ Counts(old) /\ Len(old) = hist[h].sent /\ hist[h].end # "fin"
  <2>1. old \in Seq(Nat)
    BY <1>1, InOrderType
  <2>2. Ordered(hist[h], holder[h]) /\ Follows(hist[h], holder[h], pcb[p])
    BY <1>1 DEF StreamInv
  <2>3. Len(old) \in Nat /\ Len(old) + 0 = hist[h].sent
    BY <1>4, <2>1, <2>2, EmptySeq DEF Follows
  <2> QED BY <1>1, <2>1, <2>2, <2>3 DEF Ordered
<1>6. \A q \in Pcbs : q # p => pcb[q].arg # h
  BY <1>1, NullAssumption DEF CMInv, ArgIsOwner
<1>7. hist[h].sent \in Nat /\ hist[h].sent + n \in Nat /\ hist[h].got \in Seq(Nat)
  BY <1>1, <1>2 DEF HistRecord
<1>8. Counts(old \o data) /\ Len(old \o data) = hist[h].sent + n
  <2> HIDE DEF old, data
  <2>0. old \in Seq(Nat) /\ data \in Seq(Nat)
    BY <1>2, <1>5
  <2>1. Len(old \o data) = Len(old) + Len(data)
    BY <2>0
  <2>2. \A i \in 1..Len(data) : data[i] = Len(old) + i
    BY <1>2, <1>3, <1>5
  <2>3. Counts(old \o data)
    BY <1>2, <1>5, <2>2, CountsOn
  <2> QED BY <1>2, <1>5, <2>1, <2>3
<1>9. CASE FreeSilently(p) \/ errFunc(p, "user")
  BY <1>9, FreeSilentlyStream, errFuncStream
<1>10. CASE /\ \E s \in next :
                 pcb' = [pcb EXCEPT ![p].state = s, ![p].refused = data, ![p].fin = fin]
            /\ holder' = [holder EXCEPT ![h].connected = TRUE]
            /\ hist' = [hist EXCEPT ![h].sent = @ + n]
  <2>1. /\ \A q \in Pcbs : q # p => pcb'[q] = pcb[q]
        /\ pcb'[p].arg = h /\ pcb'[p].refused = data
    BY <1>1, <1>10 DEF CMInv, CMTypeOK, PcbRecord
  <2>2. /\ \A g \in Holders : g # h => hist'[g] = hist[g] /\ holder'[g] = holder[g]
        /\ holder'[h] = [holder[h] EXCEPT !.connected = TRUE]
        /\ hist'[h] = [hist[h] EXCEPT !.sent = hist[h].sent + n]
    BY <1>1, <1>10 DEF CMInv, CMTypeOK
  <2>3. ToRead(holder'[h]) = ToRead(holder[h]) /\ holder'[h].state # NULL
    BY <1>1, <2>2, ToReadSame, ZenonT(60) DEF HolderRecord
  <2>4. /\ hist'[h].got = hist[h].got /\ hist'[h].sent = hist[h].sent + n
        /\ hist'[h].end = hist[h].end
    BY <1>1, <2>2 DEF HistRecord
  <2>5. InOrder(hist'[h], holder'[h]) = old
    BY <2>3, <2>4 DEF InOrder
  <2> HIDE DEF old, data, h
  <2>6. Ordered(hist'[h], holder'[h])
    BY <1>2, <1>5, <1>7, <2>3, <2>4, <2>5 DEF Ordered
  <2>7. Follows(hist'[h], holder'[h], pcb'[p])
    BY <1>2, <1>3, <1>5, <2>1, <2>4, <2>5 DEF Follows
  <2> QED BY <1>1, <1>6, <2>1, <2>2, <2>6, <2>7, StreamOfOne
<1>11. CASE /\ Fits(holder[h], data)
            /\ holder' = [holder EXCEPT ![h] = HolderReceived(@, data)]
            /\ hist' = [hist EXCEPT ![h].sent = @ + n]
            /\ UNCHANGED pcb
  <2>1. /\ \A g \in Holders : g # h => hist'[g] = hist[g] /\ holder'[g] = holder[g]
        /\ holder'[h] = HolderReceived(holder[h], data)
        /\ hist'[h] = [hist[h] EXCEPT !.sent = hist[h].sent + n]
    BY <1>1, <1>11 DEF CMInv, CMTypeOK
  <2>2. /\ hist'[h].got = hist[h].got /\ hist'[h].sent = hist[h].sent + n
        /\ hist'[h].end = hist[h].end
    BY <1>1, <2>1, SMTT(40) DEF HistRecord
  <2>3. InOrder(hist'[h], holder'[h]) = old \o data
    BY <1>1, <1>2, <1>11, <2>1, <2>2, InOrderReceived, ZenonT(60) DEF InOrder
  <2>4. holder'[h].state # NULL
    BY <1>1, <1>2, <1>11, <2>1, HolderReceivedType
  <2> HIDE DEF old, data
  <2>5. Ordered(hist'[h], holder'[h])
    BY <1>5, <1>7, <1>8, <2>2, <2>3, <2>4 DEF Ordered
  <2>6. Follows(hist'[h], holder'[h], pcb'[p])
    <3>1. pcb'[p].refused = <<>> /\ Len(pcb'[p].refused) = 0
      BY <1>4, <1>11, EmptySeq
    <3>2. Len(InOrder(hist'[h], holder'[h])) = hist'[h].sent /\ hist'[h].sent \in Nat
      BY <1>7, <1>8, <2>2, <2>3
    <3> QED BY <3>1, <3>2 DEF Follows
  <2> QED BY <1>1, <1>6, <1>11, <2>1, <2>5, <2>6, StreamOfOne
<1>12. CASE /\ fin /\ (n = 0 \/ Fits(holder[h], data))
            /\ holder' = [holder EXCEPT ![h] =
                 HolderClosed(IF n = 0 THEN @ ELSE HolderReceived(@, data))]
            /\ hist' = [hist EXCEPT ![h].sent = @ + n, ![h].end = "fin"]
            /\ \E s \in next :
                 pcb' = [pcb EXCEPT ![p] = Closed(NoArg([@ EXCEPT !.state = s]))]
  <2> DEFINE h0 == IF n = 0 THEN holder[h] ELSE HolderReceived(holder[h], data)
  <2>1. /\ \A g \in Holders : g # h => hist'[g] = hist[g] /\ holder'[g] = holder[g]
        /\ holder'[h] = HolderClosed(h0)
        /\ hist'[h] = [hist[h] EXCEPT !.sent = hist[h].sent + n, !.end = "fin"]
    BY <1>1, <1>12 DEF CMInv, CMTypeOK
  <2>2. hist'[h].got = hist[h].got /\ hist'[h].sent = hist[h].sent + n
    BY <1>1, <2>1 DEF HistRecord
  <2>3. h0 \in HolderRecord /\ Consistent(h0) /\ h0.state # NULL
    BY <1>1, <1>2, <1>12, HolderReceivedType
  <2>4. hist[h].got \o ToRead(h0) = old \o data
    <3>1. CASE n = 0
      <4>1. data = <<>>
        BY <1>2, <3>1, WholeSeq
      <4>2. old \o data = old
        BY <1>5, <4>1, WholeSeq, SMTT(40)
      <4> QED BY <3>1, <4>2, ZenonT(60) DEF InOrder
    <3>2. CASE n # 0
      BY <1>1, <1>2, <1>12, <3>2, InOrderReceived
    <3> QED BY <3>1, <3>2, ZenonT(60)
  <2>5. /\ ToRead(holder'[h]) = ToRead(h0)
        /\ holder'[h].state = NULL /\ holder'[h].buf = <<>>
    BY <2>1, <2>3, ToReadClosed, HolderClosedType
  <2> HIDE DEF old, data, h0
  <2>6. InOrder(hist'[h], holder'[h]) = old \o data
    BY <2>2, <2>4, <2>5, Zenon DEF InOrder
  <2>7. Ordered(hist'[h], holder'[h])
    BY <1>7, <1>8, <2>2, <2>5, <2>6 DEF Ordered
  <2>8. PICK s \in next : pcb' = [pcb EXCEPT ![p] = Closed(NoArg([@ EXCEPT !.state = s]))]
    BY <1>12
  <2>9. [pcb[p] EXCEPT !.state = s] \in PcbRecord
    BY <1>1, <2>8 DEF PcbRecord, FinReceived, TcpStates
  <2>10. Closed(NoArg([pcb[p] EXCEPT !.state = s])).arg = NULL
    BY <2>9, NoArgPcb, ClosedPcb
  <2>11. /\ \A q \in Pcbs : q # p => pcb'[q] = pcb[q]
         /\ pcb'[p].arg = NULL
    BY <2>8, <2>10 DEF CMInv, CMTypeOK
  <2> HIDE DEF h
  <2> QED BY <1>1, <1>6, <2>1, <2>7, <2>11, NullAssumption, StreamOfOne
<1> QED BY <1>9, <1>10, <1>11, <1>12, ZenonT(60) DEF recvFunc
\* recvFunc() again with what it refused: the refused data comes next.
LEMMA recvFuncRetryStream ==
    ASSUME CMInv, StreamInv, NEW p \in Pcbs, recvFuncRetry(p)
    PROVE  StreamInv'
<1> DEFINE h   == pcb[p].arg
           rf  == pcb[p].refused
           h0  == HolderReceived(holder[h], rf)
           old == InOrder(hist[h], holder[h])
<1>1. /\ h \in Holders /\ holder[h].state = p /\ holder[h] \in HolderRecord
      /\ Consistent(holder[h]) /\ pcb[p] \in PcbRecord /\ p # NULL
      /\ hist[h] \in HistRecord
  BY CMInvFacts, NullAssumption DEF recvFuncRetry, CMInv, ArgIsOwner
<1>2. rf \in Seq(Nat) /\ Fits(holder[h], rf) /\ pcb[p].state \in ActiveStates
  BY <1>1 DEF PcbRecord, recvFuncRetry
<1>3. h0 \in HolderRecord /\ Consistent(h0) /\ h0.state # NULL
  BY <1>1, <1>2, HolderReceivedType
<1>4. old \in Seq(Nat)
  BY <1>1, InOrderType
<1>5. Ordered(hist[h], holder[h]) /\ Follows(hist[h], holder[h], pcb[p])
  BY <1>1 DEF StreamInv
<1>6. /\ Counts(old) /\ hist[h].end # "fin"
      /\ Len(old) + Len(rf) = hist[h].sent
      /\ \A i \in 1..Len(rf) : rf[i] = Len(old) + i
  BY <1>1, <1>2, <1>5 DEF Ordered, Follows
<1>7. hist[h].got \o ToRead(h0) = old \o rf
  BY <1>1, <1>2, InOrderReceived
<1>8. hist[h].sent \in Nat
  BY <1>1 DEF HistRecord
<1>9. \A q \in Pcbs : q # p => pcb[q].arg # h
  BY <1>1, NullAssumption DEF CMInv, ArgIsOwner
<1>10. Counts(old \o rf) /\ Len(old \o rf) = hist[h].sent
  <2> HIDE DEF old, rf
  <2>1. rf \in Seq(Nat)
    BY <1>2
  <2>2. Len(old \o rf) = Len(old) + Len(rf)
    BY <1>4, <2>1
  <2>3. Counts(old \o rf)
    BY <1>4, <1>6, <2>1, CountsOn
  <2> QED BY <1>6, <2>2, <2>3
<1>11. CASE ~pcb[p].fin
  <2>1. /\ pcb' = [pcb EXCEPT ![p] = Purged(pcb[p])]
        /\ holder' = [holder EXCEPT ![h] = h0]
        /\ hist' = hist
    BY <1>11 DEF recvFuncRetry
  <2>2. Purged(pcb[p]).arg = h /\ Purged(pcb[p]).refused = <<>>
    BY <1>1, PurgedPcb
  <2>3. /\ \A q \in Pcbs : q # p => pcb'[q] = pcb[q]
        /\ pcb'[p].arg = h /\ pcb'[p].refused = <<>>
    BY <2>1, <2>2 DEF CMInv, CMTypeOK
  <2>4. /\ \A g \in Holders : g # h => hist'[g] = hist[g] /\ holder'[g] = holder[g]
        /\ holder'[h] = h0
    BY <1>1, <2>1 DEF CMInv, CMTypeOK
  <2> HIDE DEF h, h0, old, rf
  <2>5. InOrder(hist'[h], holder'[h]) = old \o rf
    BY <1>7, <2>1, <2>4, Zenon DEF InOrder
  <2>6. Ordered(hist'[h], holder'[h])
    <3>1. hist'[h].end # "fin" /\ holder'[h].state # NULL
      BY <1>3, <1>6, <2>1, <2>4
    <3>2. /\ Counts(InOrder(hist'[h], holder'[h]))
          /\ Len(InOrder(hist'[h], holder'[h])) = hist'[h].sent
      BY <1>10, <2>1, <2>5
    <3>3. hist'[h].sent <= hist'[h].sent
      BY <1>8, <2>1
    <3> QED BY <3>1, <3>2, <3>3 DEF Ordered
  <2>7. Follows(hist'[h], holder'[h], pcb'[p])
    <3>1. Len(pcb'[p].refused) = 0
      BY <2>3, EmptySeq
    <3>2. Len(InOrder(hist'[h], holder'[h])) = hist'[h].sent /\ hist'[h].sent \in Nat
      BY <1>8, <1>10, <2>1, <2>5
    <3> QED BY <3>1, <3>2 DEF Follows
  <2> QED BY <1>1, <1>9, <2>3, <2>4, <2>6, <2>7, StreamOfOne
<1>12. CASE pcb[p].fin
  <2> DEFINE r  == Closed(NoArg(Purged(pcb[p])))
             hr == HolderClosed(h0)
  <2>1. /\ pcb' = [pcb EXCEPT ![p] = r] /\ holder' = [holder EXCEPT ![h] = hr]
        /\ hist' = [hist EXCEPT ![h].end = "fin"]
    BY <1>12 DEF recvFuncRetry
  <2>2. r.arg = NULL
    BY <1>1, PurgedPcb, NoArgPcb, ClosedPcb
  <2>3. hr.state = NULL /\ hr.buf = <<>> /\ ToRead(hr) = ToRead(h0)
    BY <1>3, HolderClosedType, ToReadClosed
  <2> HIDE DEF r, hr
  <2>4. /\ \A q \in Pcbs : q # p => pcb'[q] = pcb[q]
        /\ pcb'[p].arg = NULL
    BY <2>1, <2>2 DEF CMInv, CMTypeOK
  <2>5. /\ \A g \in Holders : g # h => hist'[g] = hist[g] /\ holder'[g] = holder[g]
        /\ holder'[h] = hr
        /\ hist'[h] = [hist[h] EXCEPT !.end = "fin"]
    BY <1>1, <2>1 DEF CMInv, CMTypeOK
  <2>6. hist'[h].got = hist[h].got /\ hist'[h].sent = hist[h].sent
    BY <1>1, <2>5 DEF HistRecord
  <2> HIDE DEF h, h0, old, rf
  <2>7. InOrder(hist'[h], holder'[h]) = old \o rf
    BY <1>7, <2>3, <2>5, <2>6, Zenon DEF InOrder
  <2>8. Ordered(hist'[h], holder'[h])
    <3>1. /\ Counts(InOrder(hist'[h], holder'[h]))
          /\ Len(InOrder(hist'[h], holder'[h])) = hist'[h].sent
      BY <1>10, <2>6, <2>7
    <3>2. hist'[h].sent <= hist'[h].sent
      BY <1>8, <2>6
    <3>3. holder'[h].state = NULL /\ holder'[h].buf = <<>>
      BY <2>3, <2>5
    <3> QED BY <3>1, <3>2, <3>3 DEF Ordered
  <2> QED BY <1>1, <1>9, <2>4, <2>5, <2>8, NullAssumption, StreamOfOne
<1> QED BY <1>11, <1>12

\* The peer acknowledges our FIN.
LEMMA FinAckedStream ==
    ASSUME CMInv, StreamInv, NEW p \in Pcbs, FinAcked(p)
    PROVE  StreamInv'
<1>1. CASE FreeSilently(p)
  BY <1>1, FreeSilentlyStream
<1>2. CASE errFunc(p, "err")
  BY <1>2, errFuncStream
<1>3. CASE /\ pcb' = [pcb EXCEPT ![p] = [Purged(@) EXCEPT !.state = "TIME_WAIT"]]
           /\ UNCHANGED <<holder, connections_, hist>>
  <2> DEFINE r == [Purged(pcb[p]) EXCEPT !.state = "TIME_WAIT"]
  <2>1. pcb[p] \in PcbRecord /\ Purged(pcb[p]) \in PcbRecord /\ Purged(pcb[p]).arg = pcb[p].arg
    BY CMInvFacts, PurgedPcb
  <2>2. r \in PcbRecord /\ r.arg = pcb[p].arg /\ r.state \notin ActiveStates
    BY <2>1 DEF PcbRecord, TcpStates, ActiveStates
  <2>3. pcb' = [pcb EXCEPT ![p] = r]
    BY <1>3
  <2> HIDE DEF r
  <2> QED BY <1>3, <2>2, <2>3, PcbStream
<1> QED BY <1>1, <1>2, <1>3 DEF FinAcked

\* altcp_close() and altcp_shutdown() of whichever connection the PCB belongs to.
LEMMA altcp_closeStream ==
    ASSUME CMInv, StreamInv, NEW h \in Holders, holder[h].state # NULL, altcp_close(h)
    PROVE  StreamInv'
<1> DEFINE p == holder[h].state
           r == Closed(pcb[p])
<1>1. p \in Pcbs /\ pcb[p] \in PcbRecord
  BY CMInvFacts DEF HolderRecord
<1>2. /\ r \in PcbRecord /\ r.arg = pcb[p].arg
      /\ r.state \in ActiveStates => pcb[p].state \in ActiveStates /\ r.refused = pcb[p].refused
  BY <1>1, ClosedPcb, StillActive
<1>3. pcb' = [pcb EXCEPT ![p] = r] /\ UNCHANGED holder
  BY DEF altcp_close
<1>4. ASSUME NEW g \in Holders
      PROVE  /\ hist'[g].got = hist[g].got /\ hist'[g].sent = hist[g].sent
             /\ hist'[g].end = "fin" => hist[g].end = "fin"
  <2>1. hist[g] \in HistRecord
    BY CMInvFacts
  <2>2. hist'[g] = IF g = h THEN [hist[g] EXCEPT !.end = "user"] ELSE hist[g]
    BY DEF altcp_close, CMInv, CMTypeOK
  <2> QED BY <2>1, <2>2 DEF HistRecord
<1> HIDE DEF p, r
<1> QED BY <1>1, <1>2, <1>3, <1>4, PcbStream

\* altcp_shutdown() in closeOutput().
LEMMA ShutdownStream ==
    ASSUME CMInv, StreamInv, NEW h \in Holders, holder[h].state # NULL,
           pcb' = [pcb EXCEPT ![holder[h].state] = ShutdownTx(@)],
           UNCHANGED <<holder, hist>>
    PROVE  StreamInv'
<1> DEFINE p == holder[h].state
           r == ShutdownTx(pcb[p])
<1>1. p \in Pcbs /\ pcb[p] \in PcbRecord
  BY CMInvFacts DEF HolderRecord
<1>2. /\ r \in PcbRecord /\ r.arg = pcb[p].arg
      /\ r.state \in ActiveStates => pcb[p].state \in ActiveStates
      /\ r.refused = pcb[p].refused
  BY <1>1, ShutdownTxPcb, StillActive
<1>3. pcb' = [pcb EXCEPT ![p] = r]
  OBVIOUS
<1> HIDE DEF p, r
<1> QED BY <1>1, <1>2, <1>3, PcbStream

\* close() of a pending attempt throws nothing away that was in order: what the
\* program has read remains the beginning of the stream.
LEMMA CloseAttemptStream ==
    ASSUME CMInv, StreamInv, NEW h \in Holders, holder[h].state # NULL, CloseAttempt(h)
    PROVE  StreamInv'
<1> DEFINE p == holder[h].state
           r == NoArg(Closed(pcb[p]))
<1>1. /\ p \in Pcbs /\ pcb[p] \in PcbRecord
      /\ holder[h] \in HolderRecord /\ Consistent(holder[h]) /\ hist[h] \in HistRecord
  BY CMInvFacts DEF HolderRecord
<1>2. r.arg = NULL
  BY <1>1, ClosedPcb, NoArgPcb
<1>3. pcb' = [pcb EXCEPT ![p] = r]
  BY DEF CloseAttempt
<1>4. \A q \in Pcbs : q # p => pcb[q].arg # h
  BY NullAssumption DEF CMInv, ArgIsOwner
<1> HIDE DEF r
<1>5. /\ \A q \in Pcbs : q # p => pcb'[q] = pcb[q]
      /\ pcb'[p].arg = NULL
  BY <1>1, <1>2, <1>3 DEF CMInv, CMTypeOK
<1>6. /\ \A g \in Holders : g # h => hist'[g] = hist[g] /\ holder'[g] = holder[g]
      /\ holder'[h] = StateReset(holder[h])
      /\ hist'[h] = [hist[h] EXCEPT !.end = "user"]
  BY DEF CloseAttempt, CMInv, CMTypeOK
<1>7. /\ hist'[h].got = hist[h].got /\ hist'[h].sent = hist[h].sent
      /\ hist'[h].end = "user"
  BY <1>1, <1>6 DEF HistRecord
<1>8. ToRead(holder'[h]) = <<>> /\ holder'[h].buf = <<>>
  <2>1. holder'[h].buf = <<>> /\ holder'[h].bufPos = 0 /\ holder'[h].remaining = <<>>
    BY <1>1, <1>6 DEF StateReset, HolderRecord, Consistent
  <2>2. ToRead(holder'[h]) = SubSeq(<<>>, 0 + 1, Len(<<>>))
    BY <2>1 DEF ToRead, Unread
  <2> QED BY <2>1, <2>2, EmptySeq, WholeSeq
<1>9. hist[h].got \in Seq(Nat) /\ ToRead(holder[h]) \in Seq(Nat) /\ hist[h].sent \in Nat
  BY <1>1, ToReadType DEF HistRecord
<1>10. InOrder(hist'[h], holder'[h]) = hist[h].got
  BY <1>7, <1>8, <1>9, WholeSeq DEF InOrder
<1>11. Counts(hist[h].got) /\ Len(hist[h].got) <= hist[h].sent
  <2> DEFINE got == hist[h].got
             new == ToRead(holder[h])
  <2>1. Counts(got \o new) /\ Len(got \o new) <= hist[h].sent
    BY DEF StreamInv, Ordered, InOrder
  <2>2. got \in Seq(Nat) /\ new \in Seq(Nat)
    BY <1>9
  <2> HIDE DEF got, new
  <2>3. Len(got \o new) = Len(got) + Len(new) /\ Len(got) \in Nat /\ Len(new) \in Nat
    BY <2>2
  <2>4. Counts(got) /\ Len(got) <= hist[h].sent
    BY <1>9, <2>1, <2>2, <2>3, CountsFront
  <2> QED BY <2>4 DEF got
<1>12. Ordered(hist'[h], holder'[h])
  BY <1>7, <1>8, <1>10, <1>11 DEF Ordered
<1> HIDE DEF p
<1> QED BY <1>1, <1>4, <1>5, <1>6, <1>12, NullAssumption, StreamOfOne
\* A step that leaves the connections alone.
LEMMA SameStream ==
    ASSUME StreamInv, UNCHANGED cmVars
    PROVE  StreamInv'
BY DEF StreamInv, cmVars

\* A step of one holder that moves no byte past the program's view.
LEMMA HolderOnlyStream ==
    ASSUME CMInv, StreamInv, NEW h \in Holders, UNCHANGED pcb,
           \A g \in Holders : g # h => hist'[g] = hist[g] /\ holder'[g] = holder[g],
           InOrder(hist'[h], holder'[h]) = InOrder(hist[h], holder[h]),
           hist'[h].sent = hist[h].sent, hist'[h].end = hist[h].end,
           holder'[h].state = holder[h].state, holder'[h].buf = holder[h].buf
    PROVE  StreamInv'
<1>1. \A g \in Holders :
        /\ InOrder(hist'[g], holder'[g]) = InOrder(hist[g], holder[g])
        /\ hist'[g].sent = hist[g].sent
        /\ hist'[g].end = "fin" => hist[g].end = "fin" /\ holder'[g].state = NULL
        /\ holder'[g].state = NULL => holder'[g].buf = <<>>
  BY SMTT(40) DEF StreamInv, Ordered
<1> QED BY <1>1, StreamKept

\* read() from the remaining buffer goes on where the last one stopped.
LEMMA readRemainingStream ==
    ASSUME CMInv, StreamInv, NEW c \in Clients, NEW size \in 1..MaxBytes,
           conn(c) \in Holders, readRemaining(c, size)
    PROVE  StreamInv'
<1> DEFINE h   == conn(c)
           rem == holder[h].remaining
           pos == holder[h].remainingPos
           to  == IF size < Len(rem) - pos THEN pos + size ELSE Len(rem)
           newRem == IF to >= Len(rem) THEN <<>> ELSE rem
           newPos == IF to >= Len(rem) THEN 0 ELSE to
           piece  == SubSeq(rem, pos + 1, to)
           rest   == SubSeq(rem, to + 1, Len(rem))
<1>1. /\ holder[h] \in HolderRecord /\ Consistent(holder[h]) /\ rem # <<>>
      /\ hist[h] \in HistRecord
  BY CMInvFacts DEF readRemaining
<1>2. /\ rem \in Seq(Nat) /\ pos \in Nat /\ pos < Len(rem) /\ size \in Nat
      /\ Len(rem) \in Nat
  BY <1>1, WndAssumption DEF HolderRecord, Consistent
<1>3. to \in Nat /\ pos <= to /\ to <= Len(rem)
  BY <1>2, SMTT(40)
<1>4. /\ hist' = [hist EXCEPT ![h].got = @ \o piece] /\ UNCHANGED pcb
      /\ holder' = [holder EXCEPT ![h].remaining = newRem, ![h].remainingPos = newPos]
  BY DEF readRemaining
<1>5. /\ \A g \in Holders : g # h => hist'[g] = hist[g] /\ holder'[g] = holder[g]
      /\ hist'[h] = [hist[h] EXCEPT !.got = hist[h].got \o piece]
      /\ holder'[h] = [holder[h] EXCEPT !.remaining = newRem, !.remainingPos = newPos]
  BY <1>4 DEF CMInv, CMTypeOK
<1>6. holder[h].state = NULL /\ holder[h].buf = <<>> /\ holder[h].bufPos = 0
  <2>1. holder[h].state = NULL /\ holder[h].buf = <<>>
    BY <1>1 DEF Consistent, StreamInv, Ordered
  <2> QED BY <1>1, <2>1, EmptySeq, WndAssumption DEF Consistent, HolderRecord
<1>7. /\ ToRead(holder[h]) = SubSeq(rem, pos + 1, Len(rem))
      /\ SubSeq(rem, pos + 1, Len(rem)) = piece \o rest
  BY <1>1, <1>2, <1>3, SplitSeq DEF ToRead
<1>8. piece \in Seq(Nat) /\ rest \in Seq(Nat) /\ hist[h].got \in Seq(Nat)
  <2>1. hist[h].got \in Seq(Nat)
    BY <1>1 DEF HistRecord
  <2> HIDE DEF to, rem, pos
  <2>2. Len(rem) <= Len(rem)
    BY <1>2
  <2>3. piece \in Seq(Nat)
    BY <1>2, <1>3, PieceType
  <2>4. rest \in Seq(Nat)
    BY <1>2, <1>3, <2>2, PieceType
  <2> QED BY <2>1, <2>3, <2>4
<1> HIDE DEF h, piece
<1>9. /\ holder'[h].remaining = newRem /\ holder'[h].remainingPos = newPos
      /\ holder'[h].state = holder[h].state /\ holder'[h].buf = holder[h].buf
      /\ holder'[h].bufPos = holder[h].bufPos
  BY <1>1, <1>5 DEF HolderRecord
<1>10. /\ hist'[h].got = hist[h].got \o piece /\ hist'[h].sent = hist[h].sent
       /\ hist'[h].end = hist[h].end
  BY <1>1, <1>5 DEF HistRecord
<1>11. ToRead(holder'[h]) = rest
  <2>1. CASE to >= Len(rem)
    <3>1. to = Len(rem) /\ newRem = <<>>
      BY <1>2, <1>3, <2>1
    <3>2. Len(rest) = 0
      BY <1>2, <3>1
    <3>3. rest = <<>>
      BY <1>8, <3>2, WholeSeq
    <3>4. ToRead(holder'[h]) = SubSeq(<<>>, 0 + 1, Len(<<>>))
      BY <1>6, <1>9, <3>1 DEF ToRead, Unread
    <3> QED BY <3>3, <3>4, EmptySeq, WholeSeq
  <2>2. CASE ~(to >= Len(rem))
    BY <1>1, <1>9, <2>2 DEF ToRead
  <2> QED BY <2>1, <2>2
<1> HIDE DEF rest
<1>12. (hist[h].got \o piece) \o rest = hist[h].got \o (piece \o rest)
  BY <1>8, ConcatAssoc
<1>13. InOrder(hist'[h], holder'[h]) = InOrder(hist[h], holder[h])
  BY <1>7, <1>10, <1>11, <1>12, Zenon DEF InOrder
<1>14. h \in Holders
  BY DEF h
<1> QED BY <1>4, <1>5, <1>9, <1>10, <1>13, <1>14, HolderOnlyStream

\* read() from the buffer of the connection's state.
LEMMA readEndStream ==
    ASSUME CMInv, StreamInv, NEW size \in 1..MaxBytes, conn(call.c) \in Holders,
           readEnd(size)
    PROVE  StreamInv'
<1> DEFINE h   == conn(call.c)
           buf == holder[h].buf
           pos == holder[h].bufPos
           to  == IF size < Len(buf) - pos THEN pos + size ELSE Len(buf)
           piece == SubSeq(buf, pos + 1, to)
           rest  == SubSeq(buf, to + 1, Len(buf))
<1>1. UNCHANGED <<pcb, connections_>>
  BY DEF readEnd
<1>2. CASE UNCHANGED <<hist, holder>>
  BY <1>1, <1>2, SameStream DEF cmVars
<1>3. CASE /\ holder[h].state # NULL
           /\ hist' = [hist EXCEPT ![h].got = @ \o piece]
           /\ holder' = [holder EXCEPT ![h].bufPos = to]
  <2>1. holder[h] \in HolderRecord /\ Consistent(holder[h]) /\ hist[h] \in HistRecord
    BY CMInvFacts
  <2>2. /\ buf \in Seq(Nat) /\ pos \in Nat /\ pos <= Len(buf) /\ size \in Nat
        /\ Len(buf) \in Nat /\ holder[h].remaining = <<>>
    BY <1>3, <2>1, WndAssumption, SMTT(40) DEF HolderRecord, Consistent
  <2>3. to \in Nat /\ pos <= to /\ to <= Len(buf)
    BY <2>2, SMTT(40)
  <2>4. /\ \A g \in Holders : g # h => hist'[g] = hist[g] /\ holder'[g] = holder[g]
        /\ hist'[h] = [hist[h] EXCEPT !.got = hist[h].got \o piece]
        /\ holder'[h] = [holder[h] EXCEPT !.bufPos = to]
    BY <1>3, SMTT(40) DEF CMInv, CMTypeOK
  <2>5. ToRead(holder[h]) = piece \o rest
    BY <2>2, <2>3, SplitSeq, ZenonT(60) DEF ToRead, Unread
  <2>6. piece \in Seq(Nat) /\ rest \in Seq(Nat) /\ hist[h].got \in Seq(Nat)
    <3>1. hist[h].got \in Seq(Nat)
      BY <2>1 DEF HistRecord
    <3> HIDE DEF to, buf, pos
    <3>2. Len(buf) <= Len(buf)
      BY <2>2
    <3>3. piece \in Seq(Nat)
      BY <2>2, <2>3, PieceType
    <3>4. rest \in Seq(Nat)
      BY <2>2, <2>3, <3>2, PieceType
    <3> QED BY <3>1, <3>3, <3>4
  <2> HIDE DEF h, piece
  <2>7. /\ holder'[h].remaining = <<>> /\ holder'[h].bufPos = to
        /\ holder'[h].state = holder[h].state /\ holder'[h].buf = buf
    BY <2>1, <2>2, <2>4 DEF HolderRecord
  <2>8. /\ hist'[h].got = hist[h].got \o piece /\ hist'[h].sent = hist[h].sent
        /\ hist'[h].end = hist[h].end
    BY <2>1, <2>4 DEF HistRecord
  <2>9. ToRead(holder'[h]) = rest
    BY <2>7 DEF ToRead, Unread
  <2> HIDE DEF rest
  <2>10. (hist[h].got \o piece) \o rest = hist[h].got \o (piece \o rest)
    BY <2>6, ConcatAssoc
  <2>11. InOrder(hist'[h], holder'[h]) = InOrder(hist[h], holder[h])
    BY <2>5, <2>8, <2>9, <2>10, Zenon DEF InOrder
  <2>12. h \in Holders
    BY DEF h
  <2> QED BY <1>1, <2>4, <2>7, <2>8, <2>11, <2>12, HolderOnlyStream
<1> QED BY <1>2, <1>3 DEF readEnd

\* accept() marks the connection.
LEMMA acceptEndStream ==
    ASSUME CMInv, StreamInv, call.h \in Holders, acceptEnd
    PROVE  StreamInv'
<1> DEFINE h == call.h
<1>1. holder[h] \in HolderRecord
  BY CMInvFacts
<1>2. /\ \A g \in Holders : g # h => holder'[g] = holder[g]
      /\ holder'[h] = [holder[h] EXCEPT !.accepted = TRUE]
      /\ UNCHANGED <<pcb, hist>>
  BY DEF acceptEnd, ReturnClient, CMInv, CMTypeOK
<1> HIDE DEF h
<1>3. /\ ToRead(holder'[h]) = ToRead(holder[h])
      /\ holder'[h].state = holder[h].state /\ holder'[h].buf = holder[h].buf
  BY <1>1, <1>2, ToReadSame DEF HolderRecord
<1>4. InOrder(hist'[h], holder'[h]) = InOrder(hist[h], holder[h])
  BY <1>2, <1>3 DEF InOrder
<1>5. h \in Holders
  BY DEF h
<1> QED BY <1>2, <1>3, <1>4, <1>5, HolderOnlyStream
\* close(), stop(), and the close() inside connect(), for the stream.
LEMMA closeBeginStream ==
    ASSUME Inv, StreamInv, NEW c \in Clients, NEW op, NEW next, closeBegin(c, op, next)
    PROVE  StreamInv'
<1>1. CMInv /\ conn(c) \in Holders
  BY ClientType DEF Inv, ConnInv, closeBegin
<1>2. CASE UNCHANGED cmVars
  BY <1>2, SameStream
<1>3. CASE holder[conn(c)].state # NULL /\ CloseAttempt(conn(c))
  BY <1>1, <1>3, CloseAttemptStream
<1>4. CASE holder[conn(c)].state # NULL /\ altcp_close(conn(c))
  BY <1>1, <1>4, altcp_closeStream
<1> QED BY <1>2, <1>3, <1>4 DEF closeBegin, CloseConnected

\* The connection attempt itself.
LEMMA ConnectStartStream ==
    ASSUME Inv, StreamInv, NEW c \in Clients, NEW wait \in BOOLEAN, ConnectStart(c, wait)
    PROVE  StreamInv'
<1>1. CMInv
  BY DEF Inv, ConnInv
<1>2. CASE UNCHANGED cmVars
  BY <1>2, SameStream
<1>3. ASSUME NEW p \in Pcbs, NEW h \in Holders, ~Referenced(h),
             pcb' = [pcb EXCEPT ![p] = NewPcb("SYN_SENT", h, NULL)],
             addConnection(h, p, FALSE, TRUE)
      PROVE  StreamInv'
  BY <1>1, <1>3, AddedStream DEF Referenced
<1> QED BY <1>2, <1>3 DEF ConnectStart

\* Every callback keeps the stream in order.
LEMMA CallbackStream == Inv /\ StreamInv /\ Callback => StreamInv'
<1> SUFFICES ASSUME Inv, StreamInv, Callback PROVE StreamInv'
  OBVIOUS
<1>1. CMInv
  BY DEF Inv, ConnInv
<1>2. PICK p \in Pcbs :
         \/ StackError(p)
         \/ connectedFunc(p)
         \/ AcceptCallback(p)
         \/ \E n \in 0..MaxBytes, fin \in BOOLEAN : recvFunc(p, n, fin)
         \/ recvFuncRetry(p)
         \/ FinAcked(p)
         \/ TimeWaitOver(p)
  BY DEF Callback
<1>3. CASE StackError(p)
  BY <1>1, <1>3, errFuncStream DEF StackError
<1>4. CASE connectedFunc(p)
  BY <1>1, <1>4, connectedFuncStream
<1>5. CASE AcceptCallback(p)
  <2>1. PICK h \in Holders : ~Referenced(h) /\ acceptFunc(p, h, listeningPort_)
    BY <1>5 DEF AcceptCallback
  <2> QED BY <1>1, <2>1, AddedStream DEF acceptFunc, Referenced
<1>6. CASE \E n \in 0..MaxBytes, fin \in BOOLEAN : recvFunc(p, n, fin)
  BY <1>1, <1>6, recvFuncStream
<1>7. CASE recvFuncRetry(p)
  BY <1>1, <1>7, recvFuncRetryStream
<1>8. CASE FinAcked(p)
  BY <1>1, <1>8, FinAckedStream
<1>9. CASE TimeWaitOver(p)
  BY <1>1, <1>9, FreeSilentlyStream DEF TimeWaitOver
<1> QED BY <1>2, <1>3, <1>4, <1>5, <1>6, <1>7, <1>8, <1>9

\* Every call of the program keeps the stream in order.
LEMMA ProgramStream == Inv /\ StreamInv /\ Program => StreamInv'
<1> SUFFICES ASSUME Inv, StreamInv, Program PROVE StreamInv'
  OBVIOUS
<1>1. CMInv /\ ProgInv
  BY DEF Inv, ConnInv
<1>2. ASSUME NEW c \in Clients, close(c) \/ stop(c)
      PROVE  StreamInv'
  BY <1>2, closeBeginStream DEF close, stop
<1>3. ASSUME NEW c \in Clients, abort(c)
      PROVE  StreamInv'
  <2>1. conn(c) \in Holders
    BY <1>1, <1>3, ClientType DEF abort
  <2>2. CASE holder[conn(c)].state # NULL
    <3> DEFINE p == holder[conn(c)].state
    <3>1. p \in Pcbs
      BY <1>1, <2>1, <2>2, CMInvFacts DEF HolderRecord
    <3>2. FreeSilently(p) \/ errFunc(p, "user")
      BY <1>3, <2>2 DEF abort, altcp_abort
    <3> HIDE DEF p
    <3> QED BY <1>1, <3>1, <3>2, FreeSilentlyStream, errFuncStream
  <2>3. CASE holder[conn(c)].state = NULL
    BY <1>3, <2>3, SameStream DEF abort
  <2> QED BY <2>2, <2>3
<1>4. ASSUME NEW c \in Clients, NEW wait \in BOOLEAN, connect(c, wait)
      PROVE  StreamInv'
  BY <1>4, ConnectStartStream, closeBeginStream DEF connect
<1>5. ASSUME NEW c \in Clients,
             closeOutputBegin(c) \/ destroy(c) \/ watchPendingConnect(c) \/ pollClosed(c)
             \/ readBegin(c) \/ (\E h \in Holders : acceptBegin(c, h) \/ availableBegin(c, h))
      PROVE  StreamInv'
  BY <1>5, SameStream DEF closeOutputBegin, destroy, watchPendingConnect, pollClosed,
                          readBegin, acceptBegin, availableBegin
<1>6. ASSUME NEW c \in Clients, NEW size \in 1..MaxBytes, readRemaining(c, size)
      PROVE  StreamInv'
  <2>1. conn(c) \in Holders
    BY <1>1, <1>6, ClientType DEF readRemaining
  <2> QED BY <1>1, <1>6, <2>1, readRemainingStream
<1>7. CASE closeEnd
  <2>1. conn(call.c) \in Holders
    BY <1>1, <1>7 DEF closeEnd, ProgInv, ConnOps
  <2>2. CASE holder[conn(call.c)].state # NULL
    BY <1>1, <1>7, <2>1, <2>2, altcp_closeStream DEF closeEnd, CloseConnected
  <2>3. CASE holder[conn(call.c)].state = NULL
    BY <1>7, <2>3, SameStream DEF closeEnd
  <2> QED BY <2>2, <2>3
<1>8. CASE stopWaitEnd \/ connectTimesOut \/ connectReturns \/ end
           \/ \E port \in Ports : begin(port)
  BY <1>8, SameStream DEF stopWaitEnd, connectTimesOut, connectReturns, end, begin
<1>9. CASE closeOutputEnd
  <2>1. conn(call.c) \in Holders
    BY <1>1, <1>9 DEF closeOutputEnd, ProgInv, ConnOps
  <2>2. CASE holder[conn(call.c)].state # NULL
    BY <1>1, <1>9, <2>1, <2>2, ShutdownStream DEF closeOutputEnd
  <2>3. CASE holder[conn(call.c)].state = NULL
    BY <1>9, <2>3, SameStream DEF closeOutputEnd, cmVars
  <2> QED BY <2>2, <2>3
<1>10. CASE connectAfterClose
  <2>1. call.c \in Clients /\ (call.op = "connect") \in BOOLEAN
    BY <1>1, <1>10 DEF connectAfterClose, ProgInv
  <2> QED BY <1>10, <2>1, ConnectStartStream DEF connectAfterClose
<1>11. ASSUME NEW size \in 1..MaxBytes, readEnd(size)
       PROVE  StreamInv'
  <2>1. conn(call.c) \in Holders
    BY <1>1, <1>11 DEF readEnd, ProgInv, ConnOps
  <2> QED BY <1>1, <1>11, <2>1, readEndStream
<1>12. CASE acceptEnd \/ availableEnd
  <2>1. call.h \in Holders
    BY <1>1, <1>12 DEF acceptEnd, availableEnd, ProgInv
  <2>2. CASE acceptEnd
    BY <1>1, <2>1, <2>2, acceptEndStream
  <2>3. CASE availableEnd
    BY <2>3, SameStream DEF availableEnd, ReturnClient, cmVars
  <2> QED BY <1>12, <2>2, <2>3
<1> QED BY <1>2, <1>3, <1>4, <1>5, <1>6, <1>7, <1>8, <1>9, <1>10, <1>11, <1>12 DEF Program

\* No stream has begun at the start.
LEMMA InitStream == Init => StreamInv
<1> SUFFICES ASSUME Init PROVE StreamInv
  OBVIOUS
<1>1. ASSUME NEW h \in Holders PROVE Ordered(hist[h], holder[h])
  <2>1. /\ holder[h].buf = <<>> /\ holder[h].bufPos = 0 /\ holder[h].remaining = <<>>
        /\ hist[h].sent = 0 /\ hist[h].got = <<>> /\ hist[h].end = "none"
    BY DEF Init, CMInit, NewHolder, NoHist
  <2>2. ToRead(holder[h]) = SubSeq(<<>>, 0 + 1, Len(<<>>))
    BY <2>1 DEF ToRead, Unread
  <2>3. InOrder(hist[h], holder[h]) = <<>>
    BY <2>1, <2>2, EmptySeq, WholeSeq DEF InOrder
  <2> QED BY <2>1, <2>3, EmptySeq DEF Ordered, Counts
<1>2. \A p \in Pcbs : pcb[p].arg = NULL
  BY DEF Init, CMInit, NewPcb
<1> QED BY <1>1, <1>2, NullAssumption DEF StreamInv

\* The invariant of the stream is what the property says of it, byte by byte.
LEMMA StreamImplies == Inv /\ StreamInv => StreamIntact
<1> SUFFICES ASSUME Inv, StreamInv, NEW h \in Holders
             PROVE  LET inOrder == hist[h].got \o Pending(h) IN
                    /\ inOrder = FirstBytes(Len(inOrder))
                    /\ Len(inOrder) <= hist[h].sent
                    /\ hist[h].end = "fin" => Len(inOrder) = hist[h].sent
                    /\ \A p \in Pcbs :
                         /\ pcb[p].arg = h
                         /\ pcb[p].state \in {"ESTABLISHED", "CLOSE_WAIT", "FIN_WAIT"}
                         => inOrder \o pcb[p].refused = FirstBytes(hist[h].sent)
  BY DEF StreamIntact
<1> DEFINE s == InOrder(hist[h], holder[h])
<1>1. hist[h].got \o Pending(h) = s
  BY DEF Pending, ToRead, InOrder
<1>2. CMInv /\ s \in Seq(Nat) /\ Ordered(hist[h], holder[h])
  BY InOrderType DEF Inv, ConnInv, StreamInv
<1>3. /\ Counts(s) /\ Len(s) <= hist[h].sent
      /\ hist[h].end = "fin" => Len(s) = hist[h].sent
  BY <1>2 DEF Ordered
<1>4. s = FirstBytes(Len(s))
  BY <1>2, <1>3, CountsIsFirst
<1>5. ASSUME NEW p \in Pcbs, pcb[p].arg = h,
             pcb[p].state \in {"ESTABLISHED", "CLOSE_WAIT", "FIN_WAIT"}
      PROVE  s \o pcb[p].refused = FirstBytes(hist[h].sent)
  <2> DEFINE rf == pcb[p].refused
  <2>1. rf \in Seq(Nat)
    BY <1>2, CMInvFacts DEF PcbRecord
  <2>2. Follows(hist[h], holder[h], pcb[p]) /\ pcb[p].state \in ActiveStates
    BY <1>5 DEF StreamInv, ActiveStates
  <2>3. /\ Len(s) + Len(rf) = hist[h].sent
        /\ \A i \in 1..Len(rf) : rf[i] = Len(s) + i
    BY <2>2 DEF Follows
  <2> HIDE DEF s, rf
  <2>4. s \in Seq(Nat)
    BY <1>2
  <2>5. s \o rf \in Seq(Nat) /\ Len(s \o rf) = Len(s) + Len(rf)
    BY <2>1, <2>4
  <2>6. Counts(s \o rf)
    BY <1>3, <2>1, <2>3, <2>4, CountsOn
  <2>7. s \o rf = FirstBytes(Len(s \o rf))
    BY <2>5, <2>6, CountsIsFirst
  <2>8. Len(s \o rf) = hist[h].sent
    BY <2>3, <2>5
  <2>9. s \o rf = FirstBytes(hist[h].sent)
    BY <2>7, <2>8
  <2> QED BY <2>9 DEF rf
<1> HIDE DEF s
<1> QED BY <1>1, <1>3, <1>4, <1>5

\* In the holder of a connection the peer's bytes are read or kept, each once and in
\* order, whatever the sizes of the segments and of the reads, however often recvFunc()
\* had to refuse data, and all of the stream when the peer has closed.  That a client
\* still refers to the holder is not said.
THEOREM StreamCorrect == Spec => []StreamIntact
<1>1. Init => Inv /\ StreamInv
  BY InitInv, InitStream
<1>2. (Inv /\ StreamInv) /\ [Next]_vars => (Inv /\ StreamInv)'
  <2>1. Inv /\ [Next]_vars => Inv'
    BY NextInv
  <2>2. Inv /\ StreamInv /\ Next => StreamInv'
    BY CallbackStream, ProgramStream DEF Next
  <2>3. StreamInv /\ UNCHANGED vars => StreamInv'
    BY SameStream DEF vars, cmVars
  <2> QED BY <2>1, <2>2, <2>3
<1>3. Inv /\ StreamInv => StreamIntact
  BY StreamImplies
<1> QED BY <1>1, <1>2, <1>3, PTL DEF Spec
=============================================================================
