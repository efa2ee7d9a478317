---------------------------- MODULE HeapProofs ----------------------------
(***************************************************************************)
(* The heap of the BMS, for any number of nodes and any sizes of the heap  *)
(* and of its elements.                                                    *)
(*                                                                         *)
(* OneElement needs to be known why no handler puts a node into a FIFO     *)
(* that is in one already: the elements of addrFifo are the nodes that     *)
(* have reported, those of dataAddrFifo the nodes that were read (Places), *)
(* and what the RX thread has in hand is in neither (Apart).  With that,   *)
(* and with the balance of the heap, a k_malloc that fails says how many   *)
(* records the main thread has left waiting.  RecordsWhole rests on what   *)
(* each place in the scan has written since the last OK (Written).         *)
(*                                                                         *)
(* That the FIFOs implement ScanCycle needs the phase of the whole scan at *)
(* each place of the RX thread (ScanAtPlace).  The balance needs none of   *)
(* this, so it holds as well when timers race with handlers (RacedInv).    *)
(***************************************************************************)
EXTENDS HeapFifos, FiniteSetTheorems, SequenceTheorems, TLAPS

In(q, n) == \E i \in 1..Len(q) : q[i] = n
Distinct(q) == \A i, j \in 1..Len(q) : q[i] = q[j] => i = j

Counting == addrCnt = 0 \/ addrCnt < Cardinality(Nodes)

Places ==
  /\ \A n \in Nodes : In(addrFifo, n) => phase[n] = "reported"
  /\ \A n \in Nodes : In(dataAddrFifo, n) => phase[n] = "read"
  /\ Distinct(addrFifo) /\ Distinct(dataAddrFifo)

Apart ==
  /\ pc \in {"idle", "dispatch", "acks"} => hand = <<>>
  /\ pc \in {"token", "sent", "ack", "acked"} => Len(hand) = 1
  /\ \A n \in Nodes : In(hand, n) => ~In(addrFifo, n) /\ ~In(dataAddrFifo, n)

Balanced ==
  free + AddrSize * (Len(addrFifo) + Len(dataAddrFifo) + Len(hand))
    + LatSize * Len(hil_txqueue) = HeapSize

Exhausted == pc = "fault" => free < LatSize

Written ==
  \A n \in Nodes :
    /\ phase[n] \in {"reported", "polled", "read"} => "ok" \in data_pkt[n]
    /\ phase[n] \in {"polled", "read"} => "tok" \in data_pkt[n]
    /\ phase[n] = "read" => "cv" \in data_pkt[n]

IInv ==
  /\ TypeOK /\ Counting /\ Places /\ Apart /\ Balanced /\ Exhausted
  /\ Written /\ RecordsWhole

-----------------------------------------------------------------------------
(* The order of the scan.  mercury_mesh_sendToken looks at no status; that *)
(* it sends nothing too early follows from what counter, FIFOs and hand    *)
(* hold at each place of the RX thread.                                    *)

Queued(n) == In(addrFifo, n) \/ In(dataAddrFifo, n)
(* The OKs are being counted.                                              *)
Collecting ==
  /\ \A n \in Nodes : phase[n] # "polled"
  /\ dataAddrFifo = <<>> /\ Len(addrFifo) = addrCnt
(* A token is out, and all the other nodes are queued.                     *)
Waiting ==
  /\ addrCnt = 0
  /\ \E t \in Nodes : phase[t] = "polled" /\ \A n \in Nodes : n # t => Queued(n)
(* Every Data is in.                                                       *)
Releasing ==
  /\ addrCnt = 0 /\ addrFifo = <<>>
  /\ \A n \in Nodes :
       In(dataAddrFifo, n) \/ phase[n] = "due" \/ (pc = "ack" /\ n = hand[1])

ScanAtPlace ==
  /\ pc \in {"idle", "sent"} => Collecting \/ Waiting
  /\ pc = "dispatch" => addrCnt = 0 /\ \A n \in Nodes : Queued(n)
  /\ pc = "token" =>
       /\ addrCnt = 0 /\ phase[hand[1]] = "reported"
       /\ \A n \in Nodes : n # hand[1] => Queued(n)
  /\ pc \in {"ack", "acked", "acks"} => Releasing
  /\ pc = "ack" => phase[hand[1]] = "read"

(* A token or an ACK about to be sent is one the scan in rounds allows.    *)
InTurn ==
  /\ pc = "token" => phase[hand[1]] = "reported" /\ Scan!AllIn({"reported", "read"})
  /\ pc = "ack" => phase[hand[1]] = "read" /\ Scan!AllIn({"read", "due"})

-----------------------------------------------------------------------------
(* Sequences as FIFOs, and products.                                       *)

LEMMA EmptyFifo ==
  /\ Len(<<>>) = 0 /\ Distinct(<<>>)
  /\ \A n : ~In(<<>>, n)
  BY DEF In, Distinct

LEMMA OneInHand ==
  ASSUME NEW S, NEW m \in S
  PROVE  /\ <<m>> \in Seq(S) /\ Len(<<m>>) = 1 /\ <<m>>[1] = m
         /\ \A n : In(<<m>>, n) <=> n = m
  BY DEF In

LEMMA PutFifo ==
  ASSUME NEW S, NEW q \in Seq(S), NEW n \in S
  PROVE  /\ Append(q, n) \in Seq(S) /\ Len(Append(q, n)) = Len(q) + 1 /\ Len(q) \in Nat
         /\ \A m : In(Append(q, n), m) <=> In(q, m) \/ m = n
         /\ Distinct(q) /\ ~In(q, n) => Distinct(Append(q, n))
  <1>1. /\ Append(q, n) \in Seq(S) /\ Len(Append(q, n)) = Len(q) + 1 /\ Len(q) \in Nat
        /\ \A i \in 1..Len(q) : Append(q, n)[i] = q[i]
        /\ Append(q, n)[Len(q) + 1] = n
    BY AppendProperties, LenProperties
  <1>2. \A m : In(Append(q, n), m) <=> In(q, m) \/ m = n
    BY <1>1 DEF In
  <1>3. Distinct(q) /\ ~In(q, n) => Distinct(Append(q, n))
    BY <1>1 DEF In, Distinct
  <1>4. QED BY <1>1, <1>2, <1>3

LEMMA GetFifo ==
  ASSUME NEW S, NEW q \in Seq(S), q # <<>>
  PROVE  /\ Head(q) \in S /\ Tail(q) \in Seq(S)
         /\ Len(q) \in Nat /\ Len(Tail(q)) \in Nat /\ Len(q) = Len(Tail(q)) + 1
         /\ In(q, Head(q))
         /\ \A m : In(Tail(q), m) => In(q, m)
         /\ Distinct(q) => Distinct(Tail(q)) /\ ~In(Tail(q), Head(q))
  <1>1. /\ Head(q) \in S /\ Tail(q) \in Seq(S)
        /\ Len(q) \in Nat /\ Len(q) > 0 /\ Len(Tail(q)) = Len(q) - 1
        /\ \A i \in 1..Len(Tail(q)) : Tail(q)[i] = q[i + 1]
        /\ Head(q) = q[1]
    BY HeadTailProperties, EmptySeq
  <1>2. In(q, Head(q)) /\ \A m : In(Tail(q), m) => In(q, m)
    BY <1>1 DEF In
  <1>3. Distinct(q) => Distinct(Tail(q)) /\ ~In(Tail(q), Head(q))
    BY <1>1 DEF In, Distinct
  <1>4. QED BY <1>1, <1>2, <1>3

(* As many elements as nodes at most, when no node has two.                *)
LEMMA DistinctBound ==
  ASSUME NEW q \in Seq(Nodes), Distinct(q)
  PROVE  Len(q) \in Nat /\ Len(q) <= Cardinality(Nodes)
  <1>1. Len(q) \in Nat /\ q \in [1..Len(q) -> Nodes] /\ IsFiniteSet(Nodes)
    BY LenProperties, HeapAssumption
  <1>2. q \in Injection(1..Len(q), Nodes)
    BY <1>1 DEF Distinct, Injection, IsInjective
  <1>3. Cardinality(1..Len(q)) <= Cardinality(Nodes)
    BY <1>1, <1>2, FS_Injection
  <1>4. Cardinality(1..Len(q)) = Len(q)
    BY <1>1, FS_Interval
  <1>5. QED BY <1>1, <1>3, <1>4

LEMMA OneMore ==
  ASSUME NEW a \in Nat, NEW k \in Nat
  PROVE  a * k \in Nat /\ a * (k + 1) = a * k + a
  OBVIOUS

LEMMA Sizes ==
  /\ IsFiniteSet(Nodes) /\ Cardinality(Nodes) \in Nat
  /\ HeapSize \in Nat /\ AddrSize \in Nat /\ LatSize \in Nat /\ AddrSize <= LatSize
  BY HeapAssumption, FS_CardinalityType

LEMMA SomeNode == \A n \in Nodes : Cardinality(Nodes) > 0
  BY Sizes, FS_EmptySet

(* An element more or less against as many bytes less or more.             *)
LEMMA Weigh ==
  ASSUME NEW f \in Nat, NEW k \in Nat, NEW r \in Nat
  PROVE  /\ f + AddrSize * k + LatSize * r = HeapSize =>
              /\ (f - AddrSize) + AddrSize * (k + 1) + LatSize * r = HeapSize
              /\ (f - LatSize) + AddrSize * k + LatSize * (r + 1) = HeapSize
              /\ f <= HeapSize
         /\ f + AddrSize * (k + 1) + LatSize * r = HeapSize =>
              (f + AddrSize) + AddrSize * k + LatSize * r = HeapSize
         /\ f + AddrSize * k + LatSize * (r + 1) = HeapSize =>
              (f + LatSize) + AddrSize * k + LatSize * r = HeapSize
  <1>1. /\ AddrSize * k \in Nat /\ AddrSize * (k + 1) = AddrSize * k + AddrSize
        /\ LatSize * r \in Nat /\ LatSize * (r + 1) = LatSize * r + LatSize
    BY OneMore, Sizes
  <1>2. QED BY <1>1, Sizes

LEMMA WeighFlush ==
  ASSUME NEW f \in Nat, NEW k \in Nat, NEW h \in Nat, NEW r \in Nat,
         f + AddrSize * (k + h) + LatSize * r = HeapSize
  PROVE  /\ (f + AddrSize * k) + AddrSize * h + LatSize * r = HeapSize
         /\ f + AddrSize * k \in Nat /\ f + AddrSize * k <= HeapSize
  <1>1. /\ AddrSize * k \in Nat /\ AddrSize * h \in Nat /\ LatSize * r \in Nat
        /\ AddrSize * (k + h) = AddrSize * k + AddrSize * h
    BY OneMore, Sizes
  <1>2. QED BY <1>1, Sizes

-----------------------------------------------------------------------------
LEMMA Lengths ==
  ASSUME TypeOK
  PROVE  /\ Len(addrFifo) \in Nat /\ Len(dataAddrFifo) \in Nat /\ Len(hand) \in Nat
         /\ Len(hil_txqueue) \in Nat /\ free \in Nat /\ addrCnt \in Nat
  BY LenProperties, Sizes DEF TypeOK

LEMMA InitIInv == Init => IInv
  <1> SUFFICES ASSUME Init PROVE IInv
    OBVIOUS
  <1>1. TypeOK /\ Counting
    BY Sizes DEF Init, TypeOK, Counting, Scan!Init, Scan!TypeOK, Scan!Phase
  <1>2. Places /\ Apart
    BY EmptyFifo DEF Init, Places, Apart
  <1>3. Balanced
    BY EmptyFifo, Sizes DEF Init, Balanced
  <1>4. Exhausted /\ Written /\ RecordsWhole
    BY DEF Init, Exhausted, Written, RecordsWhole, Scan!Init
  <1>5. QED BY <1>1, <1>2, <1>3, <1>4 DEF IInv

(* A node leaves one place in the scan for another.                        *)
LEMMA MoveEffect ==
  ASSUME TypeOK, NEW n \in Nodes, NEW from \in Scan!Phase, NEW to \in Scan!Phase,
         Scan!Move(n, from, to)
  PROVE  /\ phase[n] = from /\ phase'[n] = to
         /\ \A m \in Nodes : m # n => phase'[m] = phase[m]
         /\ phase' \in [Nodes -> Scan!Phase]
  BY DEF Scan!Move, TypeOK, Scan!TypeOK

(* The OK of a node that is due.                                           *)
LEMMA StepOk ==
  ASSUME IInv, NEW n \in Nodes, OKHandler(n)
  PROVE  IInv'
  <1>1. CASE UNCHANGED <<phase, data_pkt, addrCnt, pc, fifos, free>>
    <2>1. UNCHANGED vars
      BY <1>1 DEF OKHandler, vars
    <2>2. QED BY <2>1
            DEF vars, fifos, IInv, TypeOK, Scan!TypeOK, Counting, Places, Apart, Balanced,
              Exhausted, Written, RecordsWhole
  <1>2. CASE ~UNCHANGED <<phase, data_pkt, addrCnt, pc, fifos, free>>
    <2>1. /\ pc = "idle" /\ Scan!Move(n, "due", "reported") /\ StampOk(n)
          /\ UNCHANGED hand
          /\ \/ addrCnt + 1 = Cardinality(Nodes) /\ addrCnt' = 0
             \/ addrCnt + 1 # Cardinality(Nodes) /\ addrCnt' = addrCnt + 1
          /\ PutAddr(n, "dispatch") \/ PutAddr(n, "idle")
      BY <1>2 DEF OKHandler, Scan!Report, DropOk, AllReported
    <2>2. /\ phase[n] = "due" /\ phase'[n] = "reported"
          /\ \A m \in Nodes : m # n => phase'[m] = phase[m]
          /\ phase' \in [Nodes -> Scan!Phase]
      BY <2>1, MoveEffect DEF IInv, Scan!Phase
    <2>3. /\ data_pkt' \in [Nodes -> SUBSET Stamps] /\ data_pkt'[n] = {"ok"}
          /\ \A m \in Nodes : m # n => data_pkt'[m] = data_pkt[m]
      BY <2>1 DEF StampOk, IInv, TypeOK, Stamps
    <2>4. addrCnt' \in 0..Cardinality(Nodes) /\ Counting'
      BY <2>1, Sizes, SomeNode, Lengths DEF IInv, Counting
    <2>5. ~In(addrFifo, n) /\ ~In(dataAddrFifo, n) /\ hand = <<>>
      BY <2>1, <2>2 DEF IInv, Places, Apart
    <2>6. Written'
      BY <2>2, <2>3 DEF IInv, Written
    <2>7. CASE UNCHANGED <<fifos, free>> /\ pc' = "fault" /\ free < AddrSize
      <3>1. TypeOK'
        BY <2>1, <2>2, <2>3, <2>4, <2>7 DEF IInv, TypeOK, Scan!TypeOK, Scan!Phase, fifos
      <3>2. Places'
        BY <2>2, <2>5, <2>7 DEF IInv, Places, fifos
      <3>3. Apart' /\ Balanced' /\ RecordsWhole'
        BY <2>1, <2>7 DEF IInv, Apart, Balanced, RecordsWhole, fifos
      <3>4. Exhausted'
        BY <2>7, Sizes, Lengths DEF IInv, Exhausted
      <3>5. QED BY <2>4, <2>6, <3>1, <3>2, <3>3, <3>4 DEF IInv
    <2>8. CASE /\ Malloc(AddrSize) /\ pc' \in {"dispatch", "idle"}
               /\ addrFifo' = Append(addrFifo, n)
               /\ UNCHANGED <<dataAddrFifo, hil_txqueue>>
      <3>1. /\ addrFifo' \in Seq(Nodes) /\ Len(addrFifo') = Len(addrFifo) + 1
            /\ \A m : In(addrFifo', m) <=> In(addrFifo, m) \/ m = n
            /\ Distinct(addrFifo')
        BY <2>5, <2>8, PutFifo DEF IInv, TypeOK, Places
      <3>2. free' \in 0..HeapSize /\ free' = free - AddrSize
        BY <2>8, Sizes DEF IInv, TypeOK, Malloc
      <3>3. TypeOK'
        BY <2>1, <2>2, <2>3, <2>4, <2>8, <3>1, <3>2 DEF IInv, TypeOK, Scan!TypeOK, Scan!Phase
      <3>4. Places'
        BY <2>2, <2>5, <2>8, <3>1 DEF IInv, Places
      <3>5. Apart'
        BY <2>1, <2>5, <2>8, EmptyFifo DEF Apart
      <3>6. Balanced'
        <4> DEFINE k == Len(addrFifo) + Len(dataAddrFifo) + Len(hand)
        <4>1. k \in Nat /\ Len(addrFifo') + Len(dataAddrFifo') + Len(hand') = k + 1
          BY <2>1, <2>8, <3>1, Lengths DEF IInv
        <4>2. free + AddrSize * k + LatSize * Len(hil_txqueue) = HeapSize
          BY DEF IInv, Balanced
        <4> HIDE DEF k
        <4>3. free' + AddrSize * (k + 1) + LatSize * Len(hil_txqueue) = HeapSize
          BY <3>2, <4>1, <4>2, Weigh, Lengths DEF IInv
        <4>4. QED BY <4>1, <4>3, <2>8 DEF Balanced
      <3>7. Exhausted' /\ RecordsWhole'
        BY <2>8 DEF IInv, Exhausted, RecordsWhole
      <3>8. QED BY <2>4, <2>6, <3>3, <3>4, <3>5, <3>6, <3>7 DEF IInv
    <2>9. QED BY <2>1, <2>7, <2>8 DEF PutAddr, NoMemory
  <1>3. QED BY <1>1, <1>2

(* The Data of the node that is polled.                                    *)
LEMMA StepData ==
  ASSUME IInv, NEW n \in Nodes, DataHandler(n)
  PROVE  IInv'
  <1>1. /\ pc = "idle" /\ Scan!Move(n, "polled", "read") /\ Stamp(n, "cv")
        /\ UNCHANGED <<hand, addrCnt>> /\ PutData(n, "dispatch")
    BY DEF DataHandler, Scan!Read
  <1>2. /\ phase[n] = "polled" /\ phase'[n] = "read"
        /\ \A m \in Nodes : m # n => phase'[m] = phase[m]
        /\ phase' \in [Nodes -> Scan!Phase]
    BY <1>1, MoveEffect DEF IInv, Scan!Phase
  <1>3. /\ data_pkt' \in [Nodes -> SUBSET Stamps] /\ data_pkt'[n] = data_pkt[n] \cup {"cv"}
        /\ \A m \in Nodes : m # n => data_pkt'[m] = data_pkt[m]
    BY <1>1 DEF Stamp, IInv, TypeOK, Stamps
  <1>4. ~In(addrFifo, n) /\ ~In(dataAddrFifo, n) /\ hand = <<>>
    BY <1>1, <1>2 DEF IInv, Places, Apart
  <1>5. Written' /\ Counting'
    BY <1>1, <1>2, <1>3 DEF IInv, Written, Counting
  <1>6. CASE UNCHANGED <<fifos, free>> /\ pc' = "fault" /\ free < AddrSize
    <2>1. TypeOK'
      BY <1>1, <1>2, <1>3, <1>6 DEF IInv, TypeOK, Scan!TypeOK, Scan!Phase, fifos
    <2>2. Places'
      BY <1>2, <1>4, <1>6 DEF IInv, Places, fifos
    <2>3. Apart' /\ Balanced' /\ RecordsWhole'
      BY <1>1, <1>6 DEF IInv, Apart, Balanced, RecordsWhole, fifos
    <2>4. Exhausted'
      BY <1>6, Sizes, Lengths DEF IInv, Exhausted
    <2>5. QED BY <1>5, <2>1, <2>2, <2>3, <2>4 DEF IInv
  <1>7. CASE /\ Malloc(AddrSize) /\ pc' = "dispatch"
             /\ dataAddrFifo' = Append(dataAddrFifo, n)
             /\ UNCHANGED <<addrFifo, hil_txqueue>>
    <2>1. /\ dataAddrFifo' \in Seq(Nodes) /\ Len(dataAddrFifo') = Len(dataAddrFifo) + 1
          /\ \A m : In(dataAddrFifo', m) <=> In(dataAddrFifo, m) \/ m = n
          /\ Distinct(dataAddrFifo')
      BY <1>4, <1>7, PutFifo DEF IInv, TypeOK, Places
    <2>2. free' \in 0..HeapSize /\ free' = free - AddrSize
      BY <1>7, Sizes DEF IInv, TypeOK, Malloc
    <2>3. TypeOK'
      BY <1>1, <1>2, <1>3, <1>7, <2>1, <2>2 DEF IInv, TypeOK, Scan!TypeOK, Scan!Phase
    <2>4. Places'
      BY <1>2, <1>4, <1>7, <2>1 DEF IInv, Places
    <2>5. Apart'
      BY <1>1, <1>4, <1>7, EmptyFifo DEF Apart
    <2>6. Balanced'
      <3> DEFINE k == Len(addrFifo) + Len(dataAddrFifo) + Len(hand)
      <3>1. k \in Nat /\ Len(addrFifo') + Len(dataAddrFifo') + Len(hand') = k + 1
        BY <1>1, <1>7, <2>1, Lengths DEF IInv
      <3>2. free + AddrSize * k + LatSize * Len(hil_txqueue) = HeapSize
        BY DEF IInv, Balanced
      <3> HIDE DEF k
      <3>3. free' + AddrSize * (k + 1) + LatSize * Len(hil_txqueue) = HeapSize
        BY <2>2, <3>1, <3>2, Weigh, Lengths DEF IInv
      <3>4. QED BY <3>1, <3>3, <1>7 DEF Balanced
    <2>7. Exhausted' /\ RecordsWhole'
      BY <1>7 DEF IInv, Exhausted, RecordsWhole
    <2>8. QED BY <1>5, <2>3, <2>4, <2>5, <2>6, <2>7 DEF IInv
  <1>8. QED BY <1>1, <1>6, <1>7 DEF PutData, NoMemory

(* The first element of a FIFO goes into the hand of the RX thread.        *)
LEMMA StepGetAddr == IInv /\ GetAddr => IInv'
  <1> SUFFICES ASSUME IInv, GetAddr PROVE IInv'
    OBVIOUS
  <1> DEFINE h == Head(addrFifo)
  <1>1. /\ pc = "dispatch" /\ addrFifo # <<>> /\ pc' = "token" /\ hand' = <<h>>
        /\ addrFifo' = Tail(addrFifo)
        /\ UNCHANGED <<phase, addrCnt, dataAddrFifo, hil_txqueue, free, data_pkt>>
    BY DEF GetAddr, Got
  <1>2. /\ h \in Nodes /\ addrFifo' \in Seq(Nodes)
        /\ Len(addrFifo') \in Nat /\ Len(addrFifo) = Len(addrFifo') + 1
        /\ In(addrFifo, h) /\ \A m : In(addrFifo', m) => In(addrFifo, m)
        /\ Distinct(addrFifo') /\ ~In(addrFifo', h)
    BY <1>1, GetFifo DEF IInv, TypeOK, Places
  <1>3. /\ hand' \in Seq(Nodes) /\ Len(hand') = 1 /\ \A m : In(hand', m) <=> m = h
        /\ Len(hand) = 0
    BY <1>1, <1>2, OneInHand, EmptyFifo DEF IInv, Apart
  <1>4. TypeOK' /\ Counting'
    BY <1>1, <1>2, <1>3 DEF IInv, TypeOK, Scan!TypeOK, Counting
  <1>5. Places'
    BY <1>1, <1>2 DEF IInv, Places
  <1>6. Apart'
    BY <1>1, <1>2, <1>3 DEF IInv, Apart, Places
  <1>7. Balanced'
    <2>1. Len(addrFifo') + Len(dataAddrFifo') + Len(hand') =
            Len(addrFifo) + Len(dataAddrFifo) + Len(hand)
      BY <1>1, <1>2, <1>3, Lengths DEF IInv
    <2>2. QED BY <1>1, <2>1 DEF IInv, Balanced
  <1>8. Exhausted' /\ Written' /\ RecordsWhole'
    BY <1>1 DEF IInv, Exhausted, Written, RecordsWhole
  <1>9. QED BY <1>4, <1>5, <1>6, <1>7, <1>8 DEF IInv

LEMMA StepGetData == IInv /\ GetData => IInv'
  <1> SUFFICES ASSUME IInv, GetData PROVE IInv'
    OBVIOUS
  <1> DEFINE h == Head(dataAddrFifo)
  <1>1. /\ pc \in {"dispatch", "acks"} /\ dataAddrFifo # <<>> /\ pc' = "ack" /\ hand' = <<h>>
        /\ dataAddrFifo' = Tail(dataAddrFifo)
        /\ UNCHANGED <<phase, addrCnt, addrFifo, hil_txqueue, free, data_pkt>>
    BY DEF GetData, Got
  <1>2. /\ h \in Nodes /\ dataAddrFifo' \in Seq(Nodes)
        /\ Len(dataAddrFifo') \in Nat /\ Len(dataAddrFifo) = Len(dataAddrFifo') + 1
        /\ In(dataAddrFifo, h) /\ \A m : In(dataAddrFifo', m) => In(dataAddrFifo, m)
        /\ Distinct(dataAddrFifo') /\ ~In(dataAddrFifo', h)
    BY <1>1, GetFifo DEF IInv, TypeOK, Places
  <1>3. /\ hand' \in Seq(Nodes) /\ Len(hand') = 1 /\ \A m : In(hand', m) <=> m = h
        /\ Len(hand) = 0
    BY <1>1, <1>2, OneInHand, EmptyFifo DEF IInv, Apart
  <1>4. TypeOK' /\ Counting'
    BY <1>1, <1>2, <1>3 DEF IInv, TypeOK, Scan!TypeOK, Counting
  <1>5. Places'
    BY <1>1, <1>2 DEF IInv, Places
  <1>6. Apart'
    BY <1>1, <1>2, <1>3 DEF IInv, Apart, Places
  <1>7. Balanced'
    <2>1. Len(addrFifo') + Len(dataAddrFifo') + Len(hand') =
            Len(addrFifo) + Len(dataAddrFifo) + Len(hand)
      BY <1>1, <1>2, <1>3, Lengths DEF IInv
    <2>2. QED BY <1>1, <2>1 DEF IInv, Balanced
  <1>8. Exhausted' /\ Written' /\ RecordsWhole'
    BY <1>1 DEF IInv, Exhausted, Written, RecordsWhole
  <1>9. QED BY <1>4, <1>5, <1>6, <1>7, <1>8 DEF IInv

(* The element in hand.                                                    *)
LEMMA InHand ==
  ASSUME IInv, pc \in {"token", "sent", "ack", "acked"}
  PROVE  /\ Len(hand) = 1 /\ hand[1] \in Nodes
         /\ ~In(addrFifo, hand[1]) /\ ~In(dataAddrFifo, hand[1])
  <1>1. Len(hand) = 1
    BY DEF IInv, Apart
  <1>2. 1 \in 1..Len(hand)
    BY <1>1
  <1>3. hand[1] \in Nodes /\ In(hand, hand[1])
    BY <1>2, ElementOfSeq DEF IInv, TypeOK, In
  <1>4. QED BY <1>1, <1>3 DEF IInv, Apart

(* Queued, a node is reported or read.                                     *)
LEMMA QueuedPhase ==
  ASSUME IInv, NEW n \in Nodes, Queued(n)
  PROVE  phase[n] \in {"reported", "read"} /\ ~In(hand, n)
  BY DEF IInv, Places, Apart, Queued

LEMMA IsInTurn == IInv /\ ScanAtPlace => InTurn
  <1> SUFFICES ASSUME IInv, ScanAtPlace PROVE InTurn
    OBVIOUS
  <1>1. CASE pc = "token"
    BY <1>1, QueuedPhase DEF InTurn, ScanAtPlace, Scan!AllIn
  <1>2. CASE pc = "ack"
    <2>1. \A n \in Nodes : phase[n] \in {"read", "due"}
      BY <1>2 DEF ScanAtPlace, Releasing, IInv, Places
    <2>2. QED BY <1>2, <2>1 DEF InTurn, ScanAtPlace, Scan!AllIn
  <1>3. QED BY <1>1, <1>2 DEF InTurn

(* So the status a token or an ACK leaves is a step of the scan.           *)
LEMMA SendsInTurn ==
  ASSUME IInv, ScanAtPlace
  PROVE  /\ SendToken => Scan!Poll(hand[1])
         /\ SendAck => Scan!Release(hand[1])
  BY IsInTurn DEF InTurn, SendToken, SendAck, StatesUpdate, Scan!Poll, Scan!Release, Scan!Move

LEMMA StepSendToken == IInv /\ ScanAtPlace /\ SendToken => IInv'
  <1> SUFFICES ASSUME IInv, ScanAtPlace, SendToken PROVE IInv'
    OBVIOUS
  <1> DEFINE h == hand[1]
  <1>1. /\ pc = "token" /\ Scan!Move(h, "reported", "polled") /\ Stamp(h, "tok")
        /\ pc' = "sent" /\ UNCHANGED <<addrCnt, hand, fifos, free>>
    BY SendsInTurn DEF SendToken, Scan!Poll
  <1>2. /\ Len(hand) = 1 /\ h \in Nodes /\ ~In(addrFifo, h) /\ ~In(dataAddrFifo, h)
    BY <1>1, InHand
  <1>3. /\ phase[h] = "reported" /\ phase'[h] = "polled"
        /\ \A m \in Nodes : m # h => phase'[m] = phase[m]
        /\ phase' \in [Nodes -> Scan!Phase]
    BY <1>1, <1>2, MoveEffect DEF IInv, Scan!Phase
  <1>4. /\ data_pkt' \in [Nodes -> SUBSET Stamps] /\ data_pkt'[h] = data_pkt[h] \cup {"tok"}
        /\ \A m \in Nodes : m # h => data_pkt'[m] = data_pkt[m]
    BY <1>1, <1>2 DEF Stamp, IInv, TypeOK, Stamps
  <1> HIDE DEF h
  <1>5. TypeOK' /\ Counting'
    BY <1>1, <1>3, <1>4 DEF IInv, TypeOK, Scan!TypeOK, Scan!Phase, Counting, fifos
  <1>6. Places'
    BY <1>1, <1>2, <1>3 DEF IInv, Places, fifos
  <1>7. Apart' /\ Balanced' /\ Exhausted' /\ RecordsWhole'
    BY <1>1, <1>2 DEF IInv, Apart, Balanced, Exhausted, RecordsWhole, fifos
  <1>8. Written'
    BY <1>3, <1>4 DEF IInv, Written
  <1>9. QED BY <1>5, <1>6, <1>7, <1>8 DEF IInv

(* The ACK leaves a record of the cycle of its node.                       *)
LEMMA StepSendAck == IInv /\ ScanAtPlace /\ SendAck => IInv'
  <1> SUFFICES ASSUME IInv, ScanAtPlace, SendAck PROVE IInv'
    OBVIOUS
  <1> DEFINE h == hand[1]
  <1>1. /\ pc = "ack" /\ Scan!Move(h, "read", "due") /\ PutRecord(h, "acked")
        /\ UNCHANGED <<addrCnt, hand, data_pkt>>
    BY SendsInTurn DEF SendAck, Scan!Release
  <1>2. /\ Len(hand) = 1 /\ h \in Nodes /\ ~In(addrFifo, h) /\ ~In(dataAddrFifo, h)
    BY <1>1, InHand
  <1>3. /\ phase[h] = "read" /\ phase'[h] = "due"
        /\ \A m \in Nodes : m # h => phase'[m] = phase[m]
        /\ phase' \in [Nodes -> Scan!Phase]
    BY <1>1, <1>2, MoveEffect DEF IInv, Scan!Phase
  <1>4. data_pkt[h] = Stamps /\ data_pkt[h] \in SUBSET Stamps
    BY <1>2, <1>3 DEF IInv, Written, TypeOK, Stamps
  <1>5. Written' /\ Counting'
    BY <1>1, <1>3 DEF IInv, Written, Counting
  <1>6. CASE UNCHANGED <<fifos, free>> /\ pc' = "fault" /\ free < LatSize
    <2>1. TypeOK'
      BY <1>1, <1>3, <1>6 DEF IInv, TypeOK, Scan!TypeOK, Scan!Phase, fifos
    <2>2. Places'
      BY <1>2, <1>3, <1>6 DEF IInv, Places, fifos
    <2>3. Apart' /\ Balanced' /\ Exhausted' /\ RecordsWhole'
      BY <1>1, <1>2, <1>6 DEF IInv, Apart, Balanced, Exhausted, RecordsWhole, fifos
    <2>4. QED BY <1>5, <2>1, <2>2, <2>3 DEF IInv
  <1>7. CASE /\ Malloc(LatSize) /\ pc' = "acked"
             /\ hil_txqueue' = Append(hil_txqueue, [nid |-> h, fresh |-> data_pkt[h]])
             /\ UNCHANGED <<addrFifo, dataAddrFifo>>
    <2> DEFINE rec == [nid |-> h, fresh |-> data_pkt[h]]
    <2>1. rec \in Record /\ rec.fresh = Stamps
      BY <1>2, <1>4 DEF Record
    <2> HIDE DEF rec
    <2>2. /\ hil_txqueue' \in Seq(Record) /\ Len(hil_txqueue') = Len(hil_txqueue) + 1
          /\ \A i \in 1..Len(hil_txqueue) : hil_txqueue'[i] = hil_txqueue[i]
          /\ hil_txqueue'[Len(hil_txqueue) + 1] = rec
          /\ DOMAIN hil_txqueue' = 1..Len(hil_txqueue')
          /\ DOMAIN hil_txqueue = 1..Len(hil_txqueue)
      BY <1>7, <2>1, AppendProperties, LenProperties DEF IInv, TypeOK, rec
    <2>3. free' \in 0..HeapSize /\ free' = free - LatSize
      BY <1>7, Sizes DEF IInv, TypeOK, Malloc
    <2>4. TypeOK'
      BY <1>1, <1>3, <1>7, <2>2, <2>3 DEF IInv, TypeOK, Scan!TypeOK, Scan!Phase
    <2>5. Places'
      BY <1>2, <1>3, <1>7 DEF IInv, Places
    <2>6. Apart' /\ Exhausted'
      BY <1>1, <1>2, <1>7 DEF IInv, Apart, Exhausted
    <2>7. Balanced'
      <3> DEFINE k == Len(addrFifo) + Len(dataAddrFifo) + Len(hand)
      <3>1. k \in Nat /\ k = Len(addrFifo') + Len(dataAddrFifo') + Len(hand')
        BY <1>1, <1>7, Lengths DEF IInv
      <3>2. free + AddrSize * k + LatSize * Len(hil_txqueue) = HeapSize
        BY DEF IInv, Balanced
      <3> HIDE DEF k
      <3>3. free' + AddrSize * k + LatSize * (Len(hil_txqueue) + 1) = HeapSize
        BY <2>3, <3>1, <3>2, Weigh, Lengths DEF IInv
      <3>4. QED BY <3>1, <3>3, <2>2 DEF Balanced
    <2>8. RecordsWhole'
      BY <2>1, <2>2, Lengths DEF IInv, RecordsWhole
    <2>9. QED BY <1>5, <2>4, <2>5, <2>6, <2>7, <2>8 DEF IInv
  <1>8. QED BY <1>1, <1>6, <1>7 DEF PutRecord, NoMemory

LEMMA StepFree == IInv /\ FreeHand => IInv'
  <1> SUFFICES ASSUME IInv, FreeHand PROVE IInv'
    OBVIOUS
  <1>1. /\ pc \in {"sent", "acked"} /\ pc' \in {"idle", "acks"} /\ hand' = <<>>
        /\ free' = free + AddrSize
        /\ UNCHANGED <<phase, addrCnt, addrFifo, dataAddrFifo, hil_txqueue, data_pkt>>
    BY DEF FreeHand, Freed, fifos
  <1>2. Balanced'
    <2> DEFINE k == Len(addrFifo) + Len(dataAddrFifo)
    <2>1. /\ k \in Nat /\ Len(addrFifo) + Len(dataAddrFifo) + Len(hand) = k + 1
          /\ Len(addrFifo') + Len(dataAddrFifo') + Len(hand') = k
      <3>1. Len(hand) = 1
        BY <1>1, InHand
      <3>2. Len(hand') = 0
        BY <1>1, EmptyFifo
      <3>3. Len(addrFifo) \in Nat /\ Len(dataAddrFifo) \in Nat
        BY Lengths DEF IInv
      <3>4. QED BY <1>1, <3>1, <3>2, <3>3
    <2> HIDE DEF k
    <2>2. free + AddrSize * (k + 1) + LatSize * Len(hil_txqueue) = HeapSize
      BY <2>1 DEF IInv, Balanced
    <2>3. free' + AddrSize * k + LatSize * Len(hil_txqueue) = HeapSize
      BY <1>1, <2>1, <2>2, Weigh, Lengths DEF IInv
    <2>4. QED BY <1>1, <2>1, <2>3 DEF Balanced
  <1>3. free' \in 0..HeapSize
    <2>1. /\ Len(addrFifo') + Len(dataAddrFifo') + Len(hand') \in Nat
          /\ Len(hil_txqueue') \in Nat /\ free' \in Nat
      BY <1>1, EmptyFifo, Lengths, Sizes DEF IInv
    <2>2. QED BY <1>2, <2>1, Weigh, Sizes DEF Balanced
  <1>4. TypeOK' /\ Counting'
    BY <1>1, <1>3, EmptyFifo, EmptySeq DEF IInv, TypeOK, Scan!TypeOK, Counting
  <1>5. Places' /\ Apart' /\ Exhausted' /\ Written' /\ RecordsWhole'
    BY <1>1, EmptyFifo DEF IInv, Places, Apart, Exhausted, Written, RecordsWhole
  <1>6. QED BY <1>2, <1>4, <1>5 DEF IInv

(* data_expiry_function empties the FIFOs, whatever is in hand.            *)
LEMMA StepDataExpiry ==
  ASSUME IInv, NEW n \in Nodes, DataExpiry(n)
  PROVE  IInv'
  <1> DEFINE k == Len(addrFifo) + Len(dataAddrFifo)
  <1>1. /\ pc # "fault" /\ Scan!Move(n, "polled", "due")
        /\ addrFifo' = <<>> /\ dataAddrFifo' = <<>> /\ free' = free + AddrSize * k
        /\ addrCnt' = 0 /\ UNCHANGED <<pc, hand, hil_txqueue, data_pkt>>
    BY DEF DataExpiry, Flush, Scan!Lose
  <1>2. /\ phase'[n] = "due" /\ \A m \in Nodes : m # n => phase'[m] = phase[m]
        /\ phase' \in [Nodes -> Scan!Phase]
    BY <1>1, MoveEffect DEF IInv, Scan!Phase
  <1>3. /\ free' + AddrSize * Len(hand) + LatSize * Len(hil_txqueue) = HeapSize
        /\ free' \in Nat /\ free' <= HeapSize
    <2>1. k \in Nat /\ free \in Nat /\ Len(hand) \in Nat /\ Len(hil_txqueue) \in Nat
      BY Lengths DEF IInv
    <2>2. free + AddrSize * (k + Len(hand)) + LatSize * Len(hil_txqueue) = HeapSize
      BY DEF IInv, Balanced
    <2> HIDE DEF k
    <2>3. QED BY <1>1, <2>1, <2>2, WeighFlush
  <1> HIDE DEF k
  <1>4. Balanced'
    <2>1. Len(addrFifo') + Len(dataAddrFifo') + Len(hand') = Len(hand)
      BY <1>1, EmptyFifo, Lengths DEF IInv
    <2>2. QED BY <1>1, <1>3, <2>1 DEF Balanced
  <1>5. TypeOK' /\ Counting'
    BY <1>1, <1>2, <1>3, EmptySeq, Sizes DEF IInv, TypeOK, Scan!TypeOK, Counting
  <1>6. Places' /\ Apart'
    BY <1>1, EmptyFifo DEF IInv, Places, Apart
  <1>7. Exhausted' /\ Written' /\ RecordsWhole'
    BY <1>1, <1>2 DEF IInv, Exhausted, Written, RecordsWhole
  <1>8. QED BY <1>4, <1>5, <1>6, <1>7 DEF IInv

LEMMA StepRadon == IInv /\ radon_latenciesInfoTX => IInv'
  <1> SUFFICES ASSUME IInv, radon_latenciesInfoTX PROVE IInv'
    OBVIOUS
  <1>1. /\ pc # "fault" /\ hil_txqueue # <<>> /\ hil_txqueue' = Tail(hil_txqueue)
        /\ free' = free + LatSize
        /\ UNCHANGED <<phase, addrCnt, pc, hand, addrFifo, dataAddrFifo, data_pkt>>
    BY DEF radon_latenciesInfoTX
  <1>2. /\ hil_txqueue' \in Seq(Record) /\ Len(hil_txqueue') \in Nat
        /\ Len(hil_txqueue) = Len(hil_txqueue') + 1
        /\ \A i \in 1..Len(hil_txqueue') : hil_txqueue'[i] = hil_txqueue[i + 1]
        /\ DOMAIN hil_txqueue' = 1..Len(hil_txqueue') /\ DOMAIN hil_txqueue = 1..Len(hil_txqueue)
    BY <1>1, GetFifo, HeadTailProperties, LenProperties DEF IInv, TypeOK
  <1>3. Balanced' /\ free' \in 0..HeapSize
    <2> DEFINE k == Len(addrFifo) + Len(dataAddrFifo) + Len(hand)
    <2>1. k \in Nat /\ k = Len(addrFifo') + Len(dataAddrFifo') + Len(hand')
      BY <1>1, Lengths DEF IInv
    <2>2. free + AddrSize * k + LatSize * (Len(hil_txqueue') + 1) = HeapSize
      BY <1>2 DEF IInv, Balanced
    <2> HIDE DEF k
    <2>3. free' + AddrSize * k + LatSize * Len(hil_txqueue') = HeapSize
      BY <1>1, <1>2, <2>1, <2>2, Weigh, Lengths DEF IInv
    <2>4. free' \in Nat /\ free' <= HeapSize
      <3>1. free' \in Nat
        BY <1>1, Lengths, Sizes DEF IInv
      <3>2. QED BY <1>2, <2>1, <2>3, <3>1, Weigh
    <2>5. QED BY <2>1, <2>3, <2>4, Sizes DEF Balanced
  <1>4. TypeOK' /\ Counting'
    BY <1>1, <1>2, <1>3 DEF IInv, TypeOK, Scan!TypeOK, Counting
  <1>5. Places' /\ Apart' /\ Exhausted' /\ Written'
    BY <1>1 DEF IInv, Places, Apart, Exhausted, Written
  <1>6. RecordsWhole'
    BY <1>2 DEF IInv, RecordsWhole
  <1>7. QED BY <1>3, <1>4, <1>5, <1>6 DEF IInv

LEMMA StepIInv == IInv /\ ScanAtPlace /\ [Next]_vars => IInv'
  <1> SUFFICES ASSUME IInv, ScanAtPlace, [Next]_vars PROVE IInv'
    OBVIOUS
  <1>1. ASSUME NEW n \in Nodes, OKHandler(n) PROVE IInv'
    BY <1>1, StepOk
  <1>2. ASSUME NEW n \in Nodes, DataHandler(n) PROVE IInv'
    BY <1>2, StepData
  <1>3. ASSUME NEW n \in Nodes, DataExpiry(n) PROVE IInv'
    BY <1>3, StepDataExpiry
  <1>4. CASE Return \/ SendFails \/ UNCHANGED vars
    <2>1. /\ UNCHANGED <<phase, addrCnt, hand, addrFifo, dataAddrFifo, hil_txqueue, free,
                        data_pkt>>
          /\ \/ pc \in {"dispatch", "acks"} /\ pc' = "idle"
             \/ pc \in {"token", "ack"} /\ pc' = "fatal"
             \/ UNCHANGED pc
      BY <1>4 DEF Return, SendFails, vars, fifos
    <2>2. QED BY <2>1
            DEF IInv, TypeOK, Scan!TypeOK, Counting, Places, Apart, Balanced, Exhausted,
              Written, RecordsWhole
  <1>5. QED
    BY <1>1, <1>2, <1>3, <1>4, StepGetAddr, StepGetData, StepSendToken, StepSendAck,
      StepFree, StepRadon DEF Next

-----------------------------------------------------------------------------
(* The order of the scan.                                                  *)

(* As many nodes queued as there are, all of them are.                     *)
LEMMA FullFifo ==
  ASSUME NEW q \in Seq(Nodes), Distinct(q), Len(q) = Cardinality(Nodes)
  PROVE  \A n \in Nodes : In(q, n)
  <1>1. Len(q) \in Nat /\ q \in [1..Len(q) -> Nodes] /\ IsFiniteSet(Nodes)
    BY LenProperties, HeapAssumption
  <1>2. q \in Injection(1..Len(q), Nodes)
    BY <1>1 DEF Distinct, Injection, IsInjective
  <1>3. Cardinality(1..Len(q)) = Cardinality(Nodes)
    BY <1>1, FS_Interval
  <1>4. q \in Surjection(1..Len(q), Nodes)
    BY <1>1, <1>2, <1>3, FS_Injection
  <1>5. QED BY <1>4 DEF Surjection, In

LEMMA ScanInit == Init => ScanAtPlace
  <1> SUFFICES ASSUME Init PROVE Collecting /\ pc = "idle"
    BY DEF ScanAtPlace
  <1>1. QED BY EmptyFifo DEF Init, Collecting, Scan!Init

LEMMA ScanOk ==
  ASSUME IInv, ScanAtPlace, NEW n \in Nodes, OKHandler(n)
  PROVE  ScanAtPlace'
  <1>1. CASE UNCHANGED <<phase, addrCnt, pc, fifos, hand>>
    BY <1>1 DEF ScanAtPlace, Collecting, Waiting, Releasing, Queued, fifos
  <1>2. CASE ~UNCHANGED <<phase, addrCnt, pc, fifos, hand>>
    <2>1. /\ pc = "idle" /\ Scan!Move(n, "due", "reported") /\ UNCHANGED hand
          /\ \/ /\ addrCnt + 1 = Cardinality(Nodes) /\ addrCnt' = 0
                /\ PutAddr(n, "dispatch")
             \/ /\ addrCnt + 1 # Cardinality(Nodes) /\ addrCnt' = addrCnt + 1
                /\ PutAddr(n, "idle")
      BY <1>2 DEF OKHandler, Scan!Report, AllReported
    <2>2. /\ phase[n] = "due" /\ phase'[n] = "reported"
          /\ \A m \in Nodes : m # n => phase'[m] = phase[m]
      BY <2>1, MoveEffect DEF IInv, Scan!Phase
    <2>3. Collecting
      BY <2>1, <2>2, QueuedPhase DEF ScanAtPlace, Waiting
    <2>4. CASE pc' = "fault"
      BY <2>4 DEF ScanAtPlace
    <2>5. CASE /\ pc' \in {"dispatch", "idle"} /\ addrFifo' = Append(addrFifo, n)
               /\ UNCHANGED <<dataAddrFifo, hil_txqueue>>
      <3>1. ~In(addrFifo, n)
        BY <2>2 DEF IInv, Places
      <3>2. /\ addrFifo' \in Seq(Nodes) /\ Len(addrFifo') = addrCnt + 1
            /\ Distinct(addrFifo')
        BY <2>3, <2>5, <3>1, PutFifo DEF IInv, TypeOK, Places, Collecting
      <3>3. CASE pc' = "dispatch"
        <4>1. addrCnt + 1 = Cardinality(Nodes) /\ addrCnt' = 0
          BY <2>1, <3>3 DEF PutAddr, NoMemory
        <4>2. \A m \in Nodes : In(addrFifo', m)
          BY <3>2, <4>1, FullFifo
        <4>3. QED BY <3>3, <4>1, <4>2 DEF ScanAtPlace, Queued
      <3>4. CASE pc' = "idle"
        <4>1. addrCnt' = addrCnt + 1
          BY <2>1, <3>4 DEF PutAddr, NoMemory
        <4>2. Collecting'
          BY <2>2, <2>3, <2>5, <3>2, <4>1 DEF Collecting
        <4>3. QED BY <3>4, <4>2 DEF ScanAtPlace
      <3>5. QED BY <2>5, <3>3, <3>4
    <2>6. QED BY <2>1, <2>4, <2>5 DEF PutAddr, NoMemory
  <1>3. QED BY <1>1, <1>2

(* The node that is polled is the only one that is not queued.             *)
LEMMA ScanData ==
  ASSUME IInv, ScanAtPlace, NEW n \in Nodes, DataHandler(n)
  PROVE  ScanAtPlace'
  <1>1. /\ pc = "idle" /\ Scan!Move(n, "polled", "read")
        /\ UNCHANGED <<hand, addrCnt>> /\ PutData(n, "dispatch")
    BY DEF DataHandler, Scan!Read
  <1>2. phase[n] = "polled"
    BY <1>1, MoveEffect DEF IInv, Scan!Phase
  <1>3. addrCnt = 0 /\ \A m \in Nodes : m # n => Queued(m)
    BY <1>1, <1>2, QueuedPhase DEF ScanAtPlace, Collecting, Waiting
  <1>4. CASE pc' = "fault"
    BY <1>4 DEF ScanAtPlace
  <1>5. CASE /\ pc' = "dispatch" /\ dataAddrFifo' = Append(dataAddrFifo, n)
             /\ UNCHANGED <<addrFifo, hil_txqueue>>
    <2>1. \A m : In(dataAddrFifo', m) <=> In(dataAddrFifo, m) \/ m = n
      BY <1>5, PutFifo DEF IInv, TypeOK
    <2>2. QED BY <1>1, <1>3, <1>5, <2>1 DEF ScanAtPlace, Queued
  <1>6. QED BY <1>1, <1>4, <1>5 DEF PutData, NoMemory

(* Of a FIFO that is not empty all but the first are left.                 *)
LEMMA RestFifo ==
  ASSUME NEW S, NEW q \in Seq(S), q # <<>>
  PROVE  \A m : In(q, m) => m = Head(q) \/ In(Tail(q), m)
  <1>1. /\ Len(q) \in Nat /\ Len(Tail(q)) = Len(q) - 1 /\ Len(q) > 0
        /\ \A i \in 1..Len(Tail(q)) : Tail(q)[i] = q[i + 1]
        /\ Head(q) = q[1]
    BY HeadTailProperties, EmptySeq
  <1>2. ASSUME NEW i \in 1..Len(q), i # 1 PROVE In(Tail(q), q[i])
    <2>1. i - 1 \in 1..Len(Tail(q)) /\ (i - 1) + 1 = i
      BY <1>1, <1>2
    <2>2. QED BY <1>1, <2>1 DEF In
  <1>3. QED BY <1>1, <1>2 DEF In

LEMMA ScanGetAddr == IInv /\ ScanAtPlace /\ GetAddr => ScanAtPlace'
  <1> SUFFICES ASSUME IInv, ScanAtPlace, GetAddr PROVE ScanAtPlace'
    OBVIOUS
  <1> DEFINE h == Head(addrFifo)
  <1>1. /\ pc = "dispatch" /\ addrFifo # <<>> /\ pc' = "token" /\ hand' = <<h>>
        /\ addrFifo' = Tail(addrFifo) /\ UNCHANGED <<phase, addrCnt, dataAddrFifo>>
    BY DEF GetAddr, Got
  <1>2. /\ h \in Nodes /\ In(addrFifo, h)
        /\ \A m : In(addrFifo, m) => m = h \/ In(addrFifo', m)
    BY <1>1, GetFifo, RestFifo DEF IInv, TypeOK
  <1>3. phase'[h] = "reported" /\ hand'[1] = h
    BY <1>1, <1>2 DEF IInv, Places
  <1>4. addrCnt' = 0 /\ \A m \in Nodes : m # h => Queued(m)'
    BY <1>1, <1>2 DEF ScanAtPlace, Queued
  <1>5. QED BY <1>1, <1>3, <1>4 DEF ScanAtPlace

LEMMA ScanGetData == IInv /\ ScanAtPlace /\ GetData => ScanAtPlace'
  <1> SUFFICES ASSUME IInv, ScanAtPlace, GetData PROVE ScanAtPlace'
    OBVIOUS
  <1> DEFINE h == Head(dataAddrFifo)
  <1>1. /\ (pc = "dispatch" /\ addrFifo = <<>>) \/ pc = "acks"
        /\ dataAddrFifo # <<>> /\ pc' = "ack" /\ hand' = <<h>>
        /\ dataAddrFifo' = Tail(dataAddrFifo) /\ UNCHANGED <<phase, addrCnt, addrFifo>>
    BY DEF GetData, Got
  <1>2. /\ h \in Nodes /\ In(dataAddrFifo, h)
        /\ \A m : In(dataAddrFifo, m) => m = h \/ In(dataAddrFifo', m)
    BY <1>1, GetFifo, RestFifo DEF IInv, TypeOK
  <1>3. phase'[h] = "read" /\ hand'[1] = h
    BY <1>1, <1>2 DEF IInv, Places
  <1>4. /\ addrCnt = 0 /\ addrFifo = <<>>
        /\ \A m \in Nodes : In(dataAddrFifo, m) \/ phase[m] = "due"
    BY <1>1, EmptyFifo DEF ScanAtPlace, Releasing, Queued
  <1>5. Releasing'
    BY <1>1, <1>2, <1>3, <1>4 DEF Releasing
  <1>6. QED BY <1>1, <1>3, <1>5 DEF ScanAtPlace

LEMMA ScanSend ==
  ASSUME IInv, ScanAtPlace, SendToken \/ SendAck
  PROVE  ScanAtPlace'
  <1> DEFINE h == hand[1]
  <1>1. CASE SendToken
    <2>1. /\ pc = "token" /\ Scan!Move(h, "reported", "polled") /\ pc' = "sent"
          /\ UNCHANGED <<addrCnt, hand, addrFifo, dataAddrFifo>>
      BY <1>1, SendsInTurn DEF SendToken, Scan!Poll, fifos
    <2>2. h \in Nodes /\ phase'[h] = "polled"
      BY <2>1, InHand, MoveEffect DEF IInv, Scan!Phase
    <2>3. Waiting'
      BY <2>1, <2>2 DEF ScanAtPlace, Waiting, Queued
    <2>4. QED BY <2>1, <2>3 DEF ScanAtPlace
  <1>2. CASE SendAck
    <2>1. /\ pc = "ack" /\ Scan!Move(h, "read", "due") /\ pc' \in {"acked", "fault"}
          /\ UNCHANGED <<addrCnt, hand, addrFifo, dataAddrFifo>>
      BY <1>2, SendsInTurn DEF SendAck, Scan!Release, PutRecord, NoMemory, fifos
    <2>2. /\ h \in Nodes /\ phase'[h] = "due"
          /\ \A m \in Nodes : m # h => phase'[m] = phase[m]
      BY <2>1, InHand, MoveEffect DEF IInv, Scan!Phase
    <2>3. Releasing'
      BY <2>1, <2>2 DEF ScanAtPlace, Releasing
    <2>4. QED BY <2>1, <2>3 DEF ScanAtPlace
  <1>3. QED BY <1>1, <1>2

LEMMA ScanReturn ==
  ASSUME IInv, ScanAtPlace, Return \/ FreeHand \/ SendFails
  PROVE  ScanAtPlace'
  <1>1. UNCHANGED <<phase, addrCnt, addrFifo, dataAddrFifo>>
    BY DEF Return, FreeHand, SendFails, fifos
  <1>2. CASE Return
    <2>1. /\ (pc = "dispatch" /\ addrFifo = <<>>) \/ pc = "acks"
          /\ dataAddrFifo = <<>> /\ pc' = "idle"
      BY <1>2 DEF Return
    <2>2. /\ addrCnt = 0 /\ addrFifo = <<>> /\ \A m \in Nodes : phase[m] = "due"
      BY <2>1, EmptyFifo DEF ScanAtPlace, Releasing, Queued
    <2>3. Collecting'
      BY <1>1, <2>1, <2>2, EmptyFifo DEF Collecting
    <2>4. QED BY <2>1, <2>3 DEF ScanAtPlace
  <1>3. CASE FreeHand
    <2>1. (pc = "sent" /\ pc' = "idle") \/ (pc = "acked" /\ pc' = "acks")
      BY <1>3 DEF FreeHand
    <2>2. QED BY <1>1, <2>1 DEF ScanAtPlace, Collecting, Waiting, Releasing, Queued
  <1>4. CASE SendFails
    BY <1>4 DEF SendFails, ScanAtPlace
  <1>5. QED BY <1>2, <1>3, <1>4

(* A node is polled only where the RX thread has sent a token and has not  *)
(* taken the Data yet.                                                     *)
LEMMA ScanDataExpiry ==
  ASSUME IInv, ScanAtPlace, NEW n \in Nodes, DataExpiry(n)
  PROVE  ScanAtPlace'
  <1>1. /\ pc # "fault" /\ Scan!Move(n, "polled", "due")
        /\ addrFifo' = <<>> /\ dataAddrFifo' = <<>> /\ addrCnt' = 0 /\ UNCHANGED <<pc, hand>>
    BY DEF DataExpiry, Flush, Scan!Lose
  <1>2. /\ phase[n] = "polled" /\ phase'[n] = "due"
        /\ \A m \in Nodes : m # n => phase'[m] = phase[m]
    BY <1>1, MoveEffect DEF IInv, Scan!Phase
  <1>3. ASSUME pc \in {"ack", "acked", "acks", "dispatch", "token"} PROVE FALSE
    <2>1. ~Queued(n)
      BY <1>2, QueuedPhase
    <2>2. CASE pc = "token"
      BY <1>2, <2>1, <2>2 DEF ScanAtPlace
    <2>3. CASE pc # "token"
      BY <1>2, <1>3, <2>1, <2>3 DEF ScanAtPlace, Releasing, Queued
    <2>4. QED BY <2>2, <2>3
  <1>4. CASE pc \in {"idle", "sent"}
    <2>1. \A m \in Nodes : m # n => phase[m] # "polled"
      BY <1>2, <1>4, QueuedPhase DEF ScanAtPlace, Collecting, Waiting
    <2>2. Collecting'
      BY <1>1, <1>2, <2>1, EmptyFifo DEF Collecting
    <2>3. QED BY <1>1, <1>4, <2>2 DEF ScanAtPlace
  <1>5. CASE pc = "fatal"
    BY <1>1, <1>5 DEF ScanAtPlace
  <1>6. QED BY <1>1, <1>3, <1>4, <1>5 DEF IInv, TypeOK

LEMMA ScanStep == IInv /\ ScanAtPlace /\ [Next]_vars => ScanAtPlace'
  <1> SUFFICES ASSUME IInv, ScanAtPlace, [Next]_vars PROVE ScanAtPlace'
    OBVIOUS
  <1>1. CASE radon_latenciesInfoTX \/ UNCHANGED vars
    <2>1. UNCHANGED <<phase, addrCnt, pc, hand, addrFifo, dataAddrFifo>>
      BY <1>1 DEF radon_latenciesInfoTX, vars, fifos
    <2>2. QED BY <2>1 DEF ScanAtPlace, Collecting, Waiting, Releasing, Queued
  <1>2. QED
    BY <1>1, ScanOk, ScanData, ScanDataExpiry, ScanGetAddr, ScanGetData, ScanSend,
      ScanReturn DEF Next

(* The counter, the FIFOs and the order of the scan, of which neither can  *)
(* be known without the other.                                             *)
LEMMA HeapInvariant == Spec => [](IInv /\ ScanAtPlace)
  <1>1. QED BY InitIInv, StepIInv, ScanInit, ScanStep, PTL DEF Spec

-----------------------------------------------------------------------------
(* The two FIFOs and the hand, one after the other.                        *)
LEMMA Concatenated ==
  ASSUME IInv
  PROVE  /\ Elements \in Seq(Nodes)
         /\ Len(Elements) = Len(addrFifo) + Len(dataAddrFifo) + Len(hand)
         /\ \A i \in 1..Len(Elements) :
              Elements[i] =
                IF i <= Len(addrFifo) THEN addrFifo[i]
                ELSE IF i <= Len(addrFifo) + Len(dataAddrFifo)
                       THEN dataAddrFifo[i - Len(addrFifo)]
                       ELSE hand[i - Len(addrFifo) - Len(dataAddrFifo)]
  <1> DEFINE q == addrFifo \o dataAddrFifo
  <1>1. /\ addrFifo \in Seq(Nodes) /\ dataAddrFifo \in Seq(Nodes) /\ hand \in Seq(Nodes)
        /\ Len(addrFifo) \in Nat /\ Len(dataAddrFifo) \in Nat /\ Len(hand) \in Nat
    BY Lengths DEF IInv, TypeOK
  <1>2. /\ q \in Seq(Nodes) /\ Len(q) = Len(addrFifo) + Len(dataAddrFifo)
        /\ \A i \in 1..Len(addrFifo) + Len(dataAddrFifo) :
             q[i] = IF i <= Len(addrFifo) THEN addrFifo[i] ELSE dataAddrFifo[i - Len(addrFifo)]
    BY <1>1, ConcatProperties
  <1>3. Elements = q \o hand
    BY DEF Elements
  <1> HIDE DEF q
  <1>4. /\ Elements \in Seq(Nodes) /\ Len(Elements) = Len(q) + Len(hand)
        /\ \A i \in 1..Len(q) + Len(hand) :
             Elements[i] = IF i <= Len(q) THEN q[i] ELSE hand[i - Len(q)]
    BY <1>1, <1>2, <1>3, ConcatProperties
  <1>5. QED BY <1>1, <1>2, <1>4

LEMMA NoneTwice == IInv => Distinct(Elements)
  <1> SUFFICES ASSUME IInv, NEW i \in 1..Len(Elements), NEW j \in 1..Len(Elements),
                      Elements[i] = Elements[j]
               PROVE  i = j
    BY DEF Distinct
  <1> DEFINE a == Len(addrFifo)
             d == Len(dataAddrFifo)
             n == Elements[i]
  <1>1. /\ a \in Nat /\ d \in Nat /\ Len(hand) \in Nat /\ Len(hand) <= 1
        /\ Len(Elements) = a + d + Len(hand)
    <2>1. Len(hand) \in Nat /\ Len(hand) <= 1
      BY LenProperties DEF IInv, TypeOK
    <2>2. a \in Nat /\ d \in Nat
      BY Lengths DEF IInv
    <2>3. Len(Elements) = a + d + Len(hand)
      BY Concatenated
    <2>4. QED BY <2>1, <2>2, <2>3
  <1>2. n \in Nodes
    BY Concatenated, ElementOfSeq
  <1>3. ASSUME NEW k \in 1..Len(Elements), Elements[k] = n
        PROVE  \/ k <= a /\ addrFifo[k] = n /\ In(addrFifo, n)
               \/ k > a /\ k <= a + d /\ dataAddrFifo[k - a] = n /\ In(dataAddrFifo, n)
               \/ k = a + d + 1 /\ In(hand, n)
    <2>1. CASE k <= a
      BY <1>1, <1>3, <2>1, Concatenated DEF In
    <2>2. CASE k > a /\ k <= a + d
      <3>1. k - a \in 1..d /\ dataAddrFifo[k - a] = n
        BY <1>1, <1>3, <2>2, Concatenated
      <3>2. QED BY <3>1, <2>2 DEF In
    <2>3. CASE k > a + d
      <3>1. k = a + d + 1 /\ k - a - d \in 1..Len(hand) /\ hand[k - a - d] = n
        BY <1>1, <1>3, <2>3, Concatenated
      <3>2. QED BY <3>1 DEF In
    <2>4. QED BY <1>1, <2>1, <2>2, <2>3
  <1>4. /\ ~(In(addrFifo, n) /\ In(dataAddrFifo, n))
        /\ In(hand, n) => ~In(addrFifo, n) /\ ~In(dataAddrFifo, n)
    BY <1>2 DEF IInv, Places, Apart
  <1>5. Distinct(addrFifo) /\ Distinct(dataAddrFifo)
    BY DEF IInv, Places
  <1>6. CASE i <= a /\ j <= a
    <2>1. addrFifo[i] = addrFifo[j] /\ i \in 1..a /\ j \in 1..a
      BY <1>1, <1>3, <1>6
    <2>2. QED BY <2>1, <1>5 DEF Distinct
  <1>7. CASE i > a /\ i <= a + d /\ j > a /\ j <= a + d
    <2>1. dataAddrFifo[i - a] = dataAddrFifo[j - a] /\ i - a \in 1..d /\ j - a \in 1..d
      BY <1>1, <1>3, <1>7
    <2>2. i - a = j - a
      BY <2>1, <1>5 DEF Distinct
    <2>3. QED BY <2>2, <1>1
  <1>8. QED BY <1>1, <1>3, <1>4, <1>6, <1>7

(* Every variable stays in its type: no FIFO holds anything but nodes, and *)
(* the heap never has more bytes free than it has.                         *)
THEOREM HeapTypeOK == Spec => []TypeOK
  <1>1. IInv => TypeOK
    BY DEF IInv
  <1>2. QED BY <1>1, HeapInvariant, PTL

(* Nothing leaks and nothing is freed twice, although data_expiry_function *)
(* empties the FIFOs in the middle of the handlers.                        *)
THEOREM HeapBalancedHolds == Spec => []HeapBalanced
  <1>1. IInv => HeapBalanced
    BY Concatenated DEF IInv, Balanced, HeapBalanced
  <1>2. QED BY <1>1, HeapInvariant, PTL

(* No node has two elements in addrFifo, dataAddrFifo and the hand of      *)
(* mercury_mesh_sendToken.                                                 *)
THEOREM OneElementHolds == Spec => []OneElement
  <1>1. IInv => OneElement
    <2> SUFFICES ASSUME IInv PROVE IsInjective(Elements)
      BY DEF OneElement
    <2>1. DOMAIN Elements = 1..Len(Elements)
      BY Concatenated, LenProperties
    <2>2. QED BY <2>1, NoneTwice DEF Distinct, IsInjective
  <1>2. QED BY <1>1, HeapInvariant, PTL

(* Without memory, the records that wait in hil_txqueue and one more leave *)
(* no room for an element of every node.                                   *)
THEOREM NullMeansBacklogHolds == Spec => []NullMeansBacklog
  <1>1. IInv => NullMeansBacklog
    <2> SUFFICES ASSUME IInv, pc = "fault"
                 PROVE  LatSize * (Len(hil_txqueue) + 1) + AddrSize * Cardinality(Nodes)
                          > HeapSize
      BY DEF NullMeansBacklog
    <2> DEFINE k == Len(Elements)
               r == Len(hil_txqueue)
    <2>1. k \in Nat /\ k <= Cardinality(Nodes)
      BY NoneTwice, Concatenated, DistinctBound
    <2>2. free + AddrSize * k + LatSize * r = HeapSize
      BY Concatenated DEF IInv, Balanced
    <2>3. free < LatSize /\ free \in Nat /\ r \in Nat
      BY Lengths DEF IInv, Exhausted
    <2>4. AddrSize * k \in Nat /\ AddrSize * k <= AddrSize * Cardinality(Nodes)
      <3>1. PICK e \in Nat : Cardinality(Nodes) = k + e
        BY <2>1, Sizes
      <3>2. AddrSize * (k + e) = AddrSize * k + AddrSize * e
        BY <2>1, <3>1, Sizes
      <3>3. AddrSize * k \in Nat /\ AddrSize * e \in Nat
        BY <2>1, <3>1, OneMore, Sizes
      <3>4. QED BY <3>1, <3>2, <3>3
    <2>5. /\ LatSize * (r + 1) = LatSize * r + LatSize /\ LatSize * r \in Nat
          /\ AddrSize * Cardinality(Nodes) \in Nat
      BY <2>3, OneMore, Sizes
    <2> HIDE DEF k, r
    <2>6. LatSize * (r + 1) + AddrSize * Cardinality(Nodes) > HeapSize
      BY <2>2, <2>3, <2>4, <2>5, Sizes
    <2>7. QED BY <2>6 DEF r
  <1>2. QED BY <1>1, HeapInvariant, PTL

(* A record of latencies holds the times of one cycle of its node.         *)
THEOREM RecordsWholeHolds == Spec => []RecordsWhole
  <1>1. IInv => RecordsWhole
    BY DEF IInv
  <1>2. QED BY <1>1, HeapInvariant, PTL


(* mercury_mesh_sendToken sends what it has taken out of a FIFO without a  *)
(* look at any status; counter, emptiness tests and restarts alone make it *)
(* a scan in rounds.                                                       *)
THEOREM HeapImplementsScan == Spec => ScanSpec
  <1>1. Init => Scan!Init
    BY DEF Init
  <1>2. IInv /\ ScanAtPlace /\ [Next]_vars => [Scan!Next]_phase
    <2> SUFFICES ASSUME IInv, ScanAtPlace, [Next]_vars PROVE [Scan!Next]_phase
      OBVIOUS
    <2>1. ASSUME NEW n \in Nodes, OKHandler(n) \/ DataHandler(n) \/ DataExpiry(n)
          PROVE  [Scan!Next]_phase
      BY <2>1 DEF OKHandler, DataHandler, DataExpiry, Scan!Next
    <2>2. CASE SendToken \/ SendAck
      <3>1. hand[1] \in Nodes
        BY <2>2, InHand DEF SendToken, SendAck
      <3>2. QED BY <2>2, <3>1, SendsInTurn DEF Scan!Next
    <2>3. CASE \/ GetAddr \/ GetData \/ Return \/ SendFails \/ FreeHand
               \/ radon_latenciesInfoTX \/ UNCHANGED vars
      BY <2>3 DEF GetAddr, GetData, Return, SendFails, FreeHand, radon_latenciesInfoTX, vars
    <2>4. QED BY <2>1, <2>2, <2>3 DEF Next
  <1>3. QED BY <1>1, <1>2, HeapInvariant, PTL DEF Spec, ScanSpec, Scan!Spec

-----------------------------------------------------------------------------
(* The balance of the heap when timers race with the handlers: only types, *)
(* and where the RX thread has an element in hand, are needed for it.      *)

HandAtPlace ==
  /\ pc \in {"idle", "dispatch", "acks"} => hand = <<>>
  /\ pc \in {"token", "sent", "ack", "acked"} => Len(hand) = 1

RacedInv == TypeOK /\ Balanced /\ HandAtPlace

(* What is taken from the free bytes goes into a FIFO, and back.           *)
LEMMA BalanceOf ==
  ASSUME NEW f \in Nat, NEW k \in Nat, NEW r \in Nat,
         f + AddrSize * k + LatSize * r = HeapSize
  PROVE  f \in 0..HeapSize
  BY Weigh, Sizes

LEMMA RacedMalloc ==
  ASSUME RacedInv, NEW n \in Nodes, NEW next, next \in {"idle", "dispatch"},
         pc = "idle", UNCHANGED hand, PutAddr(n, next) \/ PutData(n, next)
  PROVE  Balanced' /\ HandAtPlace' /\ free' \in 0..HeapSize
         /\ addrFifo' \in Seq(Nodes) /\ dataAddrFifo' \in Seq(Nodes)
         /\ UNCHANGED hil_txqueue /\ pc' \in {"idle", "dispatch", "fault"}
  <1> USE DEF RacedInv
  <1>1. CASE NoMemory(AddrSize)
    BY <1>1 DEF NoMemory, fifos, TypeOK, Balanced, HandAtPlace
  <1>2. CASE /\ Malloc(AddrSize) /\ pc' = next /\ UNCHANGED hil_txqueue
             /\ \/ addrFifo' = Append(addrFifo, n) /\ UNCHANGED dataAddrFifo
                \/ dataAddrFifo' = Append(dataAddrFifo, n) /\ UNCHANGED addrFifo
    <2> DEFINE k == Len(addrFifo) + Len(dataAddrFifo) + Len(hand)
               r == Len(hil_txqueue)
    <2>1. /\ k \in Nat /\ r \in Nat /\ addrFifo' \in Seq(Nodes) /\ dataAddrFifo' \in Seq(Nodes)
          /\ Len(addrFifo') + Len(dataAddrFifo') + Len(hand') = k + 1
      <3>1. addrFifo \in Seq(Nodes) /\ dataAddrFifo \in Seq(Nodes)
        BY DEF TypeOK
      <3>2. CASE addrFifo' = Append(addrFifo, n) /\ UNCHANGED dataAddrFifo
        <4>1. addrFifo' \in Seq(Nodes) /\ Len(addrFifo') = Len(addrFifo) + 1
          BY <3>1, <3>2, PutFifo
        <4>2. QED BY <3>1, <3>2, <4>1, Lengths
      <3>3. CASE dataAddrFifo' = Append(dataAddrFifo, n) /\ UNCHANGED addrFifo
        <4>1. dataAddrFifo' \in Seq(Nodes) /\ Len(dataAddrFifo') = Len(dataAddrFifo) + 1
          BY <3>1, <3>3, PutFifo
        <4>2. QED BY <3>1, <3>3, <4>1, Lengths
      <3>4. QED BY <1>2, <3>2, <3>3
    <2>2. free + AddrSize * k + LatSize * r = HeapSize
      BY DEF Balanced
    <2>3. free' \in Nat /\ free' = free - AddrSize
      BY <1>2, Sizes, Lengths DEF Malloc
    <2> HIDE DEF k, r
    <2>4. free' + AddrSize * (k + 1) + LatSize * r = HeapSize
      BY <2>1, <2>2, <2>3, Weigh, Lengths
    <2>5. Balanced' /\ free' \in 0..HeapSize
      BY <1>2, <2>1, <2>3, <2>4, BalanceOf DEF Balanced, r
    <2>6. HandAtPlace'
      BY <1>2 DEF HandAtPlace
    <2>7. QED BY <1>2, <2>1, <2>5, <2>6
  <1>3. QED BY <1>1, <1>2 DEF PutAddr, PutData

LEMMA RacedRecord ==
  ASSUME RacedInv, pc = "ack", UNCHANGED hand, PutRecord(hand[1], "acked")
  PROVE  Balanced' /\ HandAtPlace' /\ free' \in 0..HeapSize
         /\ hil_txqueue' \in Seq(Record) /\ UNCHANGED <<addrFifo, dataAddrFifo>>
         /\ pc' \in {"acked", "fault"}
  <1> USE DEF RacedInv
  <1>1. CASE NoMemory(LatSize)
    BY <1>1 DEF NoMemory, fifos, TypeOK, Balanced, HandAtPlace
  <1>2. CASE /\ Malloc(LatSize) /\ pc' = "acked" /\ UNCHANGED <<addrFifo, dataAddrFifo>>
             /\ hil_txqueue' =
                  Append(hil_txqueue, [nid |-> hand[1], fresh |-> data_pkt[hand[1]]])
    <2> DEFINE k == Len(addrFifo) + Len(dataAddrFifo) + Len(hand)
               rec == [nid |-> hand[1], fresh |-> data_pkt[hand[1]]]
               r == Len(hil_txqueue)
    <2>1. rec \in Record
      <3>1. hand \in Seq(Nodes) /\ Len(hand) = 1
        BY DEF TypeOK, HandAtPlace
      <3>2. 1 \in 1..Len(hand)
        BY <3>1
      <3>3. hand[1] \in Nodes
        BY <3>1, <3>2, ElementOfSeq
      <3>4. QED BY <3>3 DEF Record, TypeOK
    <2>2. /\ k \in Nat /\ r \in Nat /\ hil_txqueue' \in Seq(Record)
          /\ Len(hil_txqueue') = r + 1
      BY <1>2, <2>1, PutFifo, Lengths DEF TypeOK
    <2>3. free + AddrSize * k + LatSize * r = HeapSize
      BY DEF Balanced
    <2>4. free' \in Nat /\ free' = free - LatSize
      BY <1>2, Sizes, Lengths DEF Malloc
    <2>5. Len(addrFifo') + Len(dataAddrFifo') + Len(hand') = k
      BY <1>2
    <2> HIDE DEF k, r, rec
    <2>6. free' + AddrSize * k + LatSize * (r + 1) = HeapSize
      BY <2>2, <2>3, <2>4, Weigh, Lengths
    <2>7. Balanced' /\ free' \in 0..HeapSize
      BY <2>2, <2>4, <2>5, <2>6, BalanceOf DEF Balanced
    <2>8. QED BY <1>2, <2>2, <2>7 DEF HandAtPlace
  <1>3. QED BY <1>1, <1>2 DEF PutRecord

(* Flush, and the get that comes too late for it.                          *)
LEMMA RacedFlush ==
  ASSUME RacedInv, Flush, UNCHANGED <<hand, hil_txqueue>>, pc' = pc \/ pc' = "fault"
  PROVE  Balanced' /\ HandAtPlace' /\ free' \in 0..HeapSize
         /\ addrFifo' \in Seq(Nodes) /\ dataAddrFifo' \in Seq(Nodes)
  <1> USE DEF RacedInv
  <1> DEFINE k == Len(addrFifo) + Len(dataAddrFifo)
  <1>1. addrFifo' = <<>> /\ dataAddrFifo' = <<>> /\ free' = free + AddrSize * k
    BY DEF Flush
  <1>2. k \in Nat /\ free \in Nat /\ Len(hand) \in Nat /\ Len(hil_txqueue) \in Nat
    BY Lengths
  <1>3. free + AddrSize * (k + Len(hand)) + LatSize * Len(hil_txqueue) = HeapSize
    BY DEF Balanced
  <1> HIDE DEF k
  <1>4. /\ free' + AddrSize * Len(hand) + LatSize * Len(hil_txqueue) = HeapSize
        /\ free' \in Nat /\ free' <= HeapSize
    BY <1>1, <1>2, <1>3, WeighFlush
  <1>5. Len(addrFifo') + Len(dataAddrFifo') + Len(hand') = Len(hand)
    BY <1>1, <1>2, EmptyFifo
  <1>6. Balanced'
    BY <1>4, <1>5 DEF Balanced
  <1>7. free' \in 0..HeapSize
    BY <1>4, Sizes
  <1>8. QED BY <1>1, <1>6, <1>7, EmptySeq DEF HandAtPlace

LEMMA RacedGet ==
  ASSUME RacedInv, GetAddr \/ GetData
  PROVE  Balanced' /\ HandAtPlace' /\ UNCHANGED <<free, hil_txqueue>>
         /\ addrFifo' \in Seq(Nodes) /\ dataAddrFifo' \in Seq(Nodes)
         /\ hand' \in Seq(Nodes) /\ Len(hand') <= 1 /\ pc' \in {"token", "ack"}
  <1> USE DEF RacedInv
  <1>1. hand = <<>> /\ UNCHANGED <<free, hil_txqueue>> /\ pc' \in {"token", "ack"}
    BY DEF GetAddr, GetData, HandAtPlace
  <1>2. /\ addrFifo' \in Seq(Nodes) /\ dataAddrFifo' \in Seq(Nodes)
        /\ hand' \in Seq(Nodes) /\ Len(hand') = 1
        /\ Len(addrFifo') + Len(dataAddrFifo') + 1 = Len(addrFifo) + Len(dataAddrFifo)
    <2>1. CASE GetAddr
      <3>1. /\ Head(addrFifo) \in Nodes /\ Tail(addrFifo) \in Seq(Nodes)
            /\ Len(Tail(addrFifo)) \in Nat /\ Len(addrFifo) = Len(Tail(addrFifo)) + 1
        BY <2>1, GetFifo DEF GetAddr, TypeOK
      <3>2. addrFifo' = Tail(addrFifo) /\ hand' = <<Head(addrFifo)>> /\ UNCHANGED dataAddrFifo
        BY <2>1 DEF GetAddr, Got
      <3>3. QED BY <3>1, <3>2, OneInHand, Lengths DEF TypeOK
    <2>2. CASE GetData
      <3>1. /\ Head(dataAddrFifo) \in Nodes /\ Tail(dataAddrFifo) \in Seq(Nodes)
            /\ Len(Tail(dataAddrFifo)) \in Nat
            /\ Len(dataAddrFifo) = Len(Tail(dataAddrFifo)) + 1
        BY <2>2, GetFifo DEF GetData, TypeOK
      <3>2. /\ dataAddrFifo' = Tail(dataAddrFifo) /\ hand' = <<Head(dataAddrFifo)>>
            /\ UNCHANGED addrFifo
        BY <2>2 DEF GetData, Got
      <3>3. QED BY <3>1, <3>2, OneInHand, Lengths DEF TypeOK
    <2>3. QED BY <2>1, <2>2
  <1>3. Len(addrFifo') + Len(dataAddrFifo') + Len(hand')
          = Len(addrFifo) + Len(dataAddrFifo) + Len(hand)
    BY <1>1, <1>2, EmptyFifo, Lengths
  <1>4. Balanced'
    BY <1>1, <1>3 DEF Balanced
  <1>5. QED BY <1>1, <1>2, <1>4 DEF HandAtPlace

LEMMA RacedFree ==
  ASSUME RacedInv, FreeHand
  PROVE  Balanced' /\ HandAtPlace' /\ free' \in 0..HeapSize /\ UNCHANGED fifos
         /\ hand' = <<>> /\ pc' \in {"idle", "acks"}
  <1> USE DEF RacedInv
  <1>1. /\ pc \in {"sent", "acked"} /\ pc' \in {"idle", "acks"} /\ hand' = <<>>
        /\ free' = free + AddrSize /\ UNCHANGED fifos
    BY DEF FreeHand, Freed
  <1> DEFINE k == Len(addrFifo) + Len(dataAddrFifo)
             r == Len(hil_txqueue)
  <1>2. /\ k \in Nat /\ r \in Nat /\ free' \in Nat
        /\ Len(addrFifo) + Len(dataAddrFifo) + Len(hand) = k + 1
        /\ Len(addrFifo') + Len(dataAddrFifo') + Len(hand') = k
    <2>1. Len(hand) = 1 /\ Len(hand') = 0
      BY <1>1, EmptyFifo DEF HandAtPlace
    <2>2. free' \in Nat
      BY <1>1, Lengths, Sizes
    <2>3. UNCHANGED <<addrFifo, dataAddrFifo>>
      BY <1>1 DEF fifos
    <2>4. QED BY <2>1, <2>2, <2>3, Lengths
  <1>3. free + AddrSize * (k + 1) + LatSize * r = HeapSize
    BY <1>2 DEF Balanced
  <1> HIDE DEF k, r
  <1>4. free' + AddrSize * k + LatSize * r = HeapSize
    BY <1>1, <1>2, <1>3, Weigh, Lengths
  <1>5. Balanced' /\ free' \in 0..HeapSize
    BY <1>1, <1>2, <1>4, BalanceOf DEF Balanced, r, fifos
  <1>6. QED BY <1>1, <1>5 DEF HandAtPlace

LEMMA RacedRadon ==
  ASSUME RacedInv, radon_latenciesInfoTX
  PROVE  Balanced' /\ free' \in 0..HeapSize /\ hil_txqueue' \in Seq(Record)
         /\ UNCHANGED <<pc, hand, addrFifo, dataAddrFifo>>
  <1> USE DEF RacedInv
  <1>1. /\ hil_txqueue # <<>> /\ hil_txqueue' = Tail(hil_txqueue) /\ free' = free + LatSize
        /\ UNCHANGED <<pc, hand, addrFifo, dataAddrFifo>>
    BY DEF radon_latenciesInfoTX
  <1> DEFINE k == Len(addrFifo) + Len(dataAddrFifo) + Len(hand)
             r == Len(Tail(hil_txqueue))
  <1>2. /\ hil_txqueue' \in Seq(Record) /\ r \in Nat /\ Len(hil_txqueue) = r + 1
        /\ k \in Nat /\ free' \in Nat
    BY <1>1, GetFifo, Lengths, Sizes DEF TypeOK
  <1>3. free + AddrSize * k + LatSize * (r + 1) = HeapSize
    BY <1>2 DEF Balanced
  <1> HIDE DEF k, r
  <1>4. free' + AddrSize * k + LatSize * r = HeapSize
    BY <1>1, <1>2, <1>3, Weigh, Lengths
  <1>5. Balanced' /\ free' \in 0..HeapSize
    BY <1>1, <1>2, <1>4, BalanceOf DEF Balanced, k, r
  <1>6. QED BY <1>1, <1>2, <1>5

LEMMA RacedStep == RacedInv /\ [RacedNext]_vars => RacedInv'
  <1> SUFFICES ASSUME RacedInv, [RacedNext]_vars PROVE RacedInv'
    OBVIOUS
  <1>1. CASE UNCHANGED vars
    BY <1>1 DEF vars, fifos, RacedInv, TypeOK, Scan!TypeOK, Balanced, HandAtPlace
  <1>2. CASE RacedNext
    <2>1. /\ Scan!TypeOK' /\ addrCnt' \in 0..Cardinality(Nodes)
          /\ data_pkt' \in [Nodes -> SUBSET Stamps]
      BY <1>2 DEF RacedNext, Scan!TypeOK
    <2>2. ASSUME Balanced', HandAtPlace', free' \in 0..HeapSize,
                 addrFifo' \in Seq(Nodes), dataAddrFifo' \in Seq(Nodes),
                 hil_txqueue' \in Seq(Record), hand' \in Seq(Nodes), Len(hand') <= 1,
                 pc' \in {"idle", "dispatch", "token", "sent", "ack", "acked", "acks",
                          "fatal", "fault"}
          PROVE  RacedInv'
      BY <2>1, <2>2 DEF RacedInv, TypeOK
    <2>3. CASE UNCHANGED <<hand, fifos, free>>
               /\ \/ pc \in {"token"} /\ pc' = "sent"
                  \/ pc \in {"token", "ack"} /\ pc' = "fatal"
                  \/ pc \in {"dispatch", "acks"} /\ pc' = "idle"
                  \/ UNCHANGED pc
      BY <2>2, <2>3 DEF RacedInv, TypeOK, Balanced, HandAtPlace, fifos
    <2>4. ASSUME NEW n \in Nodes, pc = "idle", UNCHANGED hand,
                 PutAddr(n, "idle") \/ PutAddr(n, "dispatch") \/ PutData(n, "dispatch")
          PROVE  RacedInv'
      BY <2>2, <2>4, RacedMalloc DEF RacedInv, TypeOK
    <2>5. CASE pc = "ack" /\ PutRecord(hand[1], "acked") /\ UNCHANGED hand
      BY <2>2, <2>5, RacedRecord DEF RacedInv, TypeOK
    <2>6. CASE Flush /\ UNCHANGED <<hand, hil_txqueue>> /\ (pc' = pc \/ pc' = "fault")
      BY <2>2, <2>6, RacedFlush DEF RacedInv, TypeOK
    <2>7. CASE GetAddr \/ GetData
      BY <2>2, <2>7, RacedGet DEF RacedInv, TypeOK
    <2>8. CASE FreeHand
      <3>1. /\ Balanced' /\ HandAtPlace' /\ free' \in 0..HeapSize /\ UNCHANGED fifos
            /\ hand' = <<>> /\ pc' \in {"idle", "acks"}
        BY <2>8, RacedFree
      <3>2. hand' \in Seq(Nodes) /\ Len(hand') <= 1
        BY <3>1, EmptyFifo, EmptySeq
      <3>3. /\ addrFifo' \in Seq(Nodes) /\ dataAddrFifo' \in Seq(Nodes)
            /\ hil_txqueue' \in Seq(Record)
        BY <3>1 DEF RacedInv, TypeOK, fifos
      <3>4. QED BY <2>2, <3>1, <3>2, <3>3
    <2>9. CASE radon_latenciesInfoTX
      BY <2>2, <2>9, RacedRadon DEF RacedInv, TypeOK, HandAtPlace
    <2>10. CASE Return \/ SendFails
      BY <2>3, <2>10 DEF Return, SendFails
    <2>11. QED
      BY <1>2, <2>3, <2>4, <2>5, <2>6, <2>7, <2>8, <2>9, <2>10 DEF RacedNext, NullGet
  <1>3. QED BY <1>1, <1>2

(* No byte leaks and none is freed twice, wherever in a handler a timer    *)
(* expires, also between emptiness test and get, and whatever counter and  *)
(* status log have come to.                                                *)
THEOREM RacedHeapBalanced == RacedSpec => []HeapBalanced
  <1>1. Init => RacedInv
    BY InitIInv DEF IInv, Apart, RacedInv, HandAtPlace
  <1>2. RacedInv => HeapBalanced
    <2> SUFFICES ASSUME RacedInv PROVE HeapBalanced
      OBVIOUS
    <2>1. Len(Elements) = Len(addrFifo) + Len(dataAddrFifo) + Len(hand)
      BY Lengths, ConcatProperties DEF RacedInv, TypeOK, Elements
    <2>2. QED BY <2>1 DEF RacedInv, Balanced, HeapBalanced
  <1>3. QED BY <1>1, <1>2, RacedStep, PTL DEF RacedSpec

(* Among the behaviours this speaks of are all those without such a race.  *)
THEOREM RacesIncluded == Spec => RacedSpec
  <1>1. TypeOK /\ TypeOK' /\ [Next]_vars => [RacedNext]_vars
    <2> SUFFICES ASSUME TypeOK, TypeOK', Next PROVE RacedNext
      BY DEF vars
    <2>1. /\ phase' \in [Nodes -> Scan!Phase] /\ addrCnt' \in 0..Cardinality(Nodes)
          /\ data_pkt' \in [Nodes -> SUBSET Stamps]
      BY DEF TypeOK, Scan!TypeOK
    <2>2. ASSUME NEW n \in Nodes, OKHandler(n) PROVE RacedNext
      BY <2>1, <2>2 DEF OKHandler, RacedNext
    <2>3. ASSUME NEW n \in Nodes, DataHandler(n) PROVE RacedNext
      BY <2>1, <2>3 DEF DataHandler, RacedNext
    <2>4. ASSUME NEW n \in Nodes, DataExpiry(n) PROVE RacedNext
      BY <2>1, <2>4 DEF DataExpiry, RacedNext
    <2>5. CASE SendToken \/ SendAck
      BY <2>1, <2>5 DEF SendToken, SendAck, RacedNext
    <2>6. QED BY <2>1, <2>2, <2>3, <2>4, <2>5 DEF Next, RacedNext
  <1>2. QED BY <1>1, HeapTypeOK, PTL DEF Spec, RacedSpec
=============================================================================
