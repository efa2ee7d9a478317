----------------------------- MODULE HeapFifos -----------------------------
(***************************************************************************)
(* The heap of the BMS and the three FIFOs whose elements live in it: the  *)
(* nodes that have reported (addrFifo) and whose Data is in (dataAddrFifo) *)
(* on the way through the scan (mesh_cli.c), and hil_txqueue, one record   *)
(* of latencies per finished cycle of a node (hg_netMgr.c), which the main *)
(* thread empties by one per turn (hg_test.c, app_master.c).               *)
(*                                                                         *)
(* Where a node is in the scan is told with the phases of ScanCycle; its   *)
(* order is not assumed but comes from the counter and the FIFOs.  RX,     *)
(* main and diagnostic thread are cooperative, so only the clock interrupt *)
(* comes into the middle of a handler; data_expiry_function empties the    *)
(* first two FIFOs while the handler has an element of theirs in hand.     *)
(*                                                                         *)
(* A k_malloc succeeds as long as the bytes are free: how they are spread  *)
(* is left out.  On failure the code puts NULL into the FIFO, and k_fifo   *)
(* writes its link through it: the board faults.                           *)
(***************************************************************************)
EXTENDS Naturals, Sequences, FiniteSets, Functions

CONSTANTS
  Nodes,
  HeapSize,     (* CONFIG_HEAP_MEM_POOL_SIZE                               *)
  AddrSize,     (* what k_malloc takes for a struct fifo_data_t            *)
  LatSize       (* and for a struct t_lat                                  *)

ASSUME HeapAssumption ==
  /\ IsFiniteSet(Nodes)
  /\ HeapSize \in Nat /\ AddrSize \in Nat /\ LatSize \in Nat
  /\ AddrSize <= LatSize

VARIABLES
  phase,        (* where each node is in the scan                          *)
  addrCnt,      (* OKs counted                                             *)
  pc,           (* where the RX thread is                                  *)
  hand,         (* the node whose element it has taken out, if any         *)
  addrFifo, dataAddrFifo,   (* nodes                                       *)
  hil_txqueue,  (* records: [nid, fresh]                                   *)
  free,         (* bytes of the heap                                       *)
  data_pkt      (* per node: the timestamps written since its last OK      *)

fifos == <<addrFifo, dataAddrFifo, hil_txqueue>>
vars == <<phase, addrCnt, pc, hand, fifos, free, data_pkt>>

Scan == INSTANCE ScanCycle

Stamps == {"ok", "tok", "cv"}
Record == [nid : Nodes, fresh : SUBSET Stamps]

TypeOK ==
  /\ Scan!TypeOK
  /\ addrCnt \in 0..Cardinality(Nodes)
  /\ pc \in {"idle", "dispatch", "token", "sent", "ack", "acked", "acks",
             "fatal", "fault"}
  /\ hand \in Seq(Nodes) /\ Len(hand) <= 1
  /\ addrFifo \in Seq(Nodes) /\ dataAddrFifo \in Seq(Nodes)
  /\ hil_txqueue \in Seq(Record)
  /\ free \in 0..HeapSize
  /\ data_pkt \in [Nodes -> SUBSET Stamps]

Init ==
  /\ Scan!Init
  /\ addrCnt = 0 /\ pc = "idle" /\ hand = <<>>
  /\ addrFifo = <<>> /\ dataAddrFifo = <<>> /\ hil_txqueue = <<>>
  /\ free = HeapSize
  /\ data_pkt = [n \in Nodes |-> {}]

-----------------------------------------------------------------------------
(* The heap.                                                               *)

Malloc(size) == free >= size /\ free' = free - size
NoMemory(size) == free < size /\ pc' = "fault" /\ UNCHANGED <<fifos, free>>

(* malloc and put of OKHandler and putDataFifo.                            *)
PutAddr(n, next) ==
  \/ /\ Malloc(AddrSize) /\ pc' = next
     /\ addrFifo' = Append(addrFifo, n)
     /\ UNCHANGED <<dataAddrFifo, hil_txqueue>>
  \/ NoMemory(AddrSize)
PutData(n, next) ==
  \/ /\ Malloc(AddrSize) /\ pc' = next
     /\ dataAddrFifo' = Append(dataAddrFifo, n)
     /\ UNCHANGED <<addrFifo, hil_txqueue>>
  \/ NoMemory(AddrSize)

(* mercury_netMgr_logWriteTime.                                            *)
Stamp(n, field) == data_pkt' = [data_pkt EXCEPT ![n] = @ \cup {field}]
(* cycleStart and the first of the intervals: a new cycle of the node.     *)
StampOk(n) == data_pkt' = [data_pkt EXCEPT ![n] = {"ok"}]
PutRecord(n, next) ==
  \/ /\ Malloc(LatSize) /\ pc' = next
     /\ hil_txqueue' = Append(hil_txqueue, [nid |-> n, fresh |-> data_pkt[n]])
     /\ UNCHANGED <<addrFifo, dataAddrFifo>>
  \/ NoMemory(LatSize)

-----------------------------------------------------------------------------
(* RX thread.                                                              *)

(* mercury_netMgr_statesUpdate, whose verdict on a TX_TOKEN or a TX_ACK    *)
(* nobody looks at.                                                        *)
StatesUpdate(n, from, to) ==
  phase' = IF phase[n] = from THEN [phase EXCEPT ![n] = to] ELSE phase

(* Mutant: one OK is enough.                                               *)
AnyReported == addrCnt < Cardinality(Nodes)
(* addrCnt, after the ++, is NetState.hm.active.                           *)
AllReported == addrCnt + 1 = Cardinality(Nodes)

(* Mutant: an OK that is dropped leaves its time all the same.             *)
DropOkStamped(n) == StampOk(n)
(* updateOKInfo of an OK that statesUpdate rejects.                        *)
DropOk(n) == UNCHANGED data_pkt

(* addrCnt is set back when the handler returns; nothing looks at it       *)
(* before.                                                                 *)
OKHandler(n) ==
  /\ pc = "idle"
  /\ \/ /\ Scan!Report(n) /\ StampOk(n)
        /\ IF AllReported
             THEN addrCnt' = 0 /\ PutAddr(n, "dispatch")
             ELSE addrCnt' = addrCnt + 1 /\ PutAddr(n, "idle")
     \/ phase[n] # "due" /\ DropOk(n) /\ UNCHANGED <<phase, addrCnt, pc, fifos, free>>
  /\ UNCHANGED hand

DataHandler(n) ==
  /\ pc = "idle" /\ Scan!Read(n) /\ Stamp(n, "cv")
  /\ PutData(n, "dispatch")
  /\ UNCHANGED <<addrCnt, hand>>

(* Mutant: the element stays where it is.                                  *)
Peeked(q) == q
(* k_fifo_get takes the first element out.                                 *)
Got(q) == Tail(q)

(* mercury_mesh_sendToken, one get at a time.                              *)
GetAddr ==
  /\ pc = "dispatch" /\ addrFifo # <<>>
  /\ pc' = "token" /\ hand' = <<Head(addrFifo)>> /\ addrFifo' = Got(addrFifo)
  /\ UNCHANGED <<phase, addrCnt, dataAddrFifo, hil_txqueue, free, data_pkt>>
GetData ==
  /\ \/ pc = "dispatch" /\ addrFifo = <<>>
     \/ pc = "acks"
  /\ dataAddrFifo # <<>>
  /\ pc' = "ack" /\ hand' = <<Head(dataAddrFifo)>>
  /\ dataAddrFifo' = Got(dataAddrFifo)
  /\ UNCHANGED <<phase, addrCnt, addrFifo, hil_txqueue, free, data_pkt>>
Return ==
  /\ \/ pc = "dispatch" /\ addrFifo = <<>>
     \/ pc = "acks"
  /\ dataAddrFifo = <<>> /\ pc' = "idle"
  /\ UNCHANGED <<phase, addrCnt, hand, fifos, free, data_pkt>>

SendToken ==
  /\ pc = "token"
  /\ StatesUpdate(hand[1], "reported", "polled") /\ Stamp(hand[1], "tok") /\ pc' = "sent"
  /\ UNCHANGED <<addrCnt, hand, fifos, free>>
SendAck ==
  /\ pc = "ack"
  /\ StatesUpdate(hand[1], "read", "due") /\ PutRecord(hand[1], "acked")
  /\ UNCHANGED <<addrCnt, hand, data_pkt>>
(* mercury_led_fatal, with the element in hand.                            *)
SendFails ==
  /\ pc \in {"token", "ack"} /\ pc' = "fatal"
  /\ UNCHANGED <<phase, addrCnt, hand, fifos, free, data_pkt>>

(* Mutant: the element of an ACK is not freed.                             *)
FreedIfToken == IF pc = "sent" THEN AddrSize ELSE 0
(* k_free of sAddr, and of destAddr.                                       *)
Freed == AddrSize
FreeHand ==
  /\ pc \in {"sent", "acked"}
  /\ pc' = IF pc = "sent" THEN "idle" ELSE "acks"
  /\ hand' = <<>> /\ free' = free + Freed
  /\ UNCHANGED <<phase, addrCnt, fifos, data_pkt>>

-----------------------------------------------------------------------------
(* bt_mesh_cli_flushFifos.                                                 *)
Flush ==
  /\ addrFifo' = <<>> /\ dataAddrFifo' = <<>>
  /\ free' = free + AddrSize * (Len(addrFifo) + Len(dataAddrFifo))

(* data_expiry_function, in the interrupt; the Data timer is armed for the *)
(* polled node and no other (Watched of Transaction).                      *)
DataExpiry(n) ==
  /\ pc # "fault" /\ Scan!Lose(n)
  /\ Flush /\ addrCnt' = 0
  /\ UNCHANGED <<pc, hand, hil_txqueue, data_pkt>>

(* radon_latenciesInfoTX, in the main thread.                              *)
radon_latenciesInfoTX ==
  /\ pc \in {"idle", "fatal"} /\ hil_txqueue # <<>>
  /\ hil_txqueue' = Tail(hil_txqueue) /\ free' = free + LatSize
  /\ UNCHANGED <<phase, addrCnt, pc, hand, addrFifo, dataAddrFifo, data_pkt>>

Next ==
  \/ \E n \in Nodes : OKHandler(n) \/ DataHandler(n) \/ DataExpiry(n)
  \/ GetAddr \/ GetData \/ Return
  \/ SendToken \/ SendAck \/ SendFails \/ FreeHand
  \/ radon_latenciesInfoTX

Spec == Init /\ [][Next]_vars

-----------------------------------------------------------------------------
(* The heap when timers race with the handlers (Preempt of Transaction):   *)
(* then counter and status can be anything, a token may go out early, and  *)
(* the FIFOs may be emptied at every place, also between emptiness test    *)
(* and get.                                                                *)

(* k_fifo_get returns NULL, through which the address is read.             *)
NullGet ==
  /\ pc \in {"dispatch", "acks"}
  /\ \/ pc = "dispatch" /\ addrFifo # <<>>
     \/ dataAddrFifo # <<>>
  /\ Flush /\ pc' = "fault" /\ UNCHANGED <<hand, hil_txqueue>>

RacedNext ==
  /\ phase' \in [Nodes -> Scan!Phase] /\ addrCnt' \in 0..Cardinality(Nodes)
  /\ data_pkt' \in [Nodes -> SUBSET Stamps]
  /\ \/ /\ pc = "idle" /\ UNCHANGED hand
        /\ \E n \in Nodes :
             PutAddr(n, "idle") \/ PutAddr(n, "dispatch") \/ PutData(n, "dispatch")
     \/ pc = "token" /\ pc' = "sent" /\ UNCHANGED <<hand, fifos, free>>
     \/ pc = "ack" /\ PutRecord(hand[1], "acked") /\ UNCHANGED hand
     \/ pc # "fault" /\ Flush /\ UNCHANGED <<pc, hand, hil_txqueue>>
     \/ GetAddr \/ GetData \/ Return \/ SendFails \/ FreeHand \/ NullGet
     \/ radon_latenciesInfoTX \/ UNCHANGED <<pc, hand, fifos, free>>

RacedSpec == Init /\ [][RacedNext]_vars

-----------------------------------------------------------------------------
(* Properties.                                                             *)

Elements == addrFifo \o dataAddrFifo \o hand

(* Counter, emptiness tests and restarts alone keep the order of the scan  *)
(* in rounds: mercury_mesh_sendToken sends what it has taken out of a FIFO *)
(* without a look at the status of any node, and never too early.          *)
ScanSpec == Scan!Spec

(* Every byte of the heap is free, in a FIFO or in the hand of the RX      *)
(* thread: nothing leaks and nothing is freed twice, whenever the          *)
(* interrupt empties the FIFOs.                                            *)
HeapBalanced ==
  free + AddrSize * Len(Elements) + LatSize * Len(hil_txqueue) = HeapSize

(* A node has one element at most on its way through the scan, also when a *)
(* restart finds elements in the FIFOs or in hand.                         *)
OneElement == IsInjective(Elements)

(* Only the log can use up the heap: when there is no memory, the records  *)
(* that wait for the main thread and one more would not leave room for an  *)
(* element of every node.                                                  *)
NullMeansBacklog ==
  pc = "fault" =>
    LatSize * (Len(hil_txqueue) + 1) + AddrSize * Cardinality(Nodes) > HeapSize

(* The times of a record are all of one cycle of its node: neither a late  *)
(* OK nor a restart leaves a mixture.                                      *)
RecordsWhole ==
  \A i \in DOMAIN hil_txqueue : hil_txqueue[i].fresh = Stamps
=============================================================================
