--------------------------- MODULE TransactionInv ---------------------------
(***************************************************************************)
(* The inductive invariant of the measurement cycle: what holds at each    *)
(* place of the RX thread when no timer expires inside a handler.          *)
(***************************************************************************)
EXTENDS Transaction

(* The counter stays below the number of active nodes whenever an OK may   *)
(* still be counted; together with TypeOK this is inductive.               *)
CntBound ==
  /\ rx.at \in {"idle", "okTaken", "okQueued", "okLoaded"} => addrCnt < Active
  /\ rx.at = "okLoaded" => rx.cnt < Active
  /\ rx # Idle /\ rx.from = "data" => addrCnt < Active
  /\ rx.at \in {"okTaken", "okQueued", "okLoaded"} => rx.from = "ok"
  /\ rx.at \in {"dataSeen", "dataChecked", "dataTaken"} => rx.from = "data"

(* Before the first START nothing has moved.                               *)
Asleep ==
  bmsMain = "forming" =>
    /\ rx = Idle /\ addrCnt = 0 /\ addrFifo = <<>>
    /\ \A n \in Nodes :
         /\ down[n] = <<>> /\ up[n] = <<>>
         /\ cmbMain[n] = "waitStart" /\ startSem[n] = 0 /\ sgn[n] = {}
         /\ ~okTimer[n] /\ ~dataTimer[n]

(* An RX thread that is stuck is stuck where it pops a FIFO or sends.      *)
StuckAt ==
  "rx" \in fatal => rx.at \in {"getAddr", "getData", "sendToken", "sendAck"}

Queued == Range(addrFifo)
Collected == Range(dataAddrFifo)

(* A FIFO holds a node once, in the status its handler left it in.         *)
QueuesSound ==
  /\ IsInjective(addrFifo) /\ IsInjective(dataAddrFifo)
  /\ \A n \in Queued : currPkt[n] = "RX_OK"
  /\ \A n \in Collected : currPkt[n] = "RX_DATA"

(* The OK phase: nobody polled, nobody read, c of the queued are counted.  *)
OkPhase(c) ==
  /\ \A n \in Nodes : currPkt[n] # "TX_TOKEN"
  /\ dataAddrFifo = <<>>
  /\ Cardinality(Queued) = c

(* The Data phase: all the nodes but t are queued or collected.            *)
AllBut(t) == \A n \in Nodes \ {t} : n \in Queued \cup Collected
AllQueued == \A n \in Nodes : n \in Queued \cup Collected
DataPhase ==
  /\ currSys # "BATT_INFO_LOST"
  /\ rx.from = "data" => addrCnt = 0
Polling(t) ==
  /\ currPkt[t] = "TX_TOKEN" /\ AllBut(t)
  /\ addrCnt = 0 /\ currSys # "BATT_INFO_LOST"

(* The ACK phase: every node but t is collected or acknowledged.           *)
AckPhase(T) ==
  /\ addrFifo = <<>>
  /\ \A n \in T : n \in Collected \/ currPkt[n] = "TX_ACK"

AtPlace ==
  /\ rx.at \in {"idle", "dataSeen"} =>
       OkPhase(addrCnt) \/ \E t \in Nodes : Polling(t)
  /\ rx.at = "okTaken" =>
       OkPhase(addrCnt) /\ currPkt[rx.node] = "RX_OK" /\ rx.node \notin Queued
  /\ rx.at = "okQueued" => OkPhase(addrCnt + 1)
  /\ rx.at = "okLoaded" => OkPhase(rx.cnt + 1)
  /\ rx.at = "dataChecked" => Polling(rx.node)
  /\ rx.at = "dataTaken" =>
       /\ DataPhase /\ AllBut(rx.node)
       /\ currPkt[rx.node] = "RX_DATA" /\ rx.node \notin Collected
  /\ rx.at \in {"dispatch", "getAddr"} => DataPhase /\ AllQueued
  /\ rx.at = "getAddr" => addrFifo # <<>>
  /\ rx.at \in TokenDuePlace =>
       /\ DataPhase /\ AllBut(rx.node)
       /\ currPkt[rx.node] = "RX_OK" /\ rx.node \notin Queued
  /\ rx.at = "tokenStored" =>
       DataPhase /\ AllBut(rx.node) /\ currPkt[rx.node] = "TX_TOKEN"
  /\ rx.at \in {"ackLoop", "getData", "ackStored"} => DataPhase /\ AckPhase(Nodes)
  /\ rx.at = "getData" => dataAddrFifo # <<>>
  /\ rx.at = "ackStored" => currPkt[rx.node] = "TX_ACK"
  /\ rx.at \in AckDuePlace =>
       /\ DataPhase /\ AckPhase(Nodes \ {rx.node})
       /\ currPkt[rx.node] = "RX_DATA" /\ rx.node \notin Collected

CycleInv == RxAlive => QueuesSound /\ AtPlace

(* The inductive invariant the theorems of CycleProofs rest on.            *)
IInv == TypeOK /\ CntBound /\ Asleep /\ StuckAt /\ Watched /\ CycleInv
=============================================================================
