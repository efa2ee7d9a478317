---------------------------- MODULE Transaction ----------------------------
(***************************************************************************)
(* The measurement cycle of the wireless BMS: the transaction engine of    *)
(* the BMS (mesh_cli.c, hg_mesh.c, hg_netMgr.c), the signal loop of every  *)
(* CMB (app_slave.c, mesh_cli.c) and the mesh between them.                *)
(*                                                                         *)
(* One cycle: every node reports OK; when the BMS has counted as many OKs  *)
(* as there are active nodes it sends a token to the node at the head of   *)
(* addrFifo; each Data that comes back sends the token to the next node;   *)
(* when addrFifo is empty every node in dataAddrFifo gets an ACK, which    *)
(* makes it report OK again.  A missing OK (after an ACK) or a missing     *)
(* Data (after a token) is noticed by a one-shot kernel timer.             *)
(*                                                                         *)
(* The message handlers of the BMS run in the Bluetooth RX thread, which   *)
(* is cooperative: no other thread interrupts a handler.  The expiry       *)
(* functions of the timers run in the clock interrupt, so they can come    *)
(* between any two steps of a handler.  rx is the program counter of the   *)
(* RX thread inside a handler.                                             *)
(*                                                                         *)
(* Left out: the contents of the messages and the counters, on which no    *)
(* step below depends.                                                     *)
(***************************************************************************)
EXTENDS Naturals, Sequences, FiniteSets, Functions, PktStatus

CONSTANTS
  Nodes,        (* the nodes that joined, one address and one slot each    *)
  MaxLosses,    (* bound: messages the mesh may lose in a behaviour        *)
  Preempt,      (* TRUE: a timer may expire while a handler is running     *)
  Timely,       (* TRUE: a timer outlasts the answer it waits for, and a   *)
                (* CMB clears its flags before the next message comes      *)
  SendMayFail   (* TRUE: bt_mesh_model_send may return an error            *)

ASSUME NodesAssumption == IsFiniteSet(Nodes) /\ Nodes # {}
ASSUME FlagsAssumption ==
  /\ MaxLosses \in Nat
  /\ Preempt \in BOOLEAN /\ Timely \in BOOLEAN /\ SendMayFail \in BOOLEAN

VARIABLES
  bmsMain,      (* main thread of the BMS                                  *)
  currPkt,      (* systemStateLog[n].currPkt                               *)
  currSys,      (* NetState.hm.currSys                                     *)
  addrCnt,      (* OKs counted in this cycle                               *)
  addrFifo,     (* nodes whose OK was taken and whose token is due         *)
  dataAddrFifo, (* nodes whose Data was taken and whose ACK is due         *)
  okTimer,      (* ok_timeout[n] is armed                                  *)
  dataTimer,    (* data_timeout[n] is armed                                *)
  rx,           (* program counter of the BMS RX thread                    *)
  fatal,        (* BMS contexts stuck in mercury_led_fatal or a fault      *)
  cmbMain,      (* per node: where the main thread of the CMB is           *)
  sgn,          (* per node: the raised signal flags of the CMB            *)
  startSem,     (* per node: count of the semaphore startSem               *)
  cmbFatal,     (* per node: CMB threads stuck in mercury_led_fatal        *)
  down, up,     (* per node: messages BMS -> CMB and CMB -> BMS            *)
  losses        (* messages lost so far                                    *)

status == <<currPkt, currSys>>
fifos == <<addrFifo, dataAddrFifo>>
timers == <<okTimer, dataTimer>>
bmsVars == <<bmsMain, status, addrCnt, fifos, timers, rx, fatal>>
cmbVars == <<cmbMain, sgn, startSem, cmbFatal>>
vars == <<bmsVars, cmbVars, down, up, losses>>

(* NetState.hm.active: here every slot in use is a node of the cycle.      *)
Active == Cardinality(Nodes)

DownKind == {"START", "TOKEN", "ACK", "RCV"}
UpKind == {"OK", "DATA"}
Signal == {"start", "ack", "rcv"}

(* Places of the RX thread inside a handler.  "node" is the node the       *)
(* handler deals with, "from" the handler that called                      *)
(* mercury_mesh_sendToken, "cnt" the copy of addrCnt that addrCnt++ loaded.*)
(* At the DuePlaces the status of a node that gets a token or an ACK is    *)
(* not stored yet.                                                         *)
TokenDuePlace == {"sendToken", "tokenSent", "tokenChecked"}
AckDuePlace == {"sendAck", "ackSent", "ackChecked"}
RxPlace == {"okTaken", "okQueued", "okLoaded", "dataSeen", "dataChecked",
            "dataTaken", "dispatch", "getAddr", "tokenStored",
            "ackLoop", "getData", "ackStored"} \cup TokenDuePlace \cup AckDuePlace
Idle == [at |-> "idle"]
RxCnt(p, n, f, c) == [at |-> p, node |-> n, from |-> f, cnt |-> c]
Rx(p, n, f) == RxCnt(p, n, f, 0)
RxState == {Idle} \cup
  [at : RxPlace, node : Nodes, from : {"ok", "data"}, cnt : 0..Active]

TypeOK ==
  /\ bmsMain \in {"forming", "running", "fatal"}
  /\ currPkt \in [Nodes -> PktS]
  /\ currSys \in SysS
  /\ addrCnt \in 0..Active
  /\ addrFifo \in Seq(Nodes)
  /\ dataAddrFifo \in Seq(Nodes)
  /\ okTimer \in [Nodes -> BOOLEAN]
  /\ dataTimer \in [Nodes -> BOOLEAN]
  /\ rx \in RxState
  /\ fatal \subseteq {"rx", "isr"}
  /\ cmbMain \in [Nodes -> {"waitStart", "okSent", "loop"}]
  /\ sgn \in [Nodes -> SUBSET Signal]
  /\ startSem \in [Nodes -> {0, 1}]
  /\ cmbFatal \in [Nodes -> SUBSET {"rx", "main"}]
  /\ down \in [Nodes -> Seq(DownKind)]
  /\ up \in [Nodes -> Seq(UpKind)]
  /\ losses \in 0..MaxLosses

Init ==
  /\ bmsMain = "forming"
  /\ currPkt = [n \in Nodes |-> "NO_INFO"]
  /\ currSys = "STARTUP_NODATA"
  /\ addrCnt = 0
  /\ addrFifo = <<>> /\ dataAddrFifo = <<>>
  /\ okTimer = [n \in Nodes |-> FALSE]
  /\ dataTimer = [n \in Nodes |-> FALSE]
  /\ rx = Idle
  /\ fatal = {}
  /\ cmbMain = [n \in Nodes |-> "waitStart"]
  /\ sgn = [n \in Nodes |-> {}]
  /\ startSem = [n \in Nodes |-> 0]
  /\ cmbFatal = [n \in Nodes |-> {}]
  /\ down = [n \in Nodes |-> <<>>]
  /\ up = [n \in Nodes |-> <<>>]
  /\ losses = 0

-----------------------------------------------------------------------------
(* What both sides are built from.                                         *)

SendDown(n, kind) == down' = [down EXCEPT ![n] = Append(@, kind)]
SendUp(n, kind) == up' = [up EXCEPT ![n] = Append(@, kind)]

(* mercury_netMgr_statesUpdate(n, curr), its result ignored.               *)
UpdateState(n, curr) ==
  currPkt' = [currPkt EXCEPT ![n] = StatesUpdate(@, curr)]

(* k_timer_stop of the timer of node n.                                    *)
KeepTimer(timer, n) == timer
Stop(timer, n) == [timer EXCEPT ![n] = FALSE]

(* A send that fails ends in mercury_led_fatal, an endless loop in the     *)
(* thread that called it; an expiry function calls it in the interrupt.    *)
RxAlive == "rx" \notin fatal /\ "isr" \notin fatal
IsrAlive == "isr" \notin fatal
Stuck(context) == SendMayFail /\ fatal' = fatal \cup {context}

(* systemStateLog[n].currNode, as far as the engine itself writes it: it   *)
(* is PAIRED from the node's joining to its first OK.                      *)
NodeState(n) == CASE currPkt[n] = "NO_INFO"    -> "PAIRED"
                  [] currPkt[n] = "TX_RECOVER" -> "TIMEOUT_ERR"
                  [] OTHER                     -> "ACTIVE"

(* mercury_mesh_sendStart: the nodes START goes to.  addrCnt is reset      *)
(* before each send; a send that fails cuts the loop over the slots short  *)
(* (which slot a node has is not fixed here).                              *)
StartTargets(sys) ==
  {n \in Nodes : NodeState(n) = "PAIRED" \/ sys = "BATT_INFO_LOST"}
SendStart(S) ==
  down' = [n \in Nodes |-> IF n \in S THEN Append(down[n], "START") ELSE down[n]]

-----------------------------------------------------------------------------
(* BMS, main thread: mercury_mesh_forming returned (all the nodes joined), *)
(* mercury_mesh_sendStart lets every node send its first OK.               *)
MainStart ==
  /\ bmsMain = "forming"
  /\ addrCnt' = 0
  /\ \/ bmsMain' = "running" /\ SendStart(StartTargets(currSys))
     \/ /\ SendMayFail /\ bmsMain' = "fatal"
        /\ \E S \in SUBSET StartTargets(currSys) :
             S # StartTargets(currSys) /\ SendStart(S)
  /\ UNCHANGED <<status, fifos, timers, rx, fatal, cmbVars, up, losses>>

-----------------------------------------------------------------------------
(* BMS, RX thread: OKHandler.                                              *)

(* updateOKInfo: an OK the node's status does not allow is dropped.        *)
OKHandler(n) ==
  /\ RxAlive /\ rx = Idle
  /\ up[n] # <<>> /\ Head(up[n]) = "OK"
  /\ up' = [up EXCEPT ![n] = Tail(@)]
  /\ UpdateState(n, "RX_OK")
  /\ rx' = IF Accepted(currPkt[n], "RX_OK") THEN Rx("okTaken", n, "ok") ELSE Idle
  /\ UNCHANGED <<bmsMain, currSys, addrCnt, fifos, timers, fatal, cmbVars,
                 down, losses>>

(* stopOkTimer, then k_fifo_put(&addrFifo).                                *)
QueueOk ==
  /\ RxAlive /\ rx.at = "okTaken"
  /\ okTimer' = Stop(okTimer, rx.node)
  /\ addrFifo' = Append(addrFifo, rx.node)
  /\ rx' = Rx("okQueued", rx.node, "ok")
  /\ UNCHANGED <<bmsMain, status, addrCnt, dataAddrFifo, dataTimer, fatal,
                 cmbVars, down, up, losses>>

(* addrCnt++ is a load and a store; an expiry function that comes between  *)
(* them resets a counter the store then overwrites.                        *)
LoadCnt ==
  /\ RxAlive /\ rx.at = "okQueued"
  /\ rx' = RxCnt("okLoaded", rx.node, "ok", addrCnt)
  /\ UNCHANGED <<bmsMain, status, addrCnt, fifos, timers, fatal, cmbVars,
                 down, up, losses>>

(* Mutant: addrCnt compared with NODES_NUM of a one-node build.            *)
AnyReported(cnt) == cnt >= 1
(* addrCnt==NetState.hm.active.                                            *)
AllReported(cnt) == cnt = Active

(* The last OK of the cycle: NO_ISSUES and mercury_mesh_sendToken.         *)
CountOk ==
  /\ RxAlive /\ rx.at = "okLoaded"
  /\ addrCnt' = rx.cnt + 1
  /\ IF AllReported(rx.cnt + 1)
       THEN currSys' = "NO_ISSUES" /\ rx' = Rx("dispatch", rx.node, "ok")
       ELSE rx' = Idle /\ UNCHANGED currSys
  /\ UNCHANGED <<bmsMain, currPkt, fifos, timers, fatal, cmbVars, down, up,
                 losses>>

-----------------------------------------------------------------------------
(* BMS, RX thread: DataHandler.                                            *)

(* Dropped while the battery is lost.                                      *)
DataHandler(n) ==
  /\ RxAlive /\ rx = Idle
  /\ up[n] # <<>> /\ Head(up[n]) = "DATA"
  /\ up' = [up EXCEPT ![n] = Tail(@)]
  /\ rx' = IF currSys = "BATT_INFO_LOST" THEN Idle ELSE Rx("dataSeen", n, "data")
  /\ UNCHANGED <<bmsMain, status, addrCnt, fifos, timers, fatal, cmbVars,
                 down, losses>>

(* updateDataInfo: statesUpdate reads and tests the status ...             *)
CheckData ==
  /\ RxAlive /\ rx.at = "dataSeen"
  /\ rx' = IF Accepted(currPkt[rx.node], "RX_DATA")
             THEN Rx("dataChecked", rx.node, "data") ELSE Idle
  /\ UNCHANGED <<bmsMain, status, addrCnt, fifos, timers, fatal, cmbVars,
                 down, up, losses>>

(* ... and stores the new one, whatever came between.                      *)
TakeData ==
  /\ RxAlive /\ rx.at = "dataChecked"
  /\ currPkt' = [currPkt EXCEPT ![rx.node] = "RX_DATA"]
  /\ rx' = Rx("dataTaken", rx.node, "data")
  /\ UNCHANGED <<bmsMain, currSys, addrCnt, fifos, timers, fatal, cmbVars,
                 down, up, losses>>

(* stopDataTimer, putDataFifo, then mercury_mesh_sendToken.                *)
QueueData ==
  /\ RxAlive /\ rx.at = "dataTaken"
  /\ dataTimer' = Stop(dataTimer, rx.node)
  /\ dataAddrFifo' = Append(dataAddrFifo, rx.node)
  /\ rx' = Rx("dispatch", rx.node, "data")
  /\ UNCHANGED <<bmsMain, status, addrCnt, addrFifo, okTimer, fatal, cmbVars,
                 down, up, losses>>

-----------------------------------------------------------------------------
(* BMS, RX thread: mercury_mesh_sendToken, called by both handlers.        *)

(* Its return: OKHandler then resets addrCnt, DataHandler does not.        *)
ReturnKeepingCnt(f) == rx' = Idle /\ addrCnt' = addrCnt
Return(f) == rx' = Idle /\ addrCnt' = (IF f = "ok" THEN 0 ELSE addrCnt)

(* Mutant: the ACKs go out as soon as there is one.                        *)
NoAckDue == dataAddrFifo = <<>>
(* !k_fifo_is_empty(&addrFifo).                                            *)
TokenDue == addrFifo # <<>>

Dispatch ==
  /\ RxAlive /\ rx.at = "dispatch"
  /\ rx' = Rx(IF TokenDue THEN "getAddr" ELSE "ackLoop", rx.node, rx.from)
  /\ UNCHANGED <<bmsMain, status, addrCnt, fifos, timers, fatal, cmbVars,
                 down, up, losses>>

(* k_fifo_get(K_NO_WAIT): an expiry function may have emptied the FIFO     *)
(* since the test; then the code reads the address through NULL.           *)
GetAddr ==
  /\ RxAlive /\ rx.at = "getAddr"
  /\ \/ /\ addrFifo = <<>>
        /\ fatal' = fatal \cup {"rx"}
        /\ UNCHANGED <<rx, addrFifo>>
     \/ /\ addrFifo # <<>>
        /\ rx' = Rx("sendToken", Head(addrFifo), rx.from)
        /\ addrFifo' = Tail(addrFifo)
        /\ UNCHANGED fatal
  /\ UNCHANGED <<bmsMain, status, addrCnt, dataAddrFifo, timers, cmbVars,
                 down, up, losses>>

(* bt_mesh_cli_sendToken: the send ...                                     *)
SendToken ==
  /\ RxAlive /\ rx.at = "sendToken"
  /\ SendDown(rx.node, "TOKEN")
  /\ rx' = Rx("tokenSent", rx.node, rx.from)
  /\ UNCHANGED <<bmsMain, status, addrCnt, fifos, timers, fatal, cmbVars, up,
                 losses>>

(* ... updateTokenInfo: statesUpdate tests the status and stores it, or    *)
(* does not; its result is ignored ...                                     *)
CheckToken ==
  /\ RxAlive /\ rx.at = "tokenSent"
  /\ rx' = Rx(IF Accepted(currPkt[rx.node], "TX_TOKEN")
                THEN "tokenChecked" ELSE "tokenStored", rx.node, rx.from)
  /\ UNCHANGED <<bmsMain, status, addrCnt, fifos, timers, fatal, cmbVars,
                 down, up, losses>>

StoreToken ==
  /\ RxAlive /\ rx.at = "tokenChecked"
  /\ currPkt' = [currPkt EXCEPT ![rx.node] = "TX_TOKEN"]
  /\ rx' = Rx("tokenStored", rx.node, rx.from)
  /\ UNCHANGED <<bmsMain, currSys, addrCnt, fifos, timers, fatal, cmbVars,
                 down, up, losses>>

(* ... startDataTimer, in any case, and back in the handler.               *)
ArmDataTimer ==
  /\ RxAlive /\ rx.at = "tokenStored"
  /\ dataTimer' = [dataTimer EXCEPT ![rx.node] = TRUE]
  /\ Return(rx.from)
  /\ UNCHANGED <<bmsMain, status, fifos, okTimer, fatal, cmbVars, down, up,
                 losses>>

(* The loop over dataAddrFifo: ends when it is empty.                      *)
AckLoop ==
  /\ RxAlive /\ rx.at = "ackLoop"
  /\ \/ /\ dataAddrFifo # <<>>
        /\ rx' = Rx("getData", rx.node, rx.from) /\ UNCHANGED addrCnt
     \/ dataAddrFifo = <<>> /\ Return(rx.from)
  /\ UNCHANGED <<bmsMain, status, fifos, timers, fatal, cmbVars, down, up,
                 losses>>

GetData ==
  /\ RxAlive /\ rx.at = "getData"
  /\ \/ /\ dataAddrFifo = <<>>
        /\ fatal' = fatal \cup {"rx"}
        /\ UNCHANGED <<rx, dataAddrFifo>>
     \/ /\ dataAddrFifo # <<>>
        /\ rx' = Rx("sendAck", Head(dataAddrFifo), rx.from)
        /\ dataAddrFifo' = Tail(dataAddrFifo)
        /\ UNCHANGED fatal
  /\ UNCHANGED <<bmsMain, status, addrCnt, addrFifo, timers, cmbVars, down,
                 up, losses>>

(* bt_mesh_cli_sendACK: the send ...                                       *)
SendAck ==
  /\ RxAlive /\ rx.at = "sendAck"
  /\ SendDown(rx.node, "ACK")
  /\ rx' = Rx("ackSent", rx.node, rx.from)
  /\ UNCHANGED <<bmsMain, status, addrCnt, fifos, timers, fatal, cmbVars, up,
                 losses>>

(* ... updateACKInfo: the test and the store of the status ...             *)
CheckAck ==
  /\ RxAlive /\ rx.at = "ackSent"
  /\ rx' = Rx(IF Accepted(currPkt[rx.node], "TX_ACK")
                THEN "ackChecked" ELSE "ackStored", rx.node, rx.from)
  /\ UNCHANGED <<bmsMain, status, addrCnt, fifos, timers, fatal, cmbVars,
                 down, up, losses>>

StoreAck ==
  /\ RxAlive /\ rx.at = "ackChecked"
  /\ currPkt' = [currPkt EXCEPT ![rx.node] = "TX_ACK"]
  /\ rx' = Rx("ackStored", rx.node, rx.from)
  /\ UNCHANGED <<bmsMain, currSys, addrCnt, fifos, timers, fatal, cmbVars,
                 down, up, losses>>

(* ... its NO_ISSUES, and startOkTimer, in any case.                       *)
ArmOkTimer ==
  /\ RxAlive /\ rx.at = "ackStored"
  /\ currSys' = "NO_ISSUES"
  /\ okTimer' = [okTimer EXCEPT ![rx.node] = TRUE]
  /\ rx' = Rx("ackLoop", rx.node, rx.from)
  /\ UNCHANGED <<bmsMain, currPkt, addrCnt, fifos, dataTimer, fatal, cmbVars,
                 down, up, losses>>

(* Either send fails: the RX thread never leaves the handler.              *)
RxSendFails ==
  /\ RxAlive /\ rx.at \in {"sendToken", "sendAck"}
  /\ Stuck("rx")
  /\ UNCHANGED <<bmsMain, status, addrCnt, fifos, timers, rx, cmbVars, down,
                 up, losses>>

-----------------------------------------------------------------------------
(* BMS, clock interrupt.                                                   *)

(* What the timers of node n should outlast: a message or a signal under   *)
(* way, an unfinished step of the CMB, the handler of its answer, the loop *)
(* that acknowledges and arms the OK timers one node after the other.      *)
Answering(n) ==
  \/ down[n] # <<>> \/ up[n] # <<>> \/ sgn[n] # {}
  \/ cmbMain[n] = "okSent"
  \/ rx # Idle /\ (rx.node = n \/ rx.at \in {"ackLoop", "getData", "ackStored"} \cup AckDuePlace)

MayExpire(n) ==
  /\ IsrAlive
  /\ Preempt \/ rx = Idle \/ ~RxAlive
  /\ Timely => ~Answering(n)

(* ok_expiry_function: the send, then status TX_RECOVER.                   *)
OkExpiry(n) ==
  /\ MayExpire(n) /\ okTimer[n]
  /\ okTimer' = [okTimer EXCEPT ![n] = FALSE]
  /\ \/ SendDown(n, "RCV") /\ UpdateState(n, "TX_RECOVER") /\ UNCHANGED fatal
     \/ Stuck("isr") /\ UNCHANGED <<down, currPkt>>
  /\ UNCHANGED <<bmsMain, currSys, addrCnt, fifos, dataTimer, rx, cmbVars, up,
                 losses>>

(* Mutant: the status of the node stays as it is.                          *)
KeepStatus(n) == UNCHANGED currPkt
(* updateRecoverInfo.                                                      *)
RecoverStatus(n) == UpdateState(n, "TX_RECOVER")

(* data_expiry_function: the battery is lost, both FIFOs are flushed and   *)
(* mercury_mesh_sendStart starts every node again.                         *)
DataExpiry(n) ==
  /\ MayExpire(n) /\ dataTimer[n]
  /\ dataTimer' = [dataTimer EXCEPT ![n] = FALSE]
  /\ RecoverStatus(n)
  /\ currSys' = "BATT_INFO_LOST"
  /\ addrFifo' = <<>> /\ dataAddrFifo' = <<>>
  /\ addrCnt' = 0
  /\ \/ SendStart(StartTargets("BATT_INFO_LOST")) /\ UNCHANGED fatal
     \/ /\ Stuck("isr")
        /\ \E S \in SUBSET Nodes : S # Nodes /\ SendStart(S)
  /\ UNCHANGED <<bmsMain, okTimer, rx, cmbVars, up, losses>>

-----------------------------------------------------------------------------
(* CMB n, RX thread: one message from the BMS.                             *)

CmbRxAlive(n) == "rx" \notin cmbFatal[n]
CmbMainAlive(n) == "main" \notin cmbFatal[n]
Arrives(n, kind) ==
  /\ CmbRxAlive(n)
  /\ Timely => cmbMain[n] # "okSent"
  /\ down[n] # <<>> /\ Head(down[n]) = kind
  /\ down' = [down EXCEPT ![n] = Tail(@)]
Raise(n, s) == sgn' = [sgn EXCEPT ![n] = @ \cup {s}]

StartHandler(n) ==
  /\ Arrives(n, "START")
  /\ startSem' = [startSem EXCEPT ![n] = 1]
  /\ Raise(n, "start")
  /\ UNCHANGED <<bmsVars, cmbMain, cmbFatal, up, losses>>

ACKHandler(n) ==
  /\ Arrives(n, "ACK")
  /\ Raise(n, "ack")
  /\ UNCHANGED <<bmsVars, cmbMain, startSem, cmbFatal, up, losses>>

RecoveryHandler(n) ==
  /\ Arrives(n, "RCV")
  /\ Raise(n, "rcv")
  /\ UNCHANGED <<bmsVars, cmbMain, startSem, cmbFatal, up, losses>>

TokenHandler(n) ==
  /\ Arrives(n, "TOKEN")
  /\ \/ SendUp(n, "DATA") /\ UNCHANGED cmbFatal
     \/ /\ SendMayFail
        /\ cmbFatal' = [cmbFatal EXCEPT ![n] = @ \cup {"rx"}]
        /\ UNCHANGED up
  /\ UNCHANGED <<bmsVars, cmbMain, sgn, startSem, losses>>

-----------------------------------------------------------------------------
(* CMB n, main thread: mercury_main_cmb.                                   *)

(* mercury_netMgr_sendOK: the OK is on its way, the flags not yet cleared. *)
CmbSendOk(n) ==
  \/ /\ SendUp(n, "OK")
     /\ cmbMain' = [cmbMain EXCEPT ![n] = "okSent"]
     /\ UNCHANGED cmbFatal
  \/ /\ SendMayFail
     /\ cmbFatal' = [cmbFatal EXCEPT ![n] = @ \cup {"main"}]
     /\ UNCHANGED <<up, cmbMain>>

(* k_sem_take(&startSem) and the first OK.                                 *)
CmbStart(n) ==
  /\ CmbMainAlive(n)
  /\ cmbMain[n] = "waitStart" /\ startSem[n] = 1
  /\ startSem' = [startSem EXCEPT ![n] = 0]
  /\ CmbSendOk(n)
  /\ UNCHANGED <<bmsVars, sgn, down, losses>>

(* All the flags are cleared, those raised since the OK included.          *)
CmbClear(n) ==
  /\ cmbMain[n] = "okSent"
  /\ cmbMain' = [cmbMain EXCEPT ![n] = "loop"]
  /\ sgn' = [sgn EXCEPT ![n] = {}]
  /\ UNCHANGED <<bmsVars, startSem, cmbFatal, down, up, losses>>

(* Mutant: the ACK raises a flag the loop does not look at.                *)
AckUnseen(n) == sgn[n] \ {"ack"} # {}
(* okSgn || rcvSgn || restartSgn                                           *)
Signalled(n) == sgn[n] # {}

(* One OK answers every flag that is up.                                   *)
CmbAnswer(n) ==
  /\ CmbMainAlive(n)
  /\ cmbMain[n] = "loop" /\ Signalled(n)
  /\ CmbSendOk(n)
  /\ UNCHANGED <<bmsVars, sgn, startSem, down, losses>>

-----------------------------------------------------------------------------
(* The mesh loses a message (external).                                    *)
LoseDown(n) ==
  /\ losses < MaxLosses /\ down[n] # <<>>
  /\ down' = [down EXCEPT ![n] = Tail(@)]
  /\ losses' = losses + 1
  /\ UNCHANGED <<bmsVars, cmbVars, up>>

LoseUp(n) ==
  /\ losses < MaxLosses /\ up[n] # <<>>
  /\ up' = [up EXCEPT ![n] = Tail(@)]
  /\ losses' = losses + 1
  /\ UNCHANGED <<bmsVars, cmbVars, down>>

-----------------------------------------------------------------------------
RxThread ==
  \/ QueueOk \/ LoadCnt \/ CountOk
  \/ CheckData \/ TakeData \/ QueueData
  \/ Dispatch
  \/ GetAddr \/ SendToken \/ CheckToken \/ StoreToken \/ ArmDataTimer
  \/ AckLoop \/ GetData \/ SendAck \/ CheckAck \/ StoreAck \/ ArmOkTimer
CmbRx(n) ==
  StartHandler(n) \/ ACKHandler(n) \/ RecoveryHandler(n) \/ TokenHandler(n)
CmbMainThread(n) == CmbStart(n) \/ CmbClear(n) \/ CmbAnswer(n)

Next ==
  \/ MainStart \/ RxThread \/ RxSendFails
  \/ \E n \in Nodes :
       \/ OKHandler(n) \/ DataHandler(n)
       \/ OkExpiry(n) \/ DataExpiry(n)
       \/ CmbRx(n) \/ CmbMainThread(n)
       \/ LoseDown(n) \/ LoseUp(n)

(* Every thread that can run runs, a message that is not lost is handled,  *)
(* an armed timer expires unless it is stopped.                            *)
ThreadsRun ==
  /\ WF_vars(MainStart) /\ WF_vars(RxThread)
  /\ \A n \in Nodes :
       /\ WF_vars(OKHandler(n) \/ DataHandler(n))
       /\ WF_vars(CmbRx(n)) /\ WF_vars(CmbMainThread(n))
TimersExpire ==
  \A n \in Nodes : WF_vars(OkExpiry(n)) /\ WF_vars(DataExpiry(n))
Fairness == ThreadsRun /\ TimersExpire

Spec == Init /\ [][Next]_vars
FairSpec == Spec /\ Fairness

-----------------------------------------------------------------------------
(* Properties.                                                             *)

(* TypeOK above: the types of the state; addrCnt never passes the number   *)
(* of active nodes, so the equality test of OKHandler cannot be jumped.    *)

(* mercury_mesh_sendToken sends a token only when every node has reported  *)
(* in this cycle and none holds a token: until the status says that this   *)
(* one has got it, all the nodes are waiting for theirs or have been read  *)
(* (mesh_cli.c, "LOGIC").                                                  *)
PollBarrier ==
  RxAlive /\ rx.at \in TokenDuePlace =>
    \A n \in Nodes : currPkt[n] \in {"RX_OK", "RX_DATA"}

(* An ACK is sent only when the Data of every node is in: the              *)
(* others are acknowledged already or will be by the same loop.            *)
AckBarrier ==
  RxAlive /\ rx.at \in AckDuePlace =>
    \A n \in Nodes : currPkt[n] \in {"RX_DATA", "TX_ACK"}

(* The FIFOs and the status log agree: a queued node is in the status that *)
(* made its handler queue it and is queued once, so no node is polled or   *)
(* acknowledged twice in a cycle; and the get that follows a nonempty test *)
(* never finds an empty FIFO.                                              *)
QueuesAgree ==
  RxAlive =>
    /\ IsInjective(addrFifo) /\ IsInjective(dataAddrFifo)
    /\ \A n \in Range(addrFifo) : currPkt[n] = "RX_OK"
    /\ \A n \in Range(dataAddrFifo) : currPkt[n] = "RX_DATA"
    /\ rx.at = "getAddr" => addrFifo # <<>>
    /\ rx.at = "getData" => dataAddrFifo # <<>>

(* The RX thread is at a place, with node n.                               *)
At(place, n) == rx.at = place /\ rx.node = n

(* A node that owes an answer is watched, and only such a node: a token    *)
(* outstanding has its Data timer armed, an ACK outstanding its OK timer.  *)
(* The exceptions are the steps of a handler between the status and the    *)
(* timer, and a BMS whose interrupt is stuck.                              *)
Watched ==
  IsrAlive =>
    \A n \in Nodes :
      /\ currPkt[n] = "TX_TOKEN" => dataTimer[n] \/ At("tokenStored", n)
      /\ dataTimer[n] => currPkt[n] = "TX_TOKEN" \/ At("dataTaken", n)
      /\ currPkt[n] = "TX_ACK" => okTimer[n] \/ At("ackStored", n)
      /\ okTimer[n] => currPkt[n] = "TX_ACK" \/ At("okTaken", n)

(* While the battery is lost no token is outstanding: the Data messages    *)
(* DataHandler drops then are all late ones.                               *)
LostMeansUnpolled ==
  RxAlive /\ currSys = "BATT_INFO_LOST" =>
    \A n \in Nodes : currPkt[n] # "TX_TOKEN"

(* The engine implements the scan in rounds of ScanCycle: the phase of a   *)
(* node is read off its status.                                            *)
PhaseOf(pkt) == CASE pkt = "RX_OK"    -> "reported"
                  [] pkt = "TX_TOKEN" -> "polled"
                  [] pkt = "RX_DATA"  -> "read"
                  [] OTHER            -> "due"
ScanPhase == [n \in Nodes |-> PhaseOf(currPkt[n])]
Scan == INSTANCE ScanCycle WITH phase <- ScanPhase
ScanSpec == Scan!Spec

(* Every node is read again and again.                                     *)
ScansForever == \A n \in Nodes : []<>(currPkt[n] = "RX_DATA")

(* A node the BMS is waiting for, with a timer armed, is read in the end.  *)
Recovers ==
  \A n \in Nodes : okTimer[n] \/ dataTimer[n] ~> currPkt[n] = "RX_DATA"

(* hg_netMgr.c:110, on a missing Data: "restart the whole process with all *)
(* the nodes by sending start signal to all of them".  The restarted       *)
(* process reaches the end of its OK phase.                                *)
RestartCompletes == currSys = "BATT_INFO_LOST" ~> currSys = "NO_ISSUES"

(* mesh_cli.c:136, on sending a token: "we received all the OKs".  No node *)
(* is left whose OK of this cycle is still to come.                        *)
TokenAfterAllOks ==
  rx.at = "sendToken" => \A n \in Nodes : currPkt[n] \notin {"NO_INFO", "TX_ACK"}
=============================================================================
