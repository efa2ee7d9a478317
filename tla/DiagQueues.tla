----------------------------- MODULE DiagQueues -----------------------------
(***************************************************************************)
(* What becomes of the Data the BMS has taken, and the accounts it keeps:  *)
(* the RX thread leaves every token it sends in tx_msgq and every Data it  *)
(* accepts in rx_msgq, the diagnostic thread takes one Data at a time,     *)
(* looks for its token and checks the CRC; they and the expiry functions   *)
(* of the timers count transactions, packets and errors per node           *)
(* (hg_netMgr.c, hg_mesh.c, app_master.c).                                 *)
(*                                                                         *)
(* The order of tokens and Data is that of ScanCycle, which the engine of  *)
(* Transaction implements.  Both threads are cooperative and neither waits *)
(* inside a handler, so each handler is one step for the other.  The       *)
(* expiry functions run in the clock interrupt: they come between the      *)
(* handlers of the RX thread, as in ScanCycle, but anywhere in the         *)
(* diagnostic thread, and share one counter with it, tRejected.            *)
(*                                                                         *)
(* Left out: droppedCnt and currNode, on which nothing here depends, and   *)
(* the system's totals, which are the sums of the nodes' counters.         *)
(***************************************************************************)
EXTENDS Naturals, Sequences, FiniteSets, FiniteSetsExt

CONSTANTS
  Nodes,
  SIZE_OF_RXQUEUE, SIZE_OF_TXQUEUE,
  MaxTokens,    (* bound: tokens sent                                      *)
  MaxTimeouts   (* bound: timers expired, per node                         *)

ASSUME DiagAssumption ==
  /\ SIZE_OF_RXQUEUE \in Nat \ {0} /\ SIZE_OF_TXQUEUE \in Nat \ {0}
  /\ MaxTokens \in Nat /\ MaxTimeouts \in Nat

VARIABLES
  phase,        (* where each node is in the scan                          *)
  okTimer,      (* the nodes whose OK timer is armed                       *)
  serial,       (* tokens sent; a token is its number, no two are alike    *)
  tx_msgq,      (* tokens sent: [addr, token]                              *)
  rx_msgq,      (* Data taken: [addr, token, crcOk]                        *)
  transLog,     (* per node: the transactions                              *)
  pktCntLog,    (* per node: the packets                                   *)
  log,          (* NetState.client[n].diag.log: the errors                 *)
  todo,         (* the REJECTED the diagnostic thread has still to count,  *)
                (* as a sequence of nodes                                  *)
  reg,          (* what it has read of tRejected for the next one, if any  *)
  overrun,      (* history: the queues a push has found full               *)
  raced         (* history: an interrupt came between that read and the    *)
                (* store                                                   *)

queues == <<tx_msgq, rx_msgq, overrun>>
diagVars == <<todo, reg, raced>>
vars == <<phase, okTimer, serial, queues, transLog, pktCntLog, log, diagVars>>

Scan == INSTANCE ScanCycle

Token == [addr : Nodes, token : 1..MaxTokens]
Data == [addr : Nodes, token : 1..MaxTokens, crcOk : BOOLEAN]
None == <<>>

TypeOK ==
  /\ Scan!TypeOK
  /\ okTimer \subseteq Nodes
  /\ serial \in 0..MaxTokens
  /\ tx_msgq \in Seq(Token) /\ Len(tx_msgq) <= SIZE_OF_TXQUEUE
  /\ rx_msgq \in Seq(Data) /\ Len(rx_msgq) <= SIZE_OF_RXQUEUE
  /\ transLog \in [Nodes -> [tStarted : Nat, tClosed : Nat, tRejected : Nat]]
  /\ pktCntLog \in [Nodes -> [OkCnt : Nat, TokCnt : Nat, CvCnt : Nat,
                             AckCnt : Nat, RcvCnt : Nat]]
  /\ log \in [Nodes -> [timeoutCnt : Nat, tokenMisCnt : Nat, pecCnt : Nat]]
  /\ todo \in Seq(Nodes) /\ Len(todo) <= 2
  /\ reg \in Seq(Nat) /\ Len(reg) <= 1
  /\ overrun \subseteq {"rx", "tx"}
  /\ raced \in BOOLEAN

Init ==
  /\ Scan!Init
  /\ okTimer = {} /\ serial = 0
  /\ tx_msgq = <<>> /\ rx_msgq = <<>> /\ overrun = {}
  /\ transLog = [n \in Nodes |-> [tStarted |-> 0, tClosed |-> 0, tRejected |-> 0]]
  /\ pktCntLog = [n \in Nodes |-> [OkCnt |-> 0, TokCnt |-> 0, CvCnt |-> 0,
                                  AckCnt |-> 0, RcvCnt |-> 0]]
  /\ log = [n \in Nodes |-> [timeoutCnt |-> 0, tokenMisCnt |-> 0, pecCnt |-> 0]]
  /\ todo = <<>> /\ reg = None /\ raced = FALSE

-----------------------------------------------------------------------------
(* Mutant: the put goes to the head.                                       *)
PushFront(q, size, m) == IF Len(q) >= size THEN q ELSE <<m>> \o q

(* message_dev_pushQTX, message_dev_pushQRX: on a full queue the oldest    *)
(* element is taken out into *m, the message to be queued, and put back.   *)
Push(q, size, m) ==
  IF Len(q) >= size THEN Append(Tail(q), Head(q)) ELSE Append(q, m)

Overruns(q, size, name) ==
  overrun' = IF Len(q) >= size THEN overrun \cup {name} ELSE overrun

QueueToken(t) ==
  /\ tx_msgq' = Push(tx_msgq, SIZE_OF_TXQUEUE, t)
  /\ Overruns(tx_msgq, SIZE_OF_TXQUEUE, "tx")
QueueData(m) ==
  /\ rx_msgq' = Push(rx_msgq, SIZE_OF_RXQUEUE, m)
  /\ Overruns(rx_msgq, SIZE_OF_RXQUEUE, "rx")

-----------------------------------------------------------------------------
(* RX thread.  It does not come between the steps of the diagnostic thread. *)

Idle == todo = <<>>

(* updateOKInfo: transactionUpdate(STARTED); the OK timer is stopped.      *)
TakeOk(n) ==
  /\ Idle /\ Scan!Report(n)
  /\ okTimer' = okTimer \ {n}
  /\ transLog' = [transLog EXCEPT ![n].tStarted = @ + 1]
  /\ pktCntLog' = [pktCntLog EXCEPT ![n].OkCnt = @ + 1]
  /\ UNCHANGED <<serial, queues, log, diagVars>>

(* updateTokenInfo.                                                        *)
SendToken(n) ==
  /\ Idle /\ serial < MaxTokens
  /\ Scan!Poll(n)
  /\ serial' = serial + 1
  /\ QueueToken([addr |-> n, token |-> serial + 1])
  /\ pktCntLog' = [pktCntLog EXCEPT ![n].TokCnt = @ + 1]
  /\ UNCHANGED <<okTimer, rx_msgq, transLog, log, diagVars>>

(* updateDataInfo: the node echoes the token it got, the latest one.       *)
TakeData(n) ==
  /\ Idle /\ Scan!Read(n)
  /\ \E ok \in BOOLEAN :
       QueueData([addr |-> n, token |-> serial, crcOk |-> ok])
  /\ pktCntLog' = [pktCntLog EXCEPT ![n].CvCnt = @ + 1]
  /\ UNCHANGED <<okTimer, serial, tx_msgq, transLog, log, diagVars>>

(* updateACKInfo.                                                          *)
SendAck(n) ==
  /\ Idle /\ Scan!Release(n)
  /\ okTimer' = okTimer \cup {n}
  /\ pktCntLog' = [pktCntLog EXCEPT ![n].AckCnt = @ + 1]
  /\ UNCHANGED <<serial, queues, transLog, log, diagVars>>

-----------------------------------------------------------------------------
(* Interrupt.                                                              *)

(* transactionUpdate(REJECTED) and errorCountUpdate(TIMEOUT_ERR).          *)
CountTimeout(n) ==
  /\ log[n].timeoutCnt < MaxTimeouts
  /\ transLog' = [transLog EXCEPT ![n].tRejected = @ + 1]
  /\ log' = [log EXCEPT ![n].timeoutCnt = @ + 1]
  /\ raced' = (raced \/ (reg # None /\ Head(todo) = n))
  /\ UNCHANGED <<serial, queues, todo, reg>>

(* updateRecoverInfo, once.                                                *)
CountRecovery(n, times) ==
  pktCntLog' = [pktCntLog EXCEPT ![n].RcvCnt = @ + times]

(* Mutant: RCV is counted where it is sent, and only there.                *)
RecoveriesOnce == 1
(* bt_mesh_cli_sendRecover counts the RCV, ok_expiry_function again.       *)
RecoveriesPerOk == 2

OkExpiry(n) ==
  /\ n \in okTimer /\ okTimer' = okTimer \ {n}
  /\ CountTimeout(n) /\ CountRecovery(n, RecoveriesPerOk)
  /\ UNCHANGED phase

(* It counts a recovery although what it sends is START.                   *)
DataExpiry(n) ==
  /\ Scan!Lose(n)
  /\ CountTimeout(n) /\ CountRecovery(n, 1)
  /\ UNCHANGED okTimer

-----------------------------------------------------------------------------
(* Diagnostic thread.                                                      *)

(* message_dev_searchTX: gets elements until one matches; those before it  *)
(* are gone, all of them when none matches.                                *)
Matches(m) ==
  {i \in DOMAIN tx_msgq : tx_msgq[i].token = m.token /\ tx_msgq[i].addr = m.addr}
(* Mutant: the element after the match is taken out too.                   *)
RestGreedy(m) ==
  IF Matches(m) = {} THEN <<>> ELSE SubSeq(tx_msgq, Min(Matches(m)) + 2, Len(tx_msgq))
RestOf(m) ==
  IF Matches(m) = {} THEN <<>> ELSE SubSeq(tx_msgq, Min(Matches(m)) + 1, Len(tx_msgq))

Missed(m) == IF Matches(m) = {} THEN 1 ELSE 0
Wrong(m) == IF m.crcOk THEN 0 ELSE 1

(* Mutant: a match closes the transaction, the right CRC closes it again.  *)
ClosesTwice(m) == (IF Matches(m) # {} THEN 1 ELSE 0) + (IF m.crcOk THEN 1 ELSE 0)
(* crc16Check alone closes it.                                             *)
Closes(m) == IF m.crcOk THEN 1 ELSE 0

(* Mutant: a Data is rejected once at most.                                *)
RejectsOnce(m) == IF Matches(m) = {} \/ ~m.crcOk THEN <<m.addr>> ELSE <<>>
(* A missing token and a wrong CRC are rejected one after the other.       *)
Rejects(m) ==
  (IF Matches(m) = {} THEN <<m.addr>> ELSE <<>>)
  \o (IF m.crcOk THEN <<>> ELSE <<m.addr>>)

(* message_dev_fetchRX and diag_verifyRxData, the updates of tRejected     *)
(* apart, which follow one by one.                                         *)
Verify ==
  /\ Idle /\ rx_msgq # <<>>
  /\ LET m == Head(rx_msgq)
     IN /\ rx_msgq' = Tail(rx_msgq)
        /\ tx_msgq' = RestOf(m)
        /\ log' = [log EXCEPT
                     ![m.addr].tokenMisCnt = @ + Missed(m),
                     ![m.addr].pecCnt = @ + Wrong(m)]
        /\ transLog' = [transLog EXCEPT ![m.addr].tClosed = @ + Closes(m)]
        /\ todo' = Rejects(m)
  /\ UNCHANGED <<phase, okTimer, serial, overrun, pktCntLog, reg, raced>>

(* tRejected++: read, then stored.                                         *)
LoadRejected ==
  /\ ~Idle /\ reg = None
  /\ reg' = <<transLog[Head(todo)].tRejected>>
  /\ UNCHANGED <<phase, okTimer, serial, queues, transLog, pktCntLog, log, todo, raced>>
StoreRejected ==
  /\ reg # None
  /\ transLog' = [transLog EXCEPT ![Head(todo)].tRejected = Head(reg) + 1]
  /\ reg' = None /\ todo' = Tail(todo)
  /\ UNCHANGED <<phase, okTimer, serial, queues, pktCntLog, log, raced>>

Next ==
  \/ \E n \in Nodes : TakeOk(n) \/ SendToken(n) \/ TakeData(n) \/ SendAck(n)
  \/ \E n \in Nodes : OkExpiry(n) \/ DataExpiry(n)
  \/ Verify \/ LoadRejected \/ StoreRejected

Spec == Init /\ [][Next]_vars

-----------------------------------------------------------------------------
(* Properties.                                                             *)

(* Until a queue overruns, every Data finds its token: searchTX throws     *)
(* tokens away, but only those whose Data never came.                      *)
TokensMatch == overrun = {} => \A n \in Nodes : log[n].tokenMisCnt = 0

(* Until a queue overruns, Data is verified in the order it was taken.     *)
InOrder ==
  overrun = {} =>
    \A i, j \in DOMAIN rx_msgq : i < j => rx_msgq[i].token < rx_msgq[j].token

Pending(n) == Cardinality({i \in DOMAIN rx_msgq : rx_msgq[i].addr = n})
Owed(n) == Cardinality({i \in DOMAIN todo : todo[i] = n})
One(b) == IF b THEN 1 ELSE 0

(* Every Data taken waits, has closed its transaction or is in pecCnt, and *)
(* none is counted twice, whatever was made of its token; a push on a full *)
(* rx_msgq is the only way to lose one.                                    *)
DataAccounted ==
  \A n \in Nodes :
    LET known == transLog[n].tClosed + log[n].pecCnt + Pending(n)
    IN /\ known <= pktCntLog[n].CvCnt
       /\ "rx" \notin overrun => known = pktCntLog[n].CvCnt

(* hg_test.c:27, on the rejected transactions of the report: "combined of  *)
(* all the below", the CRC errors, timeouts and mismatches.  They are,     *)
(* unless a timer expires while the diagnostic thread counts one.          *)
RejectedIsCombined ==
  ~raced =>
    \A n \in Nodes :
      transLog[n].tRejected + Owed(n) =
        log[n].pecCnt + log[n].timeoutCnt + log[n].tokenMisCnt

(* The packet counters tell where a node is and what it has lost: what is  *)
(* between two of them is under way or was a Data timeout, and those are   *)
(* twice the timeouts less the recoveries.                                 *)
PacketsFollow ==
  \A n \in Nodes :
    LET cnt == pktCntLog[n]
    IN /\ transLog[n].tStarted = cnt.OkCnt
       /\ cnt.OkCnt = cnt.TokCnt + One(phase[n] = "reported")
       /\ cnt.TokCnt + cnt.RcvCnt =
            cnt.CvCnt + 2 * log[n].timeoutCnt + One(phase[n] = "polled")
       /\ cnt.CvCnt = cnt.AckCnt + One(phase[n] = "read")
=============================================================================
