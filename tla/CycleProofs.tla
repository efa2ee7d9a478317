---------------------------- MODULE CycleProofs ----------------------------
(***************************************************************************)
(* The measurement cycle of Transaction, for every set of nodes, every     *)
(* number of lost messages and any delay of the answers: its types and the *)
(* bound of its counter, wherever a timer expires; and its barriers, as    *)
(* long as no timer expires inside a message handler.                      *)
(***************************************************************************)
EXTENDS TransactionInv, FiniteSetTheorems, SequenceTheorems, TLAPS

(* The abbreviations of places and of "at a place with a node".            *)
USE DEF TokenDuePlace, AckDuePlace, At

-----------------------------------------------------------------------------
(* Types, and the bound of the counter.                                    *)

(* There is at least one node, so the counter has room for an OK.          *)
LEMMA ActivePositive == Active \in Nat /\ Active > 0
  BY NodesAssumption, FS_CardinalityType, FS_EmptySet DEF Active

(* The status test stores a status.                                        *)
LEMMA StatusType ==
  ASSUME currPkt \in [Nodes -> PktS], NEW n \in Nodes, NEW c \in PktS, UpdateState(n, c)
  PROVE  currPkt' \in [Nodes -> PktS]
  <1>1. StatesUpdate(currPkt[n], c) \in PktS
    BY DEF StatesUpdate
  <1>2. currPkt' = [currPkt EXCEPT ![n] = StatesUpdate(currPkt[n], c)]
    BY DEF UpdateState
  <1>3. QED BY <1>1, <1>2

(* A message more or less at the ends of a channel leaves a channel.       *)
LEMMA ChannelPut ==
  ASSUME NEW S, NEW ch \in [Nodes -> Seq(S)], NEW n \in Nodes, NEW k \in S
  PROVE  [ch EXCEPT ![n] = Append(ch[n], k)] \in [Nodes -> Seq(S)]
  <1>1. Append(ch[n], k) \in Seq(S)
    BY AppendProperties
  <1>2. QED BY <1>1

LEMMA ChannelGet ==
  ASSUME NEW S, NEW ch \in [Nodes -> Seq(S)], NEW n \in Nodes, ch[n] # <<>>
  PROVE  [ch EXCEPT ![n] = Tail(ch[n])] \in [Nodes -> Seq(S)]
  <1>1. Tail(ch[n]) \in Seq(S)
    BY HeadTailProperties
  <1>2. QED BY <1>1

LEMMA SendDownType ==
  ASSUME TypeOK, NEW n \in Nodes, NEW k \in DownKind, SendDown(n, k)
  PROVE  down' \in [Nodes -> Seq(DownKind)]
  BY ChannelPut DEF SendDown, TypeOK

LEMMA SendUpType ==
  ASSUME TypeOK, NEW n \in Nodes, NEW k \in UpKind, SendUp(n, k)
  PROVE  up' \in [Nodes -> Seq(UpKind)]
  BY ChannelPut DEF SendUp, TypeOK

LEMMA ArrivesType ==
  ASSUME TypeOK, NEW n \in Nodes, NEW k, Arrives(n, k)
  PROVE  down' \in [Nodes -> Seq(DownKind)]
  BY ChannelGet DEF Arrives, TypeOK

LEMMA FatalType ==
  ASSUME TypeOK, NEW n \in Nodes, NEW t \in {"rx", "main"}
  PROVE  [cmbFatal EXCEPT ![n] = @ \cup {t}] \in [Nodes -> SUBSET {"rx", "main"}]
  <1>1. cmbFatal[n] \cup {t} \in SUBSET {"rx", "main"}
    BY DEF TypeOK
  <1>2. QED BY <1>1 DEF TypeOK

LEMMA StartType ==
  ASSUME down \in [Nodes -> Seq(DownKind)], NEW S, SendStart(S)
  PROVE  down' \in [Nodes -> Seq(DownKind)]
  <1>1. \A n \in Nodes : Append(down[n], "START") \in Seq(DownKind)
    BY AppendProperties DEF DownKind
  <1>2. QED BY <1>1 DEF SendStart

(* What the RX thread's place is made of.                                  *)
LEMMA RxFields ==
  ASSUME NEW p \in RxPlace, NEW n \in Nodes, NEW f \in {"ok", "data"},
         NEW c \in 0..Active
  PROVE  /\ RxCnt(p, n, f, c) \in RxState
         /\ RxCnt(p, n, f, c) # Idle
         /\ RxCnt(p, n, f, c).at = p
         /\ RxCnt(p, n, f, c).node = n
         /\ RxCnt(p, n, f, c).from = f
         /\ RxCnt(p, n, f, c).cnt = c
  BY DEF RxCnt, RxState, RxPlace, Idle

LEMMA RxFields0 ==
  ASSUME NEW p \in RxPlace, NEW n \in Nodes, NEW f \in {"ok", "data"}
  PROVE  /\ Rx(p, n, f) \in RxState
         /\ Rx(p, n, f) # Idle
         /\ Rx(p, n, f).at = p
         /\ Rx(p, n, f).node = n
         /\ Rx(p, n, f).from = f
  BY RxFields, ActivePositive DEF Rx

LEMMA RxCases ==
  ASSUME NEW r \in RxState
  PROVE  \/ r = Idle /\ r.at = "idle"
         \/ /\ r # Idle /\ r.at \in RxPlace /\ r.node \in Nodes
            /\ r.from \in {"ok", "data"} /\ r.cnt \in 0..Active
  BY DEF RxState, Idle, RxPlace

LEMMA IdleFields == Idle \in RxState /\ Idle.at = "idle"
  BY DEF Idle, RxState

(* Both typing facts hold at the start.                                    *)
LEMMA TypeInit == Init => TypeOK /\ CntBound
  BY ActivePositive, EmptySeq, FlagsAssumption
  DEF Init, TypeOK, CntBound, Idle, RxState, PktS, SysS

(* Every step preserves them: one case per action.                         *)
LEMMA TypeStep == TypeOK /\ CntBound /\ [Next]_vars => TypeOK' /\ CntBound'
  <1> USE ActivePositive
  <1> SUFFICES ASSUME TypeOK, CntBound, [Next]_vars
               PROVE  TypeOK' /\ CntBound'
    OBVIOUS
  <1>1. CASE MainStart
    <2>1. down' \in [Nodes -> Seq(DownKind)]
      BY <1>1, StartType DEF MainStart, TypeOK
    <2>2. TypeOK'
      BY <1>1, <2>1 DEF MainStart, TypeOK, status, fifos, timers, cmbVars
    <2>3. CntBound'
      BY <1>1, <2>1 DEF MainStart, CntBound
    <2>4. QED BY <2>2, <2>3
  <1>2. CASE QueueOk
    <2>1. rx # Idle /\ rx.node \in Nodes /\ rx.from \in {"ok", "data"} /\ rx.cnt \in 0..Active
      BY <1>2, RxCases DEF QueueOk, TypeOK, Idle
    <2>2. rx' \in RxState
      BY <1>2, <2>1, RxFields0 DEF QueueOk, RxPlace, TypeOK
    <2>3. addrFifo' \in Seq(Nodes)
      BY <1>2, <2>1, AppendProperties DEF QueueOk, TypeOK
    <2>4. okTimer' \in [Nodes -> BOOLEAN]
      BY <1>2, <2>1 DEF QueueOk, Stop, TypeOK
    <2>5. TypeOK'
      BY <1>2, <2>1, <2>2, <2>3, <2>4 DEF QueueOk, TypeOK, status, cmbVars
    <2>6. CntBound'
      BY <1>2, <2>1, <2>2, <2>3, <2>4, RxFields0 DEF QueueOk, CntBound, RxPlace
    <2>7. QED BY <2>5, <2>6
  <1>3. CASE LoadCnt
    <2>1. rx # Idle /\ rx.node \in Nodes /\ rx.from \in {"ok", "data"} /\ rx.cnt \in 0..Active
      BY <1>3, RxCases DEF LoadCnt, TypeOK, Idle
    <2>2. rx' \in RxState
      BY <1>3, <2>1, RxFields DEF LoadCnt, RxPlace, TypeOK
    <2>3. TypeOK'
      BY <1>3, <2>1, <2>2 DEF LoadCnt, TypeOK, status, fifos, timers, cmbVars
    <2>4. /\ rx'.at = "okLoaded" /\ rx'.from = "ok" /\ rx'.cnt = addrCnt
          /\ rx.at = "okQueued" /\ addrCnt' = addrCnt
      BY <1>3, <2>1, RxFields DEF LoadCnt, RxPlace, TypeOK
    <2>5. CntBound'
      BY <2>4 DEF CntBound
    <2>6. QED BY <2>3, <2>5
  <1>4. CASE CountOk
    <2>1. rx # Idle /\ rx.node \in Nodes /\ rx.from \in {"ok", "data"} /\ rx.cnt \in 0..Active
      BY <1>4, RxCases DEF CountOk, TypeOK, Idle
    <2>2. rx.cnt < Active
      BY <1>4 DEF CountOk, CntBound
    <2>3. rx' \in RxState
      BY <1>4, <2>1, RxFields0, IdleFields DEF CountOk, RxPlace
    <2>4. currSys' \in SysS
      BY <1>4 DEF CountOk, SysS, TypeOK
    <2>5. addrCnt' \in 0..Active
      BY <1>4, <2>1, <2>2 DEF CountOk
    <2>6. TypeOK'
      BY <1>4, <2>1, <2>2, <2>3, <2>4, <2>5 DEF CountOk, TypeOK, fifos, timers, cmbVars
    <2>7. CntBound'
      BY <1>4, <2>1, <2>2, <2>3, <2>4, <2>5, RxFields0, IdleFields DEF CountOk, AllReported, CntBound, RxPlace
    <2>8. QED BY <2>6, <2>7
  <1>5. CASE CheckData
    <2>1. rx # Idle /\ rx.node \in Nodes /\ rx.from \in {"ok", "data"} /\ rx.cnt \in 0..Active
      BY <1>5, RxCases DEF CheckData, TypeOK, Idle
    <2>2. rx' \in RxState
      BY <1>5, <2>1, RxFields0, IdleFields DEF CheckData, RxPlace
    <2>3. TypeOK'
      BY <1>5, <2>1, <2>2 DEF CheckData, TypeOK, status, fifos, timers, cmbVars
    <2>4. CntBound'
      BY <1>5, <2>1, <2>2, RxFields0, IdleFields DEF CheckData, CntBound, RxPlace
    <2>5. QED BY <2>3, <2>4
  <1>6. CASE TakeData
    <2>1. rx # Idle /\ rx.node \in Nodes /\ rx.from \in {"ok", "data"} /\ rx.cnt \in 0..Active
      BY <1>6, RxCases DEF TakeData, TypeOK, Idle
    <2>2. rx' \in RxState
      BY <1>6, <2>1, RxFields0 DEF TakeData, RxPlace, TypeOK
    <2>3. currPkt' \in [Nodes -> PktS]
      BY <1>6 DEF TakeData, TypeOK, PktS
    <2>4. TypeOK'
      BY <1>6, <2>1, <2>2, <2>3 DEF TakeData, TypeOK, fifos, timers, cmbVars
    <2>5. CntBound'
      BY <1>6, <2>1, <2>2, <2>3, RxFields0 DEF TakeData, CntBound, RxPlace
    <2>6. QED BY <2>4, <2>5
  <1>7. CASE QueueData
    <2>1. rx # Idle /\ rx.node \in Nodes /\ rx.from \in {"ok", "data"} /\ rx.cnt \in 0..Active
      BY <1>7, RxCases DEF QueueData, TypeOK, Idle
    <2>2. rx' \in RxState
      BY <1>7, <2>1, RxFields0 DEF QueueData, RxPlace, TypeOK
    <2>3. dataAddrFifo' \in Seq(Nodes)
      BY <1>7, <2>1, AppendProperties DEF QueueData, TypeOK
    <2>4. dataTimer' \in [Nodes -> BOOLEAN]
      BY <1>7, <2>1 DEF QueueData, Stop, TypeOK
    <2>5. TypeOK'
      BY <1>7, <2>1, <2>2, <2>3, <2>4 DEF QueueData, TypeOK, status, cmbVars
    <2>6. CntBound'
      BY <1>7, <2>1, <2>2, <2>3, <2>4, RxFields0 DEF QueueData, CntBound, RxPlace
    <2>7. QED BY <2>5, <2>6
  <1>8. CASE Dispatch
    <2>1. rx # Idle /\ rx.node \in Nodes /\ rx.from \in {"ok", "data"} /\ rx.cnt \in 0..Active
      BY <1>8, RxCases DEF Dispatch, TypeOK, Idle
    <2>2. rx' \in RxState
      BY <1>8, <2>1, RxFields0 DEF Dispatch, RxPlace, TypeOK
    <2>3. TypeOK'
      BY <1>8, <2>1, <2>2 DEF Dispatch, TypeOK, status, fifos, timers, cmbVars
    <2>4. CntBound'
      BY <1>8, <2>1, <2>2, RxFields0 DEF Dispatch, CntBound, RxPlace
    <2>5. QED BY <2>3, <2>4
  <1>9. CASE GetAddr
    <2>1. rx # Idle /\ rx.node \in Nodes /\ rx.from \in {"ok", "data"} /\ rx.cnt \in 0..Active
      BY <1>9, RxCases DEF GetAddr, TypeOK, Idle
    <2>2. addrFifo # <<>> => Head(addrFifo) \in Nodes /\ Tail(addrFifo) \in Seq(Nodes)
      BY HeadTailProperties DEF TypeOK
    <2>3. rx' \in RxState
      BY <1>9, <2>1, <2>2, RxFields0 DEF GetAddr, RxPlace, TypeOK
    <2>4. addrFifo' \in Seq(Nodes)
      BY <1>9, <2>2 DEF GetAddr, TypeOK
    <2>5. fatal' \subseteq {"rx", "isr"}
      BY <1>9 DEF GetAddr, TypeOK
    <2>6. TypeOK'
      BY <1>9, <2>1, <2>2, <2>3, <2>4, <2>5 DEF GetAddr, TypeOK, status, timers, cmbVars
    <2>7. CntBound'
      BY <1>9, <2>1, <2>2, <2>3, <2>4, <2>5, RxFields0 DEF GetAddr, CntBound, RxPlace
    <2>8. QED BY <2>6, <2>7
  <1>10. CASE SendToken
    <2>1. rx # Idle /\ rx.node \in Nodes /\ rx.from \in {"ok", "data"} /\ rx.cnt \in 0..Active
      BY <1>10, RxCases DEF SendToken, TypeOK, Idle
    <2>2. rx' \in RxState
      BY <1>10, <2>1, RxFields0 DEF SendToken, RxPlace
    <2>3. down' \in [Nodes -> Seq(DownKind)]
      BY <1>10, <2>1, SendDownType DEF SendToken, DownKind
    <2>4. TypeOK'
      BY <1>10, <2>1, <2>2, <2>3 DEF SendToken, TypeOK, status, fifos, timers, cmbVars
    <2>5. CntBound'
      BY <1>10, <2>1, <2>2, <2>3, RxFields0 DEF SendToken, CntBound, RxPlace
    <2>6. QED BY <2>4, <2>5
  <1>10b. CASE CheckToken
    <2>1. rx # Idle /\ rx.node \in Nodes /\ rx.from \in {"ok", "data"} /\ rx.cnt \in 0..Active
      BY <1>10b, RxCases DEF CheckToken, TypeOK, Idle
    <2>2. rx' \in RxState
      BY <1>10b, <2>1, RxFields0 DEF CheckToken, RxPlace
    <2>3. TypeOK'
      BY <1>10b, <2>1, <2>2 DEF CheckToken, TypeOK, status, fifos, timers, cmbVars
    <2>4. CntBound'
      BY <1>10b, <2>1, <2>2, RxFields0 DEF CheckToken, CntBound, RxPlace
    <2>5. QED BY <2>3, <2>4
  <1>10c. CASE StoreToken
    <2>1. rx # Idle /\ rx.node \in Nodes /\ rx.from \in {"ok", "data"} /\ rx.cnt \in 0..Active
      BY <1>10c, RxCases DEF StoreToken, TypeOK, Idle
    <2>2. rx' \in RxState
      BY <1>10c, <2>1, RxFields0 DEF StoreToken, RxPlace
    <2>3. currPkt' \in [Nodes -> PktS]
      BY <1>10c, <2>1 DEF StoreToken, TypeOK, PktS
    <2>4. TypeOK'
      BY <1>10c, <2>1, <2>2, <2>3 DEF StoreToken, TypeOK, fifos, timers, cmbVars
    <2>5. CntBound'
      BY <1>10c, <2>1, <2>2, <2>3, RxFields0 DEF StoreToken, CntBound, RxPlace
    <2>6. QED BY <2>4, <2>5
  <1>10d. CASE ArmDataTimer
    <2>1. rx # Idle /\ rx.node \in Nodes /\ rx.from \in {"ok", "data"} /\ rx.cnt \in 0..Active
      BY <1>10d, RxCases DEF ArmDataTimer, TypeOK, Idle
    <2>2. rx' = Idle /\ addrCnt' \in 0..Active
      BY <1>10d, <2>1 DEF ArmDataTimer, Return, TypeOK
    <2>3. dataTimer' \in [Nodes -> BOOLEAN]
      BY <1>10d, <2>1 DEF ArmDataTimer, TypeOK
    <2>4. TypeOK'
      BY <1>10d, <2>1, <2>2, <2>3 DEF ArmDataTimer, TypeOK, RxState, status, fifos, cmbVars
    <2>5. CntBound'
      BY <1>10d, <2>1, <2>2, <2>3, IdleFields DEF ArmDataTimer, CntBound, Return
    <2>6. QED BY <2>4, <2>5
  <1>11. CASE AckLoop
    <2>1. rx # Idle /\ rx.node \in Nodes /\ rx.from \in {"ok", "data"} /\ rx.cnt \in 0..Active
      BY <1>11, RxCases DEF AckLoop, TypeOK, Idle
    <2>2. rx' \in RxState
      BY <1>11, <2>1, RxFields0, IdleFields DEF AckLoop, Return, RxPlace
    <2>3. addrCnt' \in 0..Active
      BY <1>11 DEF AckLoop, Return, TypeOK
    <2>4. TypeOK'
      BY <1>11, <2>1, <2>2, <2>3 DEF AckLoop, TypeOK, status, fifos, timers, cmbVars
    <2>5. CntBound'
      BY <1>11, <2>1, <2>2, <2>3, RxFields0, IdleFields DEF AckLoop, Return, CntBound, RxPlace
    <2>6. QED BY <2>4, <2>5
  <1>12. CASE GetData
    <2>1. rx # Idle /\ rx.node \in Nodes /\ rx.from \in {"ok", "data"} /\ rx.cnt \in 0..Active
      BY <1>12, RxCases DEF GetData, TypeOK, Idle
    <2>2. dataAddrFifo # <<>> => Head(dataAddrFifo) \in Nodes /\ Tail(dataAddrFifo) \in Seq(Nodes)
      BY HeadTailProperties DEF TypeOK
    <2>3. rx' \in RxState
      BY <1>12, <2>1, <2>2, RxFields0 DEF GetData, RxPlace, TypeOK
    <2>4. dataAddrFifo' \in Seq(Nodes)
      BY <1>12, <2>2 DEF GetData, TypeOK
    <2>5. fatal' \subseteq {"rx", "isr"}
      BY <1>12 DEF GetData, TypeOK
    <2>6. TypeOK'
      BY <1>12, <2>1, <2>2, <2>3, <2>4, <2>5 DEF GetData, TypeOK, status, timers, cmbVars
    <2>7. CntBound'
      BY <1>12, <2>1, <2>2, <2>3, <2>4, <2>5, RxFields0 DEF GetData, CntBound, RxPlace
    <2>8. QED BY <2>6, <2>7
  <1>13. CASE SendAck
    <2>1. rx # Idle /\ rx.node \in Nodes /\ rx.from \in {"ok", "data"} /\ rx.cnt \in 0..Active
      BY <1>13, RxCases DEF SendAck, TypeOK, Idle
    <2>2. rx' \in RxState
      BY <1>13, <2>1, RxFields0 DEF SendAck, RxPlace
    <2>3. down' \in [Nodes -> Seq(DownKind)]
      BY <1>13, <2>1, SendDownType DEF SendAck, DownKind
    <2>4. TypeOK'
      BY <1>13, <2>1, <2>2, <2>3 DEF SendAck, TypeOK, status, fifos, timers, cmbVars
    <2>5. CntBound'
      BY <1>13, <2>1, <2>2, <2>3, RxFields0 DEF SendAck, CntBound, RxPlace
    <2>6. QED BY <2>4, <2>5
  <1>13b. CASE CheckAck
    <2>1. rx # Idle /\ rx.node \in Nodes /\ rx.from \in {"ok", "data"} /\ rx.cnt \in 0..Active
      BY <1>13b, RxCases DEF CheckAck, TypeOK, Idle
    <2>2. rx' \in RxState
      BY <1>13b, <2>1, RxFields0 DEF CheckAck, RxPlace
    <2>3. TypeOK'
      BY <1>13b, <2>1, <2>2 DEF CheckAck, TypeOK, status, fifos, timers, cmbVars
    <2>4. CntBound'
      BY <1>13b, <2>1, <2>2, RxFields0 DEF CheckAck, CntBound, RxPlace
    <2>5. QED BY <2>3, <2>4
  <1>13c. CASE StoreAck
    <2>1. rx # Idle /\ rx.node \in Nodes /\ rx.from \in {"ok", "data"} /\ rx.cnt \in 0..Active
      BY <1>13c, RxCases DEF StoreAck, TypeOK, Idle
    <2>2. rx' \in RxState
      BY <1>13c, <2>1, RxFields0 DEF StoreAck, RxPlace
    <2>3. currPkt' \in [Nodes -> PktS]
      BY <1>13c, <2>1 DEF StoreAck, TypeOK, PktS
    <2>4. TypeOK'
      BY <1>13c, <2>1, <2>2, <2>3 DEF StoreAck, TypeOK, fifos, timers, cmbVars
    <2>5. CntBound'
      BY <1>13c, <2>1, <2>2, <2>3, RxFields0 DEF StoreAck, CntBound, RxPlace
    <2>6. QED BY <2>4, <2>5
  <1>13d. CASE ArmOkTimer
    <2>1. rx # Idle /\ rx.node \in Nodes /\ rx.from \in {"ok", "data"} /\ rx.cnt \in 0..Active
      BY <1>13d, RxCases DEF ArmOkTimer, TypeOK, Idle
    <2>2. rx' \in RxState
      BY <1>13d, <2>1, RxFields0 DEF ArmOkTimer, RxPlace
    <2>3. okTimer' \in [Nodes -> BOOLEAN] /\ currSys' \in SysS
      BY <1>13d, <2>1 DEF ArmOkTimer, TypeOK, SysS
    <2>4. TypeOK'
      BY <1>13d, <2>1, <2>2, <2>3 DEF ArmOkTimer, TypeOK, fifos, cmbVars
    <2>5. CntBound'
      BY <1>13d, <2>1, <2>2, <2>3, RxFields0 DEF ArmOkTimer, CntBound, RxPlace
    <2>6. QED BY <2>4, <2>5
  <1>14. CASE RxSendFails
    <2>1. fatal' \subseteq {"rx", "isr"}
      BY <1>14 DEF RxSendFails, Stuck, TypeOK
    <2>2. TypeOK'
      BY <1>14, <2>1 DEF RxSendFails, TypeOK, status, fifos, timers, cmbVars
    <2>3. CntBound'
      BY <1>14, <2>1 DEF RxSendFails, CntBound
    <2>4. QED BY <2>2, <2>3
  <1>15. ASSUME NEW n \in Nodes, OKHandler(n)
         PROVE  TypeOK' /\ CntBound'
    <2>1. up' \in [Nodes -> Seq(UpKind)]
      BY <1>15, ChannelGet DEF OKHandler, TypeOK
    <2>2. currPkt' \in [Nodes -> PktS]
      BY <1>15, StatusType DEF OKHandler, TypeOK, PktS
    <2>3. rx' \in RxState
      BY <1>15, RxFields0, IdleFields DEF OKHandler, RxPlace
    <2>4. TypeOK'
      BY <1>15, <2>1, <2>2, <2>3 DEF OKHandler, TypeOK, fifos, timers, cmbVars
    <2>5. CntBound'
      BY <1>15, <2>1, <2>2, <2>3, RxFields0, IdleFields DEF OKHandler, CntBound, RxPlace
    <2>6. QED BY <2>4, <2>5
  <1>16. ASSUME NEW n \in Nodes, DataHandler(n)
         PROVE  TypeOK' /\ CntBound'
    <2>1. up' \in [Nodes -> Seq(UpKind)]
      BY <1>16, ChannelGet DEF DataHandler, TypeOK
    <2>2. rx' \in RxState
      BY <1>16, RxFields0, IdleFields DEF DataHandler, RxPlace
    <2>3. TypeOK'
      BY <1>16, <2>1, <2>2 DEF DataHandler, TypeOK, status, fifos, timers, cmbVars
    <2>4. CntBound'
      BY <1>16, <2>1, <2>2, RxFields0, IdleFields DEF DataHandler, CntBound, RxPlace
    <2>5. QED BY <2>3, <2>4
  <1>17. ASSUME NEW n \in Nodes, OkExpiry(n)
         PROVE  TypeOK' /\ CntBound'
    <2>1. down' \in [Nodes -> Seq(DownKind)]
      BY <1>17, SendDownType DEF OkExpiry, TypeOK, DownKind
    <2>2. currPkt' \in [Nodes -> PktS]
      BY <1>17, StatusType DEF OkExpiry, TypeOK, PktS
    <2>3. fatal' \subseteq {"rx", "isr"} /\ okTimer' \in [Nodes -> BOOLEAN]
      BY <1>17 DEF OkExpiry, Stuck, TypeOK
    <2>4. TypeOK'
      BY <1>17, <2>1, <2>2, <2>3 DEF OkExpiry, TypeOK, fifos, cmbVars
    <2>5. CntBound'
      BY <1>17, <2>1, <2>2, <2>3 DEF OkExpiry, CntBound
    <2>6. QED BY <2>4, <2>5
  <1>18. ASSUME NEW n \in Nodes, DataExpiry(n)
         PROVE  TypeOK' /\ CntBound'
    <2>1. down' \in [Nodes -> Seq(DownKind)]
      BY <1>18, StartType DEF DataExpiry, TypeOK
    <2>2. currPkt' \in [Nodes -> PktS]
      BY <1>18, StatusType DEF DataExpiry, RecoverStatus, TypeOK, PktS
    <2>3. fatal' \subseteq {"rx", "isr"} /\ dataTimer' \in [Nodes -> BOOLEAN]
      BY <1>18 DEF DataExpiry, Stuck, TypeOK
    <2>4. addrFifo' \in Seq(Nodes) /\ dataAddrFifo' \in Seq(Nodes) /\ currSys' \in SysS
      BY <1>18, EmptySeq DEF DataExpiry, SysS
    <2>5. TypeOK'
      BY <1>18, <2>1, <2>2, <2>3, <2>4 DEF DataExpiry, TypeOK, cmbVars
    <2>6. CntBound'
      BY <1>18, <2>1, <2>2, <2>3, <2>4 DEF DataExpiry, CntBound
    <2>7. QED BY <2>5, <2>6
  <1>19. ASSUME NEW n \in Nodes, CmbRx(n)
         PROVE  TypeOK' /\ CntBound'
    <2>1. down' \in [Nodes -> Seq(DownKind)]
      BY <1>19, ArrivesType
      DEF CmbRx, StartHandler, ACKHandler, RecoveryHandler, TokenHandler
    <2>2. CASE StartHandler(n)
      <3>1. sgn' \in [Nodes -> SUBSET Signal] /\ startSem' \in [Nodes -> {0, 1}]
        BY <2>2 DEF StartHandler, Raise, Signal, TypeOK
      <3>2. UNCHANGED <<bmsVars, cmbMain, cmbFatal, up, losses>>
        BY <2>2 DEF StartHandler
      <3>3. QED BY <2>1, <3>1, <3>2 DEF TypeOK, CntBound, bmsVars, status, fifos, timers
    <2>3. CASE ACKHandler(n)
      <3>1. sgn' \in [Nodes -> SUBSET Signal]
        BY <2>3 DEF ACKHandler, Raise, Signal, TypeOK
      <3>2. UNCHANGED <<bmsVars, cmbMain, startSem, cmbFatal, up, losses>>
        BY <2>3 DEF ACKHandler
      <3>3. QED BY <2>1, <3>1, <3>2 DEF TypeOK, CntBound, bmsVars, status, fifos, timers
    <2>4. CASE RecoveryHandler(n)
      <3>1. sgn' \in [Nodes -> SUBSET Signal]
        BY <2>4 DEF RecoveryHandler, Raise, Signal, TypeOK
      <3>2. UNCHANGED <<bmsVars, cmbMain, startSem, cmbFatal, up, losses>>
        BY <2>4 DEF RecoveryHandler
      <3>3. QED BY <2>1, <3>1, <3>2 DEF TypeOK, CntBound, bmsVars, status, fifos, timers
    <2>5. CASE TokenHandler(n)
      <3>1. up' \in [Nodes -> Seq(UpKind)]
        BY <2>5, SendUpType DEF TokenHandler, UpKind, TypeOK
      <3>2. cmbFatal' \in [Nodes -> SUBSET {"rx", "main"}]
        <4>1. CASE UNCHANGED cmbFatal
          BY <4>1 DEF TypeOK
        <4>2. CASE cmbFatal' = [cmbFatal EXCEPT ![n] = @ \cup {"rx"}]
          BY <4>2, FatalType
        <4>3. QED BY <2>5, <4>1, <4>2 DEF TokenHandler
      <3>3. UNCHANGED <<bmsVars, cmbMain, sgn, startSem, losses>>
        BY <2>5 DEF TokenHandler
      <3>4. QED BY <2>1, <3>1, <3>2, <3>3
        DEF TypeOK, CntBound, bmsVars, status, fifos, timers
    <2>6. QED BY <1>19, <2>2, <2>3, <2>4, <2>5 DEF CmbRx
  <1>20. ASSUME NEW n \in Nodes, CmbMainThread(n)
         PROVE  TypeOK' /\ CntBound'
    <2>1. ASSUME CmbSendOk(n)
          PROVE  /\ up' \in [Nodes -> Seq(UpKind)]
                 /\ cmbMain' \in [Nodes -> {"waitStart", "okSent", "loop"}]
                 /\ cmbFatal' \in [Nodes -> SUBSET {"rx", "main"}]
      <3>1. CASE SendUp(n, "OK") /\ UNCHANGED cmbFatal
        BY <2>1, <3>1, SendUpType DEF CmbSendOk, UpKind, TypeOK
      <3>2. CASE /\ cmbFatal' = [cmbFatal EXCEPT ![n] = @ \cup {"main"}]
                 /\ UNCHANGED <<up, cmbMain>>
        BY <3>2, FatalType DEF TypeOK
      <3>3. QED BY <2>1, <3>1, <3>2 DEF CmbSendOk
    <2>2. CASE CmbStart(n)
      <3>1. startSem' \in [Nodes -> {0, 1}] /\ UNCHANGED <<bmsVars, sgn, down, losses>>
        BY <2>2 DEF CmbStart, TypeOK
      <3>2. QED BY <2>1, <2>2, <3>1
        DEF CmbStart, TypeOK, CntBound, bmsVars, status, fifos, timers
    <2>3. CASE CmbClear(n)
      BY <2>3 DEF CmbClear, TypeOK, CntBound, bmsVars, status, fifos, timers
    <2>4. CASE CmbAnswer(n)
      BY <2>1, <2>4 DEF CmbAnswer, TypeOK, CntBound, bmsVars, status, fifos, timers
    <2>5. QED BY <1>20, <2>2, <2>3, <2>4 DEF CmbMainThread
  <1>21. ASSUME NEW n \in Nodes, LoseDown(n) \/ LoseUp(n)
         PROVE  TypeOK' /\ CntBound'
    <2>1. CASE LoseDown(n)
      <3>1. down' \in [Nodes -> Seq(DownKind)]
        BY <2>1, ChannelGet DEF LoseDown, TypeOK
      <3>2. losses' \in 0..MaxLosses
        BY <2>1, FlagsAssumption DEF LoseDown, TypeOK
      <3>3. QED BY <2>1, <3>1, <3>2
        DEF LoseDown, TypeOK, CntBound, bmsVars, cmbVars, status, fifos, timers
    <2>2. CASE LoseUp(n)
      <3>1. up' \in [Nodes -> Seq(UpKind)]
        BY <2>2, ChannelGet DEF LoseUp, TypeOK
      <3>2. losses' \in 0..MaxLosses
        BY <2>2, FlagsAssumption DEF LoseUp, TypeOK
      <3>3. QED BY <2>2, <3>1, <3>2
        DEF LoseUp, TypeOK, CntBound, bmsVars, cmbVars, status, fifos, timers
    <2>3. QED BY <1>21, <2>1, <2>2
  <1>22. CASE UNCHANGED vars
    BY <1>22 DEF vars, bmsVars, cmbVars, status, timers, fifos, TypeOK, CntBound
  <1>23. QED
    BY <1>1, <1>2, <1>3, <1>4, <1>5, <1>6, <1>7, <1>8, <1>9, <1>10, <1>10b,
       <1>10c, <1>10d, <1>11, <1>12, <1>13, <1>13b, <1>13c, <1>13d, <1>14, <1>15, <1>16, <1>17, <1>18, <1>19, <1>20, <1>21, <1>22
    DEF Next, RxThread

LEMMA TypeAndBound == Spec => [](TypeOK /\ CntBound)
  <1>1. Init => TypeOK /\ CntBound
    BY TypeInit
  <1>2. TypeOK /\ CntBound /\ [Next]_vars => TypeOK' /\ CntBound'
    BY TypeStep
  <1>3. QED BY <1>1, <1>2, PTL DEF Spec

(* The types, whatever the mesh loses, the timers do and the sends return. *)
THEOREM TypeCorrect == Spec => []TypeOK
  BY TypeAndBound, PTL

(* The counter of the OKs cannot pass the number of active nodes without   *)
(* being equal to it (mesh_cli.c:308-311), although the handler counts in  *)
(* three steps and a timer may expire and set the counter back between any *)
(* two of them.                                                            *)
THEOREM CntBoundHolds == Spec => []CntBound
  BY TypeAndBound, PTL

-----------------------------------------------------------------------------
(* Answers that are owed, wherever a timer expires.                        *)

(* Watched says also that nothing else is watched, which a timer that      *)
(* expires inside a handler breaks.  This half of it is what the recovery  *)
(* rests on, and no expiry breaks it: a token outstanding has its Data     *)
(* timer armed, an ACK outstanding its OK timer, or the handler that sent  *)
(* it is about to arm it; so no answer can be missing unnoticed.           *)
AnswersWatched ==
  IsrAlive =>
    \A n \in Nodes :
      /\ currPkt[n] = "TX_TOKEN" => dataTimer[n] \/ At("tokenStored", n)
      /\ currPkt[n] = "TX_ACK" => okTimer[n] \/ At("ackStored", n)

(* A handler stops a timer only when the answer it waits for is in, or an  *)
(* expiry has taken the node's status back.                                *)
AnswerIn ==
  /\ rx.at = "okTaken" => currPkt[rx.node] # "TX_ACK"
  /\ rx.at = "dataTaken" => currPkt[rx.node] # "TX_TOKEN"

LEMMA AnswersInit == Init => AnswersWatched /\ AnswerIn
  BY IdleFields DEF Init, AnswersWatched, AnswerIn

LEMMA AnswersStep ==
  ASSUME TypeOK, AnswersWatched, AnswerIn, [Next]_vars
  PROVE  AnswersWatched' /\ AnswerIn'
  <1> USE DEF AnswersWatched, AnswerIn
  <1>1. ASSUME UNCHANGED <<currPkt, timers, rx>>, IsrAlive' => IsrAlive
        PROVE  AnswersWatched' /\ AnswerIn'
    BY <1>1 DEF timers
  <1>2. ASSUME UNCHANGED <<currPkt, timers, fatal>>, rx'.at \notin {"okTaken", "dataTaken"},
               rx.at \notin {"tokenStored", "ackStored"}
        PROVE  AnswersWatched' /\ AnswerIn'
    BY <1>2 DEF timers, IsrAlive
  <1>3. ASSUME NEW n \in Nodes, OKHandler(n) PROVE AnswersWatched' /\ AnswerIn'
    <2>1. /\ UNCHANGED <<timers, fatal>> /\ rx.at = "idle"
          /\ currPkt' = [currPkt EXCEPT ![n] = StatesUpdate(currPkt[n], "RX_OK")]
      BY <1>3, IdleFields DEF OKHandler, UpdateState
    <2>2. CASE Accepted(currPkt[n], "RX_OK")
      <3>1. rx'.at = "okTaken" /\ rx'.node = n
        BY <1>3, <2>2, RxFields0 DEF OKHandler, RxPlace
      <3>2. currPkt' = [currPkt EXCEPT ![n] = "RX_OK"]
        BY <2>1, <2>2 DEF StatesUpdate
      <3>3. QED BY <2>1, <3>1, <3>2 DEF TypeOK, timers, IsrAlive
    <2>3. CASE ~Accepted(currPkt[n], "RX_OK")
      <3>1. currPkt' = currPkt
        BY <2>1, <2>3 DEF StatesUpdate, TypeOK
      <3>2. rx' = Idle
        BY <1>3, <2>3 DEF OKHandler
      <3>3. QED BY <1>2, <2>1, <3>1, <3>2, IdleFields
    <2>4. QED BY <2>2, <2>3
  <1>4. ASSUME QueueOk PROVE AnswersWatched' /\ AnswerIn'
    <2>1. rx.node \in Nodes /\ rx.at = "okTaken"
      BY <1>4, RxCases DEF QueueOk, TypeOK, Idle
    <2>2. rx'.at = "okQueued"
      BY <1>4, <2>1, RxFields0 DEF QueueOk, RxPlace
    <2>3. /\ UNCHANGED <<currPkt, dataTimer, fatal>>
          /\ okTimer' = [okTimer EXCEPT ![rx.node] = FALSE]
      BY <1>4 DEF QueueOk, Stop, status
    <2>4. QED BY <2>1, <2>2, <2>3 DEF TypeOK, IsrAlive
  <1>5. ASSUME QueueData PROVE AnswersWatched' /\ AnswerIn'
    <2>1. rx.node \in Nodes /\ rx.at = "dataTaken"
      BY <1>5, RxCases DEF QueueData, TypeOK, Idle
    <2>2. rx'.at = "dispatch"
      BY <1>5, <2>1, RxFields0 DEF QueueData, RxPlace
    <2>3. /\ UNCHANGED <<currPkt, okTimer, fatal>>
          /\ dataTimer' = [dataTimer EXCEPT ![rx.node] = FALSE]
      BY <1>5 DEF QueueData, Stop, status
    <2>4. QED BY <2>1, <2>2, <2>3 DEF TypeOK, IsrAlive
  <1>6. ASSUME TakeData PROVE AnswersWatched' /\ AnswerIn'
    <2>1. rx.node \in Nodes /\ rx.at = "dataChecked"
      BY <1>6, RxCases DEF TakeData, TypeOK, Idle
    <2>2. rx'.at = "dataTaken" /\ rx'.node = rx.node
      BY <1>6, <2>1, RxFields0 DEF TakeData, RxPlace
    <2>3. UNCHANGED <<timers, fatal>> /\ currPkt' = [currPkt EXCEPT ![rx.node] = "RX_DATA"]
      BY <1>6 DEF TakeData
    <2>4. QED BY <2>1, <2>2, <2>3 DEF TypeOK, IsrAlive, timers
  <1>7. ASSUME StoreToken PROVE AnswersWatched' /\ AnswerIn'
    <2>1. rx.node \in Nodes /\ rx.from \in {"ok", "data"} /\ rx.at = "tokenChecked"
      BY <1>7, RxCases DEF StoreToken, TypeOK, Idle
    <2>2. rx'.at = "tokenStored" /\ rx'.node = rx.node
      BY <1>7, <2>1, RxFields0 DEF StoreToken, RxPlace
    <2>3. UNCHANGED <<timers, fatal>> /\ currPkt' = [currPkt EXCEPT ![rx.node] = "TX_TOKEN"]
      BY <1>7 DEF StoreToken
    <2>4. QED BY <2>1, <2>2, <2>3 DEF TypeOK, IsrAlive, timers
  <1>7b. ASSUME ArmDataTimer PROVE AnswersWatched' /\ AnswerIn'
    <2>1. rx.node \in Nodes /\ rx.at = "tokenStored"
      BY <1>7b, RxCases DEF ArmDataTimer, TypeOK, Idle
    <2>2. rx'.at = "idle"
      BY <1>7b, IdleFields DEF ArmDataTimer, Return
    <2>3. /\ UNCHANGED <<currPkt, okTimer, fatal>>
          /\ dataTimer' = [dataTimer EXCEPT ![rx.node] = TRUE]
      BY <1>7b DEF ArmDataTimer, status
    <2>4. QED BY <2>1, <2>2, <2>3 DEF TypeOK, IsrAlive
  <1>8. ASSUME StoreAck PROVE AnswersWatched' /\ AnswerIn'
    <2>1. rx.node \in Nodes /\ rx.from \in {"ok", "data"} /\ rx.at = "ackChecked"
      BY <1>8, RxCases DEF StoreAck, TypeOK, Idle
    <2>2. rx'.at = "ackStored" /\ rx'.node = rx.node
      BY <1>8, <2>1, RxFields0 DEF StoreAck, RxPlace
    <2>3. UNCHANGED <<timers, fatal>> /\ currPkt' = [currPkt EXCEPT ![rx.node] = "TX_ACK"]
      BY <1>8 DEF StoreAck
    <2>4. QED BY <2>1, <2>2, <2>3 DEF TypeOK, IsrAlive, timers
  <1>8b. ASSUME ArmOkTimer PROVE AnswersWatched' /\ AnswerIn'
    <2>1. rx.node \in Nodes /\ rx.from \in {"ok", "data"} /\ rx.at = "ackStored"
      BY <1>8b, RxCases DEF ArmOkTimer, TypeOK, Idle
    <2>2. rx'.at = "ackLoop"
      BY <1>8b, <2>1, RxFields0 DEF ArmOkTimer, RxPlace
    <2>3. /\ UNCHANGED <<currPkt, dataTimer, fatal>>
          /\ okTimer' = [okTimer EXCEPT ![rx.node] = TRUE]
      BY <1>8b DEF ArmOkTimer
    <2>4. QED BY <2>1, <2>2, <2>3 DEF TypeOK, IsrAlive
  <1>9. ASSUME NEW n \in Nodes, OkExpiry(n) PROVE AnswersWatched' /\ AnswerIn'
    <2>1. /\ UNCHANGED <<rx, dataTimer>> /\ IsrAlive
          /\ okTimer' = [okTimer EXCEPT ![n] = FALSE]
      BY <1>9 DEF OkExpiry, MayExpire
    <2>2. CASE Stuck("isr") /\ UNCHANGED currPkt
      BY <2>1, <2>2 DEF Stuck, IsrAlive
    <2>3. CASE UpdateState(n, "TX_RECOVER") /\ UNCHANGED fatal
      <3>1. currPkt' = [currPkt EXCEPT ![n] = "TX_RECOVER"]
        BY <2>3 DEF UpdateState, StatesUpdate, Accepted, LegalPrev, TypeOK
      <3>2. QED BY <2>1, <2>3, <3>1 DEF TypeOK, IsrAlive
    <2>4. QED BY <1>9, <2>2, <2>3 DEF OkExpiry
  <1>10. ASSUME NEW n \in Nodes, DataExpiry(n) PROVE AnswersWatched' /\ AnswerIn'
    <2>1. /\ UNCHANGED <<rx, okTimer>> /\ (IsrAlive' => IsrAlive)
          /\ dataTimer' = [dataTimer EXCEPT ![n] = FALSE]
      BY <1>10 DEF DataExpiry, MayExpire
    <2>2. currPkt' = [currPkt EXCEPT ![n] = "TX_RECOVER"]
      BY <1>10 DEF DataExpiry, RecoverStatus, UpdateState, StatesUpdate, Accepted, LegalPrev, TypeOK
    <2>3. QED BY <2>1, <2>2 DEF TypeOK
  <1>11. ASSUME LoadCnt \/ CountOk \/ CheckData \/ Dispatch \/ SendToken \/ CheckToken
                \/ AckLoop \/ SendAck \/ CheckAck
         PROVE  AnswersWatched' /\ AnswerIn'
    <2>1. UNCHANGED <<currPkt, timers, fatal>> /\ rx.at \notin {"tokenStored", "ackStored"}
      BY <1>11 DEF LoadCnt, CountOk, CheckData, Dispatch, SendToken, CheckToken, AckLoop, SendAck, CheckAck, status
    <2>2. rx \in RxState /\ rx # Idle
      BY <1>11, IdleFields DEF LoadCnt, CountOk, CheckData, Dispatch, SendToken, CheckToken, AckLoop, SendAck, CheckAck, TypeOK
    <2>3. rx.node \in Nodes /\ rx.from \in {"ok", "data"} /\ addrCnt \in 0..Active
      BY <2>2, RxCases DEF TypeOK
    <2>4. rx'.at \notin {"okTaken", "dataTaken"}
      <3>1. CASE LoadCnt
        BY <2>3, <3>1, RxFields DEF LoadCnt, RxPlace
      <3>2. CASE CountOk
        BY <2>3, <3>2, RxFields0, IdleFields DEF CountOk, RxPlace
      <3>3. CASE CheckData
        BY <2>3, <3>3, RxFields0, IdleFields DEF CheckData, RxPlace
      <3>4. CASE Dispatch
        BY <2>3, <3>4, RxFields0 DEF Dispatch, RxPlace
      <3>5. CASE SendToken
        BY <2>3, <3>5, RxFields0 DEF SendToken, RxPlace
      <3>6. CASE CheckToken
        BY <2>3, <3>6, RxFields0 DEF CheckToken, RxPlace
      <3>7. CASE AckLoop
        BY <2>3, <3>7, RxFields0, IdleFields DEF AckLoop, Return, RxPlace
      <3>8. CASE SendAck
        BY <2>3, <3>8, RxFields0 DEF SendAck, RxPlace
      <3>9. CASE CheckAck
        BY <2>3, <3>9, RxFields0 DEF CheckAck, RxPlace
      <3>10. QED
        BY <1>11, <3>1, <3>2, <3>3, <3>4, <3>5, <3>6, <3>7, <3>8, <3>9
    <2>5. QED BY <1>2, <2>1, <2>4
  <1>12. ASSUME GetAddr \/ GetData PROVE AnswersWatched' /\ AnswerIn'
    <2>1. UNCHANGED <<currPkt, timers>> /\ (IsrAlive' => IsrAlive)
      BY <1>12 DEF GetAddr, GetData, status, IsrAlive
    <2>2. rx.at \in {"getAddr", "getData"} /\ rx # Idle /\ rx.from \in {"ok", "data"}
      BY <1>12, RxCases DEF GetAddr, GetData, TypeOK, Idle
    <2>3. CASE rx' = rx
      BY <2>1, <2>2, <2>3 DEF timers
    <2>4. CASE GetAddr /\ addrFifo # <<>>
      <3>1. Head(addrFifo) \in Nodes
        BY <2>4, HeadTailProperties DEF TypeOK
      <3>2. rx'.at = "sendToken"
        BY <2>2, <2>4, <3>1, RxFields0 DEF GetAddr, RxPlace
      <3>3. QED BY <2>1, <2>2, <3>2 DEF timers
    <2>5. CASE GetData /\ dataAddrFifo # <<>>
      <3>1. Head(dataAddrFifo) \in Nodes
        BY <2>5, HeadTailProperties DEF TypeOK
      <3>2. rx'.at = "sendAck"
        BY <2>2, <2>5, <3>1, RxFields0 DEF GetData, RxPlace
      <3>3. QED BY <2>1, <2>2, <3>2 DEF timers
    <2>6. QED BY <1>12, <2>3, <2>4, <2>5 DEF GetAddr, GetData
  <1>13. ASSUME NEW n \in Nodes, DataHandler(n) PROVE AnswersWatched' /\ AnswerIn'
    <2>1. UNCHANGED <<currPkt, timers, fatal>> /\ rx.at = "idle"
      BY <1>13, IdleFields DEF DataHandler, status
    <2>2. rx'.at \notin {"okTaken", "dataTaken"}
      BY <1>13, RxFields0, IdleFields DEF DataHandler, RxPlace
    <2>3. QED BY <1>2, <2>1, <2>2
  <1>14. ASSUME MainStart \/ RxSendFails \/ UNCHANGED vars PROVE AnswersWatched' /\ AnswerIn'
    BY <1>1, <1>14 DEF MainStart, RxSendFails, Stuck, vars, bmsVars, status, IsrAlive
  <1>15. ASSUME NEW n \in Nodes, CmbRx(n) \/ CmbMainThread(n) \/ LoseDown(n) \/ LoseUp(n)
         PROVE  AnswersWatched' /\ AnswerIn'
    <2>1. UNCHANGED bmsVars
      BY <1>15 DEF CmbRx, StartHandler, ACKHandler, RecoveryHandler, TokenHandler,
        CmbMainThread, CmbStart, CmbClear, CmbAnswer, LoseDown, LoseUp
    <2>2. QED BY <1>1, <2>1 DEF bmsVars, status, IsrAlive
  <1>16. QED
    BY <1>3, <1>4, <1>5, <1>6, <1>7, <1>7b, <1>8, <1>8b, <1>9, <1>10, <1>11, <1>12, <1>13,
       <1>14, <1>15
    DEF Next, RxThread

(* Whenever the BMS waits for an answer its timer is armed: for any number *)
(* of nodes, with a timer that expires at any step of a handler.           *)
THEOREM AnswersWatchedHolds == Spec => []AnswersWatched
  <1>1. TypeOK /\ AnswersWatched /\ AnswerIn /\ [Next]_vars => AnswersWatched' /\ AnswerIn'
    BY AnswersStep
  <1>2. QED BY AnswersInit, <1>1, TypeCorrect, PTL DEF Spec

-----------------------------------------------------------------------------
(* FIFOs: the range of a sequence without repetitions after a put, a get.  *)

LEMMA EmptyFifo == Range(<<>>) = {} /\ IsInjective(<<>>)
  BY DEF Range, IsInjective

LEMMA RangeSubset ==
  ASSUME NEW s \in Seq(Nodes)
  PROVE  Range(s) \subseteq Nodes /\ IsFiniteSet(Range(s))
  <1>1. Range(s) \subseteq Nodes
    BY LenProperties DEF Range
  <1>2. QED BY <1>1, NodesAssumption, FS_Subset

LEMMA PutFifo ==
  ASSUME NEW s \in Seq(Nodes), NEW e \in Nodes
  PROVE  /\ Range(Append(s, e)) = Range(s) \cup {e}
         /\ IsInjective(s) /\ e \notin Range(s) => IsInjective(Append(s, e))
  <1> DEFINE t == Append(s, e)
  <1>1. /\ Len(s) \in Nat /\ DOMAIN s = 1..Len(s)
        /\ t \in Seq(Nodes) /\ Len(t) = Len(s) + 1
        /\ \A i \in 1..Len(s) : t[i] = s[i]
        /\ t[Len(s) + 1] = e
    BY AppendProperties, LenProperties
  <1>2. DOMAIN t = 1..(Len(s) + 1)
    BY <1>1, LenProperties
  <1> HIDE DEF t
  <1>3. Range(t) = Range(s) \cup {e}
    <2>1. ASSUME NEW x \in Range(t) PROVE x \in Range(s) \cup {e}
      <3>1. PICK i \in 1..(Len(s) + 1) : x = t[i]
        BY <1>2, <2>1 DEF Range
      <3>2. i \in 1..Len(s) \/ i = Len(s) + 1
        BY <1>1
      <3>3. QED BY <1>1, <3>1, <3>2 DEF Range
    <2>2. ASSUME NEW x \in Range(s) \cup {e} PROVE x \in Range(t)
      <3>1. CASE x = e
        <4>1. Len(s) + 1 \in DOMAIN t
          BY <1>1, <1>2
        <4>2. QED BY <1>1, <3>1, <4>1 DEF Range
      <3>2. CASE x \in Range(s)
        <4>1. PICK i \in 1..Len(s) : x = s[i]
          BY <1>1, <3>2 DEF Range
        <4>2. i \in DOMAIN t /\ t[i] = x
          BY <1>1, <1>2, <4>1
        <4>3. QED BY <4>2 DEF Range
      <3>3. QED BY <2>2, <3>1, <3>2
    <2>3. QED BY <2>1, <2>2
  <1>4. ASSUME IsInjective(s), e \notin Range(s) PROVE IsInjective(t)
    <2>1. SUFFICES ASSUME NEW i \in 1..(Len(s) + 1), NEW j \in 1..(Len(s) + 1), t[i] = t[j]
                   PROVE  i = j
      BY <1>2 DEF IsInjective
    <2>2. \A k \in 1..Len(s) : s[k] # e
      BY <1>1, <1>4 DEF Range
    <2>3. CASE i \in 1..Len(s) /\ j \in 1..Len(s)
      BY <1>1, <1>4, <2>1, <2>3 DEF IsInjective
    <2>4. CASE i = Len(s) + 1 \/ j = Len(s) + 1
      BY <1>1, <2>1, <2>2, <2>4
    <2>5. QED BY <1>1, <2>3, <2>4
  <1>5. QED BY <1>3, <1>4 DEF t

LEMMA GetFifo ==
  ASSUME NEW s \in Seq(Nodes), s # <<>>, IsInjective(s)
  PROVE  /\ Head(s) \in Range(s)
         /\ Range(Tail(s)) = Range(s) \ {Head(s)}
         /\ IsInjective(Tail(s))
  <1> DEFINE t == Tail(s)
  <1>1. /\ Len(s) \in Nat /\ Len(s) > 0 /\ DOMAIN s = 1..Len(s)
        /\ Head(s) = s[1]
        /\ t \in Seq(Nodes) /\ Len(t) = Len(s) - 1
        /\ \A i \in 1..Len(t) : t[i] = s[i + 1]
    BY HeadTailProperties, LenProperties, EmptySeq
  <1>2. DOMAIN t = 1..(Len(s) - 1)
    BY <1>1, LenProperties
  <1> HIDE DEF t
  <1>3. Head(s) \in Range(s)
    <2>1. 1 \in DOMAIN s
      BY <1>1
    <2>2. QED BY <1>1, <2>1 DEF Range
  <1>4. \A i \in 2..Len(s) : s[i] # Head(s)
    BY <1>1 DEF IsInjective
  <1>5. Range(t) = Range(s) \ {Head(s)}
    <2>1. ASSUME NEW x \in Range(t) PROVE x \in Range(s) \ {Head(s)}
      <3>1. PICK i \in 1..(Len(s) - 1) : x = t[i]
        BY <1>2, <2>1 DEF Range
      <3>2. i + 1 \in 2..Len(s) /\ x = s[i + 1]
        BY <1>1, <3>1
      <3>3. QED BY <1>1, <1>4, <3>2 DEF Range
    <2>2. ASSUME NEW x \in Range(s), x # Head(s) PROVE x \in Range(t)
      <3>1. PICK i \in 1..Len(s) : x = s[i]
        BY <1>1, <2>2 DEF Range
      <3>2. i # 1
        BY <1>1, <2>2, <3>1
      <3>3. i - 1 \in 1..(Len(s) - 1) /\ t[i - 1] = s[i]
        BY <1>1, <3>2
      <3>4. QED BY <1>2, <3>1, <3>3 DEF Range
    <2>3. QED BY <2>1, <2>2
  <1>6. IsInjective(t)
    <2>1. SUFFICES ASSUME NEW i \in 1..(Len(s) - 1), NEW j \in 1..(Len(s) - 1), t[i] = t[j]
                   PROVE  i = j
      BY <1>2 DEF IsInjective
    <2>2. s[i + 1] = s[j + 1] /\ i + 1 \in DOMAIN s /\ j + 1 \in DOMAIN s
      BY <1>1, <2>1
    <2>3. i + 1 = j + 1
      BY <2>2 DEF IsInjective
    <2>4. QED BY <2>3
  <1>7. QED BY <1>3, <1>5, <1>6 DEF t

(* An OK queued for a node that was not queued is one more to count.       *)
LEMMA PutCount ==
  ASSUME NEW s \in Seq(Nodes), NEW e \in Nodes, e \notin Range(s)
  PROVE  Cardinality(Range(Append(s, e))) = Cardinality(Range(s)) + 1
  BY PutFifo, RangeSubset, FS_AddElement

(* As many different queued nodes as there are nodes: all of them.         *)
LEMMA AllCounted ==
  ASSUME NEW s \in Seq(Nodes), Cardinality(Range(s)) = Active
  PROVE  Range(s) = Nodes
  BY RangeSubset, NodesAssumption, FS_Subset DEF Active

-----------------------------------------------------------------------------
(* The steps of the RX thread, one lemma each.                             *)

LEMMA OKHandlerStep ==
  ASSUME IInv, NEW n \in Nodes, OKHandler(n)
  PROVE  Watched' /\ CycleInv'
  <1>1. rx = Idle /\ rx.at = "idle" /\ RxAlive /\ IsrAlive
    BY IdleFields DEF OKHandler, RxAlive, IsrAlive
  <1>2. QueuesSound /\ (OkPhase(addrCnt) \/ \E t \in Nodes : Polling(t)) /\ Watched
    BY <1>1 DEF IInv, CycleInv, AtPlace
  <1>3. UNCHANGED <<currSys, addrCnt, addrFifo, dataAddrFifo, okTimer, dataTimer, fatal>>
    BY DEF OKHandler, fifos, timers
  <1>4. CASE ~Accepted(currPkt[n], "RX_OK")
    <2>1. rx' = rx /\ currPkt' = currPkt
      BY <1>1, <1>4 DEF OKHandler, UpdateState, StatesUpdate, IInv, TypeOK
    <2>2. QED BY <1>1, <1>2, <1>3, <2>1
      DEF IInv, Watched, IsrAlive, RxAlive, CycleInv, QueuesSound, AtPlace,
          OkPhase, Polling, AllBut, Queued, Collected
  <1>5. CASE Accepted(currPkt[n], "RX_OK")
    <2>1. rx' = Rx("okTaken", n, "ok") /\ rx'.at = "okTaken" /\ rx'.node = n
      BY <1>5, RxFields0 DEF OKHandler, RxPlace
    <2>2. currPkt[n] \in {"TX_ACK", "NO_INFO", "TX_RECOVER"}
      BY <1>5 DEF Accepted, LegalPrev
    <2>3. currPkt' = [currPkt EXCEPT ![n] = "RX_OK"]
      BY <1>5 DEF OKHandler, UpdateState, StatesUpdate, IInv, TypeOK
    <2>4. n \notin Queued /\ n \notin Collected
      BY <1>2, <2>2 DEF QueuesSound
    <2>5. OkPhase(addrCnt)
      <3>1. ASSUME NEW t \in Nodes, Polling(t) PROVE FALSE
        BY <3>1, <2>2, <2>4 DEF Polling, AllBut
      <3>2. QED BY <1>2, <3>1
    <2>6. QueuesSound'
      BY <1>2, <1>3, <2>3, <2>4, RangeSubset
      DEF QueuesSound, Queued, Collected, IInv, TypeOK
    <2>7. OkPhase(addrCnt)' /\ currPkt'[n] = "RX_OK" /\ (n \notin Queued)'
      BY <1>3, <2>3, <2>4, <2>5 DEF OkPhase, Queued, IInv, TypeOK
    <2>8. AtPlace'
      BY <2>1, <2>7 DEF AtPlace
    <2>9. Watched'
      BY <1>1, <1>2, <1>3, <2>1, <2>2, <2>3 DEF Watched, IsrAlive, IInv, TypeOK
    <2>10. QED BY <2>6, <2>8, <2>9 DEF CycleInv
  <1>6. QED BY <1>4, <1>5

LEMMA QueueOkStep ==
  ASSUME IInv, QueueOk
  PROVE  Watched' /\ CycleInv'
  <1> DEFINE n == rx.node
  <1>1. rx # Idle /\ n \in Nodes /\ rx.at = "okTaken" /\ RxAlive
    BY RxCases DEF QueueOk, IInv, TypeOK, Idle
  <1>2. rx'.at = "okQueued"
    BY <1>1, RxFields0 DEF QueueOk, RxPlace
  <1>3. /\ QueuesSound /\ OkPhase(addrCnt) /\ Watched
        /\ currPkt[n] = "RX_OK" /\ n \notin Queued
    BY <1>1 DEF IInv, CycleInv, AtPlace
  <1>4. /\ UNCHANGED <<currPkt, addrCnt, dataAddrFifo, dataTimer, fatal>>
        /\ okTimer' = [okTimer EXCEPT ![n] = FALSE]
        /\ addrFifo' = Append(addrFifo, n)
    BY DEF QueueOk, Stop, status
  <1>5. /\ Queued' = Queued \cup {n} /\ IsInjective(addrFifo')
        /\ Cardinality(Queued') = Cardinality(Queued) + 1
    BY <1>1, <1>3, <1>4, PutFifo, PutCount DEF IInv, TypeOK, QueuesSound, Queued
  <1> HIDE DEF n
  <1>6. QueuesSound'
    BY <1>3, <1>4, <1>5 DEF QueuesSound, Collected
  <1>7. OkPhase(addrCnt + 1)'
    BY <1>3, <1>4, <1>5 DEF OkPhase
  <1>8. AtPlace'
    BY <1>2, <1>7 DEF AtPlace
  <1>9. Watched'
    BY <1>1, <1>2, <1>3, <1>4 DEF Watched, IsrAlive, IInv, TypeOK, n
  <1>10. QED BY <1>6, <1>8, <1>9 DEF CycleInv

LEMMA LoadCntStep ==
  ASSUME IInv, LoadCnt
  PROVE  Watched' /\ CycleInv'
  <1>1. rx # Idle /\ rx.node \in Nodes /\ rx.at = "okQueued" /\ RxAlive
    BY RxCases DEF LoadCnt, IInv, TypeOK, Idle
  <1>2. rx'.at = "okLoaded" /\ rx'.cnt = addrCnt
    BY <1>1, RxFields DEF LoadCnt, RxPlace, IInv, TypeOK
  <1>3. QueuesSound /\ OkPhase(addrCnt + 1) /\ Watched
    BY <1>1 DEF IInv, CycleInv, AtPlace
  <1>4. UNCHANGED <<currPkt, addrFifo, dataAddrFifo, okTimer, dataTimer, fatal>>
    BY DEF LoadCnt, status, fifos, timers
  <1>5. QueuesSound' /\ OkPhase(rx.cnt + 1)'
    BY <1>2, <1>3, <1>4 DEF QueuesSound, OkPhase, Queued, Collected
  <1>6. AtPlace'
    BY <1>2, <1>5 DEF AtPlace
  <1>7. Watched'
    BY <1>1, <1>2, <1>3, <1>4 DEF Watched, IsrAlive
  <1>8. QED BY <1>5, <1>6, <1>7 DEF CycleInv

LEMMA CountOkStep ==
  ASSUME IInv, CountOk
  PROVE  Watched' /\ CycleInv'
  <1>1. rx # Idle /\ rx.node \in Nodes /\ rx.cnt \in 0..Active /\ rx.at = "okLoaded" /\ RxAlive
    BY RxCases DEF CountOk, IInv, TypeOK, Idle
  <1>2. QueuesSound /\ OkPhase(rx.cnt + 1) /\ Watched
    BY <1>1 DEF IInv, CycleInv, AtPlace
  <1>3. UNCHANGED <<currPkt, addrFifo, dataAddrFifo, okTimer, dataTimer, fatal>>
    BY DEF CountOk, fifos, timers
  <1>4. QueuesSound' /\ OkPhase(rx.cnt + 1)
    BY <1>2, <1>3 DEF QueuesSound, Queued, Collected
  <1>5. CASE rx.cnt + 1 = Active
    <2>1. rx' = Rx("dispatch", rx.node, "ok") /\ currSys' = "NO_ISSUES"
      BY <1>5 DEF CountOk, AllReported
    <2>2. rx'.at = "dispatch" /\ rx'.from = "ok"
      BY <1>1, <2>1, RxFields0 DEF RxPlace
    <2>3. Queued = Nodes
      BY <1>2, <1>5, AllCounted DEF OkPhase, Queued, IInv, TypeOK
    <2>4. DataPhase' /\ AllQueued'
      BY <1>3, <2>1, <2>2, <2>3 DEF DataPhase, AllQueued, Queued, Collected
    <2>5. AtPlace'
      BY <2>2, <2>4 DEF AtPlace
    <2>6. Watched'
      BY <1>1, <1>2, <1>3, <2>2 DEF Watched, IsrAlive
    <2>7. QED BY <1>4, <2>5, <2>6 DEF CycleInv
  <1>6. CASE rx.cnt + 1 # Active
    <2>1. rx' = Idle /\ rx'.at = "idle" /\ addrCnt' = rx.cnt + 1
      BY <1>6, IdleFields DEF CountOk, AllReported
    <2>2. OkPhase(addrCnt)'
      BY <1>2, <1>3, <2>1 DEF OkPhase, Queued
    <2>3. AtPlace'
      BY <2>1, <2>2 DEF AtPlace
    <2>4. Watched'
      BY <1>1, <1>2, <1>3, <2>1 DEF Watched, IsrAlive
    <2>5. QED BY <1>4, <2>3, <2>4 DEF CycleInv
  <1>7. QED BY <1>5, <1>6

LEMMA DataHandlerStep ==
  ASSUME IInv, NEW n \in Nodes, DataHandler(n)
  PROVE  Watched' /\ CycleInv'
  <1>1. rx = Idle /\ rx.at = "idle" /\ RxAlive
    BY IdleFields DEF DataHandler
  <1>2. QueuesSound /\ (OkPhase(addrCnt) \/ \E t \in Nodes : Polling(t)) /\ Watched
    BY <1>1 DEF IInv, CycleInv, AtPlace
  <1>3. UNCHANGED <<currPkt, currSys, addrCnt, addrFifo, dataAddrFifo, okTimer, dataTimer, fatal>>
    BY DEF DataHandler, status, fifos, timers
  <1>4. rx'.at \in {"idle", "dataSeen"}
    BY <1>1, RxFields0, IdleFields DEF DataHandler, RxPlace
  <1>5. QueuesSound' /\ (OkPhase(addrCnt) \/ \E t \in Nodes : Polling(t))'
    BY <1>2, <1>3 DEF QueuesSound, OkPhase, Polling, AllBut, Queued, Collected
  <1>6. AtPlace'
    BY <1>4, <1>5 DEF AtPlace
  <1>7. Watched'
    BY <1>1, <1>2, <1>3, <1>4 DEF Watched, IsrAlive
  <1>8. QED BY <1>5, <1>6, <1>7 DEF CycleInv

LEMMA CheckDataStep ==
  ASSUME IInv, CheckData
  PROVE  Watched' /\ CycleInv'
  <1>1. rx # Idle /\ rx.node \in Nodes /\ rx.at = "dataSeen" /\ RxAlive
    BY RxCases DEF CheckData, IInv, TypeOK, Idle
  <1>2. QueuesSound /\ (OkPhase(addrCnt) \/ \E t \in Nodes : Polling(t)) /\ Watched
    BY <1>1 DEF IInv, CycleInv, AtPlace
  <1>3. UNCHANGED <<currPkt, currSys, addrCnt, addrFifo, dataAddrFifo, okTimer, dataTimer, fatal>>
    BY DEF CheckData, status, fifos, timers
  <1>4. QueuesSound' /\ (OkPhase(addrCnt) \/ \E t \in Nodes : Polling(t))'
    BY <1>2, <1>3 DEF QueuesSound, OkPhase, Polling, AllBut, Queued, Collected
  <1>5. CASE Accepted(currPkt[rx.node], "RX_DATA")
    <2>1. rx'.at = "dataChecked" /\ rx'.node = rx.node
      BY <1>1, <1>5, RxFields0 DEF CheckData, RxPlace
    <2>2. currPkt[rx.node] = "TX_TOKEN"
      BY <1>5 DEF Accepted, LegalPrev
    <2>3. Polling(rx.node)
      <3>1. ~OkPhase(addrCnt)
        BY <1>1, <2>2 DEF OkPhase
      <3>2. PICK t \in Nodes : Polling(t)
        BY <1>2, <3>1
      <3>3. t = rx.node
        BY <1>1, <1>2, <2>2, <3>2 DEF Polling, AllBut, QueuesSound
      <3>4. QED BY <3>2, <3>3
    <2>4. Polling(rx.node)'
      BY <1>3, <2>1, <2>3 DEF Polling, AllBut, Queued, Collected
    <2>5. AtPlace'
      BY <2>1, <2>4 DEF AtPlace
    <2>6. Watched'
      BY <1>1, <1>2, <1>3, <2>1 DEF Watched, IsrAlive
    <2>7. QED BY <1>4, <2>5, <2>6 DEF CycleInv
  <1>6. CASE ~Accepted(currPkt[rx.node], "RX_DATA")
    <2>1. rx'.at = "idle"
      BY <1>6, IdleFields DEF CheckData
    <2>2. AtPlace'
      BY <1>4, <2>1 DEF AtPlace
    <2>3. Watched'
      BY <1>1, <1>2, <1>3, <2>1 DEF Watched, IsrAlive
    <2>4. QED BY <1>4, <2>2, <2>3 DEF CycleInv
  <1>7. QED BY <1>5, <1>6

LEMMA TakeDataStep ==
  ASSUME IInv, TakeData
  PROVE  Watched' /\ CycleInv'
  <1>1. rx # Idle /\ rx.node \in Nodes /\ rx.at = "dataChecked" /\ RxAlive
    BY RxCases DEF TakeData, IInv, TypeOK, Idle
  <1>2. QueuesSound /\ Polling(rx.node) /\ Watched
    BY <1>1 DEF IInv, CycleInv, AtPlace
  <1>3. UNCHANGED <<currSys, addrCnt, addrFifo, dataAddrFifo, okTimer, dataTimer, fatal>>
    BY DEF TakeData, fifos, timers
  <1>4. rx'.at = "dataTaken" /\ rx'.node = rx.node
    BY <1>1, RxFields0 DEF TakeData, RxPlace
  <1>5. currPkt' = [currPkt EXCEPT ![rx.node] = "RX_DATA"]
    BY DEF TakeData
  <1>6. rx.node \notin Queued /\ rx.node \notin Collected
    BY <1>2 DEF QueuesSound, Polling
  <1>7. QueuesSound'
    BY <1>2, <1>3, <1>5, <1>6, RangeSubset
    DEF QueuesSound, Queued, Collected, IInv, TypeOK
  <1>8. /\ DataPhase' /\ AllBut(rx.node)'
        /\ (currPkt[rx.node] = "RX_DATA")' /\ (rx.node \notin Collected)'
    BY <1>1, <1>2, <1>3, <1>4, <1>5, <1>6
    DEF Polling, DataPhase, AllBut, Queued, Collected, IInv, TypeOK
  <1>9. AtPlace'
    BY <1>4, <1>8 DEF AtPlace
  <1>10. Watched'
    BY <1>1, <1>2, <1>3, <1>4, <1>5 DEF Watched, IsrAlive, Polling, IInv, TypeOK
  <1>11. QED BY <1>7, <1>9, <1>10 DEF CycleInv

LEMMA QueueDataStep ==
  ASSUME IInv, QueueData
  PROVE  Watched' /\ CycleInv'
  <1> DEFINE n == rx.node
  <1>1. rx # Idle /\ n \in Nodes /\ rx.at = "dataTaken" /\ RxAlive
    BY RxCases DEF QueueData, IInv, TypeOK, Idle
  <1>2. /\ QueuesSound /\ DataPhase /\ AllBut(n) /\ Watched
        /\ currPkt[n] = "RX_DATA" /\ n \notin Collected
    BY <1>1 DEF IInv, CycleInv, AtPlace
  <1>3. /\ UNCHANGED <<currPkt, currSys, addrCnt, addrFifo, okTimer, fatal>>
        /\ dataTimer' = [dataTimer EXCEPT ![n] = FALSE]
        /\ dataAddrFifo' = Append(dataAddrFifo, n)
    BY DEF QueueData, Stop, status
  <1>4. rx'.at = "dispatch" /\ rx'.from = "data" /\ rx.from = "data"
    BY <1>1, RxFields0 DEF QueueData, RxPlace, IInv, CntBound
  <1>5. Collected' = Collected \cup {n} /\ IsInjective(dataAddrFifo')
    BY <1>1, <1>2, <1>3, PutFifo DEF IInv, TypeOK, QueuesSound, Collected
  <1> HIDE DEF n
  <1>6. QueuesSound'
    BY <1>2, <1>3, <1>5 DEF QueuesSound, Queued
  <1>7. DataPhase' /\ AllQueued'
    BY <1>2, <1>3, <1>4, <1>5 DEF DataPhase, AllQueued, AllBut, Queued
  <1>8. AtPlace'
    BY <1>4, <1>7 DEF AtPlace
  <1>9. Watched'
    BY <1>1, <1>2, <1>3, <1>4 DEF Watched, IsrAlive, IInv, TypeOK, n
  <1>10. QED BY <1>6, <1>8, <1>9 DEF CycleInv

LEMMA DispatchStep ==
  ASSUME IInv, Dispatch
  PROVE  Watched' /\ CycleInv'
  <1>1. /\ rx # Idle /\ rx.node \in Nodes /\ rx.from \in {"ok", "data"}
        /\ rx.at = "dispatch" /\ RxAlive
    BY RxCases DEF Dispatch, IInv, TypeOK, Idle
  <1>2. QueuesSound /\ DataPhase /\ AllQueued /\ Watched
    BY <1>1 DEF IInv, CycleInv, AtPlace
  <1>3. UNCHANGED <<currPkt, currSys, addrCnt, addrFifo, dataAddrFifo, okTimer, dataTimer, fatal>>
    BY DEF Dispatch, status, fifos, timers
  <1>4. rx'.at = (IF TokenDue THEN "getAddr" ELSE "ackLoop") /\ rx'.from = rx.from
    BY <1>1, RxFields0 DEF Dispatch, RxPlace
  <1>5. QueuesSound' /\ DataPhase' /\ AllQueued'
    BY <1>2, <1>3, <1>4 DEF QueuesSound, DataPhase, AllQueued, Queued, Collected
  <1>6. ~TokenDue => AckPhase(Nodes)'
    BY <1>2, <1>3, EmptyFifo DEF TokenDue, AckPhase, AllQueued, Queued, Collected
  <1>7. AtPlace'
    BY <1>3, <1>4, <1>5, <1>6 DEF AtPlace, TokenDue
  <1>8. Watched'
    BY <1>1, <1>2, <1>3, <1>4 DEF Watched, IsrAlive
  <1>9. QED BY <1>5, <1>7, <1>8 DEF CycleInv

LEMMA GetAddrStep ==
  ASSUME IInv, GetAddr
  PROVE  Watched' /\ CycleInv'
  <1>1. /\ rx # Idle /\ rx.from \in {"ok", "data"} /\ rx.at = "getAddr" /\ RxAlive
    BY RxCases DEF GetAddr, IInv, TypeOK, Idle
  <1>2. QueuesSound /\ DataPhase /\ AllQueued /\ addrFifo # <<>> /\ Watched
    BY <1>1 DEF IInv, CycleInv, AtPlace
  <1>3. addrFifo' = Tail(addrFifo) /\ rx' = Rx("sendToken", Head(addrFifo), rx.from)
    BY <1>2 DEF GetAddr
  <1>4. UNCHANGED <<currPkt, currSys, addrCnt, dataAddrFifo, okTimer, dataTimer, fatal>>
    BY <1>2 DEF GetAddr, status, timers
  <1>5. addrFifo \in Seq(Nodes) /\ IsInjective(addrFifo)
    BY <1>2 DEF IInv, TypeOK, QueuesSound
  <1>6. Head(addrFifo) \in Nodes
    BY <1>2, <1>5, HeadTailProperties
  <1>7. PICK n \in Nodes : n = Head(addrFifo)
    BY <1>6
  <1>8. n \in Queued /\ Queued' = Queued \ {n} /\ IsInjective(addrFifo')
    BY <1>2, <1>3, <1>5, <1>7, GetFifo DEF Queued
  <1>9. rx'.at = "sendToken" /\ rx'.node = n /\ rx'.from = rx.from
    BY <1>1, <1>3, <1>7, RxFields0 DEF RxPlace
  <1>10. QueuesSound'
    BY <1>2, <1>4, <1>8 DEF QueuesSound, Collected
  <1>11. DataPhase' /\ AllBut(n)' /\ currPkt'[n] = "RX_OK" /\ n \notin Queued'
    BY <1>2, <1>4, <1>8, <1>9 DEF QueuesSound, DataPhase, AllQueued, AllBut, Collected
  <1>12. AtPlace'
    BY <1>9, <1>11 DEF AtPlace, AllBut
  <1>13. Watched'
    BY <1>1, <1>2, <1>4, <1>9 DEF Watched, IsrAlive
  <1>14. QED BY <1>10, <1>12, <1>13 DEF CycleInv

(* Until the status is stored nothing has changed but the place.           *)
LEMMA SendTokenStep ==
  ASSUME IInv, SendToken \/ CheckToken
  PROVE  Watched' /\ CycleInv'
  <1>1. /\ rx # Idle /\ rx.node \in Nodes /\ rx.from \in {"ok", "data"} /\ RxAlive
        /\ rx.at \in {"sendToken", "tokenSent"}
    BY RxCases DEF SendToken, CheckToken, IInv, TypeOK, Idle
  <1>2. PICK n \in Nodes : n = rx.node
    BY <1>1
  <1>3. /\ QueuesSound /\ DataPhase /\ AllBut(n) /\ Watched
        /\ currPkt[n] = "RX_OK" /\ n \notin Queued
    BY <1>1, <1>2 DEF IInv, CycleInv, AtPlace
  <1>4. UNCHANGED <<currPkt, currSys, addrCnt, addrFifo, dataAddrFifo, okTimer, dataTimer, fatal>>
    BY DEF SendToken, CheckToken, status, fifos, timers
  <1>5. CheckToken => Accepted(currPkt[rx.node], "TX_TOKEN")
    BY <1>2, <1>3 DEF Accepted, LegalPrev
  <1>6. rx'.at \in {"tokenSent", "tokenChecked"} /\ rx'.node = n /\ rx'.from = rx.from
    BY <1>1, <1>2, <1>5, RxFields0 DEF SendToken, CheckToken, RxPlace
  <1>7. QueuesSound' /\ DataPhase' /\ AllBut(n)' /\ currPkt'[n] = "RX_OK" /\ n \notin Queued'
    BY <1>3, <1>4, <1>6 DEF QueuesSound, DataPhase, AllBut, Queued, Collected
  <1>8. AtPlace'
    BY <1>6, <1>7 DEF AtPlace, AllBut
  <1>9. Watched'
    BY <1>1, <1>3, <1>4, <1>6 DEF Watched, IsrAlive
  <1>10. QED BY <1>7, <1>8, <1>9 DEF CycleInv

LEMMA StoreTokenStep ==
  ASSUME IInv, StoreToken
  PROVE  Watched' /\ CycleInv'
  <1>1. /\ rx # Idle /\ rx.node \in Nodes /\ rx.from \in {"ok", "data"}
        /\ rx.at = "tokenChecked" /\ RxAlive
    BY RxCases DEF StoreToken, IInv, TypeOK, Idle
  <1>2. PICK n \in Nodes : n = rx.node
    BY <1>1
  <1>3. /\ QueuesSound /\ DataPhase /\ AllBut(n) /\ Watched
        /\ currPkt[n] = "RX_OK" /\ n \notin Queued
    BY <1>1, <1>2 DEF IInv, CycleInv, AtPlace
  <1>4. /\ UNCHANGED <<currSys, addrCnt, addrFifo, dataAddrFifo, okTimer, dataTimer, fatal>>
        /\ currPkt' = [currPkt EXCEPT ![n] = "TX_TOKEN"]
    BY <1>2 DEF StoreToken, fifos, timers
  <1>5. rx'.at = "tokenStored" /\ rx'.node = n /\ rx'.from = rx.from
    BY <1>1, <1>2, RxFields0 DEF StoreToken, RxPlace
  <1>6. n \notin Collected
    BY <1>3 DEF QueuesSound
  <1>7. QueuesSound'
    BY <1>3, <1>4, <1>6, RangeSubset
    DEF QueuesSound, Queued, Collected, IInv, TypeOK
  <1>8. DataPhase' /\ AllBut(n)' /\ currPkt'[n] = "TX_TOKEN"
    BY <1>3, <1>4, <1>5 DEF DataPhase, AllBut, Queued, Collected, IInv, TypeOK
  <1>9. AtPlace'
    BY <1>5, <1>8 DEF AtPlace, AllBut
  <1>10. Watched'
    BY <1>1, <1>3, <1>4, <1>5 DEF Watched, IsrAlive, IInv, TypeOK
  <1>11. QED BY <1>7, <1>9, <1>10 DEF CycleInv

LEMMA ArmDataTimerStep ==
  ASSUME IInv, ArmDataTimer
  PROVE  Watched' /\ CycleInv'
  <1>1. /\ rx # Idle /\ rx.node \in Nodes /\ rx.from \in {"ok", "data"}
        /\ rx.at = "tokenStored" /\ RxAlive
    BY RxCases DEF ArmDataTimer, IInv, TypeOK, Idle
  <1>2. PICK n \in Nodes : n = rx.node
    BY <1>1
  <1>3. QueuesSound /\ DataPhase /\ AllBut(n) /\ Watched /\ currPkt[n] = "TX_TOKEN"
    BY <1>1, <1>2 DEF IInv, CycleInv, AtPlace
  <1>4. /\ UNCHANGED <<currPkt, currSys, addrFifo, dataAddrFifo, okTimer, fatal>>
        /\ dataTimer' = [dataTimer EXCEPT ![n] = TRUE]
    BY <1>2 DEF ArmDataTimer, status, fifos
  <1>5. rx'.at = "idle" /\ addrCnt' = 0
    BY <1>1, <1>3, IdleFields DEF ArmDataTimer, Return, DataPhase
  <1>6. QueuesSound' /\ Polling(n)'
    BY <1>3, <1>4, <1>5 DEF QueuesSound, Polling, AllBut, DataPhase, Queued, Collected
  <1>7. AtPlace'
    BY <1>5, <1>6 DEF AtPlace
  <1>8. Watched'
    BY <1>1, <1>2, <1>3, <1>4, <1>5 DEF Watched, IsrAlive, IInv, TypeOK
  <1>9. QED BY <1>6, <1>7, <1>8 DEF CycleInv

LEMMA AckLoopStep ==
  ASSUME IInv, AckLoop
  PROVE  Watched' /\ CycleInv'
  <1>1. /\ rx # Idle /\ rx.node \in Nodes /\ rx.from \in {"ok", "data"}
        /\ rx.at = "ackLoop" /\ RxAlive
    BY RxCases DEF AckLoop, IInv, TypeOK, Idle
  <1>2. QueuesSound /\ DataPhase /\ AckPhase(Nodes) /\ Watched
    BY <1>1 DEF IInv, CycleInv, AtPlace
  <1>3. UNCHANGED <<currPkt, currSys, addrFifo, dataAddrFifo, okTimer, dataTimer, fatal>>
    BY DEF AckLoop, status, fifos, timers
  <1>4. QueuesSound'
    BY <1>2, <1>3 DEF QueuesSound, Queued, Collected
  <1>5. CASE dataAddrFifo # <<>>
    <2>1. rx'.at = "getData" /\ rx'.from = rx.from /\ addrCnt' = addrCnt
      BY <1>1, <1>5, RxFields0 DEF AckLoop, RxPlace
    <2>2. DataPhase' /\ AckPhase(Nodes)'
      BY <1>2, <1>3, <2>1 DEF DataPhase, AckPhase, Collected
    <2>3. AtPlace'
      BY <1>3, <1>5, <2>1, <2>2 DEF AtPlace
    <2>4. Watched'
      BY <1>1, <1>2, <1>3, <2>1 DEF Watched, IsrAlive
    <2>5. QED BY <1>4, <2>3, <2>4 DEF CycleInv
  <1>6. CASE dataAddrFifo = <<>>
    <2>1. rx'.at = "idle" /\ addrCnt' = 0
      BY <1>1, <1>2, <1>6, IdleFields DEF AckLoop, Return, DataPhase
    <2>2. OkPhase(addrCnt)'
      BY <1>2, <1>3, <1>6, <2>1, EmptyFifo, FS_EmptySet
      DEF AckPhase, OkPhase, Queued, Collected
    <2>3. AtPlace'
      BY <2>1, <2>2 DEF AtPlace
    <2>4. Watched'
      BY <1>1, <1>2, <1>3, <2>1 DEF Watched, IsrAlive
    <2>5. QED BY <1>4, <2>3, <2>4 DEF CycleInv
  <1>7. QED BY <1>5, <1>6

LEMMA GetDataStep ==
  ASSUME IInv, GetData
  PROVE  Watched' /\ CycleInv'
  <1>1. /\ rx # Idle /\ rx.from \in {"ok", "data"} /\ rx.at = "getData" /\ RxAlive
    BY RxCases DEF GetData, IInv, TypeOK, Idle
  <1>2. QueuesSound /\ DataPhase /\ AckPhase(Nodes) /\ dataAddrFifo # <<>> /\ Watched
    BY <1>1 DEF IInv, CycleInv, AtPlace
  <1>3. dataAddrFifo' = Tail(dataAddrFifo) /\ rx' = Rx("sendAck", Head(dataAddrFifo), rx.from)
    BY <1>2 DEF GetData
  <1>4. UNCHANGED <<currPkt, currSys, addrCnt, addrFifo, okTimer, dataTimer, fatal>>
    BY <1>2 DEF GetData, status, timers
  <1>5. dataAddrFifo \in Seq(Nodes) /\ IsInjective(dataAddrFifo)
    BY <1>2 DEF IInv, TypeOK, QueuesSound
  <1>6. Head(dataAddrFifo) \in Nodes
    BY <1>2, <1>5, HeadTailProperties
  <1>7. PICK n \in Nodes : n = Head(dataAddrFifo)
    BY <1>6
  <1>8. n \in Collected /\ Collected' = Collected \ {n} /\ IsInjective(dataAddrFifo')
    BY <1>2, <1>3, <1>5, <1>7, GetFifo DEF Collected
  <1>9. rx'.at = "sendAck" /\ rx'.node = n /\ rx'.from = rx.from
    BY <1>1, <1>3, <1>7, RxFields0 DEF RxPlace
  <1>10. QueuesSound'
    BY <1>2, <1>4, <1>8 DEF QueuesSound, Queued
  <1>11. DataPhase' /\ currPkt'[n] = "RX_DATA" /\ n \notin Collected'
    BY <1>2, <1>4, <1>8, <1>9 DEF QueuesSound, DataPhase
  <1>12. AckPhase(Nodes \ {rx.node})'
    BY <1>2, <1>4, <1>8, <1>9 DEF AckPhase
  <1>13. AtPlace'
    BY <1>9, <1>11, <1>12 DEF AtPlace
  <1>14. Watched'
    BY <1>1, <1>2, <1>4, <1>9 DEF Watched, IsrAlive
  <1>15. QED BY <1>10, <1>13, <1>14 DEF CycleInv

LEMMA SendAckStep ==
  ASSUME IInv, SendAck \/ CheckAck
  PROVE  Watched' /\ CycleInv'
  <1>1. /\ rx # Idle /\ rx.node \in Nodes /\ rx.from \in {"ok", "data"} /\ RxAlive
        /\ rx.at \in {"sendAck", "ackSent"}
    BY RxCases DEF SendAck, CheckAck, IInv, TypeOK, Idle
  <1>2. PICK n \in Nodes : n = rx.node
    BY <1>1
  <1>3. /\ QueuesSound /\ DataPhase /\ AckPhase(Nodes \ {n}) /\ Watched
        /\ currPkt[n] = "RX_DATA" /\ n \notin Collected
    BY <1>1, <1>2 DEF IInv, CycleInv, AtPlace, AckPhase
  <1>4. UNCHANGED <<currPkt, currSys, addrCnt, addrFifo, dataAddrFifo, okTimer, dataTimer, fatal>>
    BY DEF SendAck, CheckAck, status, fifos, timers
  <1>5. CheckAck => Accepted(currPkt[rx.node], "TX_ACK")
    BY <1>2, <1>3 DEF Accepted, LegalPrev
  <1>6. rx'.at \in {"ackSent", "ackChecked"} /\ rx'.node = n /\ rx'.from = rx.from
    BY <1>1, <1>2, <1>5, RxFields0 DEF SendAck, CheckAck, RxPlace
  <1>7. /\ QueuesSound' /\ DataPhase' /\ AckPhase(Nodes \ {n})'
        /\ currPkt'[n] = "RX_DATA" /\ n \notin Collected'
    BY <1>3, <1>4, <1>6 DEF QueuesSound, DataPhase, AckPhase, Queued, Collected
  <1>8. AtPlace'
    BY <1>6, <1>7 DEF AtPlace, AckPhase
  <1>9. Watched'
    BY <1>1, <1>3, <1>4, <1>6 DEF Watched, IsrAlive
  <1>10. QED BY <1>7, <1>8, <1>9 DEF CycleInv

LEMMA StoreAckStep ==
  ASSUME IInv, StoreAck
  PROVE  Watched' /\ CycleInv'
  <1>1. /\ rx # Idle /\ rx.node \in Nodes /\ rx.from \in {"ok", "data"}
        /\ rx.at = "ackChecked" /\ RxAlive
    BY RxCases DEF StoreAck, IInv, TypeOK, Idle
  <1>2. PICK n \in Nodes : n = rx.node
    BY <1>1
  <1>3. /\ QueuesSound /\ DataPhase /\ AckPhase(Nodes \ {n}) /\ Watched
        /\ currPkt[n] = "RX_DATA" /\ n \notin Collected
    BY <1>1, <1>2 DEF IInv, CycleInv, AtPlace, AckPhase
  <1>4. /\ UNCHANGED <<currSys, addrCnt, addrFifo, dataAddrFifo, okTimer, dataTimer, fatal>>
        /\ currPkt' = [currPkt EXCEPT ![n] = "TX_ACK"]
    BY <1>2 DEF StoreAck, fifos, timers
  <1>5. rx'.at = "ackStored" /\ rx'.node = n /\ rx'.from = rx.from
    BY <1>1, <1>2, RxFields0 DEF StoreAck, RxPlace
  <1>6. QueuesSound'
    BY <1>3, <1>4, RangeSubset
    DEF QueuesSound, AckPhase, Queued, Collected, IInv, TypeOK
  <1>7. DataPhase' /\ AckPhase(Nodes)' /\ currPkt'[n] = "TX_ACK"
    BY <1>3, <1>4, <1>5 DEF DataPhase, AckPhase, Collected, IInv, TypeOK
  <1>8. AtPlace'
    BY <1>5, <1>7 DEF AtPlace
  <1>9. Watched'
    BY <1>1, <1>3, <1>4, <1>5 DEF Watched, IsrAlive, IInv, TypeOK
  <1>10. QED BY <1>6, <1>8, <1>9 DEF CycleInv

LEMMA ArmOkTimerStep ==
  ASSUME IInv, ArmOkTimer
  PROVE  Watched' /\ CycleInv'
  <1>1. /\ rx # Idle /\ rx.node \in Nodes /\ rx.from \in {"ok", "data"}
        /\ rx.at = "ackStored" /\ RxAlive
    BY RxCases DEF ArmOkTimer, IInv, TypeOK, Idle
  <1>2. PICK n \in Nodes : n = rx.node
    BY <1>1
  <1>3. QueuesSound /\ DataPhase /\ AckPhase(Nodes) /\ Watched /\ currPkt[n] = "TX_ACK"
    BY <1>1, <1>2 DEF IInv, CycleInv, AtPlace
  <1>4. /\ UNCHANGED <<currPkt, addrCnt, addrFifo, dataAddrFifo, dataTimer, fatal>>
        /\ okTimer' = [okTimer EXCEPT ![n] = TRUE]
        /\ currSys' = "NO_ISSUES"
    BY <1>2 DEF ArmOkTimer, fifos
  <1>5. rx'.at = "ackLoop" /\ rx'.from = rx.from
    BY <1>1, RxFields0 DEF ArmOkTimer, RxPlace
  <1>6. QueuesSound' /\ DataPhase' /\ AckPhase(Nodes)'
    BY <1>3, <1>4, <1>5 DEF QueuesSound, DataPhase, AckPhase, Queued, Collected
  <1>7. AtPlace'
    BY <1>5, <1>6 DEF AtPlace
  <1>8. Watched'
    BY <1>1, <1>2, <1>3, <1>4, <1>5 DEF Watched, IsrAlive, IInv, TypeOK
  <1>9. QED BY <1>6, <1>7, <1>8 DEF CycleInv

LEMMA RxSendFailsStep ==
  ASSUME IInv, RxSendFails
  PROVE  Watched' /\ CycleInv'
  <1>1. RxAlive /\ ~RxAlive'
    BY DEF RxSendFails, Stuck, RxAlive
  <1>2. UNCHANGED <<currPkt, okTimer, dataTimer, rx>>
    BY DEF RxSendFails, status, timers
  <1>3. Watched'
    BY <1>1, <1>2 DEF IInv, Watched, RxAlive, IsrAlive
  <1>4. QED BY <1>1, <1>3 DEF CycleInv

-----------------------------------------------------------------------------
(* The steps of the clock interrupt: between two messages, or beside an RX *)
(* thread that is stuck.                                                   *)

(* Whoever is watched between two messages owes what its timer waits for.  *)
LEMMA Expiring ==
  ASSUME Preempt = FALSE, IInv, NEW n \in Nodes, MayExpire(n)
  PROVE  /\ IsrAlive /\ (RxAlive => rx = Idle /\ rx.at = "idle")
         /\ okTimer[n] => currPkt[n] = "TX_ACK"
         /\ dataTimer[n] => currPkt[n] = "TX_TOKEN"
         /\ rx.at \notin {"okTaken", "dataTaken"}
  <1>1. IsrAlive /\ (rx = Idle \/ "rx" \in fatal)
    BY DEF MayExpire, RxAlive, IsrAlive
  <1>2. rx.at \notin {"okTaken", "dataTaken"}
    BY <1>1, IdleFields DEF IInv, StuckAt
  <1>3. RxAlive => rx = Idle /\ rx.at = "idle"
    BY <1>1, IdleFields DEF RxAlive
  <1>4. QED BY <1>1, <1>2, <1>3 DEF IInv, Watched

LEMMA OkExpiryStep ==
  ASSUME Preempt = FALSE, IInv, NEW n \in Nodes, OkExpiry(n)
  PROVE  Watched' /\ CycleInv'
  <1>1. /\ IsrAlive /\ (RxAlive => rx.at = "idle") /\ currPkt[n] = "TX_ACK" /\ ~dataTimer[n]
        /\ rx.at \notin {"okTaken", "dataTaken"}
    BY Expiring DEF OkExpiry
  <1>2. CASE Stuck("isr")
    <2>1. ~IsrAlive' /\ ~RxAlive'
      BY <1>2 DEF Stuck, IsrAlive, RxAlive
    <2>2. QED BY <2>1 DEF Watched, CycleInv
  <1>3. CASE UpdateState(n, "TX_RECOVER") /\ UNCHANGED fatal
    <2>1. currPkt' = [currPkt EXCEPT ![n] = "TX_RECOVER"]
      BY <1>3 DEF UpdateState, StatesUpdate, Accepted, LegalPrev, IInv, TypeOK
    <2>2. /\ UNCHANGED <<currSys, addrCnt, addrFifo, dataAddrFifo, dataTimer, rx, fatal>>
          /\ okTimer' = [okTimer EXCEPT ![n] = FALSE]
      BY <1>3 DEF OkExpiry, fifos
    <2>3. Watched'
      BY <1>1, <2>1, <2>2 DEF IInv, Watched, IsrAlive, TypeOK
    <2>4. ASSUME RxAlive PROVE QueuesSound' /\ AtPlace'
      <3>1. rx'.at = "idle" /\ QueuesSound /\ (OkPhase(addrCnt) \/ \E t \in Nodes : Polling(t))
        BY <1>1, <2>2, <2>4 DEF IInv, CycleInv, AtPlace
      <3>2. n \notin Queued /\ n \notin Collected
        BY <1>1, <3>1 DEF QueuesSound
      <3>3. QueuesSound'
        BY <2>1, <2>2, <3>1, <3>2, RangeSubset
        DEF QueuesSound, Queued, Collected, IInv, TypeOK
      <3>4. ASSUME NEW t \in Nodes, Polling(t) PROVE FALSE
        BY <1>1, <3>2, <3>4 DEF Polling, AllBut
      <3>5. OkPhase(addrCnt)'
        BY <2>1, <2>2, <3>1, <3>4 DEF OkPhase, Queued, IInv, TypeOK
      <3>6. QED BY <3>1, <3>3, <3>5 DEF AtPlace
    <2>5. QED BY <2>2, <2>3, <2>4 DEF CycleInv, RxAlive
  <1>4. QED BY <1>2, <1>3 DEF OkExpiry

LEMMA DataExpiryStep ==
  ASSUME Preempt = FALSE, IInv, NEW n \in Nodes, DataExpiry(n)
  PROVE  Watched' /\ CycleInv'
  <1>1. /\ IsrAlive /\ (RxAlive => rx.at = "idle") /\ currPkt[n] = "TX_TOKEN" /\ ~okTimer[n]
        /\ rx.at \notin {"okTaken", "dataTaken"}
    BY Expiring DEF DataExpiry
  <1>2. CASE Stuck("isr")
    <2>1. ~IsrAlive' /\ ~RxAlive'
      BY <1>2 DEF Stuck, IsrAlive, RxAlive
    <2>2. QED BY <2>1 DEF Watched, CycleInv
  <1>3. CASE UNCHANGED fatal
    <2>1. currPkt' = [currPkt EXCEPT ![n] = "TX_RECOVER"]
      BY DEF DataExpiry, RecoverStatus, UpdateState, StatesUpdate, Accepted, LegalPrev, IInv, TypeOK
    <2>2. /\ UNCHANGED <<okTimer, rx>> /\ addrCnt' = 0 /\ addrFifo' = <<>> /\ dataAddrFifo' = <<>>
          /\ dataTimer' = [dataTimer EXCEPT ![n] = FALSE]
      BY DEF DataExpiry
    <2>3. Watched'
      BY <1>1, <1>3, <2>1, <2>2 DEF IInv, Watched, IsrAlive, TypeOK
    <2>4. ASSUME RxAlive PROVE QueuesSound' /\ AtPlace'
      <3>1. rx'.at = "idle" /\ QueuesSound /\ (OkPhase(addrCnt) \/ \E t \in Nodes : Polling(t))
        BY <1>1, <2>2, <2>4 DEF IInv, CycleInv, AtPlace
      <3>2. PICK t \in Nodes : Polling(t)
        BY <1>1, <3>1 DEF OkPhase
      <3>3. t = n
        BY <1>1, <3>1, <3>2 DEF Polling, AllBut, QueuesSound
      <3>4. \A m \in Nodes : currPkt'[m] # "TX_TOKEN"
        BY <2>1, <3>1, <3>2, <3>3 DEF Polling, AllBut, QueuesSound, IInv, TypeOK
      <3>5. Queued' = {} /\ Collected' = {} /\ IsInjective(addrFifo') /\ IsInjective(dataAddrFifo')
        BY <2>2, EmptyFifo DEF Queued, Collected
      <3>6. QueuesSound'
        BY <3>5 DEF QueuesSound
      <3>7. OkPhase(addrCnt)'
        BY <2>2, <3>4, <3>5, FS_EmptySet DEF OkPhase
      <3>8. QED BY <3>1, <3>6, <3>7 DEF AtPlace
    <2>5. QED BY <1>3, <2>3, <2>4 DEF CycleInv, RxAlive
  <1>4. QED BY <1>2, <1>3 DEF DataExpiry

-----------------------------------------------------------------------------
(* The parts of the invariant that do not depend on the flags.             *)

LEMMA StuckAtStep ==
  ASSUME IInv, [Next]_vars
  PROVE  StuckAt'
  <1>1. ASSUME RxThread PROVE StuckAt'
    <2>1. CASE GetAddr
      BY <2>1 DEF GetAddr, StuckAt, RxAlive
    <2>2. CASE GetData
      BY <2>2 DEF GetData, StuckAt, RxAlive
    <2>3. CASE ~GetAddr /\ ~GetData
      <3>1. RxAlive /\ UNCHANGED fatal
        BY <1>1, <2>3
        DEF RxThread, QueueOk, LoadCnt, CountOk, CheckData, TakeData, QueueData,
            Dispatch, SendToken, CheckToken, StoreToken, ArmDataTimer, AckLoop,
            SendAck, CheckAck, StoreAck, ArmOkTimer
      <3>2. QED BY <3>1 DEF StuckAt, RxAlive
    <2>4. QED BY <2>1, <2>2, <2>3
  <1>2. ASSUME RxSendFails PROVE StuckAt'
    BY <1>2 DEF RxSendFails, StuckAt
  <1>3. ASSUME NEW n \in Nodes, OKHandler(n) \/ DataHandler(n) PROVE StuckAt'
    BY <1>3 DEF OKHandler, DataHandler, StuckAt, RxAlive
  <1>4. ASSUME NEW n \in Nodes, OkExpiry(n) \/ DataExpiry(n) PROVE StuckAt'
    BY <1>4 DEF OkExpiry, DataExpiry, Stuck, IInv, StuckAt
  <1>5. ASSUME UNCHANGED <<rx, fatal>> PROVE StuckAt'
    BY <1>5 DEF IInv, StuckAt
  <1>6. MainStart \/ UNCHANGED vars => UNCHANGED <<rx, fatal>>
    BY DEF MainStart, vars, bmsVars
  <1>7. ASSUME NEW n \in Nodes, CmbRx(n) \/ CmbMainThread(n) \/ LoseDown(n) \/ LoseUp(n)
        PROVE  UNCHANGED bmsVars
    BY <1>7 DEF CmbRx, StartHandler, ACKHandler, RecoveryHandler, TokenHandler,
      CmbMainThread, CmbStart, CmbClear, CmbAnswer, LoseDown, LoseUp
  <1>8. UNCHANGED bmsVars => UNCHANGED <<rx, fatal>>
    BY DEF bmsVars
  <1>9. QED BY <1>1, <1>2, <1>3, <1>4, <1>5, <1>6, <1>7, <1>8 DEF Next

(* Before the main thread of the BMS sends START nothing else can move.    *)
LEMMA AsleepStep ==
  ASSUME IInv, [Next]_vars
  PROVE  Asleep'
  <1>1. MainStart => bmsMain' # "forming"
    BY DEF MainStart
  <1>2. RxThread \/ RxSendFails => UNCHANGED bmsMain /\ rx # Idle
    BY IdleFields
    DEF RxThread, RxSendFails, QueueOk, LoadCnt, CountOk, CheckData, TakeData,
        QueueData, Dispatch, GetAddr, SendToken, CheckToken, StoreToken, ArmDataTimer,
        AckLoop, GetData, SendAck, CheckAck, StoreAck, ArmOkTimer
  <1>3. \A n \in Nodes : OKHandler(n) \/ DataHandler(n) \/ LoseUp(n) =>
          UNCHANGED bmsMain /\ up[n] # <<>>
    BY DEF OKHandler, DataHandler, LoseUp, bmsVars
  <1>4. \A n \in Nodes : OkExpiry(n) \/ DataExpiry(n) =>
          UNCHANGED bmsMain /\ (okTimer[n] \/ dataTimer[n])
    BY DEF OkExpiry, DataExpiry
  <1>5. \A n \in Nodes : CmbRx(n) \/ LoseDown(n) =>
          UNCHANGED bmsMain /\ down[n] # <<>>
    BY DEF CmbRx, StartHandler, ACKHandler, RecoveryHandler, TokenHandler,
      Arrives, LoseDown, bmsVars
  <1>6. \A n \in Nodes : CmbMainThread(n) =>
          UNCHANGED bmsMain /\ (startSem[n] = 1 \/ cmbMain[n] # "waitStart")
    BY DEF CmbMainThread, CmbStart, CmbClear, CmbAnswer, bmsVars
  <1>7. CASE bmsMain # "forming"
    <2>1. bmsMain' # "forming"
      BY <1>1, <1>2, <1>3, <1>4, <1>5, <1>6, <1>7 DEF Next, vars, bmsVars
    <2>2. QED BY <2>1 DEF Asleep
  <1>8. CASE bmsMain = "forming"
    <2>1. /\ rx = Idle
          /\ \A n \in Nodes :
               /\ down[n] = <<>> /\ up[n] = <<>>
               /\ cmbMain[n] = "waitStart" /\ startSem[n] = 0
               /\ ~okTimer[n] /\ ~dataTimer[n]
      BY <1>8 DEF IInv, Asleep
    <2>2. MainStart \/ UNCHANGED vars
      BY <1>2, <1>3, <1>4, <1>5, <1>6, <2>1 DEF Next
    <2>3. CASE MainStart
      BY <1>1, <2>3 DEF Asleep
    <2>4. CASE UNCHANGED vars
      BY <2>4 DEF IInv, Asleep, vars, bmsVars, cmbVars, fifos, timers
    <2>5. QED BY <2>2, <2>3, <2>4
  <1>9. QED BY <1>7, <1>8

-----------------------------------------------------------------------------
(* The invariant is inductive.                                             *)

LEMMA CycleInit == Init => IInv
  <1> SUFFICES ASSUME Init PROVE IInv
    OBVIOUS
  <1>1. TypeOK /\ CntBound
    BY TypeInit
  <1>2. rx.at = "idle" /\ rx = Idle /\ fatal = {}
    BY IdleFields DEF Init
  <1>3. Asleep /\ StuckAt /\ Watched
    BY <1>2 DEF Init, Asleep, StuckAt, Watched
  <1>4. Queued = {} /\ Collected = {} /\ QueuesSound
    BY EmptyFifo DEF Init, Queued, Collected, QueuesSound
  <1>5. OkPhase(addrCnt)
    BY <1>4, FS_EmptySet DEF Init, OkPhase
  <1>6. AtPlace
    BY <1>2, <1>5 DEF AtPlace
  <1>7. QED BY <1>1, <1>3, <1>4, <1>6 DEF IInv, CycleInv

LEMMA CycleStep ==
  ASSUME Preempt = FALSE, IInv, [Next]_vars
  PROVE  IInv'
  <1>1. TypeOK' /\ CntBound'
    BY TypeStep DEF IInv
  <1>2. ASSUME UNCHANGED bmsVars PROVE Watched' /\ CycleInv'
    <2>1. UNCHANGED <<currPkt, currSys, addrCnt, addrFifo, dataAddrFifo, okTimer, dataTimer, rx, fatal>>
      BY <1>2 DEF bmsVars, status, fifos, timers
    <2>2. Watched'
      BY <2>1 DEF IInv, Watched, IsrAlive
    <2>3. RxAlive' = RxAlive /\ QueuesSound' = QueuesSound /\ AtPlace' = AtPlace
      BY <2>1 DEF RxAlive, QueuesSound, AtPlace, OkPhase, AllBut, AllQueued, DataPhase,
        Polling, AckPhase, Queued, Collected
    <2>4. QED BY <2>2, <2>3 DEF IInv, CycleInv
  <1>3. CASE MainStart
    <2>1. UNCHANGED <<currPkt, currSys, addrFifo, dataAddrFifo, okTimer, dataTimer, rx, fatal>>
      BY <1>3 DEF MainStart, status, fifos, timers
    <2>2. addrCnt' = addrCnt
      BY <1>3 DEF MainStart, IInv, Asleep
    <2>3. Watched'
      BY <2>1 DEF IInv, Watched, IsrAlive
    <2>4. RxAlive' = RxAlive /\ QueuesSound' = QueuesSound /\ AtPlace' = AtPlace
      BY <2>1, <2>2 DEF RxAlive, QueuesSound, AtPlace, OkPhase, AllBut, AllQueued, DataPhase,
        Polling, AckPhase, Queued, Collected
    <2>5. QED BY <1>1, <2>3, <2>4, StuckAtStep, AsleepStep DEF IInv, CycleInv
  <1>4. ASSUME RxThread \/ RxSendFails PROVE Watched' /\ CycleInv'
    BY <1>4, QueueOkStep, LoadCntStep, CountOkStep, CheckDataStep, TakeDataStep,
       QueueDataStep, DispatchStep, GetAddrStep, SendTokenStep, StoreTokenStep,
       ArmDataTimerStep, AckLoopStep, GetDataStep, SendAckStep, StoreAckStep,
       ArmOkTimerStep, RxSendFailsStep
    DEF RxThread
  <1>5. ASSUME NEW n \in Nodes,
               OKHandler(n) \/ DataHandler(n) \/ OkExpiry(n) \/ DataExpiry(n)
        PROVE  Watched' /\ CycleInv'
    BY <1>5, OKHandlerStep, DataHandlerStep, OkExpiryStep, DataExpiryStep
  <1>6. ASSUME NEW n \in Nodes, CmbRx(n) \/ CmbMainThread(n) \/ LoseDown(n) \/ LoseUp(n)
        PROVE  UNCHANGED bmsVars
    BY <1>6 DEF CmbRx, StartHandler, ACKHandler, RecoveryHandler, TokenHandler,
      CmbMainThread, CmbStart, CmbClear, CmbAnswer, LoseDown, LoseUp
  <1>7. CASE ~MainStart
    <2>1. Watched' /\ CycleInv'
      BY <1>2, <1>4, <1>5, <1>6, <1>7 DEF Next, vars
    <2>2. QED BY <1>1, <2>1, StuckAtStep, AsleepStep DEF IInv
  <1>8. QED BY <1>3, <1>7

(* The invariant of the measurement cycle: when no timer expires inside a  *)
(* handler, whatever else is delayed or lost and whichever send fails.     *)
THEOREM CycleInvariant ==
  ASSUME Preempt = FALSE
  PROVE  Spec => []IInv
  <1>1. Init => IInv
    BY CycleInit
  <1>2. IInv /\ [Next]_vars => IInv'
    BY CycleStep
  <1>3. QED BY <1>1, <1>2, PTL DEF Spec

LEMMA InvImplies ==
  ASSUME IInv
  PROVE  PollBarrier /\ AckBarrier /\ QueuesAgree /\ Watched /\ LostMeansUnpolled
  <1>1. PollBarrier
    BY DEF IInv, PollBarrier, CycleInv, AtPlace, QueuesSound, AllBut
  <1>2. AckBarrier
    BY DEF IInv, AckBarrier, CycleInv, AtPlace, QueuesSound, AckPhase
  <1>3. QueuesAgree
    BY DEF IInv, QueuesAgree, CycleInv, AtPlace, QueuesSound, Queued, Collected
  <1>4. LostMeansUnpolled
    <2>1. SUFFICES ASSUME RxAlive, currSys = "BATT_INFO_LOST", NEW n \in Nodes
                   PROVE  currPkt[n] # "TX_TOKEN"
      BY DEF LostMeansUnpolled
    <2>2. QueuesSound /\ AtPlace
      BY <2>1 DEF IInv, CycleInv
    <2>3. rx.at \in RxPlace \cup {"idle"}
      BY RxCases DEF IInv, TypeOK
    <2>4. CASE rx.at \in {"idle", "dataSeen", "okTaken", "okQueued", "okLoaded"}
      BY <2>1, <2>2, <2>4 DEF AtPlace, OkPhase, Polling
    <2>5. CASE rx.at \notin {"idle", "dataSeen", "okTaken", "okQueued", "okLoaded"}
      BY <2>1, <2>2, <2>3, <2>5 DEF AtPlace, DataPhase, Polling, RxPlace
    <2>6. QED BY <2>4, <2>5
  <1>5. QED BY <1>1, <1>2, <1>3, <1>4 DEF IInv

(* A token is sent only when every node is queued or read.                 *)
THEOREM PollBarrierHolds ==
  ASSUME Preempt = FALSE
  PROVE  Spec => []PollBarrier
  <1>1. IInv => PollBarrier
    BY InvImplies
  <1>2. QED BY <1>1, CycleInvariant, PTL

(* An ACK is sent only when every node is read or already acknowledged.    *)
THEOREM AckBarrierHolds ==
  ASSUME Preempt = FALSE
  PROVE  Spec => []AckBarrier
  <1>1. IInv => AckBarrier
    BY InvImplies
  <1>2. QED BY <1>1, CycleInvariant, PTL

(* The FIFOs agree with the status log and no pop finds them empty.        *)
THEOREM QueuesAgreeHolds ==
  ASSUME Preempt = FALSE
  PROVE  Spec => []QueuesAgree
  <1>1. IInv => QueuesAgree
    BY InvImplies
  <1>2. QED BY <1>1, CycleInvariant, PTL

(* A node owes an answer exactly while its timer watches it.               *)
THEOREM WatchedHolds ==
  ASSUME Preempt = FALSE
  PROVE  Spec => []Watched
  <1>1. IInv => Watched
    BY InvImplies
  <1>2. QED BY <1>1, CycleInvariant, PTL

(* While the battery is lost no token is outstanding.                      *)
THEOREM LostMeansUnpolledHolds ==
  ASSUME Preempt = FALSE
  PROVE  Spec => []LostMeansUnpolled
  <1>1. IInv => LostMeansUnpolled
    BY InvImplies
  <1>2. QED BY <1>1, CycleInvariant, PTL

(* While the RX thread is stuck in a send, timers go on expiring.          *)
LEMMA TokenStep ==
  ASSUME TypeOK, TokenAfterAllOks, PollBarrier', [Next]_vars
  PROVE  TokenAfterAllOks'
  <1> USE DEF TokenAfterAllOks
  <1>1. CASE RxAlive'
    BY <1>1 DEF PollBarrier
  <1>2. ASSUME UNCHANGED rx, \A n \in Nodes : currPkt'[n] \in {currPkt[n], "TX_RECOVER"}
        PROVE  TokenAfterAllOks'
    BY <1>2
  <1>3. ASSUME RxThread PROVE RxAlive' \/ UNCHANGED <<rx, currPkt>>
    BY <1>3 DEF RxThread, QueueOk, LoadCnt, CountOk, CheckData, TakeData, QueueData, Dispatch,
      GetAddr, SendToken, CheckToken, StoreToken, ArmDataTimer, AckLoop, GetData, SendAck,
      CheckAck, StoreAck, ArmOkTimer, RxAlive, status
  <1>4. ASSUME NEW n \in Nodes, OKHandler(n) \/ DataHandler(n) PROVE RxAlive'
    BY <1>4 DEF OKHandler, DataHandler, RxAlive
  <1>5. ASSUME NEW n \in Nodes, OkExpiry(n) \/ DataExpiry(n) PROVE TokenAfterAllOks'
    <2>1. UNCHANGED rx
      BY <1>5 DEF OkExpiry, DataExpiry
    <2>2. UNCHANGED currPkt \/ UpdateState(n, "TX_RECOVER")
      BY <1>5 DEF OkExpiry, DataExpiry, RecoverStatus
    <2>3. \A m \in Nodes : currPkt'[m] \in {currPkt[m], "TX_RECOVER"}
      BY <2>2 DEF UpdateState, StatesUpdate, TypeOK
    <2>4. QED BY <1>2, <2>1, <2>3
  <1>6. ASSUME MainStart \/ RxSendFails \/ UNCHANGED vars PROVE UNCHANGED <<rx, currPkt>>
    BY <1>6 DEF MainStart, RxSendFails, vars, bmsVars, status
  <1>7. ASSUME NEW n \in Nodes, CmbRx(n) \/ CmbMainThread(n) \/ LoseDown(n) \/ LoseUp(n)
        PROVE  UNCHANGED <<rx, currPkt>>
    <2>1. UNCHANGED bmsVars
      BY <1>7 DEF CmbRx, StartHandler, ACKHandler, RecoveryHandler, TokenHandler,
        CmbMainThread, CmbStart, CmbClear, CmbAnswer, LoseDown, LoseUp
    <2>2. QED BY <2>1 DEF bmsVars, status
  <1>8. QED
    BY <1>1, <1>2, <1>3, <1>4, <1>5, <1>6, <1>7 DEF Next

(* The token comes after all the OKs (mesh_cli.c:136) unless a timer       *)
(* expires inside a handler: that race (mesh_cli.c:283-308) is the only    *)
(* way to a token that is early, whatever else is lost, late or fails.     *)
THEOREM TokenOnlyEarlyByRace ==
  ASSUME Preempt = FALSE
  PROVE  Spec => []TokenAfterAllOks
  <1>1. Init => TokenAfterAllOks
    BY IdleFields DEF Init, TokenAfterAllOks
  <1>2. TypeOK /\ TokenAfterAllOks /\ PollBarrier' /\ [Next]_vars => TokenAfterAllOks'
    BY TokenStep
  <1>3. QED BY <1>1, <1>2, TypeCorrect, PollBarrierHolds, PTL DEF Spec

-----------------------------------------------------------------------------
(* The engine implements the scan in rounds of ScanCycle.                  *)

(* A new status is a move of the node in the scan.                         *)
LEMMA StatusMoves ==
  ASSUME IInv, NEW n \in Nodes, NEW c, currPkt' = [currPkt EXCEPT ![n] = c]
  PROVE  /\ ScanPhase[n] = PhaseOf(currPkt[n])
         /\ ScanPhase' = [ScanPhase EXCEPT ![n] = PhaseOf(c)]
  BY DEF ScanPhase, IInv, TypeOK

LEMMA ScanInit == Init => Scan!Init
  BY DEF Init, Scan!Init, ScanPhase, PhaseOf

LEMMA ScanStep ==
  ASSUME Preempt = FALSE, IInv, [Next]_vars
  PROVE  [Scan!Next]_ScanPhase
  <1> USE DEF Scan!Move
  <1>1. ASSUME UNCHANGED currPkt PROVE UNCHANGED ScanPhase
    BY <1>1 DEF ScanPhase
  <1>2. ASSUME NEW n \in Nodes, NEW c \in PktS, UpdateState(n, c)
        PROVE  currPkt' = [currPkt EXCEPT ![n] = StatesUpdate(currPkt[n], c)]
    BY <1>2 DEF UpdateState
  <1>3. ASSUME NEW n \in Nodes, OKHandler(n) PROVE [Scan!Next]_ScanPhase
    <2>1. CASE Accepted(currPkt[n], "RX_OK")
      <3>1. currPkt' = [currPkt EXCEPT ![n] = "RX_OK"]
        BY <1>3, <2>1 DEF OKHandler, UpdateState, StatesUpdate
      <3>2. PhaseOf(currPkt[n]) = "due" /\ PhaseOf("RX_OK") = "reported"
        BY <2>1 DEF Accepted, LegalPrev, PhaseOf
      <3>3. Scan!Report(n)
        BY <3>1, <3>2, StatusMoves DEF Scan!Report
      <3>4. QED BY <3>3 DEF Scan!Next
    <2>2. CASE ~Accepted(currPkt[n], "RX_OK")
      <3>1. UNCHANGED currPkt
        BY <1>3, <2>2 DEF OKHandler, UpdateState, StatesUpdate, IInv, TypeOK
      <3>2. QED BY <1>1, <3>1
    <2>3. QED BY <2>1, <2>2
  <1>4. ASSUME TakeData PROVE [Scan!Next]_ScanPhase
    <2>1. rx.at = "dataChecked" /\ RxAlive /\ rx.node \in Nodes
      BY <1>4, RxCases DEF TakeData, IInv, TypeOK, Idle
    <2>2. currPkt[rx.node] = "TX_TOKEN"
      BY <2>1 DEF IInv, CycleInv, AtPlace, Polling
    <2>3. PhaseOf(currPkt[rx.node]) = "polled" /\ PhaseOf("RX_DATA") = "read"
      BY <2>2 DEF PhaseOf
    <2>4. Scan!Read(rx.node)
      BY <1>4, <2>1, <2>3, StatusMoves DEF TakeData, Scan!Read
    <2>5. QED BY <2>1, <2>4 DEF Scan!Next
  <1>5. ASSUME StoreToken PROVE [Scan!Next]_ScanPhase
    <2>1. rx.at = "tokenChecked" /\ RxAlive /\ rx.node \in Nodes
      BY <1>5, RxCases DEF StoreToken, IInv, TypeOK, Idle
    <2>2. currPkt[rx.node] = "RX_OK"
      BY <2>1 DEF IInv, CycleInv, AtPlace
    <2>3. \A n \in Nodes : currPkt[n] \in {"RX_OK", "RX_DATA"}
      BY <2>1, InvImplies DEF PollBarrier
    <2>4. currPkt' = [currPkt EXCEPT ![rx.node] = "TX_TOKEN"]
      BY <1>5 DEF StoreToken
    <2>5. PhaseOf(currPkt[rx.node]) = "reported" /\ PhaseOf("TX_TOKEN") = "polled"
      BY <2>2 DEF PhaseOf
    <2>6. Scan!AllIn({"reported", "read"})
      BY <2>3 DEF Scan!AllIn, ScanPhase, PhaseOf
    <2>7. Scan!Poll(rx.node)
      BY <2>1, <2>4, <2>5, <2>6, StatusMoves DEF Scan!Poll
    <2>8. QED BY <2>1, <2>7 DEF Scan!Next
  <1>6. ASSUME StoreAck PROVE [Scan!Next]_ScanPhase
    <2>1. rx.at = "ackChecked" /\ RxAlive /\ rx.node \in Nodes
      BY <1>6, RxCases DEF StoreAck, IInv, TypeOK, Idle
    <2>2. currPkt[rx.node] = "RX_DATA"
      BY <2>1 DEF IInv, CycleInv, AtPlace
    <2>3. \A n \in Nodes : currPkt[n] \in {"RX_DATA", "TX_ACK"}
      BY <2>1, InvImplies DEF AckBarrier
    <2>4. currPkt' = [currPkt EXCEPT ![rx.node] = "TX_ACK"]
      BY <1>6 DEF StoreAck
    <2>5. PhaseOf(currPkt[rx.node]) = "read" /\ PhaseOf("TX_ACK") = "due"
      BY <2>2 DEF PhaseOf
    <2>6. Scan!AllIn({"read", "due"})
      BY <2>3 DEF Scan!AllIn, ScanPhase, PhaseOf
    <2>7. Scan!Release(rx.node)
      BY <2>1, <2>4, <2>5, <2>6, StatusMoves DEF Scan!Release
    <2>8. QED BY <2>1, <2>7 DEF Scan!Next
  <1>7. ASSUME NEW n \in Nodes, OkExpiry(n) PROVE [Scan!Next]_ScanPhase
    <2>1. currPkt[n] = "TX_ACK"
      BY <1>7, Expiring DEF OkExpiry
    <2>2. CASE UNCHANGED currPkt
      BY <1>1, <2>2
    <2>3. CASE UpdateState(n, "TX_RECOVER")
      <3>1. currPkt' = [currPkt EXCEPT ![n] = "TX_RECOVER"]
        BY <2>1, <2>3 DEF UpdateState, StatesUpdate, Accepted, LegalPrev, PktS
      <3>2. PhaseOf(currPkt[n]) = "due" /\ PhaseOf("TX_RECOVER") = "due"
        BY <2>1 DEF PhaseOf
      <3>3. ScanPhase' = [ScanPhase EXCEPT ![n] = "due"] /\ ScanPhase[n] = "due"
        BY <3>1, <3>2, StatusMoves
      <3>4. UNCHANGED ScanPhase
        BY <3>3 DEF ScanPhase
      <3>5. QED BY <3>4
    <2>4. QED BY <1>7, <2>2, <2>3 DEF OkExpiry
  <1>8. ASSUME NEW n \in Nodes, DataExpiry(n) PROVE [Scan!Next]_ScanPhase
    <2>1. currPkt[n] = "TX_TOKEN"
      BY <1>8, Expiring DEF DataExpiry
    <2>2. currPkt' = [currPkt EXCEPT ![n] = "TX_RECOVER"]
      BY <1>8, <2>1 DEF DataExpiry, RecoverStatus, UpdateState, StatesUpdate, Accepted, LegalPrev, PktS
    <2>3. PhaseOf(currPkt[n]) = "polled" /\ PhaseOf("TX_RECOVER") = "due"
      BY <2>1 DEF PhaseOf
    <2>4. Scan!Lose(n)
      BY <2>2, <2>3, StatusMoves DEF Scan!Lose
    <2>5. QED BY <2>4 DEF Scan!Next
  <1>9. MainStart \/ RxSendFails \/ UNCHANGED vars => UNCHANGED currPkt
    BY DEF MainStart, RxSendFails, vars, bmsVars, status
  <1>10. QueueOk \/ LoadCnt \/ CountOk \/ CheckData \/ QueueData \/ Dispatch \/ GetAddr
         \/ SendToken \/ CheckToken \/ ArmDataTimer \/ AckLoop \/ GetData
         \/ SendAck \/ CheckAck \/ ArmOkTimer => UNCHANGED currPkt
    BY DEF QueueOk, LoadCnt, CountOk, CheckData, QueueData, Dispatch, GetAddr, SendToken,
      CheckToken, ArmDataTimer, AckLoop, GetData, SendAck, CheckAck, ArmOkTimer, status
  <1>11. \A n \in Nodes :
           DataHandler(n) \/ CmbRx(n) \/ CmbMainThread(n) \/ LoseDown(n) \/ LoseUp(n) =>
             UNCHANGED currPkt
    BY DEF DataHandler, CmbRx, StartHandler, ACKHandler, RecoveryHandler, TokenHandler,
      CmbMainThread, CmbStart, CmbClear, CmbAnswer, LoseDown, LoseUp, bmsVars, status
  <1>12. QED
    BY <1>1, <1>3, <1>4, <1>5, <1>6, <1>7, <1>8, <1>9, <1>10, <1>11 DEF Next, RxThread

(* Every behaviour of the engine is a scan in rounds.                      *)
THEOREM ImplementsScan ==
  ASSUME Preempt = FALSE
  PROVE  Spec => ScanSpec
  <1>1. Init => Scan!Init
    BY ScanInit
  <1>2. IInv /\ [Next]_vars => [Scan!Next]_ScanPhase
    BY ScanStep
  <1>3. QED BY <1>1, <1>2, CycleInvariant, PTL DEF Spec, ScanSpec, Scan!Spec

Abs == INSTANCE ScanProofs WITH phase <- ScanPhase

(* One token is outstanding at a time, also when timers expire early and   *)
(* when a send has failed: nodes never answer a poll at the same time.     *)
OneToken ==
  \A m, n \in Nodes : currPkt[m] = "TX_TOKEN" /\ currPkt[n] = "TX_TOKEN" => m = n

(* What ScanCycle promises holds of the engine, since the engine           *)
(* implements it.                                                          *)
THEOREM OneTokenHolds ==
  ASSUME Preempt = FALSE
  PROVE  Spec => []OneToken
  <1>1. ScanSpec => []Abs!OnePolled
    <2>1. Scan!Init => Abs!Init
      BY DEF Scan!Init, Abs!Init
    <2>2. [Scan!Next]_ScanPhase => [Abs!Next]_ScanPhase
      BY DEF Scan!Next, Scan!Report, Scan!Poll, Scan!Read, Scan!Release, Scan!Lose, Scan!Move,
        Scan!AllIn, Abs!Next, Abs!Report, Abs!Poll, Abs!Read, Abs!Release, Abs!Lose,
        Abs!Move, Abs!AllIn
    <2>3. QED BY <2>1, <2>2, Abs!OnePolledHolds, PTL DEF ScanSpec, Scan!Spec, Abs!Spec
  <1>2. Abs!OnePolled => OneToken
    BY DEF Abs!OnePolled, OneToken, ScanPhase, PhaseOf
  <1>3. QED BY <1>1, <1>2, ImplementsScan, PTL
=============================================================================
