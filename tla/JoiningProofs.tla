--------------------------- MODULE JoiningProofs ---------------------------
(***************************************************************************)
(* Slots, addresses and the start of the first cycle, for any number of    *)
(* CMBs, nodes, slots, requests, restarts and losses.                      *)
(*                                                                         *)
(* None of the properties is inductive.  As long as a slot of the log is   *)
(* free, requests fill the log from its beginning (Prefix), so the address *)
(* search stops exactly at BASE_ADDR + the slot (FirstFree below); all the *)
(* addresses given away so far lie below that (Below) and no two messages  *)
(* or devices have the same one (Distinct).  START and the OKs exist only  *)
(* after forming (Before), which is when the count of OKs is the number of *)
(* slots that reported (Counted).                                          *)
(***************************************************************************)
EXTENDS Joining, NumberProofs, FiniteSetTheorems

Prefix ==
  /\ \A i \in InLog : slot[i] = "INACTIVE" <=> i >= active
  /\ \A i \in InLog : i < active => clientAddr[i] = BASE_ADDR + i
  /\ active <= NodesNum => \A i \in Slots : i >= active => clientAddr[i] = 0

(* START has not been sent.                                                *)
Forming == bmsMain \in {"forming", "formed"}
Before ==
  /\ bmsMain # "forming" => active >= NodesNum
  /\ Forming => /\ starts = {} /\ oks = {} /\ ~cycle
                /\ \A c \in Cmbs : phase[c] \notin {"started", "running"}
                /\ \A i \in InLog : slot[i] # "ACTIVE"

(* A CMB past the request has an address of its own.                       *)
Joined ==
  \A c \in Cmbs :
    phase[c] \in {"joined", "waitStart", "started", "running"} =>
      meshAddr[c] # NODE_CMB_DEFADDR

Below ==
  active <= NodesNum =>
    /\ \A r \in replies : r.addr < BASE_ADDR + active
    /\ \A c \in Cmbs : meshAddr[c] < BASE_ADDR + active
    /\ \A o \in oks : o.addr < BASE_ADDR + active

Distinct ==
  active <= NodesNum =>
    /\ \A r, s \in replies : r.addr = s.addr => r = s
    /\ \A c \in Cmbs : \A r \in replies : meshAddr[c] # r.addr
    /\ \A c, d \in Cmbs :
         meshAddr[c] = meshAddr[d] => c = d \/ meshAddr[c] = NODE_CMB_DEFADDR

Active == {i \in InLog : slot[i] = "ACTIVE"}
Counted ==
  active <= NodesNum =>
    IF cycle THEN Active = InLog ELSE addrCnt = Cardinality(Active)

IInv == TypeOK /\ Prefix /\ Before /\ Joined /\ Below /\ Distinct /\ Counted

-----------------------------------------------------------------------------
(* The address search.                                                     *)

LEMMA Bounds ==
  /\ IsFiniteSet(Cmbs) /\ NodesNum \in Nat /\ NodesNum > 0 /\ MaxClients \in Nat
  /\ NodesNum <= MaxClients /\ MAX_ADDR \in Nat /\ BASE_ADDR + NodesNum < MAX_ADDR
  /\ MaxAttempts \in Nat /\ MaxReboots \in Nat /\ MaxLosses \in Nat
  BY JoiningAssumption

(* The address search ends, at the latest behind the last address.         *)
LEMMA NextAddrType ==
  ASSUME NEW used
  PROVE  NextAddr(used) \in BASE_ADDR..MAX_ADDR
  <1> DEFINE S == {a \in BASE_ADDR..MAX_ADDR : a = MAX_ADDR \/ ~Taken(used, a)}
  <1>1. S \in SUBSET Nat /\ MAX_ADDR \in S
    BY Bounds DEF BASE_ADDR
  <1>2. Min(S) \in S
    <2> HIDE DEF S
    <2>1. QED BY <1>1, LeastElement
  <1>3. QED BY <1>2 DEF NextAddr

(* While the log has a free slot, the first search stops at slot active.   *)
LEMMA FirstFreeSlot ==
  ASSUME IInv, NEW i \in Stops, Free # {}
  PROVE  i = active /\ active < NodesNum /\ Forming
  <1>1. i = Min(Free) /\ Free \in SUBSET Nat
    BY Bounds DEF Stops, Free, InLog
  <1>2. i \in Free /\ \A y \in Free : i <= y
    BY <1>1, LeastElement
  <1>3. i \in InLog /\ i >= active /\ i \in Nat /\ active \in Nat
    BY <1>2, Bounds DEF Free, IInv, Prefix, TypeOK, InLog
  <1>4. active \in InLog
    BY <1>3, Bounds DEF InLog
  <1>5. active \in Free
    BY <1>4, <1>3 DEF IInv, Prefix, Free
  <1>6. i = active /\ active < NodesNum
    BY <1>2, <1>3, <1>4, <1>5, Bounds DEF InLog
  <1>7. Forming
    BY <1>6, <1>3, Bounds DEF IInv, Before, Forming
  <1>8. QED BY <1>6, <1>7

(* ... and the second search at the address that belongs to that slot,     *)
(* whatever the memory behind the log holds.                               *)
LEMMA FirstFreeAddr ==
  ASSUME IInv, NEW i \in Stops, NEW B \in SUBSET Behind, Free # {}
  PROVE  NextAddr(Paired \cup B \cup {i}) = BASE_ADDR + active
  <1> DEFINE used == Paired \cup B \cup {i}
             S == {a \in BASE_ADDR..MAX_ADDR : a = MAX_ADDR \/ ~Taken(used, a)}
             a0 == BASE_ADDR + active
  <1>1. i = active /\ active < NodesNum /\ active \in Nat /\ Forming
    BY FirstFreeSlot DEF IInv, TypeOK
  <1>2. \A j \in Paired : j \in Nat /\ j < active /\ clientAddr[j] = BASE_ADDR + j
    BY <1>1, Bounds DEF Paired, IInv, Prefix, InLog
  <1>3. \A j \in B \cup {i} : clientAddr[j] = 0
    BY <1>1, Bounds DEF Behind, Slots, IInv, Prefix
  <1>4. ~Taken(used, a0)
    BY <1>1, <1>2, <1>3 DEF Taken, BASE_ADDR
  <1>5. a0 \in S /\ S \in SUBSET Nat
    BY <1>1, <1>4, Bounds DEF BASE_ADDR
  <1>6. ASSUME NEW a \in S PROVE a0 <= a
    <2> SUFFICES ASSUME a < a0 PROVE FALSE
      BY <1>1, Bounds DEF BASE_ADDR
    <2> DEFINE j == a - BASE_ADDR
    <2>1. a \in BASE_ADDR..MAX_ADDR /\ a # MAX_ADDR /\ ~Taken(used, a)
      BY <1>1, <1>6, Bounds DEF BASE_ADDR
    <2>2. j \in InLog /\ j < active /\ a = BASE_ADDR + j
      BY <2>1, <1>1, Bounds DEF BASE_ADDR, InLog
    <2>3. slot[j] # "INACTIVE" /\ clientAddr[j] = a
      BY <2>2, <1>1 DEF IInv, Prefix, InLog
    <2>4. slot[j] = "PAIRED"
      BY <2>2, <2>3, <1>1 DEF IInv, Before, TypeOK
    <2>5. j \in used
      BY <2>2, <2>4 DEF Paired
    <2>6. j > 0 \/ a = BASE_ADDR
      BY <2>2 DEF BASE_ADDR, InLog
    <2>7. QED BY <2>1, <2>3, <2>5, <2>6 DEF Taken
  <1>7. Min(S) \in S /\ \A y \in S : Min(S) <= y
    <2> HIDE DEF S
    <2>1. QED BY <1>5, LeastElement
  <1>8. Min(S) = a0
    <2>1. Min(S) <= a0 /\ a0 <= Min(S) /\ Min(S) \in Nat /\ a0 \in Nat
      BY <1>5, <1>6, <1>7
    <2>2. QED BY <2>1
  <1>9. QED BY <1>8 DEF NextAddr

-----------------------------------------------------------------------------
(* The invariant.                                                          *)

LEMMA CountType == IsFiniteSet(Active) /\ Cardinality(Active) \in Nat
  <1>1. IsFiniteSet(InLog)
    BY Bounds, FS_Interval DEF InLog
  <1>2. QED BY <1>1, FS_Subset, FS_CardinalityType DEF Active

LEMMA InitIInv == Init => IInv
  <1> SUFFICES ASSUME Init PROVE IInv
    OBVIOUS
  <1>1. TypeOK
    <2>1. cycle \in BOOLEAN
      BY Zenon DEF Init
    <2>2. /\ slot \in [InLog -> {"INACTIVE", "PAIRED", "ACTIVE"}]
          /\ clientAddr \in [Slots -> Address \cup {0}]
          /\ active \in Nat /\ addrCnt \in Nat
          /\ meshAddr \in [Cmbs -> Address \cup {NODE_CMB_DEFADDR}]
          /\ attempt \in [Cmbs -> 0..MaxAttempts]
          /\ reboots \in 0..MaxReboots /\ losses \in 0..MaxLosses
      BY Bounds DEF Init
    <2>3. /\ phase \in [Cmbs -> {"boot", "waiting", "joined", "waitStart", "started",
                                 "running", "fatal"}]
          /\ bmsMain \in {"forming", "formed", "started", "fatal"}
          /\ bmsRx \in {"alive", "fatal"}
          /\ requests \subseteq Code /\ replies \subseteq [code : Code, addr : Address]
          /\ starts \subseteq Address \cup {0} /\ oks \subseteq [cmb : Cmbs, addr : Address]
      BY DEF Init
    <2>4. QED BY <2>1, <2>2, <2>3 DEF TypeOK
  <1>2. Prefix
    BY DEF Init, Prefix, InLog
  <1>3. Before /\ Below /\ Joined
    BY DEF Init, Before, Below, Joined, Forming, BASE_ADDR, NODE_CMB_DEFADDR
  <1>4. Distinct
    BY DEF Init, Distinct
  <1>5. Counted
    <2>1. Active = {}
      BY DEF Init, Active
    <2>2. QED BY <2>1, FS_EmptySet DEF Init, Counted
  <1>6. QED BY <1>1, <1>2, <1>3, <1>4, <1>5 DEF IInv

(* A request that finds the log full: the only slots and addresses that    *)
(* change are behind the log, and more were given away than there are      *)
(* nodes, or nothing was.                                                  *)
LEMMA StepFull ==
  ASSUME IInv, NEW r \in requests, RXAddrRQHandler(r), Free = {}
  PROVE  IInv'
  <1>1. PICK i \in Stops, B \in SUBSET Behind :
          LET a == NextAddr(Paired \cup B \cup {i})
          IN Occupy(i) /\ IF Usable(a) THEN Join(r, i, a) ELSE NoAddrLeft
    BY DEF RXAddrRQHandler
  <1> DEFINE a == NextAddr(Paired \cup B \cup {i})
  <1>2. a \in BASE_ADDR..MAX_ADDR
    BY NextAddrType
  <1>3. i \in Behind /\ i \in Slots /\ i \notin InLog
    BY <1>1, Bounds DEF Stops, Behind, Slots, InLog
  <1>4. UNCHANGED slot
    BY <1>1, <1>3 DEF Occupy
  <1>5. active \in Nat /\ active >= NodesNum
    <2>1. \A j \in InLog : slot[j] # "INACTIVE"
      BY DEF Free
    <2>2. active \in Nat
      BY DEF IInv, TypeOK
    <2>3. ~ (active < NodesNum)
      BY <2>1, <2>2, Bounds DEF IInv, Prefix, InLog
    <2>4. QED BY <2>2, <2>3, Bounds
  <1>6. CASE ~Usable(a)
    <2>1. UNCHANGED <<active, clientAddr, replies>> /\ bmsRx' = "fatal"
      BY <1>1, <1>6 DEF NoAddrLeft
    <2>2. TypeOK'
      BY <2>1, <1>4 DEF IInv, TypeOK, RXAddrRQHandler, cmbVars
    <2>3. Prefix' /\ Before' /\ Below' /\ Distinct' /\ Counted' /\ Joined'
      BY <2>1, <1>4 DEF IInv, Joined, Prefix, Before, Forming, Below, Distinct, Counted, Active,
        RXAddrRQHandler, cmbVars
    <2>4. QED BY <2>2, <2>3 DEF IInv
  <1>7. CASE Usable(a)
    <2>1. Join(r, i, a) /\ a \in Address
      BY <1>1, <1>2, <1>7, Bounds DEF Usable, Address, BASE_ADDR
    <2>2. /\ active' = active + 1 /\ active' > NodesNum /\ active' \in Nat
          /\ clientAddr' \in [Slots -> Address \cup {0}]
          /\ \A j \in InLog : clientAddr'[j] = clientAddr[j]
      BY <2>1, <1>3, <1>5, Bounds DEF Join, IInv, TypeOK, InLog, Slots
    <2>3. replies' \subseteq [code : Code, addr : Address]
      BY <2>1 DEF Join, IInv, TypeOK
    <2>4. bmsRx' \in {"alive", "fatal"}
      BY <2>1 DEF Join, IInv, TypeOK
    <2>5. TypeOK'
      BY <2>2, <2>3, <2>4, <1>4 DEF IInv, TypeOK, RXAddrRQHandler, cmbVars
    <2>6. ~ (active' <= NodesNum)
      BY <2>2, Bounds
    <2>7. Below' /\ Distinct' /\ Counted'
      BY <2>6 DEF Below, Distinct, Counted
    <2>8. Prefix'
      BY <2>2, <2>6, <1>4, <1>5, Bounds DEF IInv, Prefix, InLog
    <2>9. Before'
      BY <2>2, <1>4, <1>5, Bounds DEF IInv, Before, Forming, RXAddrRQHandler, cmbVars
    <2>10. Joined'
      BY DEF IInv, Joined, RXAddrRQHandler, cmbVars
    <2>11. QED BY <2>5, <2>7, <2>8, <2>9, <2>10 DEF IInv
  <1>8. QED BY <1>6, <1>7

(* A request that finds a free slot takes slot active and its address.     *)
LEMMA StepFree ==
  ASSUME IInv, NEW r \in requests, RXAddrRQHandler(r), Free # {}
  PROVE  IInv'
  <1>1. PICK i \in Stops, B \in SUBSET Behind :
          LET a == NextAddr(Paired \cup B \cup {i})
          IN Occupy(i) /\ IF Usable(a) THEN Join(r, i, a) ELSE NoAddrLeft
    BY DEF RXAddrRQHandler
  <1> DEFINE a == NextAddr(Paired \cup B \cup {i})
             n == active
  <1>2. /\ i = n /\ n < NodesNum /\ n \in Nat /\ Forming /\ n \in InLog /\ n \in Slots
        /\ a = BASE_ADDR + n
    <2>1. i = n /\ n < NodesNum /\ n \in Nat /\ Forming
      BY FirstFreeSlot DEF IInv, TypeOK
    <2>2. a = BASE_ADDR + n
      BY FirstFreeAddr
    <2>3. n \in InLog /\ n \in Slots
      BY <2>1, Bounds DEF InLog, Slots
    <2>4. QED BY <2>1, <2>2, <2>3
  <1>3. Usable(a) /\ a \in Address
    BY <1>2, Bounds DEF Usable, Address, BASE_ADDR
  <1>4. /\ slot' = [slot EXCEPT ![n] = "PAIRED"] /\ slot[n] = "INACTIVE"
        /\ active' = n + 1
        /\ clientAddr' = [clientAddr EXCEPT ![n] = BASE_ADDR + n]
        /\ bmsRx' \in {"alive", "fatal"}
        /\ replies' \subseteq replies \cup {[code |-> r, addr |-> BASE_ADDR + n]}
        /\ UNCHANGED <<bmsMain, addrCnt, cycle, phase, meshAddr, attempt, starts, oks, reboots,
                       losses>>
        /\ requests' \subseteq requests
    <2>1. slot' = [slot EXCEPT ![n] = "PAIRED"] /\ slot[n] = "INACTIVE"
      BY <1>1, <1>2 DEF Occupy, IInv, TypeOK, Prefix
    <2>2. Join(r, i, a)
      BY <1>1, <1>3
    <2>3. /\ active' = n + 1
          /\ clientAddr' = [clientAddr EXCEPT ![n] = BASE_ADDR + n]
          /\ bmsRx' \in {"alive", "fatal"}
          /\ replies' \subseteq replies \cup {[code |-> r, addr |-> BASE_ADDR + n]}
      BY <2>2, <1>2 DEF Join, IInv, TypeOK
    <2>4. /\ UNCHANGED <<bmsMain, addrCnt, cycle, phase, meshAddr, attempt, starts, oks,
                         reboots, losses>>
          /\ requests' \subseteq requests
      BY DEF RXAddrRQHandler, cmbVars
    <2>5. QED BY <2>1, <2>3, <2>4
  <1> HIDE DEF a, n
  <1>5. TypeOK'
    <2>1. r \in Code /\ BASE_ADDR + n \in Address
      BY <1>2, <1>3 DEF IInv, TypeOK
    <2>2. [code |-> r, addr |-> BASE_ADDR + n] \in [code : Code, addr : Address]
      BY <2>1
    <2>3. replies' \subseteq [code : Code, addr : Address]
      BY <1>4, <2>2 DEF IInv, TypeOK
    <2>4. slot' \in [InLog -> {"INACTIVE", "PAIRED", "ACTIVE"}]
      BY <1>2, <1>4 DEF IInv, TypeOK
    <2>5. clientAddr' \in [Slots -> Address \cup {0}]
      BY <2>1, <1>4, <1>2 DEF IInv, TypeOK
    <2>6. requests' \subseteq Code /\ active' \in Nat
      BY <1>4, <1>2 DEF IInv, TypeOK
    <2>7. QED BY <1>4, <2>3, <2>4, <2>5, <2>6 DEF IInv, TypeOK
  <1>6. Prefix'
    <2>1. n = active
      BY DEF n
    <2>2. ASSUME NEW j \in InLog
          PROVE  /\ slot'[j] = "INACTIVE" <=> j >= active'
                 /\ j < active' => clientAddr'[j] = BASE_ADDR + j
      <3>1. j \in Nat /\ j \in Slots
        BY Bounds DEF InLog, Slots
      <3>2. CASE j = n
        BY <3>1, <3>2, <1>2, <1>4 DEF IInv, TypeOK
      <3>3. CASE j # n
        BY <3>1, <3>3, <2>1, <1>2, <1>4 DEF IInv, TypeOK, Prefix
      <3>4. QED BY <3>2, <3>3
    <2>3. ASSUME NEW j \in Slots, j >= active'
          PROVE  clientAddr'[j] = 0
      BY <2>1, <2>3, <1>2, <1>4, Bounds DEF IInv, TypeOK, Prefix, Slots
    <2>4. QED BY <2>2, <2>3 DEF Prefix
  <1>7. Before'
    <2>1. bmsMain = "forming"
      BY <1>2, Bounds DEF IInv, Before, n
    <2>2. ~cycle'
      BY Zenon, <1>2, <1>4 DEF IInv, Before
    <2>3. \A j \in InLog : slot'[j] # "ACTIVE"
      BY <1>2, <1>4 DEF IInv, TypeOK, Before
    <2>4. /\ starts' = {} /\ oks' = {}
          /\ \A c \in Cmbs : phase'[c] \notin {"started", "running"}
      BY <1>2, <1>4 DEF IInv, Before
    <2>5. QED BY <2>1, <2>2, <2>3, <2>4, <1>4 DEF Before
  <1>8. Below'
    BY <1>2, <1>4, Bounds DEF IInv, TypeOK, Below, Before, Forming, n, Address, BASE_ADDR, NODE_CMB_DEFADDR
  <1>9. Distinct'
    BY <1>2, <1>4, Bounds DEF IInv, TypeOK, Below, Distinct, n, Address, BASE_ADDR, NODE_CMB_DEFADDR
  <1>10. Counted'
    <2>1. Active' = Active /\ ~cycle
      BY <1>2, <1>4 DEF IInv, TypeOK, Active, Before, Forming
    <2>2. QED BY <2>1, <1>2, <1>4, Bounds DEF IInv, Counted, n
  <1>11. Joined'
    BY <1>4 DEF IInv, Joined
  <1>12. QED BY <1>5, <1>6, <1>7, <1>8, <1>9, <1>10, <1>11 DEF IInv

(* START goes to the addresses of some slots, or none.                     *)
LEMMA StepSendStart == IInv /\ SendStart => IInv'
  <1> SUFFICES ASSUME IInv, SendStart PROVE IInv'
    OBVIOUS
  <1>1. /\ bmsMain = "formed" /\ bmsMain' \in {"started", "fatal"} /\ addrCnt' = 0
        /\ UNCHANGED <<bmsRx, slot, clientAddr, active, cycle, phase, meshAddr, attempt,
                       requests, replies, oks, reboots, losses>>
    BY DEF SendStart, cmbVars
  <1>2. starts' \subseteq Address \cup {0}
    <2>1. \A i \in Slots : clientAddr[i] \in Address \cup {0}
      BY DEF IInv, TypeOK
    <2>2. \A B \in SUBSET Behind : \A i \in Paired \cup B : i \in Slots
      BY Bounds DEF Behind, Paired, InLog, Slots
    <2>3. QED BY <2>1, <2>2 DEF SendStart
  <1>3. TypeOK'
    BY <1>1, <1>2 DEF IInv, TypeOK
  <1>4. Prefix' /\ Below' /\ Distinct' /\ Joined'
    BY <1>1 DEF IInv, Prefix, Below, Distinct, Joined
  <1>5. Before'
    BY <1>1 DEF IInv, Before, Forming
  <1>6. Counted'
    <2>1. Active = {} /\ Active' = {} /\ ~cycle /\ cycle' = cycle
      BY <1>1 DEF IInv, Before, Forming, Active
    <2>2. QED BY <2>1, <1>1, FS_EmptySet DEF Counted
  <1>7. QED BY <1>3, <1>4, <1>5, <1>6 DEF IInv

(* The first OK of a node of the log adds it to those that reported.       *)
LEMMA StepOK ==
  ASSUME IInv, NEW o \in oks, OKHandler(o)
  PROVE  IInv'
  <1> DEFINE k == o.addr - BASE_ADDR
  <1>1. /\ ~Forming /\ active >= NodesNum /\ active \in Nat /\ addrCnt \in Nat
        /\ k \in Nat /\ (active <= NodesNum => k \in InLog)
    BY Bounds DEF IInv, Before, Forming, Below, TypeOK, InLog, Address, BASE_ADDR
  <1>2. /\ oks' \subseteq oks
        /\ UNCHANGED <<bmsMain, bmsRx, clientAddr, active, phase, meshAddr, attempt, requests,
                       replies, starts, reboots, losses>>
    BY DEF OKHandler, cmbVars
  <1>3. PICK accepted \in Accepted(k) :
          IF accepted
            THEN /\ slot' = [j \in InLog |-> IF j = k THEN "ACTIVE" ELSE slot[j]]
                 /\ CountOk
            ELSE UNCHANGED <<slot, addrCnt, cycle>>
    BY DEF OKHandler
  <1>4. CASE ~accepted
    <2>1. UNCHANGED <<slot, addrCnt, cycle>>
      BY <1>3, <1>4
    <2>2. TypeOK'
      BY <1>2, <2>1 DEF IInv, TypeOK
    <2>3. QED BY <1>1, <1>2, <2>1, <2>2
            DEF IInv, Prefix, Before, Forming, Below, Distinct, Counted, Active, Joined
  <1>5. CASE accepted
    <2>1. /\ slot' = [j \in InLog |-> IF j = k THEN "ACTIVE" ELSE slot[j]]
          /\ CountOk
          /\ k \in InLog => slot[k] = "PAIRED"
      BY <1>3, <1>5 DEF Accepted
    <2>2. addrCnt' \in Nat /\ cycle' \in BOOLEAN
      BY <2>1, <1>1 DEF CountOk, IInv, TypeOK
    <2>3. slot' \in [InLog -> {"INACTIVE", "PAIRED", "ACTIVE"}]
      BY <2>1 DEF IInv, TypeOK
    <2>4. TypeOK'
      BY <1>2, <2>2, <2>3 DEF IInv, TypeOK
    <2>5. \A j \in InLog : slot'[j] = "INACTIVE" <=> slot[j] = "INACTIVE"
      BY <2>1
    <2>6. Prefix'
      BY <1>2, <2>5 DEF IInv, Prefix
    <2>7. Before' /\ Below' /\ Distinct' /\ Joined'
      BY <1>1, <1>2 DEF IInv, Before, Forming, Below, Distinct, Joined
    <2>8. ASSUME active <= NodesNum
          PROVE  IF cycle' THEN Active' = InLog ELSE addrCnt' = Cardinality(Active')
      <3>1. k \in InLog /\ slot[k] = "PAIRED" /\ active = NodesNum
        <4>1. k \in InLog
          BY <1>1, <2>8
        <4>2. active = NodesNum
          BY <1>1, <2>8, Bounds
        <4>3. QED BY <4>1, <4>2, <2>1
      <3>2. k \notin Active /\ Active' = Active \cup {k}
        BY <3>1, <2>1 DEF Active
      <3>3. ~cycle /\ addrCnt = Cardinality(Active)
        BY <3>1, <3>2, <2>8 DEF IInv, Counted
      <3>4. IsFiniteSet(Active') /\ Cardinality(Active') = addrCnt + 1
        BY <3>2, <3>3, CountType, FS_AddElement
      <3>5. CASE addrCnt + 1 = active
        <4>1. AllReported(addrCnt + 1)
          BY <3>5 DEF AllReported
        <4>2. cycle'
          BY Zenon, <4>1, <2>1 DEF CountOk
        <4>3. IsFiniteSet(InLog) /\ Cardinality(InLog) = NodesNum /\ Active' \subseteq InLog
          BY FS_Interval, Bounds, <3>2, <3>1 DEF InLog, Active
        <4>4. Active' = InLog
          BY <4>3, <3>1, <3>4, <3>5, FS_Subset
        <4>5. QED BY <4>2, <4>4
      <3>6. CASE addrCnt + 1 # active
        <4>1. addrCnt' = addrCnt + 1 /\ cycle' = cycle
          BY <3>6, <3>3, <2>1 DEF CountOk, AllReported, IInv, TypeOK
        <4>2. QED BY <4>1, <3>3, <3>4
      <3>7. QED BY <3>5, <3>6
    <2>9. Counted'
      BY <2>8, <1>2 DEF Counted
    <2>10. QED BY <2>4, <2>6, <2>7, <2>9 DEF IInv
  <1>6. QED BY <1>4, <1>5

(* The reply reaches the one CMB whose last code it carries.               *)
LEMMA StepReply ==
  ASSUME IInv, NEW r \in replies, RXAddrRPHandler(r)
  PROVE  IInv'
  <1>1. /\ replies' = replies \ {r}
        /\ UNCHANGED <<bmsMain, bmsRx, slot, clientAddr, active, addrCnt, cycle, phase,
                       attempt, requests, starts, oks, reboots, losses>>
    BY DEF RXAddrRPHandler, bmsVars
  <1>2. \A c \in Cmbs : \/ meshAddr'[c] = meshAddr[c]
                        \/ meshAddr'[c] = r.addr /\ c = r.code.cmb
    BY DEF RXAddrRPHandler, Current
  <1>3. r.addr \in Address
    BY DEF IInv, TypeOK
  <1>4. meshAddr' \in [Cmbs -> Address \cup {NODE_CMB_DEFADDR}]
    BY <1>3 DEF RXAddrRPHandler, IInv, TypeOK
  <1>5. TypeOK'
    BY <1>1, <1>4 DEF IInv, TypeOK
  <1>6. Prefix' /\ Before' /\ Counted'
    BY <1>1 DEF IInv, Prefix, Before, Forming, Counted, Active
  <1>7. Below'
    BY <1>1, <1>2 DEF IInv, Below
  <1>8. Distinct'
    BY <1>1, <1>2 DEF IInv, Distinct
  <1>9. Joined'
    <2>1. r.addr # NODE_CMB_DEFADDR
      BY <1>3, Bounds DEF Address, BASE_ADDR, NODE_CMB_DEFADDR
    <2>2. QED BY <2>1, <1>1, <1>2 DEF IInv, Joined
  <1>10. QED BY <1>5, <1>6, <1>7, <1>8, <1>9 DEF IInv

(* A CMB that sends an OK, restarts or only moves on; a message that is    *)
(* taken or lost.                                                          *)
LEMMA StepCmb ==
  ASSUME IInv, NEW c \in Cmbs, CmbMain(c) \/ Reboot(c)
  PROVE  IInv'
  <1>1. CASE RequestAddress(c)
    <2>1. /\ attempt[c] + 1 \in 1..MaxAttempts
          /\ attempt' \in [Cmbs -> 0..MaxAttempts]
      BY <1>1, Bounds DEF RequestAddress, IInv, TypeOK
    <2>2. requests' \subseteq Code
      <3>1. [cmb |-> c, no |-> attempt[c] + 1] \in Code
        BY <2>1 DEF Code
      <3>2. QED BY <1>1, <3>1 DEF RequestAddress, IInv, TypeOK
    <2>3. /\ phase' = [phase EXCEPT ![c] = "waiting"] \/ phase' = [phase EXCEPT ![c] = "fatal"]
          /\ UNCHANGED <<bmsVars, meshAddr, replies, starts, oks, reboots, losses>>
      BY <1>1 DEF RequestAddress, SetPhase, CmbStuck
    <2>4. TypeOK'
      BY <2>1, <2>2, <2>3 DEF IInv, TypeOK, bmsVars
    <2>5. Before' /\ Joined'
      BY <2>3 DEF IInv, TypeOK, Before, Joined, Forming, bmsVars
    <2>6. Prefix' /\ Below' /\ Distinct' /\ Counted'
      BY <2>3 DEF IInv, Prefix, Below, Distinct, Counted, Active, bmsVars
    <2>7. QED BY <2>4, <2>5, <2>6 DEF IInv
  <1>2. CASE Acquired(c) \/ CmbMainStarts(c)
    <2>1. /\ phase' = [phase EXCEPT ![c] = "joined"] \/ phase' = [phase EXCEPT ![c] = "waitStart"]
          /\ UNCHANGED <<bmsVars, meshAddr, attempt, msgs, reboots, losses>>
      BY <1>2 DEF Acquired, CmbMainStarts, SetPhase
    <2>2. TypeOK' /\ Before'
      BY <2>1 DEF IInv, TypeOK, Before, Forming, bmsVars, msgs
    <2>3. Joined'
      <3>1. meshAddr[c] # NODE_CMB_DEFADDR
        BY <1>2 DEF Acquired, CmbMainStarts, IInv, Joined
      <3>2. QED BY <2>1, <3>1 DEF IInv, TypeOK, Joined, bmsVars
    <2>4. Prefix' /\ Below' /\ Distinct' /\ Counted'
      BY <2>1 DEF IInv, Prefix, Below, Distinct, Counted, Active, bmsVars, msgs
    <2>5. QED BY <2>2, <2>3, <2>4 DEF IInv
  <1>3. CASE SendOk(c)
    <2>1. phase[c] = "started" /\ ~Forming
      BY <1>3 DEF SendOk, IInv, Before
    <2>2. /\ phase' = [phase EXCEPT ![c] = "running"] \/ phase' = [phase EXCEPT ![c] = "fatal"]
          /\ oks' = oks \/ oks' = oks \cup {[cmb |-> c, addr |-> meshAddr[c]]}
          /\ UNCHANGED <<bmsVars, meshAddr, attempt, requests, replies, starts, reboots, losses>>
      BY <1>3 DEF SendOk, SetPhase, CmbStuck
    <2>3. oks' = oks \/ meshAddr[c] \in Address
      BY <1>3 DEF SendOk, IInv, TypeOK, Joined
    <2>4. TypeOK'
      BY <2>2, <2>3 DEF IInv, TypeOK, bmsVars
    <2>5. Before' /\ Joined'
      BY <2>1, <2>2 DEF IInv, TypeOK, Before, Joined, Forming, bmsVars
    <2>6. Prefix' /\ Below' /\ Distinct' /\ Counted'
      BY <2>2 DEF IInv, Prefix, Below, Distinct, Counted, Active, bmsVars
    <2>7. QED BY <2>4, <2>5, <2>6 DEF IInv
  <1>4. CASE Reboot(c)
    <2>1. /\ reboots' \in 0..MaxReboots
          /\ phase' = [phase EXCEPT ![c] = "boot"]
          /\ meshAddr' = [meshAddr EXCEPT ![c] = NODE_CMB_DEFADDR]
          /\ UNCHANGED <<bmsVars, attempt, msgs, losses>>
      BY <1>4, Bounds DEF Reboot, SetPhase, IInv, TypeOK
    <2>2. TypeOK' /\ Before' /\ Joined'
      BY <2>1 DEF IInv, TypeOK, Before, Joined, Forming, bmsVars, msgs
    <2>3. Prefix' /\ Counted'
      BY <2>1 DEF IInv, Prefix, Counted, Active, bmsVars, msgs
    <2>4. Below' /\ Distinct'
      BY <2>1, Bounds DEF IInv, TypeOK, Below, Distinct, bmsVars, msgs, Address, BASE_ADDR,
        NODE_CMB_DEFADDR
    <2>5. QED BY <2>2, <2>3, <2>4 DEF IInv
  <1>5. QED BY <1>1, <1>2, <1>3, <1>4 DEF CmbMain

LEMMA StepStart ==
  ASSUME IInv, NEW a \in starts, StartHandler(a)
  PROVE  IInv'
  <1>1. ~Forming
    BY DEF IInv, Before
  <1>2. /\ starts' \subseteq starts
        /\ phase' = [c \in Cmbs |->
                       IF meshAddr[c] = a /\ phase[c] \in {"waitStart", "running"}
                       THEN "started" ELSE phase[c]]
        /\ UNCHANGED <<bmsMain, bmsRx, slot, clientAddr, active, addrCnt, cycle, meshAddr,
                       attempt, requests, replies, oks, reboots, losses>>
    BY DEF StartHandler, bmsVars
  <1>3. TypeOK'
    BY <1>2 DEF IInv, TypeOK
  <1>4. Before' /\ Joined'
    BY <1>1, <1>2 DEF IInv, Before, Forming, Joined
  <1>5. Prefix' /\ Below' /\ Distinct' /\ Counted'
    BY <1>2 DEF IInv, Prefix, Below, Distinct, Counted, Active
  <1>6. QED BY <1>3, <1>4, <1>5 DEF IInv

LEMMA StepRest == IInv /\ (FormingEnds \/ Lose \/ UNCHANGED vars) => IInv'
  <1> SUFFICES ASSUME IInv, FormingEnds \/ Lose \/ UNCHANGED vars PROVE IInv'
    OBVIOUS
  <1>1. /\ requests' \subseteq requests /\ replies' \subseteq replies
        /\ starts' \subseteq starts /\ oks' \subseteq oks
        /\ UNCHANGED <<bmsRx, slot, clientAddr, active, addrCnt, cycle, phase, meshAddr,
                       attempt, reboots>>
    BY DEF FormingEnds, Lose, vars, bmsVars, cmbVars, msgs
  <1>2. /\ losses' \in 0..MaxLosses
        /\ \/ UNCHANGED bmsMain
           \/ bmsMain = "forming" /\ bmsMain' = "formed" /\ active = NodesNum
    BY Bounds DEF FormingEnds, AllJoined, Lose, vars, bmsVars, msgs, IInv, TypeOK
  <1>3. TypeOK'
    BY <1>1, <1>2 DEF IInv, TypeOK
  <1>4. Before'
    BY <1>1, <1>2, Bounds DEF IInv, Before, Forming
  <1>5. Prefix' /\ Joined' /\ Below' /\ Distinct' /\ Counted'
    BY <1>1 DEF IInv, Prefix, Joined, Below, Distinct, Counted, Active
  <1>6. QED BY <1>3, <1>4, <1>5 DEF IInv

LEMMA StepIInv == IInv /\ [Next]_vars => IInv'
  <1> SUFFICES ASSUME IInv, [Next]_vars PROVE IInv'
    OBVIOUS
  <1>1. ASSUME NEW r \in requests, RXAddrRQHandler(r) PROVE IInv'
    BY <1>1, StepFree, StepFull
  <1>2. ASSUME NEW r \in requests, NoSlotLeft(r) PROVE IInv'
    <2>1. requests' \subseteq requests /\ bmsRx' = "fatal"
      BY <1>2 DEF NoSlotLeft
    <2>2. QED BY <1>2, <2>1
            DEF NoSlotLeft, cmbVars, IInv, TypeOK, Prefix, Before, Forming, Joined, Below,
              Distinct, Counted, Active
  <1>3. ASSUME NEW o \in oks, OKHandler(o) PROVE IInv'
    BY <1>3, StepOK
  <1>4. CASE SendStart
    BY <1>4, StepSendStart
  <1>5. ASSUME NEW r \in replies, RXAddrRPHandler(r) PROVE IInv'
    BY <1>5, StepReply
  <1>6. ASSUME NEW a \in starts, StartHandler(a) PROVE IInv'
    BY <1>6, StepStart
  <1>7. ASSUME NEW c \in Cmbs, CmbMain(c) \/ Reboot(c) PROVE IInv'
    BY <1>7, StepCmb
  <1>8. CASE FormingEnds \/ Lose \/ UNCHANGED vars
    BY <1>8, StepRest
  <1>9. QED
    BY <1>1, <1>2, <1>3, <1>4, <1>5, <1>6, <1>7, <1>8 DEF Next, BmsRx, BmsMain, CmbRx

LEMMA JoiningInvariant == Spec => []IInv
  <1>1. QED BY InitIInv, StepIInv, PTL DEF Spec

-----------------------------------------------------------------------------
(* Every variable stays in its type; no address given away is MAX_ADDR.    *)
THEOREM JoiningTypeOK == Spec => []TypeOK
  <1>1. IInv => TypeOK
    BY DEF IInv
  <1>2. QED BY <1>1, JoiningInvariant, PTL

(* The two loops of mercury_netMgr_NewClient give a node of the log slot i *)
(* the address BASE_ADDR + i, whatever the memory behind the log holds.    *)
THEOREM SlotIsAddressHolds == Spec => []SlotIsAddress
  <1>1. IInv => SlotIsAddress
    <2> SUFFICES ASSUME IInv, NEW i \in InLog, slot[i] # "INACTIVE"
                 PROVE  clientAddr[i] = BASE_ADDR + i
      BY DEF SlotIsAddress
    <2>1. i \in Nat /\ active \in Nat /\ ~ (i >= active)
      BY DEF IInv, Prefix, TypeOK, InLog
    <2>2. QED BY <2>1 DEF IInv, Prefix
  <1>2. QED BY <1>1, JoiningInvariant, PTL

(* While no more addresses were given away than there are nodes, no two    *)
(* CMBs have or will get the same one, across retries, losses and restarts *)
(* (RXAddrRQHandler, RXAddrRPHandler).                                     *)
THEOREM AddressesUniqueHolds == Spec => []AddressesUnique
  <1>1. IInv => AddressesUnique
    <2> SUFFICES ASSUME IInv, active <= NodesNum, NEW c \in Cmbs, NEW d \in Cmbs, c # d,
                        NEW a \in (Held(c) \cup Coming(c)) \cap (Held(d) \cup Coming(d))
                 PROVE  FALSE
      BY DEF AddressesUnique
    <2>1. a \in Held(c) \/ \E r \in replies : r.code.cmb = c /\ r.addr = a
      BY DEF Coming
    <2>2. a \in Held(d) \/ \E r \in replies : r.code.cmb = d /\ r.addr = a
      BY DEF Coming
    <2>3. QED BY <2>1, <2>2 DEF IInv, Distinct, Held
  <1>2. QED BY <1>1, JoiningInvariant, PTL

(* mercury_mesh_forming returns only when the whole log is taken.          *)
THEOREM FormedMeansFullHolds == Spec => []FormedMeansFull
  <1>1. IInv => FormedMeansFull
    <2> SUFFICES ASSUME IInv, bmsMain # "forming"
                 PROVE  active >= NodesNum /\ \A i \in InLog : slot[i] # "INACTIVE"
      BY DEF FormedMeansFull, Free
    <2>1. active >= NodesNum /\ active \in Nat
      BY DEF IInv, Before, TypeOK
    <2>2. \A i \in InLog : ~ (i >= active)
      BY <2>1, Bounds DEF InLog
    <2>3. QED BY <2>1, <2>2 DEF IInv, Prefix
  <1>2. QED BY <1>1, JoiningInvariant, PTL

(* The OKHandler starts the first cycle when every node of the log has     *)
(* reported: addrCnt counts each of them once.                             *)
THEOREM CycleMeansAllReportedHolds == Spec => []CycleMeansAllReported
  <1>1. IInv => CycleMeansAllReported
    BY DEF IInv, Counted, Active, CycleMeansAllReported
  <1>2. QED BY <1>1, JoiningInvariant, PTL
=============================================================================
