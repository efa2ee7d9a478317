------------------------------ MODULE Joining ------------------------------
(***************************************************************************)
(* How the mesh forms: every CMB boots at one shared address and asks the  *)
(* BMS for one of its own (app_slave.c, mesh_cli.c), the BMS hands out a   *)
(* slot and an address per request (hg_netMgr.c), waits until it has given *)
(* away as many as there are nodes and sends START (main.c, hg_mesh.c).    *)
(* The model ends with the first token: from there on see Transaction.     *)
(*                                                                         *)
(* A CMB asks again when no answer came for two seconds, and a CMB that    *)
(* restarts asks like a new one; the BMS takes every request for a new     *)
(* node.  systemStateLog has NODES_NUM entries but the loops over it run   *)
(* to HG_NET_MAXCLIENTS: what they read behind its end is other memory, so *)
(* any value.  The threads of the BMS named here are cooperative, except   *)
(* for the one that waits for the nodes.                                   *)
(***************************************************************************)
EXTENDS Naturals, FiniteSets, FiniteSetsExt

CONSTANTS
  Cmbs,         (* the devices                                             *)
  NodesNum,     (* NODES_NUM                                               *)
  MaxClients,   (* HG_NET_MAXCLIENTS                                       *)
  MAX_ADDR,     (* end of the addresses                                    *)
  MaxAttempts,  (* bound: address requests per CMB                         *)
  MaxReboots,   (* bound: CMB restarts                                     *)
  MaxLosses,    (* bound: messages the mesh may lose                       *)
  SendMayFail   (* TRUE: bt_mesh_model_send may return an error            *)

BASE_ADDR == 16
NODE_CMB_DEFADDR == 1

ASSUME JoiningAssumption ==
  /\ IsFiniteSet(Cmbs)
  /\ NodesNum \in Nat \ {0} /\ MaxClients \in Nat
  /\ NodesNum <= MaxClients
  /\ MAX_ADDR \in Nat /\ BASE_ADDR + NodesNum < MAX_ADDR
  /\ {MaxAttempts, MaxReboots, MaxLosses} \subseteq Nat
  /\ SendMayFail \in BOOLEAN

VARIABLES
  bmsMain,    (* the thread that waits for the nodes, then sends START     *)
  bmsRx,      (* the RX thread of the BMS                                  *)
  slot,       (* systemStateLog[i].currNode                                *)
  clientAddr, (* NetState.client[i].addr                                   *)
  active,     (* NetState.hm.active                                        *)
  addrCnt,    (* OKs counted since START                                   *)
  cycle,      (* the OK phase is over, the first token is due              *)
  phase,      (* per CMB: where its main thread is                         *)
  meshAddr,   (* per CMB                                                   *)
  attempt,    (* per CMB: NetCli.addrToken, as the number of the request   *)
  requests, replies, starts, oks,   (* messages under way                  *)
  reboots, losses

bmsVars == <<bmsMain, bmsRx, slot, clientAddr, active, addrCnt, cycle>>
cmbVars == <<phase, meshAddr, attempt>>
msgs == <<requests, replies, starts, oks>>
vars == <<bmsVars, cmbVars, msgs, reboots, losses>>

Slots == 0..MaxClients - 1
Behind == NodesNum..MaxClients - 1    (* slots behind the end of the log   *)
InLog == 0..NodesNum - 1
Address == BASE_ADDR..MAX_ADDR - 1

(* A request carries a random 32-bit code; codes of different requests     *)
(* differ.                                                                 *)
Code == [cmb : Cmbs, no : 1..MaxAttempts]

TypeOK ==
  /\ bmsMain \in {"forming", "formed", "started", "fatal"}
  /\ bmsRx \in {"alive", "fatal"}
  /\ slot \in [InLog -> {"INACTIVE", "PAIRED", "ACTIVE"}]
  /\ clientAddr \in [Slots -> Address \cup {0}]
  /\ active \in Nat /\ addrCnt \in Nat
  /\ cycle \in BOOLEAN
  /\ phase \in [Cmbs -> {"boot", "waiting", "joined", "waitStart", "started",
                         "running", "fatal"}]
  /\ meshAddr \in [Cmbs -> Address \cup {NODE_CMB_DEFADDR}]
  /\ attempt \in [Cmbs -> 0..MaxAttempts]
  /\ requests \subseteq Code
  /\ replies \subseteq [code : Code, addr : Address]
  /\ starts \subseteq Address \cup {0}
  /\ oks \subseteq [cmb : Cmbs, addr : Address]
  /\ reboots \in 0..MaxReboots /\ losses \in 0..MaxLosses

(* mercury_netMgr_InitState and the static initialisers.                   *)
Init ==
  /\ bmsMain = "forming" /\ bmsRx = "alive"
  /\ slot = [i \in InLog |-> "INACTIVE"]
  /\ clientAddr = [i \in Slots |-> 0]
  /\ active = 0 /\ addrCnt = 0 /\ cycle = FALSE
  /\ phase = [c \in Cmbs |-> "boot"]
  /\ meshAddr = [c \in Cmbs |-> NODE_CMB_DEFADDR]
  /\ attempt = [c \in Cmbs |-> 0]
  /\ requests = {} /\ replies = {} /\ starts = {} /\ oks = {}
  /\ reboots = 0 /\ losses = 0

-----------------------------------------------------------------------------
(* BMS: mercury_netMgr_NewClient.                                          *)

(* Slots of the log that are INACTIVE.                                     *)
Free == {i \in InLog : slot[i] = "INACTIVE"}

(* Mutant: the last free slot.                                             *)
StopsLast == IF Free # {} THEN {Max(Free)} ELSE Behind
(* The slots the first loop may stop at: the first free one of the log;    *)
(* behind its end any, or none.                                            *)
Stops == IF Free # {} THEN {Min(Free)} ELSE Behind

(* used(i) is systemStateLog[i].currNode == PAIRED.  A match sets i = 0,   *)
(* which is followed by i++: slot 0 is looked at with the first address    *)
(* only.                                                                   *)
Taken(used, a) ==
  \E i \in used : clientAddr[i] = a /\ (i > 0 \/ a = BASE_ADDR)

(* The second loop: the first address that no slot has, or MAX_ADDR.       *)
NextAddr(used) ==
  Min({a \in BASE_ADDR..MAX_ADDR : a = MAX_ADDR \/ ~Taken(used, a)})

(* Mutant: one address too many.                                           *)
UsableEnd(a) == a <= MAX_ADDR
(* currAddr >= MAX_ADDR is fatal.                                          *)
Usable(a) == a < MAX_ADDR

Paired == {i \in InLog : slot[i] = "PAIRED"}

(* Mutant: the slot is not marked.                                         *)
OccupyNot(i) == UNCHANGED slot
Occupy(i) ==
  slot' = IF i \in InLog THEN [slot EXCEPT ![i] = "PAIRED"] ELSE slot

(* RXAddrRQHandler: NewClient marks slot i, looks for an address and       *)
(* counts the node, then sendAddress.                                      *)
Join(r, i, a) ==
  /\ active' = active + 1
  /\ clientAddr' = [clientAddr EXCEPT ![i] = a]
  /\ \/ replies' = replies \cup {[code |-> r, addr |-> a]} /\ UNCHANGED bmsRx
     \/ SendMayFail /\ bmsRx' = "fatal" /\ UNCHANGED replies

NoAddrLeft ==
  bmsRx' = "fatal" /\ UNCHANGED <<clientAddr, active, replies>>

RXAddrRQHandler(r) ==
  /\ bmsRx = "alive" /\ r \in requests
  /\ requests' = requests \ {r}
  /\ \E i \in Stops, B \in SUBSET Behind :
       LET a == NextAddr(Paired \cup B \cup {i})
       IN Occupy(i) /\ IF Usable(a) THEN Join(r, i, a) ELSE NoAddrLeft
  /\ UNCHANGED <<bmsMain, addrCnt, cycle, cmbVars, starts, oks, reboots, losses>>

(* No slot left: mercury_led_fatal(12).                                    *)
NoSlotLeft(r) ==
  /\ bmsRx = "alive" /\ r \in requests /\ Free = {}
  /\ requests' = requests \ {r}
  /\ bmsRx' = "fatal"
  /\ UNCHANGED <<bmsMain, slot, clientAddr, active, addrCnt, cycle, cmbVars,
                 replies, starts, oks, reboots, losses>>

-----------------------------------------------------------------------------
(* BMS: mercury_mesh_forming and mercury_mesh_sendStart.                   *)

(* Mutant: waits for one node more.                                        *)
OneMoreJoined == active > NodesNum
(* NetState.hm.active!=NODES_NUM, looked at every 500 ms.                  *)
AllJoined == active = NodesNum

FormingEnds ==
  /\ bmsMain = "forming" /\ AllJoined
  /\ bmsMain' = "formed"
  /\ UNCHANGED <<bmsRx, slot, clientAddr, active, addrCnt, cycle, cmbVars, msgs,
                 reboots, losses>>

(* The loop to hm.active, which may have grown.  A send that fails leaves  *)
(* the rest of the slots without a START.                                  *)
SendStart ==
  /\ bmsMain = "formed"
  /\ addrCnt' = 0
  /\ \E B \in SUBSET Behind :
       LET due == {i \in Paired \cup B : i < active}
       IN \/ /\ bmsMain' = "started"
             /\ starts' = {clientAddr[i] : i \in due}
          \/ /\ SendMayFail /\ bmsMain' = "fatal"
             /\ \E k \in due : starts' = {clientAddr[i] : i \in due \cap 0..k-1}
  /\ UNCHANGED <<bmsRx, slot, clientAddr, active, cycle, cmbVars, requests,
                 replies, oks, reboots, losses>>

-----------------------------------------------------------------------------
(* BMS: OKHandler, up to the first token.                                  *)

(* Mutant: addrCnt compared with the count of a one-node build.            *)
AnyReported(cnt) == cnt >= 1
(* addrCnt==NetState.hm.active.                                            *)
AllReported(cnt) == cnt = active

CountOk ==
  /\ cycle' = (cycle \/ AllReported(addrCnt + 1))
  /\ addrCnt' = IF AllReported(addrCnt + 1) THEN 0 ELSE addrCnt + 1

(* updateOKInfo takes the first OK of a node; the status of an address     *)
(* past the log is other memory, so either.                                *)
Accepted(i) == IF i \in InLog THEN {slot[i] = "PAIRED"} ELSE BOOLEAN

OKHandler(o) ==
  /\ bmsRx = "alive" /\ o \in oks
  /\ oks' = oks \ {o}
  /\ LET i == o.addr - BASE_ADDR
     IN \E accepted \in Accepted(i) :
          IF accepted
            THEN /\ slot' = [j \in InLog |-> IF j = i THEN "ACTIVE" ELSE slot[j]]
                 /\ CountOk
            ELSE UNCHANGED <<slot, addrCnt, cycle>>
  /\ UNCHANGED <<bmsMain, bmsRx, clientAddr, active, cmbVars, requests, replies,
                 starts, reboots, losses>>

-----------------------------------------------------------------------------
(* CMB c.                                                                  *)

SetPhase(c, p) == phase' = [phase EXCEPT ![c] = p]
CmbStuck(c) == SendMayFail /\ SetPhase(c, "fatal")

(* mercury_acquire_nodeAddress, at boot and after two seconds in vain.     *)
RequestAddress(c) ==
  /\ phase[c] \in {"boot", "waiting"} /\ meshAddr[c] = NODE_CMB_DEFADDR
  /\ attempt[c] < MaxAttempts
  /\ attempt' = [attempt EXCEPT ![c] = @ + 1]
  /\ \/ SetPhase(c, "waiting")
        /\ requests' = requests \cup {[cmb |-> c, no |-> attempt[c] + 1]}
     \/ CmbStuck(c) /\ UNCHANGED requests
  /\ UNCHANGED <<bmsVars, meshAddr, replies, starts, oks, reboots, losses>>

(* Mutant: the code is not looked at.                                      *)
CurrentAny(c, code) == TRUE
(* u4.u32 == NetCli.addrToken.                                             *)
Current(c, code) == code = [cmb |-> c, no |-> attempt[c]]

(* RXAddrRPHandler of every CMB at the shared address: the one whose last  *)
(* code the reply carries takes the address.                               *)
RXAddrRPHandler(r) ==
  /\ r \in replies
  /\ replies' = replies \ {r}
  /\ meshAddr' = [c \in Cmbs |->
                    IF /\ meshAddr[c] = NODE_CMB_DEFADDR
                       /\ phase[c] # "boot" /\ Current(c, r.code)
                    THEN r.addr ELSE meshAddr[c]]
  /\ UNCHANGED <<bmsVars, phase, attempt, requests, starts, oks, reboots, losses>>

(* The address is seen (every 10 ms); the threads are created.             *)
Acquired(c) ==
  /\ phase[c] = "waiting" /\ meshAddr[c] # NODE_CMB_DEFADDR
  /\ SetPhase(c, "joined")
  /\ UNCHANGED <<bmsVars, meshAddr, attempt, msgs, reboots, losses>>

(* mercury_main_cmb, 50 ms later: k_sem_init(&startSem, 0, 1).             *)
CmbMainStarts(c) ==
  /\ phase[c] = "joined"
  /\ SetPhase(c, "waitStart")
  /\ UNCHANGED <<bmsVars, meshAddr, attempt, msgs, reboots, losses>>

(* StartHandler of every CMB that has the address.  Before k_sem_init a    *)
(* start is lost: the semaphore is cleared, and so is the flag with the    *)
(* first OK.                                                               *)
StartHandler(a) ==
  /\ a \in starts
  /\ starts' = starts \ {a}
  /\ phase' = [c \in Cmbs |->
                 IF meshAddr[c] = a /\ phase[c] \in {"waitStart", "running"}
                 THEN "started" ELSE phase[c]]
  /\ UNCHANGED <<bmsVars, meshAddr, attempt, requests, replies, oks, reboots,
                 losses>>

SendOk(c) ==
  /\ phase[c] = "started"
  /\ \/ SetPhase(c, "running")
        /\ oks' = oks \cup {[cmb |-> c, addr |-> meshAddr[c]]}
     \/ CmbStuck(c) /\ UNCHANGED oks
  /\ UNCHANGED <<bmsVars, meshAddr, attempt, requests, replies, starts, reboots,
                 losses>>

(* Power cycle: meshAddr is back at its initialiser.                       *)
Reboot(c) ==
  /\ reboots < MaxReboots /\ phase[c] # "boot"
  /\ reboots' = reboots + 1
  /\ SetPhase(c, "boot")
  /\ meshAddr' = [meshAddr EXCEPT ![c] = NODE_CMB_DEFADDR]
  /\ UNCHANGED <<bmsVars, attempt, msgs, losses>>

-----------------------------------------------------------------------------
(* The mesh loses a message (external).                                    *)
Lose ==
  /\ losses < MaxLosses /\ losses' = losses + 1
  /\ \/ /\ \E m \in requests : requests' = requests \ {m}
        /\ UNCHANGED <<replies, starts, oks>>
     \/ /\ \E m \in replies : replies' = replies \ {m}
        /\ UNCHANGED <<requests, starts, oks>>
     \/ /\ \E m \in starts : starts' = starts \ {m}
        /\ UNCHANGED <<requests, replies, oks>>
     \/ /\ \E m \in oks : oks' = oks \ {m}
        /\ UNCHANGED <<requests, replies, starts>>
  /\ UNCHANGED <<bmsVars, cmbVars, reboots>>

-----------------------------------------------------------------------------
BmsRx ==
  \/ \E r \in requests : RXAddrRQHandler(r) \/ NoSlotLeft(r)
  \/ \E o \in oks : OKHandler(o)
BmsMain == FormingEnds \/ SendStart
CmbRx == (\E r \in replies : RXAddrRPHandler(r)) \/ (\E a \in starts : StartHandler(a))
CmbMain(c) == RequestAddress(c) \/ Acquired(c) \/ CmbMainStarts(c) \/ SendOk(c)

Next ==
  \/ BmsRx \/ BmsMain \/ CmbRx \/ Lose
  \/ \E c \in Cmbs : CmbMain(c) \/ Reboot(c)

Fairness ==
  /\ WF_vars(BmsRx) /\ WF_vars(BmsMain) /\ WF_vars(CmbRx)
  /\ \A c \in Cmbs : WF_vars(CmbMain(c))

Spec == Init /\ [][Next]_vars
FairSpec == Spec /\ Fairness

-----------------------------------------------------------------------------
(* Properties.                                                             *)

(* The rest of the BMS finds a node's slot as its address - BASE_ADDR: the *)
(* slot search and the address search, two loops that know nothing of each *)
(* other, must give a node of the log slot i the address BASE_ADDR + i.    *)
SlotIsAddress ==
  \A i \in InLog : slot[i] # "INACTIVE" => clientAddr[i] = BASE_ADDR + i

(* As long as no more addresses were given away than there are nodes, no   *)
(* two CMBs have or will get the same one, across retries, lost replies    *)
(* and restarts.                                                           *)
Held(c) == {meshAddr[c]} \ {NODE_CMB_DEFADDR}
Coming(c) == {r.addr : r \in {r \in replies : r.code.cmb = c}}
AddressesUnique ==
  active <= NodesNum =>
    \A c, d \in Cmbs :
      c # d => (Held(c) \cup Coming(c)) \cap (Held(d) \cup Coming(d)) = {}

(* mercury_mesh_forming returns only when every entry of the log is taken: *)
(* then no START goes to address 0.                                        *)
FormedMeansFull == bmsMain # "forming" => Free = {} /\ active >= NodesNum

(* The first token is due only when every node of the log has reported,    *)
(* unless more addresses were given away than there are nodes.             *)
CycleMeansAllReported ==
  cycle /\ active <= NodesNum => \A i \in InLog : slot[i] = "ACTIVE"

(* A START comes too early for some CMB: its main thread is not at         *)
(* k_sem_take yet.                                                         *)
Early ==
  starts # {} /\ \E c \in Cmbs : phase[c] \in {"boot", "waiting", "joined"}

(* If nothing is lost, no send fails, no CMB restarts or has to ask twice  *)
(* and START finds all the CMBs ready, the first cycle begins.             *)
Quiet ==
  /\ losses = 0 /\ reboots = 0 /\ bmsRx = "alive" /\ bmsMain # "fatal"
  /\ \A c \in Cmbs : attempt[c] <= 1 /\ phase[c] # "fatal"
  /\ ~Early
JoinCompletes == []Quiet => <>cycle

(* app_master.c:148, on mercury_mesh_sendStart: "sends start signal for    *)
(* all nodes".  All the nodes start.                                       *)
StartReachesAll ==
  bmsMain = "started" ~> \A c \in Cmbs : phase[c] \in {"started", "running"}
=============================================================================
