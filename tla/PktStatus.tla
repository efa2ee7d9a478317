----------------------------- MODULE PktStatus -----------------------------
(***************************************************************************)
(* The status words the BMS keeps and the transition test every packet     *)
(* event goes through (mercury_netMgr_statesUpdate).  Pure operators: the  *)
(* modules that keep this state EXTEND this one.                           *)
(***************************************************************************)

(* t_pktS: the latest transaction event the BMS saw of a node.             *)
PktS == {"NO_INFO", "RX_OK", "TX_TOKEN", "TX_ACK", "RX_DATA", "TX_RECOVER"}

(* t_sysSS: the verdict on the whole battery.                              *)
SysS == {"BATT_INFO_LOST", "NO_ISSUES", "STARTUP_NODATA"}

(* Mutant: a second OK of the same cycle passes.                           *)
LegalPrevTwice(curr) ==
  CASE curr = "RX_OK"    -> {"TX_ACK", "NO_INFO", "TX_RECOVER", "RX_OK"}
    [] curr = "TX_TOKEN" -> {"RX_OK"}
    [] curr = "RX_DATA"  -> {"TX_TOKEN"}
    [] curr = "TX_ACK"   -> {"RX_DATA"}
    [] OTHER             -> PktS

(* Mutant: the OK that answers a recovery is not expected.                 *)
LegalPrevUnrecovered(curr) ==
  CASE curr = "RX_OK"    -> {"TX_ACK", "NO_INFO"}
    [] curr = "TX_TOKEN" -> {"RX_OK"}
    [] curr = "RX_DATA"  -> {"TX_TOKEN"}
    [] curr = "TX_ACK"   -> {"RX_DATA"}
    [] OTHER             -> PktS

(* The statuses from which the event curr is legal: the guards of the      *)
(* switch.  TX_RECOVER has none, it overrides whatever came before.        *)
LegalPrev(curr) ==
  CASE curr = "RX_OK"    -> {"TX_ACK", "NO_INFO", "TX_RECOVER"}
    [] curr = "TX_TOKEN" -> {"RX_OK"}
    [] curr = "RX_DATA"  -> {"TX_TOKEN"}
    [] curr = "TX_ACK"   -> {"RX_DATA"}
    [] OTHER             -> PktS

(* mercury_netMgr_statesUpdate returns 0 on a legal event and stores it;   *)
(* on an illegal one it returns 1 before the assignment of currPkt.  The   *)
(* prevPkt it "corrects" on that path is overwritten from currPkt by the   *)
(* next call, so currPkt is all the state there is.                        *)
Accepted(prev, curr) == prev \in LegalPrev(curr)
StatesUpdate(prev, curr) == IF Accepted(prev, curr) THEN curr ELSE prev
=============================================================================
