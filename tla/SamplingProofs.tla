-------------------------- MODULE SamplingProofs --------------------------
(***************************************************************************)
(* The Data of a CMB is whole, for any number of cells, of bytes written   *)
(* per cell and of TOKENs that wait.                                       *)
(*                                                                         *)
(* DataWhole is not inductive: it needs to be known what the measurement   *)
(* has left behind at each place of the polling thread (AtPlace), and that *)
(* the RX thread finds it only at the places where a measurement is over   *)
(* (SemExclusive, Started).                                                *)
(***************************************************************************)
EXTENDS CmbSampling, TLAPS

(* All the voltages are of the last measurement, and so is their CRC.      *)
Uniform == \A c \in Cells : cellVolts[c] = reading
Measured == Uniform /\ currCrc = cellVolts

AtPlace ==
  /\ poller = "sample" => \A c \in Cells : c < cell => cellVolts[c] = reading
  /\ poller \in {"crc", "give"} => Uniform
  /\ poller = "give" => currCrc = cellVolts
  /\ poller = "sleep" => Measured
  /\ poller = "take" /\ started => Measured

Started ==
  /\ tokens > 0 \/ rx # "idle" => started
  /\ rx = "wait" => PollerHolds
  /\ rx = "send" => ~PollerHolds /\ crc = currCrc

IInv == TypeOK /\ SemExclusive /\ AtPlace /\ Started

USE SamplingAssumption DEF Cells, Volts, memory, pollVars, rxVars, PollerHolds, RxHolds

LEMMA InitIInv == Init => IInv
<1> SUFFICES ASSUME Init
             PROVE  IInv
  OBVIOUS
<1>1. 0 \in Cells /\ 0 \in 0..(Readings - 1)
  OBVIOUS
<1>2. cellVolts \in Volts
  BY <1>1 DEF Init
<1>3. started \in BOOLEAN
  BY Zenon DEF Init
<1>4. /\ currCrc \in Volts \cup {NoCrc} /\ crc \in Volts \cup {NoCrc}
      /\ pollSem \in 0..1 /\ cell \in Cells /\ reading \in 0..(Readings - 1)
      /\ tokens \in 0..MaxTokens
  BY <1>1 DEF Init
<1>5. TypeOK
  <2> HIDE DEF Volts, Cells
  <2>1. QED
    BY <1>2, <1>3, <1>4 DEF Init, TypeOK
<1>6. SemExclusive /\ AtPlace /\ Started
  BY DEF Init, SemExclusive, AtPlace, Started
<1>7. QED
  BY <1>5, <1>6 DEF IInv

LEMMA NextReading ==
  ASSUME NEW r \in 0..(Readings - 1)
  PROVE  (r + 1) % Readings \in 0..(Readings - 1)
  OBVIOUS

(* Measuring cell i writes cell i, whatever else it writes.                *)
LEMMA StepSample == IInv /\ Sample => IInv'
<1> SUFFICES ASSUME IInv, Sample
             PROVE  IInv'
  OBVIOUS
<1> USE DEF Sample, PollerRuns
<1>1. TypeOK'
  BY DEF IInv, TypeOK, More
<1>2. cell \in Written(cell)
  BY DEF Written, IInv, TypeOK
<1>3. /\ cellVolts'[cell] = reading
      /\ \A c \in Cells : cellVolts[c] = reading => cellVolts'[c] = reading
  BY <1>2 DEF IInv, TypeOK
<1>4. \A c \in Cells : c <= cell => cellVolts'[c] = reading
  BY <1>3 DEF IInv, AtPlace, TypeOK
<1>5. AtPlace'
  BY <1>4 DEF IInv, AtPlace, TypeOK, More, Uniform, Measured
<1>6. SemExclusive' /\ Started'
  BY DEF IInv, TypeOK, SemExclusive, Started
<1>7. QED
  BY <1>1, <1>5, <1>6 DEF IInv

LEMMA StepIInv == IInv /\ [Next]_vars => IInv'
<1> SUFFICES ASSUME IInv, [Next]_vars
             PROVE  IInv'
  OBVIOUS
<1> USE DEF IInv, TypeOK, SemExclusive, AtPlace, Started, Uniform, Measured
<1>1. CASE PollTake
  BY <1>1, NextReading DEF PollTake, PollerRuns
<1>2. CASE Sample
  BY <1>2, StepSample
<1>3. CASE CalcCrc
  BY <1>3 DEF CalcCrc, PollerRuns
<1>4. CASE PollGive
  BY <1>4 DEF PollGive, Give, PollerRuns
<1>5. CASE Wake
  BY <1>5 DEF Wake, PollerRuns
<1>6. CASE TokenHandler
  BY <1>6 DEF TokenHandler, Claim
<1>7. CASE Fetch
  BY <1>7 DEF Fetch
<1>8. CASE SendData
  BY <1>8 DEF SendData
<1>9. CASE MainStarts
  BY <1>9 DEF MainStarts
<1>10. CASE TokenArrives
  BY <1>10 DEF TokenArrives
<1>11. CASE UNCHANGED vars
  BY <1>11 DEF vars
<1>12. QED
  BY <1>1, <1>2, <1>3, <1>4, <1>5, <1>6, <1>7, <1>8, <1>9, <1>10, <1>11
  DEF Next, Poller, Rx

LEMMA SamplingInvariant == Spec => []IInv
<1>1. QED
  BY InitIInv, StepIInv, PTL DEF Spec

(* pollSem is held by one thread at a time (app_slave.c:93-96,             *)
(* mesh_cli.c:203-206).                                                    *)
THEOREM SemExclusiveHolds == Spec => []SemExclusive
<1>1. IInv => SemExclusive
  BY DEF IInv
<1>2. QED
  BY <1>1, SamplingInvariant, PTL

(* The Data a CMB sends holds the voltages of one measurement, the newest, *)
(* and their CRC.                                                          *)
THEOREM DataWholeHolds == Spec => []DataWhole
<1>1. IInv => DataWhole
  BY DEF IInv, TypeOK, SemExclusive, AtPlace, Started, Uniform, Measured, DataWhole
<1>2. QED
  BY <1>1, SamplingInvariant, PTL

(* What the liveness of the two threads rests on: the RX thread waits for  *)
(* pollSem only while the polling thread has it and may run, and that one  *)
(* never finds it taken, so that neither waits for ever for a count that   *)
(* nobody will give (app_slave.c:93, mesh_cli.c:203, both K_FOREVER).      *)
NobodyWaitsInVain ==
  /\ rx = "wait" => PollerHolds /\ PollerRuns
  /\ poller = "take" /\ PollerRuns => pollSem = 1

THEOREM NobodyWaitsInVainHolds == Spec => []NobodyWaitsInVain
<1>1. IInv => NobodyWaitsInVain
  BY DEF IInv, TypeOK, SemExclusive, Started, NobodyWaitsInVain, PollerRuns
<1>2. QED
  BY <1>1, SamplingInvariant, PTL
===========================================================================
