---------------------------- MODULE CmbSampling ----------------------------
(***************************************************************************)
(* The cell voltages of a CMB: the polling thread measures them and        *)
(* computes their CRC, the Bluetooth RX thread answers a TOKEN with both   *)
(* (app_slave.c, hg_ltc.c, mesh_cli.c).  pollSem guards the two.           *)
(*                                                                         *)
(* TokenHandler keeps a pointer to the voltages, gives pollSem back and    *)
(* lets bt_mesh_cli_sendData copy the voltages after that.  The RX thread  *)
(* is cooperative, so the polling thread, which is not, runs only while    *)
(* the RX thread waits: this is PollerRuns.                                *)
(*                                                                         *)
(* A measured value is the number of the measurement that made it, so no   *)
(* two measurements look alike; the CRC of some voltages stands for the    *)
(* voltages.  Left out: the token and timestamps, which go through.        *)
(***************************************************************************)
EXTENDS Naturals

CONSTANTS
  LTC_NCELLS,
  RAND_BYTES,   (* bytes that sys_rand_get writes for one cell             *)
  Readings,     (* bound: how many measurements are told apart             *)
  MaxTokens,    (* bound: TOKENs waiting for the RX thread                 *)
  NoCrc         (* currCrc before the first measurement                    *)

ASSUME SamplingAssumption ==
  /\ LTC_NCELLS \in Nat \ {0} /\ RAND_BYTES \in Nat \ {0}
  /\ Readings \in Nat \ {0} /\ MaxTokens \in Nat
  /\ NoCrc \notin [0..(LTC_NCELLS - 1) -> 0..(Readings - 1)]

VARIABLES
  cellVolts,    (* cmbData.cellVolts                                       *)
  currCrc,
  pollSem,      (* its count                                               *)
  poller,       (* where the polling thread is                             *)
  cell,         (* i of poll_fake_cv                                       *)
  reading,      (* the last measurement begun                              *)
  rx,           (* where the RX thread is                                  *)
  crc,          (* newPkt.crc                                              *)
  tokens,       (* TOKENs received and not handled                         *)
  started       (* the CMB has sent its first OK                           *)

memory == <<cellVolts, currCrc>>
pollVars == <<poller, cell, reading>>
rxVars == <<rx, crc, tokens, started>>
vars == <<memory, pollSem, pollVars, rxVars>>

Cells == 0..(LTC_NCELLS - 1)
Volts == [Cells -> 0..(Readings - 1)]

TypeOK ==
  /\ cellVolts \in Volts
  /\ currCrc \in Volts \cup {NoCrc} /\ crc \in Volts \cup {NoCrc}
  /\ pollSem \in 0..1
  /\ poller \in {"take", "sample", "crc", "give", "sleep"}
  /\ cell \in Cells /\ reading \in 0..(Readings - 1)
  /\ rx \in {"idle", "wait", "fetch", "send", "stuck"}
  /\ tokens \in 0..MaxTokens /\ started \in BOOLEAN

Init ==
  /\ cellVolts = [c \in Cells |-> 0]
  /\ currCrc = NoCrc /\ crc = NoCrc
  /\ pollSem = 1
  /\ poller = "take" /\ cell = 0 /\ reading = 0
  /\ rx = "idle" /\ tokens = 0 /\ started = FALSE

-----------------------------------------------------------------------------
(* The polling thread.                                                     *)

(* Mutant: the RX thread can be preempted while it sends.                  *)
PollerRunsAlways == rx # "fetch"

PollerRuns == rx \in {"idle", "wait", "stuck"}

PollTake ==
  /\ PollerRuns /\ poller = "take" /\ pollSem = 1
  /\ pollSem' = 0
  /\ poller' = "sample" /\ cell' = 0 /\ reading' = (reading + 1) % Readings
  /\ UNCHANGED <<memory, rxVars>>

(* The loop of poll_fake_cv goes on after cell i.                          *)
More(i) == i + 1 < LTC_NCELLS

(* sys_rand_get takes a number of bytes and is given 8 for a cell of one.  *)
(* What the last cells write behind the array is other memory.             *)
Written(i) == i..(i + RAND_BYTES - 1)

Sample ==
  /\ PollerRuns /\ poller = "sample"
  /\ cellVolts' = [c \in Cells |-> IF c \in Written(cell) THEN reading
                                                          ELSE cellVolts[c]]
  /\ IF More(cell)
     THEN cell' = cell + 1 /\ UNCHANGED poller
     ELSE poller' = "crc" /\ UNCHANGED cell
  /\ UNCHANGED <<currCrc, pollSem, reading, rxVars>>

CalcCrc ==
  /\ PollerRuns /\ poller = "crc"
  /\ currCrc' = cellVolts
  /\ poller' = "give"
  /\ UNCHANGED <<cellVolts, pollSem, cell, reading, rxVars>>

(* Mutant: the measurement does not give pollSem back.                     *)
GiveForgotten == UNCHANGED <<pollSem, rx>>

(* k_sem_give: a thread that waits gets the semaphore without a count.     *)
Give ==
  IF rx = "wait" THEN rx' = "fetch" /\ UNCHANGED pollSem
                 ELSE pollSem' = 1 /\ UNCHANGED rx

PollGive ==
  /\ PollerRuns /\ poller = "give"
  /\ Give
  /\ poller' = "sleep"
  /\ UNCHANGED <<memory, cell, reading, crc, tokens, started>>

(* blink and k_msleep(POLLING_INT) are over.                               *)
Wake ==
  /\ PollerRuns /\ poller = "sleep"
  /\ poller' = "take"
  /\ UNCHANGED <<memory, pollSem, cell, reading, rxVars>>

-----------------------------------------------------------------------------
(* The RX thread and what it waits for.                                    *)

(* The main thread starts 50 ms after the polling thread, which has slept  *)
(* by then, and sends the first OK; no TOKEN comes before it.              *)
MainStarts ==
  /\ PollerRuns /\ poller = "sleep" /\ ~started
  /\ started' = TRUE
  /\ UNCHANGED <<memory, pollSem, pollVars, rx, crc, tokens>>

TokenArrives ==
  /\ started /\ tokens < MaxTokens
  /\ tokens' = tokens + 1
  /\ UNCHANGED <<memory, pollSem, pollVars, rx, crc, started>>

(* k_sem_take(&pollSem, K_FOREVER).                                        *)
Claim ==
  IF pollSem = 1 THEN pollSem' = 0 /\ rx' = "fetch"
                 ELSE rx' = "wait" /\ UNCHANGED pollSem

TokenHandler ==
  /\ rx = "idle" /\ tokens > 0
  /\ tokens' = tokens - 1
  /\ Claim
  /\ UNCHANGED <<memory, pollVars, crc, started>>

(* The CRC is copied, the voltages are pointed at.  The polling thread     *)
(* cannot be waiting for the semaphore: it runs only while rx waits.       *)
Fetch ==
  /\ rx = "fetch"
  /\ crc' = currCrc
  /\ pollSem' = 1
  /\ rx' = "send"
  /\ UNCHANGED <<memory, pollVars, tokens, started>>

(* bt_mesh_cli_sendData: Data is <<cellVolts, crc>>, or the send fails and *)
(* mercury_led_fatal keeps the thread.                                     *)
SendData ==
  /\ rx = "send"
  /\ rx' \in {"idle", "stuck"}
  /\ UNCHANGED <<memory, pollSem, pollVars, crc, tokens, started>>

-----------------------------------------------------------------------------
Poller == PollTake \/ Sample \/ CalcCrc \/ PollGive \/ Wake
Rx == TokenHandler \/ Fetch \/ SendData

Next == Poller \/ Rx \/ MainStarts \/ TokenArrives

Spec == Init /\ [][Next]_vars

(* Both threads run on.  Strong for the polling thread: between two TOKENs *)
(* the BMS waits for an OK of this CMB's main thread, which sleeps before  *)
(* it sends one, so the RX thread does not keep the processor.             *)
FairSpec == Spec /\ SF_vars(Poller) /\ WF_vars(Rx)

-----------------------------------------------------------------------------
(* Data that is about to be sent holds the voltages of one measurement,    *)
(* the newest, and the CRC of just these voltages ("fetch newest battery   *)
(* data", "fetch corresponding crc16 value", mesh_cli.c:204-205), although *)
(* the voltages are copied after pollSem has been given back.              *)
DataWhole ==
  rx = "send" => /\ crc = cellVolts
                 /\ \A c \in Cells : cellVolts[c] = reading

(* pollSem is a lock: it is taken exactly while one of the two threads is  *)
(* between take and give, and never by both (proved in SamplingProofs).    *)
PollerHolds == poller \in {"sample", "crc", "give"}
RxHolds == rx = "fetch"
SemExclusive ==
  /\ pollSem = 0 <=> PollerHolds \/ RxHolds
  /\ ~(PollerHolds /\ RxHolds)

(* A TOKEN that has to wait for a measurement gets its Data in the end,    *)
(* and measurements go on whatever becomes of the RX thread.               *)
TokenServed == rx = "wait" ~> rx = "send"
Sampling == []<>(poller = "sample") /\ []<>(poller = "sleep")
=============================================================================
