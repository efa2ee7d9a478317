# Verification of the wireless BMS (wbms)

A battery management master (BMS) reads cell monitor boards (CMBs) over a
Bluetooth mesh.  Both are Zephyr applications built from the same source, chosen
by `NODETYPE`.  This directory holds TLA+ modules of the parts of that program
that carry its logic, the TLC runs that check them and the theorems TLAPS proves
about them.  File and line numbers are those of `src/src/`.

## 1. The system

### Components, their state and their operations

| Component | State | Operations | Module |
|---|---|---|---|
| Measurement cycle, BMS side (`mesh_cli.c`, `hg_mesh.c`, `hg_netMgr.c`) | packet status of every node, system state, `addrCnt`, `addrFifo`, `dataAddrFifo`, one OK and one Data timer per node | handlers of OK and Data, token or ACK dispatch, the two expiry functions, START | `Transaction` |
| Measurement cycle, CMB side (`app_slave.c`, `mesh_cli.c`) | `startSem`, three signal flags | handlers of START, ACK, RCV, TOKEN; the main loop that answers a flag with OK | `Transaction` |
| Joining (`hg_netMgr.c`, `mesh_cli.c`, `app_slave.c`, `main.c`) | slots, client addresses, `hm.active`; per CMB its address and request code | address request, allocation, reply, forming, START | `Joining` |
| Diagnostics and accounting (`app_master.c`, `hg_netMgr.c`, `hg_mesh.c`) | `tx_msgq`, `rx_msgq`; per node `transLog`, `pktCntLog`, error log | push, fetch, search, verify; the counting in every context | `DiagQueues` |
| Heap and latency log (`hg_netMgr.c`, `mesh_cli.c`, `hg_test.c`) | `addrFifo`, `dataAddrFifo`, `hil_txqueue`, the 512-byte heap, the times of the current cycle | put and get, flush, write a time, export a record | `HeapFifos` |
| Token generator (`fnv.c`) | none | FNV-1a of the uptime | `FnvToken` |
| LTC6812 code (`hg_ltc.c`, `hg_ltc.h`) | none (a table) | `mercury_ltc_calcPEC`, verdict of `mercury_ltc_init` | `LtcPec` |
| CMB sampling (`app_slave.c`, `hg_ltc.c`) | cell voltages, `currCrc`, `pollSem` | measure, compute the CRC; hand both out to TokenHandler | `CmbSampling` |
| Firmware update (`main.c`, `preload.c`, `fwupd.c`) | line buffer, block buffer, two halves of the flash | take a command line, receive blocks and write them, copy | `FwUpdate` |
| Mesh set-up, SPI, LED, MPU | hardware or the Bluetooth stack | | not modelled |

The two sides of the cycle interact by seven mesh messages and nothing else.
Inside the BMS three contexts share state without locks:

* the Bluetooth RX thread (cooperative, priority -8) runs the message handlers;
* the clock interrupt runs `ok_expiry_function` and `data_expiry_function`, which
  send messages, empty the FIFOs, reset `addrCnt` and write the status log;
* the diagnostic thread (-7) and the main thread.  A comment calls the main thread
  preemptive, but its priority is -6, which is cooperative too.

On the CMB the RX thread shares the cell voltages and their CRC with the polling
thread, the only preemptive thread of the program.  The firmware update runs before
any thread but main and talks to a host program over the UART.

### What is hard here

Interleaving of the interrupt with a handler at any instruction; lost messages
and timers that race the late answer; a send that fails halfway through a loop
(it ends in `mercury_led_fatal`, an endless loop); retries and reboots that the
BMS cannot tell from new nodes; START, which nobody watches; queues and address
ranges at their limit; a pointer used after its semaphore was given back; a UART
protocol whose only check is an echo.  `PROJECT.json` lists each hazard at its line, with the
properties that would catch it.

## 2. Modules

```
PktStatus --- Transaction --- TransactionInv --- MCTransaction, MCRaces (TLC)
                  |                 |
                  |                 +----------- CycleProofs          (TLAPS)
                  |                                   |
              ScanCycle --- ScanProofs ---------------+               (TLAPS)
               |     |
               |     +----- DiagQueues --- DiagProofs ----+           (TLAPS)
               +----------- HeapFifos ---- HeapProofs     |           (TLAPS)
                                                     NumberProofs     (TLAPS)
                            Joining ------ JoiningProofs -+           (TLAPS)
                                                          |
                            FnvToken --- Words -----------+

CmbSampling --- SamplingProofs                                        (TLAPS)
LtcPec --- MCLtcPec --- MCCodes --- FnvToken --- Words                (TLC)
FwUpdate --- FwProofs                                                 (TLAPS)
    |
    +------- MCFwUpdate                                               (TLC)
```

**PktStatus** is the transition test of `mercury_netMgr_statesUpdate`: from which
status each packet event is legal.

**ScanCycle** is the abstract specification of the cycle: the battery is scanned
in rounds, nobody is polled before everybody has reported, one node is polled at
a time, nobody is released before everybody has been read, and a polled node may
get lost.

**Transaction** is the cycle itself.  A handler of the BMS is cut into steps
wherever an expiry function that comes in between could make a difference; `rx`
is the program counter.  Each step names the code it stands for:

| Action | Code |
|---|---|
| `OKHandler`, `QueueOk`, `LoadCnt`, `CountOk` | `mercury_mesh_OKHandler`: status test; stop timer and put; load and store of `addrCnt++` |
| `DataHandler`, `CheckData`, `TakeData`, `QueueData` | `mercury_mesh_DataHandler`: system state test; read, then store of the status; stop timer and put |
| `Dispatch`, `GetAddr`, `AckLoop`, `GetData` | `mercury_mesh_sendToken`: emptiness tests and gets |
| `SendToken`, `CheckToken`, `StoreToken`, `ArmDataTimer` | `bt_mesh_cli_sendToken`: the send; test, then store of the status; start of the Data timer and return |
| `SendAck`, `CheckAck`, `StoreAck`, `ArmOkTimer` | `bt_mesh_cli_sendACK`: the same with the OK timer, after `NO_ISSUES` |
| `OkExpiry`, `DataExpiry` | the expiry functions, whole |
| `StartHandler`, `ACKHandler`, `RecoveryHandler`, `TokenHandler` | the CMB's handlers |
| `CmbStart`, `CmbAnswer`, `CmbClear` | `mercury_main_cmb`: the sends and the clearing of the flags after them |
| `RxSendFails`, `Stuck` | a send returns an error: `mercury_led_fatal` |
| `LoseDown`, `LoseUp` | the mesh loses a message (external) |

A timer of the node may still be armed from an earlier token when the next one is sent
(section 6), so an expiry may come between the test and the store of a status and be
overwritten; hence the cuts.  `OKHandler` has none between them: an OK is legal from
`TX_RECOVER`, too, so an expiry there leaves what it leaves just before the handler.

Left out of `Transaction`: message contents, packet and error counters and
timestamps, on which no step depends; `prevPkt`, which every call overwrites;
`currNode`, as far as diagnostics write it (`NodeState` derives the rest from the
packet status).  The two names the CMB uses for each flag (`ackSgn`/`okSgn`,
`startSgn`/`restartSgn`, see section 6) are taken as one variable.

**Joining** covers the time before: requests, allocation, replies, forming, START
and the first OKs.  `systemStateLog` has `NODES_NUM` entries while the loops over
it run to `HG_NET_MAXCLIENTS`; what they read behind the end is other memory and
hence any value (`Behind`).  A CMB that restarts comes up at the shared address.

The address search takes the least free address; `Min` of the community modules stands
for the loop, and `Taken` for its test, with its slip: a match sets the loop variable to
0 before the `++`, so slot 0 is looked at with the first address only.

**DiagQueues** takes the order of tokens and Data from `ScanCycle` (which
`Transaction` implements) and models both message queues, `message_dev_searchTX`,
`diag_verifyRxData` and what is counted on the way:

| Action | Code |
|---|---|
| `TakeOk`, `SendToken`, `TakeData`, `SendAck` | `mercury_netMgr_updateOKInfo`, `updateTokenInfo`, `updateDataInfo`, `updateACKInfo` in the RX thread |
| `OkExpiry`, `DataExpiry` | the accounts of the expiry functions, in the clock interrupt |
| `Verify` | `message_dev_fetchRX` and `diag_verifyRxData` but for `tRejected++` |
| `LoadRejected`, `StoreRejected` | the read and the store of `tRejected++` |

`tRejected` is the one counter that two contexts raise, of which one can interrupt the
other; `Verify` leaves in `todo` the rejections that are still to be counted, and each is
read and stored in two steps.  A token is its number in this module; how far tokens
really differ is the business of `FnvToken`.

**HeapFifos** is the heap with its three users: the two FIFOs of the scan and
`hil_txqueue`, which takes one record of latencies per ACK and gives one per turn of the
main loop (`radon_latenciesInfoTX`).  The handlers of the RX thread are cut where an
element has been taken out of a FIFO and not yet freed (`hand`), since
`data_expiry_function` may empty the FIFOs there.  Where a node is in the scan is told in
the phases of `ScanCycle`, but its order is not taken from there: as in the code,
`SendToken` and `SendAck` send what has been taken out of a FIFO without a look at any
status, so that `ScanSpec` is a claim about counter, emptiness tests and restarts.  `data_pkt`
is the set of times written since the node's last OK.  A `k_malloc` succeeds while as many
bytes are free (fragmentation is left out), and a NULL put into a FIFO is the end of the
board (`fault`): `k_fifo_put` writes through it.  The expiry in the middle of `OKHandler`
and `DataHandler` is the business of `Transaction`; `RacedSpec` is what it leaves of the heap:
counter, status and times may have come to anything, a token may go out early, and the FIFOs
may be emptied anywhere, also between an emptiness test and its get (`NullGet`).  No
run uses it; what is said of it is proved.

**LtcPec** computes the packet error code byte by byte, with the table of the
driver and, beside it, as a CRC-15 bit by bit.

**FnvToken** computes the token of every millisecond of some spans of uptime the way
`token_gen` does: the digits `sprintf` writes, and per digit an exclusive or and a sum of
shifted copies.  **Words** has the arithmetic of 32 bits for it, without the exclusive or;
a word is two halves of 16 bits, as TLC's integers have 32 bits and a sign.  `MCCodes` puts it beside `LtcPec` into one run.

**CmbSampling** is the polling thread of a CMB next to its RX thread.  `PollTake`,
`Sample` (one per cell), `CalcCrc`, `PollGive` and `Wake` are `polling_fn` and
`poll_fake_cv`; `TokenHandler`, `Fetch` and `SendData` are
`mercury_mesh_TokenHandler`, which keeps a *pointer* to the voltages, gives
`pollSem` back and lets `bt_mesh_cli_sendData` copy them.  The RX thread is
cooperative and the polling thread is not, so the latter runs only while the former
waits (`PollerRuns`); this, not the semaphore, is what keeps Data whole.  A value is
the number of the measurement that made it, and the CRC of some voltages stands for
the voltages.  The main thread, and with it the first TOKEN, comes 50 ms after the
polling thread has started (`main.c`), by when the first measurement is over.

**FwUpdate** follows one update.  Board: `RXChar`, `RXEol`, `WindowCloses`
(`mercury_preload_RXLine` in the loop of `main`), `EraseStaging`, `ReadType`,
`ReadBase`, `ReadSize`, `ReadData`, `WriteBlock` (`mercury_fwupd_entryPoint`),
`EraseMain`, `CopyLoop` (`mercury_fwupd_stageF`).  External: the host program, which
sends a byte when the last one has been echoed and stops at a wrong echo (`blk` and
`off` are its place in the image, `ByteAt` the byte there); the line,
which may lose or change a byte; the flash, whose erasure or write may fail.  What a
write leaves in a cell is a constant operator, `Cell`: in the run a write can only clear
bits, in the proofs all that is known of it is that an erased cell takes any byte.  `PowerCycle` switches the board off at any byte and
lets the host begin again, with this or another image; it needs a whole program in the
main half, for without one the board does not start.  The command line, its end and the answer are one
symbol each.  The block buffer is what has been put into it since it was last set
back, so bytes of an earlier block in it are not modelled, nor are command lines
longer than the line buffer.

Definitions marked *Mutant* are plausible defects.  No specification uses them:
they exist to be put in the place of the definition after them, to see that the
property named in `PROJECT.json` then fails.

## 3. Runs

| Run | Instance | Result |
|---|---|---|
| `cycle_safety` | 2 nodes, 1 loss, timers may fire early but between handlers, sends may fail | passes, 263,740 states |
| `cycle_races` | 2 nodes, timers at any time, also inside handlers, 2 faults of which 1 may be a loss | passes, 225,721 states |
| `cycle_recovers` | 1 node, 1 loss, timely timers | passes, 228 states |
| `cycle_restart` | 2 nodes, 1 loss | violated (finding) |
| `cycle_early_token` | 2 nodes, timers at any time | violated (finding) |
| `joining` | 2 CMBs, 3 client slots, 3 addresses, 2 requests per CMB, 1 reboot, 1 loss, sends may fail | passes, 483,999 states |
| `joining_start` | 2 CMBs, no faults | violated (finding) |
| `diag_queues` | 2 nodes, queues of 2 and 3, 4 tokens, 1 timeout per node, the interrupt between the read and the store of `tRejected` | passes, 163,595 states |
| `heap_fifos` | 3 nodes, heap for 11 records, restarts whenever a node is polled, also with its element in hand, sends may fail | passes, 234,173 states |
| `codes` | 2,304 pairs, 9 commands, 700 configuration blocks; the tokens of 8 spans of 2 seconds | passes, 29,078 states |
| `cmb_sampling` | 16 cells, 3 measurements, 2 TOKENs waiting, sends may fail | passes, 2,076 states |
| `fw_update` | 6 images, 2 bytes lost or changed, 1 power failure, erasures and writes may fail | passes, 92,797 states |

What the properties say:

* `PollBarrier`, `AckBarrier`: a token only when every node has reported, an ACK
  only when every Data is in.  The code has one counter and one emptiness test for
  this.
* `QueuesAgree`: a queued node is queued once and in the status its handler gave
  it; no `k_fifo_get` finds an empty FIFO.
* `Watched`: a node that owes an answer, and only such a node, has its timer armed.
* `LostMeansUnpolled`: the Data the BMS throws away while the battery is lost is
  late Data.
* `ScanSpec`: the engine implements `ScanCycle`, and so do the FIFOs of the heap with a counter.
* `CntBound`: the counter of OKs cannot jump over its equality test, even with a
  timer that expires between load and store and has its reset overwritten: the run gets
  there, with two nodes, by two expiries that race with a handler.
* `ScansUndisturbed`, `Recovers`: progress as long as there are no faults; recovery from
  one.
* `SlotIsAddress`, `AddressesUnique`, `FormedMeansFull`, `CycleMeansAllReported`,
  `JoinCompletes`: the two searches for slot and address stay in step, no two CMBs
  hold or will get one address while no more addresses are given than there are
  nodes, forming ends with a full log, and a quiet joining reaches the first cycle.
* `TokensMatch`, `InOrder`: as long as no queue overruns every Data finds its token,
  though the search throws away what it passes; Data is verified in order.
* `DataAccounted`: every Data taken waits, or has closed its transaction, or is in the CRC
  errors, and none is counted twice, whatever was made of its token.
* `RejectedIsCombined`: the rejected transactions of the report are "combined of all the
  below" (`hg_test.c:27`), unless a timer expires while the diagnostic thread counts one.
* `PacketsFollow`: the packet counters of a node, which four handlers and two expiry
  functions raise, tell where it is in the cycle and what it has lost.
* `HeapBalanced`, `OneElement`: no element leaks, none is freed twice and no node is in
  two FIFOs, whenever the interrupt empties them.
* `NullMeansBacklog`: a `k_malloc` fails only when the records waiting for the main thread
  have used the heap up; the FIFOs of the scan never do it by themselves.
* `RecordsWhole`: the times in a record of latencies are of one cycle of its node.
* `TableIsCrc15`, `WrittenPecs`, `ReadBackChecked`: the table is that of the CRC-15,
  the codes written down by hand are right, and a corrupted configuration of the set
  is not accepted.
* `HashIsFnv1a`, `TokensDistinct`: the sum of shifted copies is FNV-1a (`fnv.c:212`),
  and no token equals one of the second before, also where the uptime gains a digit.
* `DataWhole`: Data about to be sent holds the voltages of one measurement, the newest,
  and their CRC.
* `TokenServed`, `Sampling`: a TOKEN that has to wait for a measurement gets its Data,
  and measurements go on, even when the RX thread is stuck in a failed send.
* `AcceptedIsStaged`, `InstalledIsSent`: when the host has seen its last byte echoed,
  its image is in the staging half, and when the copying stops it is in the other,
  whatever one fault on the line, failing writes and an earlier attempt that was cut off
  have done.  They and `CopyOnlyAtEnd` speak of at most one fault and of images whose
  blocks have at most 127 bytes (`Reliable`); beyond that the code does not keep them.
* `CopyOnlyAtEnd`, `Delivered`: on a good line the board starts to overwrite its
  program only when all the data has been sent, and an update that has begun is
  received in full unless the power fails.
* `RestartCompletes`, `TokenAfterAllOks`, `StartReachesAll`: what comments
  say and the code does not do, see section 5.

### Bounds, and why they are enough

* Two nodes are the least with which one can be ahead of another; every barrier
  and every disagreement of FIFO and log needs no more, and the theorems cover any
  number.
* Without `Timely` a timer may expire again and again while answers pile up, so
  `cycle_races` (`MCRaces`) has a budget (`MaxFaults`): expiries while an answer is under way
  or in a handler, messages that reach a CMB before it has cleared its flags, and losses
  are at most two.  One is not enough for a Data timer to be armed while an OK is counted.
* One loss (`MaxLosses`) reaches every recovery path.  A second loss in a row is
  not recovered by this code: neither START nor RCV is watched by a timer.
* `MAX_ADDR` 19 and three client slots let the addresses and the slots run out.
  The address 221 of the code is in `joining_start`.
* The queue sizes 2 and 3 are the least at which a queue holds more than one
  element when it overruns; the code has 6 and 40.  Four tokens (`MaxTokens`) are enough
  to overrun either; one timeout per node (`MaxTimeouts`) puts each of the two expiry
  functions into the middle of a count.  The proofs hold for all of them.
* The heap of `heap_fifos` has 56 bytes, an element of the scan 2 and a record 5: eleven
  records, so that three cycles fit without a turn of the main loop and the fourth does
  not.  Nothing bounds the cycles: the records do.  The code has 512
  bytes.
* The spans of `codes` are two seconds around each power of ten from 10^4 on, the first
  two seconds and the last before 2^31 (about 24 days); `Window` is 1000 ms, the Data timer of the
  code, after which an unanswered token has led to a restart.
* `cmb_sampling` has the 16 cells and 8 bytes per cell of the code.  Three measurements
  tell the newest, the one before and an older one apart; two TOKENs let one wait while
  another is served.
* The images of `fw_update` have blocks of 1, of 127 and of 128 bytes (the greatest an
  `int8_t` holds, and one more), out of order, one over another, with a hole, up to the last
  byte of the flash, and no block at all.  `FLASH_HALF` is 264 where the flash has 0x40000:
  enough for an address of two bytes, and nothing in the code depends on the size but the
  loop that does not end.  A changed byte turns into 0 or 1 (`Garbage`), a type of a block or the end of
  the data.  One fault (`MaxFaults`) already stops an update for good; the run has two,
  by which a byte changed on its way to the board and its echo changed back deceive
  the host, which no protocol of this kind can notice: hence `Reliable`.  One power failure
  (`MaxCycles`) leaves a staging half with a part of an image for the next attempt.  The proofs
  hold for any images, flash, garbage, faults and failures.
* `addrCnt` is a `uint8_t`; the nodes are at most 15, so it does not wrap.

### Flags

`Preempt` says whether an expiry function may come between two steps of a handler
of the BMS.  It may in the code.  The safety properties that are proved are
proved without it.  With it there still hold, and are proved, `CntBound` (`cycle_races`) and
the half of `Watched` on which recovery rests (`AnswersWatched`); `TokenAfterAllOks` does not
(`cycle_early_token`), nor do the barriers, `QueuesAgree` and `LostMeansUnpolled`, even for one
node (section 6).  The balance of the heap does
(`RacedHeapBalanced`).  With timers of 1000 ms a race of this kind needs an
answer that comes just at the expiry.
`Timely` says that a timer outlasts the answer it waits for and that a CMB clears
its flags before the next message comes; it is assumed for liveness only, of `Recovers` as
a flag and of `ScansUndisturbed` as its premise (no `Hasty` step).  Without it a timer may
win every race, and a node may be asked to recover for ever.

### Fairness

Weak fairness of every thread that can run (Zephyr schedules a ready cooperative
thread once the others wait, and all of them wait), of the handling of a message
that was not lost, and of the expiry of an armed timer (`TimersExpire`; `cycle_races` does
without it, since undisturbed progress needs no timer).  Losses, early expiries,
failing sends and reboots have none.

In `CmbSampling` the polling thread, of the lowest priority, has strong fairness: it
can run again and again but not all the time.  The RX thread cannot keep the processor
for ever, since between two TOKENs the BMS waits for an OK that this CMB's main thread
sends, and that thread sleeps first.  In `FwUpdate` host and board each go on while they
have something to do (weak fairness); the line and the flash need not fail.

Deadlock is checked in `cmb_sampling`.  It is not where the system
really stops: a lost START stops the cycle and the joining for good, a failed send ends
in `mercury_led_fatal`, a NULL element faults the board (`heap_fifos`); after a lost byte
both sides of `fw_update` wait for each other, and a board that is reset, faulted or stuck
stops.  The joining ends with the first token, a block or a span of `codes` with its last
byte or millisecond, and `diag_queues` with its last token.

## 4. Proofs

| Theorem | Says |
|---|---|
| `TypeCorrect`, `CntBoundHolds` (`CycleProofs`) | types and `CntBound`, for every value of all the constants |
| `CycleInvariant` (`CycleProofs`) | the inductive invariant `IInv` |
| `PollBarrierHolds`, `AckBarrierHolds`, `QueuesAgreeHolds`, `WatchedHolds`, `LostMeansUnpolledHolds` | the safety properties of `cycle_safety` |
| `AnswersWatchedHolds` (`CycleProofs`) | a token outstanding has its Data timer armed, an ACK its OK timer, or the handler is about to arm it: half of `Watched`, for any number of nodes and with `Preempt` |
| `TokenOnlyEarlyByRace` (`CycleProofs`) | `TokenAfterAllOks` without `Preempt`: the race of finding 2 is the only way to an early token |
| `ImplementsScan` | `Spec => ScanSpec`, the refinement |
| `OnePolledHolds` (`ScanProofs`) | in `ScanCycle` one node is polled at a time |
| `OneTokenHolds` (`CycleProofs`) | at most one node of the engine is in `TX_TOKEN`, which `ImplementsScan` carries over from `OnePolledHolds` |
| `DataWholeHolds`, `SemExclusiveHolds` (`SamplingProofs`) | `DataWhole`, and that `pollSem` is held by one thread at a time, for any number of cells and of bytes written per cell |
| `NobodyWaitsInVainHolds` (`SamplingProofs`) | no deadlock at `pollSem`: the RX thread waits only while the polling thread has it and may run, and that one never finds it taken |
| `JoiningTypeOK`, `SlotIsAddressHolds`, `AddressesUniqueHolds`, `FormedMeansFullHolds`, `CycleMeansAllReportedHolds` (`JoiningProofs`) | the safety properties of `joining`, for any CMBs, slots and addresses, any number of requests, reboots and losses |
| `HeapTypeOK`, `HeapBalancedHolds`, `OneElementHolds`, `NullMeansBacklogHolds`, `RecordsWholeHolds` (`HeapProofs`) | the safety properties of `heap_fifos`, for any number of nodes and any sizes |
| `HeapImplementsScan` (`HeapProofs`) | `Spec => ScanSpec`: what the RX thread has taken out of a FIFO it may send by the rules of `ScanCycle`, without a look at any status |
| `RacedHeapBalanced` (`HeapProofs`) | `HeapBalanced` where timers race with the handlers (`RacedSpec`): no byte leaks and none is freed twice, wherever the FIFOs are emptied |
| `RacesIncluded` (`HeapProofs`) | `Spec => RacedSpec`: the raced heap allows all the other one does |
| `DiagTypeOK`, `TokensMatchHolds`, `InOrderHolds`, `DataAccountedHolds`, `RejectedIsCombinedHolds`, `PacketsFollowHolds` (`DiagProofs`) | the safety properties of `diag_queues`, for any nodes, queue sizes, tokens and timeouts |
| `FwTypeOK`, `AcceptedIsStagedHolds`, `InstalledIsSentHolds`, `CopyOnlyAtEndHolds` (`FwProofs`) | the safety properties of `fw_update`, for any images, size of the flash, garbage, number of faults and power failures |
| `CopyIsWholeHolds` (`FwProofs`) | the reset behind the copy is never reached, and when the processor faults instead the main half equals the staging half |
| `ShiftsMultiply` (`NumberProofs`) | for every word the sum of shifted copies in `fnv_32a_str` is the product with the FNV prime modulo 2^32: the two branches of its `#if` agree |
| `WordsStayApart` (`NumberProofs`) | that sum is one to one; so is an exclusive or with a fixed octet, hence hashes that differ still differ once the same digits have followed |

`NumberProofs` also holds the lemma that a non-empty set of numbers has a least element, in
the form the `Min` of the community modules takes.

The theorems of the cycle hold for every finite non-empty set of nodes, any number of losses, early
timers and failing sends.  Those of `CycleProofs` assume `Preempt = FALSE`, but for
`TypeCorrect`, `CntBoundHolds` and `AnswersWatchedHolds`, which hold for both values.

None of the safety properties is inductive.  That a token goes out only when every
node has reported follows from a *count*: `addrCnt` equals the number of nodes.
The invariant therefore says at each place of the RX thread (`AtPlace` in
`TransactionInv`) which phase the cycle is in:

* in the OK phase nobody is polled, `dataAddrFifo` is empty, and the nodes in
  `addrFifo`, each queued once, are exactly as many as have been counted.  When the
  count reaches the number of nodes, a set of that many nodes is all of them
  (`AllCounted`);
* in the Data phase all the nodes but the polled one are in one of the two FIFOs;
* in the ACK phase `addrFifo` is empty and every node is in `dataAddrFifo` or
  acknowledged.

`QueuesSound` ties FIFO membership to the status log, `Watched` ties the timers to
it (a missing Data can only be one of the polled node), `StuckAt` says where a
thread may be stuck, and `Asleep` that nothing moves before START.  The proof has
one lemma per action; the lemmas `PutFifo`, `GetFifo` and `PutCount` state what a
put or get does to the set of queued nodes.

Where a timer may expire inside a handler, `AnswersWatched` needs only that a handler stops a
timer when its answer is in (`AnswerIn`).

`DataWhole` is not inductive either: the invariant of `SamplingProofs` says what the
measurement has left at each place of the polling thread (the cells before the current
one are new, then all of them, then the CRC), and that the RX thread copies only at
places where a measurement is over.

`JoiningProofs`: slot and address are found by two searches that know nothing of each
other, so the invariant says what both find.  The used slots are those below `active`,
and slot `i` below it holds address `BASE_ADDR + i` (`Prefix`); hence the first search
ends at slot `active` (`FirstFreeSlot`) and the second at `BASE_ADDR + active`
(`FirstFreeAddr`), whatever the memory behind the log holds.  `Before` keeps OKs and
ACTIVE slots, which the second search does not see, away until START; `Joined`, `Below`
and `Distinct` carry the addresses through replies, CMBs and OKs; `Counted` is the count
of the OKs.  Most of it holds while `active` has not passed the number of nodes, and
`AddressesUnique` and `CycleMeansAllReported` say so too.

`HeapProofs`: that nothing is queued twice needs the phase of each queued node (`Places`)
and that what the RX thread has in hand is in no FIFO (`Apart`), also after the interrupt
has emptied them under its feet.  Then no more elements than nodes are about, and the
balance of the heap says how many records there are when a `k_malloc` fails
(`Exhausted`).  `Written` is what each phase has added to the times since the last OK.

That `SendToken` and `SendAck` keep to the rounds of `ScanCycle` needs one invariant more,
`ScanAtPlace`, inductive only together with `IInv`: at each place of the RX thread the OKs
are being counted, or all the nodes but the polled one are queued, or every Data is in.

`RacedHeapBalanced` needs none of this: types, the balance, and where the RX thread has one
element in hand (`HandAtPlace`).  So the balance survives every race of a timer with a
handler, the ones of section 6 included, though the scan does not.

`DiagProofs`: `TokensMatch` follows from the order of the two queues: both are sorted by
token, every Data that waits has its token in `tx_msgq`, and so has the polled node
(`Ordered`); what the search throws away is then older than all that is still needed.
`Exclusive` is what is needed of `OnePolled`.  `Read` says that the value the diagnostic
thread has read is that of the counter, unless an interrupt came in between.  The sums
of `DataAccounted` and `RejectedIsCombined` need what a push, a get and the search do to
the number of elements of a node, which the lemmas on `Count` state.

`FwProofs`: the host knows only what it hears, so the invariant says for each byte the host may
be at what the board holds once it has taken that byte (`Reached`: the blocks before it are in the
staging half, the address, the size and the data so far are in the buffer), and what is on its way
(`InStep`).  With one fault the echo of the byte at the cursor is right, missing or wrong; in the
last two cases the host never goes on, whatever the board makes of the byte.  A block that
was not written, or that did not come out as it was sent because of an earlier block below it, ends in
the read-back, so that `Holds` grows by one block at a time.  `Copied` says that
the words below `dest` are copied and the others are erased; the pointer leaves the flash only when all
of it has been, and `pos` stays 0.  Assumed of the constants: an erased cell takes any byte,
the flash has whole words and at most 0x40000 bytes, and a block has 1 to 240 bytes and lies
in it.

Only model-checked: liveness (`ScansUndisturbed`, `Recovers`, `JoinCompletes`,
`TokenServed`, `Sampling`, `Delivered`), which is out of the prover's reach, and the
invariants of `LtcPec` and `FnvToken`, whose exclusive or is recursive and whose codes and
hashes are computed by recursion over their input.  What one digit does to the hash after
the exclusive or is proved: a carry may as well be made once at the end (`CarriedPlus`), so
the shifted copies add up to multiples of the two halves, and 403, the lower half of the
prime, is odd (`OddFactor`).

## 5. Findings

Each is a run that TLC finds violated; `PROJECT.json` has the details.

1. `cycle_restart`: after a missing Data with more than one node, the restart never
   ends.  Only the silent node's status is set back, the OKs of the others are
   illegal and dropped (`hg_netMgr.c:110-128`).
2. `cycle_early_token`: an OK timer that expires inside `OKHandler` makes one node
   count twice (`mesh_cli.c:283-308`).  `TokenOnlyEarlyByRace`: nothing else makes a token early.
3. `joining_start`: START is sent when the last address is allocated, before that
   CMB can take it, and never again (`hg_netMgr.c:67`, `app_master.c:148`).

## 6. Observed, without a run

* `mesh_cli.c` raises `ackSgn` and `startSgn`, `app_slave.c` reads `okSgn` and
  `restartSgn`; the CMB image does not link as it stands.
* Once more addresses have been given than there are nodes (a retry or a reboot
  that the BMS took for a new node), `active` exceeds the number of nodes, so the
  OK phase or forming never ends; and since the address search looks at PAIRED
  slots only, a request after the first OK may get an address in use.
* The races of a timer with a handler reach one node too.  The OK timer expires
  inside `OKHandler`: the status is set back, and the token goes out all the same.
  The OK that answers RCV then starts a second dispatch, and when the Data timer of the first token
  expires between its emptiness test and its `k_fifo_get`, that get returns NULL, through which
  the handler reads the address (`mesh_cli.c:139-142`).
  Or the OK timer expires there before the first token is sent: that token is sent and timed but
  not stored, the OK that answers RCV makes a second one, and when the first Data timer
  expires between the test and the store of its status (`hg_netMgr.c:163-212`), the node has
  `TX_TOKEN` while the battery is lost.  `DataHandler` then throws away the answer to
  a token that is outstanding.
* RCV is counted twice (`hg_netMgr.c:143` after `mesh_cli.c:577`).
* A push on a full token or Data queue takes the oldest element out into the variable
  that holds the new one and puts it back: the newest is lost and the oldest kept,
  against the comment (`hg_netMgr.c:486-488`, `508-512`).  `Push` of `DiagQueues` does
  the same; `TokensMatch` and `InOrder` hold until then.
* `tRejected++` is not atomic: an expiry function that counts a rejection of a node while
  the diagnostic thread counts one has its own overwritten, and the report no longer adds
  up.  Without `~raced`, `RejectedIsCombined` fails.
* Nothing keeps the records of `hil_txqueue` few: the main loop takes one per turn of
  about 205 ms, and a finished cycle leaves one per node.  When the cycles are faster, the heap of 512
  bytes runs out, and `k_fifo_put` writes through the NULL pointer (`hg_netMgr.c:430`);
  `NullMeansBacklog` is how far that is from happening otherwise.
* A token is a hash of the uptime and nothing else.  `TokensDistinct` looks at a second;
  of the uptimes of the first day the nearest two with the same token are some 84
  seconds apart.
* The loop that copies the new program tests `pos`, which nothing changes
  (`fwupd.c:47`, `61`): it runs past the end of the flash, the processor faults and the
  reset behind it is never reached.  The whole staging half has been copied by then (`CopyIsWholeHolds`).
* An update that loses its power after the program has been erased leaves a board
  without one (`fwupd.c:33`); nothing in the code resumes the copy.
* `sys_rand_get` is asked for 8 bytes per cell where the comment says "8 bit value"
  (`hg_ltc.c:11`): each cell overwrites the seven after it, which are measured next, and
  the last seven write up to seven bytes behind the array.  `DataWhole` holds all the
  same; what lies behind is not modelled.
* A block of 128 to 240 bytes has a negative `int8_t` size and is taken as empty, though
  `maxBSize` is 240; its bytes are read as message types, and the first that is not 0
  starts the copy (`fwupd.c:91`, `119`).  `fw_update` has an image with a block of 128
  bytes; without `SizesFit`, `CopyOnlyAtEnd` fails on it.
* The wait for the command is 15000 cycles of the clock, not the "15 seconds" of
  `main.c:61`; the address of AIRCR, `0xE000EDC`, has seven digits (`fwupd.c:25`).
* `mercury_mesh_reforming`, which the comment at `hg_netMgr.c:118` says is entered,
  has no caller; nor have `diag_checkNodePresence`, `mercury_mesh_resendACK` and
  `mercury_mesh_resendToken`.

## 7. Not modelled

* **LTC6812 conversion and read-out** (`ltc_startadc`, `ltc_convadc`, `ltc_readcv`): nothing
  calls them in this build, which measures with `poll_fake_cv`, and `ltc_convadc` ORs
  its command into an array it has not initialised (`hg_ltc.c:190-197`).  Their command codes are in `LtcPec` (`Commands`).
* **SPI driver, LED, the registers of the MPU, mesh set-up**: register writes, busy waits
  and calls into the Bluetooth stack; `mercury_led_fatal` appears in every module as the
  end of the thread that calls it, the mesh as the messages it carries, loses or delays.
* **Presence check and reforming** (`diag_checkNodePresence`, `mercury_mesh_reforming`,
  `mercury_mesh_checkActiveNodes`, the two resends): no callers.
* **Accounts that nothing depends on**: `droppedCnt`, `currNode` as the diagnostics write
  it, the totals of the system, which are the sums of the nodes' counters, and the structs
  exported to Radon, which copy fields into packets that are not sent yet.
* **The other hashes of `fnv.c`**: no callers.
* **The start of the threads**, which are created one after the other with sleeps in
  between: what of it matters is in `Joining` (START before the CMB waits for it) and
  `CmbSampling` (the first measurement before the first TOKEN); the timers of the BMS are initialised by
  the diagnostic thread after the main thread has sent START (`app_master.c:111`), which
  an OK would have to outrun.
* **Two lost messages in a row**, and a stray byte at start-up (`preload.c:47`): the code
  has no recovery from either, and no text promises one.

What a next step would be: the composition of `HeapFifos` with the preemption of
`Transaction`, of which `RacedSpec` says all that concerns the balance of the heap.
