# Verification of the UWB host stack

TLA+ models of the NXP UWB IoT host stack in this repository (SR150 on Rhodes4,
FreeRTOS), the TLC runs that check them, and TLAPS proofs about them. Paths
below are relative to `src/uwbiot-top/` unless they say otherwise.

## 1. The system

An application task calls the UWB API; each call is a UCI command to the UWB
controller (UWBS) and a wait for its response.

```
 application task            sendUciCommandAndWait / sendRawUci     (prio 4)
   |  UWA_Send*  ^ devMgmtSem
   v             |
 mailbox (queue of 50)  -->  uwb_task: window, retries, callbacks   (prio 5)
   ^         ^                        |  HAL_WRITE
   |         | quick timer            v
 HAL client  | (timer daemon)       HAL, TML, SPI  <-->  UWBS
   ^  read_complete
 TML reader thread                                                  (prio 3)
```

| component | source | state | operations |
|---|---|---|---|
| UWB task | `libs/uci-core/src/uwb_task.c`, `uwb_ucif.c`, `uwb_main.c` | `uwb_cb`: command window, pending flag, retry count, last command, raw callback, chaining buffer, task state | one handler for each message: command, packet, timeout, enable, disable |
| message composer | `uci_hmsgs.c` | none | `uci_snd_cmd` cuts a command into packets; raw responses, proprietary notifications |
| UWA, system manager | `uwa_dm_*.c`, `uwa_sys_main.c` | `uwa_dm_cb` | post commands and management events |
| adaptation | `libs/uwb-iot/uwb_core/adaptation/UwbAdaptation.c` | queue, task handle, one static message | post, initialise, finalise, operation mode |
| UWB API | `libs/uwb-iot/uwb_api/Api/*.c` | `uwbContext`: awaited event, status, response, device state, semaphore | about 60 calls on one send-and-wait core; four callbacks from the UWB task |
| HAL | `libs/halimpl/hal/*.c`, `utils/*.c` | `nxpucihal_ctrl`: open/close state, extension command, skip flag | write, read complete, extension command, open, close |
| TML | `libs/halimpl/tml/*.c` | reader and writer context | reader and writer threads, deferred calls |
| OSAL | `libs/halimpl/osal/*FreeRTOS.c` | timer slots, queues, semaphores | wrappers of FreeRTOS |
| application layer | `demos/common/*.c` | session table, recovery task | notification callback, cleanup |
| nearby interaction | `demos/SR1XX/demo_nearby_interaction/src/*.c` | session state for each BLE device | TLV commands, BLE events |

`src/implementation_strategy.md`, `src/dev_guide.md` and `src/docs/uml` describe
a session manager and a resource manager that the repository does not contain;
`my_custom_app` is a stub. Nothing is modelled of them.

### Hard behaviours

* The UWB task, the caller, the timer daemon and the HAL client meet in one
  mailbox. A stopped timer's message may already be in it.
* The callback that completes a call runs before the handler that makes it has
  restored the command window.
* The caller's own wait (1500 ms, or 3000 ms for a raw command) and the core's
  retries (50 ms, 21 times) are two timeouts of the same exchange.
* A response carries no sequence number: a late one looks like the next one.
* Posting never waits, and what finds the mailbox full is lost silently.
* The outcome of a call is left in globals that every callback writes.

### What makes each component correct

* UWB task: one command in flight, always watched, re-sent boundedly, and the
  window opens again however the exchange ends.
* UWB API: a call returns, with its own response or a timeout that is one, and
  leaves nothing behind that the next call could take for its own.
* Mailbox, adaptation: a lost message is never a lost exchange.
* HAL extension command: its answer, its timer and the retry notification post
  one semaphore; the next command must not find a leftover.
* OSAL timers: stopping a timer that has expired stops nobody else's.
* Reassembly: what goes up is the fragments of one message in order, or nothing.
* Session table: one slot for each session, and cleanup leaves none behind.

`PROJECT.json` lists the hazards line by line, with the properties that cover them.

## 2. The modules

| module | about |
|---|---|
| `CommandWindow` | abstract: stop-and-wait with a bounded number of re-transmissions |
| `UciCore` | the UWB task with its mailbox and quick timer; open: anybody may post anything |
| `UwbStack` | `UciCore` closed by an API caller, the API's callbacks, the controller and the link |
| `UwbNotify` | API calls that end with a notification: session calls, data to send |
| `UwbLifecycle` | start, shutdown and recovery of the whole stack |
| `UciReassembly` | chaining of received packets: responses and notifications, data |
| `OsalSend` (`MCOsalSend`) | posting to the UWB task through one static message |
| `OsalTimer` | the slots of the OSAL timers, with both their users, over the FreeRTOS daemon |
| `HalExt` | extension commands of the HAL: answer, retry and timeout |
| `TmlReader` | reader thread, one buffer, client thread, and the recovery's abort |
| `UwbStack_proofs` (with those of `UciCore`), `UciReassembly_proofs`, `OsalSend_proofs`, `OsalTimer_proofs`, `HalExt_proofs`, `TmlReader_proofs`, `UwbNotify_proofs`, `UwbLifecycle_proofs` | theorems about the modules they name |

`UwbStack` extends `UciCore`, which implements `CommandWindow`. The others stand
by themselves and meet at named places: `OsalTimer` is what is under `timer` of
`UciCore`, `OsalSend` what is under its `Post`, `HalExt` and `TmlReader` what is
under the link of `UwbStack`; `UwbNotify` takes the exchange of `UwbStack` as one
step, and `UwbLifecycle` says when there is a stack at all.

### UciCore

| variable | code |
|---|---|
| `mbox` | the queue behind `uwb_ctrl.pMsgQHandle` |
| `pc` | `"loop"`, or what remains of a handler after it has called up |
| `uci_cmd_window`, `is_resp_pending`, `cmd_retry_count`, `rawCmdCbflag`, `IsConformaceTestEnabled` | fields of `uwb_cb` |
| `pLast_cmd_buf` | the saved command, with the header kept in `last_hdr` |
| `p_raw_cmd_cback` | whether the pointer is set |
| `timer` | the quick timer; `"lost"` records that its message found the mailbox full |

An action is a handler of the UWB task. Two handlers are cut in two, because the
caller that the upcall wakes may act before the handler goes on: `CmdRsp` and
`RawRsp` then `UpdateWindow`; `GiveUp` then `Recover`. The timer daemon
outranks every task, so `TimerFires` is one step. Payloads are abstracted to the
header pair, because that is all the core compares, and to a ghost tag that no
guard reads. `FlushCmdQueue` and `UpdateCmdWindow` are the two helpers that end
an exchange, and they differ as in the code: the flush keeps the raw callback.

After a packet with PBF set, `uwb_ucif_check_cmd_queue` reads `layer_specific`
of a buffer `HAL_WRITE` has freed (`uwb_ucif.c:242`). What it reads is the choice
`forget`.

### UwbStack

`Call` is a UWB API function up to its wait, `Woken` and `WaitExpires` are the
two ends of the wait. Each action of the task is an action of `UciCore` conjoined
with the callback it makes: `RspCallback`, `TimeoutCallback`,
`RawCommandResponseCb`, `NtfCallback`. The controller loses or receives what is
written, and answers in order. `copies`, `faulted` and `result` are ghosts for
the properties.

The caller is one task. `Outranked` says whether the UWB task (priority 5,
`UwbAdaptation.c:56`) outranks it, as it does the demos' tasks (4), or shares the
processor with it, as with the recovery task of `demos/common` (5). With FALSE,
which allows every interleaving that TRUE allows, the caller may run in the middle
of a handler.

`Timely` chooses between two environments. With TRUE, an answer that is on its
way beats the 50 ms timer, and the caller's wait does not end while the
controller still owes an answer: the normal case. With FALSE, answers may come at
any time. In both, the caller's wait outlasts what the core does by itself
(`CoreAtRest`): 22 timeouts of 50 ms are 1100 ms, less than the 1500 ms of
`UwbApi_Internal.h:60`.

### UciReassembly

| variable | code |
|---|---|
| `chain["ctl"]`, `chain["data"]` | the static `chained_packet` of `uwb_ucif_process_event` and of `chain_data_packet` |
| `rawCmdCbflag`, `IsConformaceTestEnabled` | fields of `uwb_cb` that a packet is handled by |
| `out` | the controller: for each channel the message it is sending, and the next packet |
| `up` | ghost: what the last step handed to a callback |
| `verdict`, `overrun` | ghosts: what became of the last message; a copy passed the end of a buffer |

`Arrive` is the arrival of one packet, handled by the one branch that applies:
`Open`, `Extend`, `Foreign` and `Overflow` with the PBF bit, `Finish`, `Single`
and `Overflow` without. `Lose` is `uwb_main_hal_data_cback` finding no memory or
a full mailbox: the chain learns nothing of it. The mailbox keeps the order of
packets, so arrival and handling are one step here; `UciCore` models the mailbox,
with packets that are whole messages. `HandUp` includes what the callback changes
of the state here: a raw callback is used once, a device fault takes it back.

A buffer is abstracted to its pieces, its `offset` and its flag. `offset` and
`payload_length` are numbers as in the code, the latter reduced to 16 bits.
The response to a raw command is appended with its header after a check of the
payload only. A copy that passes the end (`Overrun`) is undefined behaviour, and
the model stops there, so the other properties speak of what is before it. A
single packet longer than the buffer is left out: the receive buffer
(`UCI_MAX_DATA_LEN`) is shorter than the chain's.

### UwbNotify

`waitforNotification` (`UwbApi_Internal.c:2258`) is cut where the UWB task can come
between: `Check` (the test of `receivedEventId`), `SetWaitEvent`, `NtfWoken` or
`NtfExpires` (the wait), `ClearReceived`. `Call` is a session call or
`UwbApi_SendData` up to the command; `JudgeSession`, `JudgeTransmit` and
`JudgeCredit` are what each does with what has come, the loop of `SendData`
included. `wait` and `info` are the fields of `uwbContext` that callbacks write;
`TakesRsp`, `TakesGivenUp`, `TakesSession`, `TakesTransmit`, `TakesCredit` and
`TakesDevice` are the callbacks.

The UWB task (5) outranks the caller, so each of its steps is whole. The client
thread (3) posts only while a demo (4) waits; a caller of the client's own
priority, as the tasks of `demos/pnp`, may find a packet posted between any two
steps. `outranks` is the choice. The controller carries a command out, refuses it,
or its packet is lost and given up; a session may end by itself, with or without
the in-band reason, whose status wakes nobody. `done`, `held` and `spoilt` are
ghosts. Left out: `dev_state`, and the segments of `SendData`: its own check of the
length (`UwbApi.c:2233`) admits one packet only, so the loop runs once.

### UwbLifecycle

`at` places the application and the recovery in the functions they share
(`uwbInit`, `UwbApi_ShutDown`, `cleanUp`, `Finalize`), each wait with its two ends.
The UWB task clears `uwb_cb` as it starts (`uwb_task.c:160`), takes enable,
disable and shutdown events, and reports a crash, which makes the extension call
of the crash log and puts the recovery's scenario in a queue of two. `hal` and
`client` are `phNxpUciHal_open` and `phNxpUciHal_close` with the client thread.
`fault` records the first call through a null table, send to a released queue, or
start on what another start left; the model stops there.

### OsalSend

The four kinds of tasks that post, each with a priority of its own: the client (3),
the application (4), the recovery (5) and the timer daemon (17). `Call`, `Assign`
(one assignment to the static message; the compiler's order is not fixed, as
nothing synchronises them) and `Send`. A task goes on only when no task of higher
priority is inside. `Take` is the UWB task.

### OsalTimer

`apTimerInfo` is the table of two slots; `kernel` and `timerQ` are FreeRTOS: a
timer is freed by the daemon when it processes the deletion, and its memory may
be used again. A call that tests a slot and then uses its handle is two steps
(`StopCheck`, `StopUse`; `DeleteCheck`, `DeleteUse`, `DeleteClear`). Users are the
UWB task, by `StartQuick` and `StopQuick` for each command, and the HAL, whose
timer watches extension commands and whose callback sleeps in `phOsalUwb_Delay`.
The use of a handle the daemon has freed ends the model.

### HalExt

`Send`, `StartTimer`, `Wake`, `Check`, `Result` are the retry loop of
`phNxpUciHal_process_ext_cmd_rsp`, and `Exit` its ways out when a call fails, each
with what the code returns there:

| action | lines of `phNxpUciHal_ext.c` | returns |
|---|---|---|
| `NoSemaphore` | 67-70 | FAILED |
| `Unsent` (after `Send`) | 76-79 | FAILED, or SUCCESS when a former attempt was written |
| `TimerNotStarted` | 87-91 | FAILED; the command is on its way, and the timer may run |
| `WaitEnds` | 96-100 | SUCCESS; the timer is not stopped |
| `TimerNotStopped` | 111-115 | FAILED, whatever was answered; the timer runs on |

The two SUCCESS are the local `status` that line 82 has set. `MaxFail` bounds the
calls that fail; a write that fails is taken not to have reached the controller.
`Client` is `phNxpUciHal_read_complete` on the client thread, whose answer sets the
status and then posts; `Expire` and `DelayEnds` are the timer's callback.
`written` holds the attempts whose answer has not been read: what the answer says
is chosen when it is read. `late` records that something has outlived the wait
for it: a timer that expired when an answer could still come, or that was left
running, or an attempt that was still under way when its command returned.

### TmlReader

`tReadInfo`, `Rx_data` and the semaphore are the reader's context. The reader
reads into its own buffer, copies, posts and clears `bThreadBusy`; the client
takes the packet and asks for the next read, which is refused while one is under
way; the recovery aborts, suspends, restarts the controller and reads again.
`CutsPost` says whether the abort may fall between the reader's post and its
clearing of the flags: with FALSE it does not.

## 3. The runs

Every passing run completes its state space.

| run | constants | checks | what it shows |
|---|---|---|---|
| `UciCore` | 2 headers, 1 tag, 1 retry, mailbox of 2 | `TypeOK`, `WindowInv`, `NoSilentWait`, `TimeoutHasCommand`, `Abstract`, `CommandResolved` | against any callers and controller, the exchange is consistent, watched, bounded, and ends |
| `UwbStack` | 3 calls, 1 retry, 2 notifications, timely, not outranked | `StackTypeOK`, `OkIsOwn`, `TimeoutIsReal`, `NoStaleToken`, `NoCommandDropped`, `WokenByCore` | calls over a lossy link get their own answers or real timeouts |
| `UwbStackLate` | 2 calls, no retry, 1 fault, late answers, not outranked | `CallReturns` | every call returns, whatever is late, dropped or faulty |
| `UwbStackStaleTimeout` | 2 calls, late answers, outranked | `TimeoutIsReal` violated | finding 1 |
| `UciReassembly` | 2 headers, packets of 8, buffer of 24, 3 messages of up to 3 packets, 2 losses, raw commands | `ReassemblyTypeOK`, `ChainFits`, `OneHeader`, `ControlLength`, `Contained` | the buffer's bound holds, no upcall mixes headers, and a loss spoils at most the message after |
| `UciReassemblyData` | no loss, no raw commands | `DataComplete` violated | finding 2 |
| `UwbNotify` | 2 sessions, 3 calls, 1 fault (packet given up, early end of a wait, session ending by itself) | `TypeOK`, `OkIsTrue`, `DoneIsOk`, `NothingLeft`, `CallReturns` | a call reports what the controller did, whichever step the notification meets |
| `UwbLifecycle` | 3 crashes, 3 calls, 2 retries, recovery queue of 2 | `InitSurvives`, `QueueOutlivesSenders`, `FreshStart`, `UpMeansUp`, `ComesBack` | start, shutdown and recovery leave each other a clean stack, unless a recovery meets a start or an end |
| `OsalSend` | 4 senders, 4 calls | `OnlyOvertakenSuffer` | the race on the static message harms only who was overtaken |
| `OsalTimer` | 2 slots, 4 handles, 2 posted timeouts, daemon queue of 6 | `PoolSuffices`, `OnlyOwnTimer`, `Watched`, `NoLeftover` | two slots suffice, nobody stops another's timer, a command is watched |
| `HalExt` | 2 commands of 3 attempts, 2 losses, 2 failed calls | `OkMeansAnswered`, `FailureIsReal`, `KeptFromCore`, `ExtReturns` | while nothing has outlived the wait for it, the outcome is the controller's or is told by the call that failed, and no answer reaches the core; every command returns |
| `TmlReader` | 5 packets, 2 empty reads, 2 recoveries | `BufferIntact`, `InOrder`, `PacketTaken` | one buffer is enough, and reading never stops |

**Bounds.** Two headers let a response match or not. A mailbox of 2 holds a
message and what overtook it, and is full soon, which is where messages are
lost; the closed stack posts one command, a timeout and a packet at a time, so 3
leaves room. One retry reaches both sides of the limit (the count goes to
`MaxRetry + 1`). Three calls allow an earlier one to disturb a later one through
one that succeeds; the same holds of `UwbNotify`, where one fault is what it takes
to leave something behind for a later call. A buffer of 24 holds two full packets
and their header but not three, so that a message may just fit or not, and leaves
less than a header of room in between; three messages are one that loses a packet,
the one that this spoils, and one more that it must not spoil.

`OsalTimer` has the code's two slots; a handle is freed and used again within 4,
and 6 commands in the daemon's queue are one more than two exchanges leave there.
`HalExt` has 3 attempts for the code's 5 (first, middle and last one), and a second
command to find what the first has left; with 2 failed calls each command may have
one, or the second meets the timer and the answer of a first that failed. In `TmlReader`, 5 packets put one before,
between and after two recoveries. In `UwbLifecycle`, the recovery's queue is the
code's; the third crash is the one that finds it full. `OsalSend` has one task of
each priority, since equal priorities overtake each other as different ones do.

`UciCore` checks deadlock. The other runs set `CHECK_DEADLOCK FALSE`, because
their environment may stop: the application after its last call, the controller
after its last message, and a model at the undefined behaviour it ends with.

**Fairness.** Weak fairness of tasks that are ready: FreeRTOS runs a ready task,
since none of these spins; of the timers (FreeRTOS expires a running timer) and of
a wait that has an end (`WaitExpires`, `RspExpires`, `NtfExpires`, `Ends`); in
`UwbStack` also of `Answer`, a controller that gets to its queue. Of loss, faults,
strays, crashes, empty reads, failed calls, of a wait of an extension command that
ends by itself (`WaitEnds`), of calls and of starting a first extension command
nothing is assumed; `Restart` of `UwbLifecycle` and of `TmlReader` is the recovery
task going on with what it has begun.

### Findings

1. **A late timeout overrides an answer.** `uwb_stop_quick_timer` does not
   withdraw a timeout that is already posted. It is handled after the answer,
   finds no response pending, and takes the give-up branch
   (`uwb_ucif.c:159`): `wstatus` becomes TIMEOUT before the caller, of lower
   priority, has read it. `UwbApi.c:353` promises TIMEOUT "if command is timeout".
   It needs an answer at the very end of the 50 ms.
2. **Pieces of data go up.** `chain_data_packet` calls `p_dm_data_cback` after
   both branches (`uwb_ucif.c:371`), so each packet with the PBF bit goes up as a
   message of its own, and the whole message after them. `uwb_ucif.c:357`:
   "p -> points to complete UCI packet".

### Other deviations seen

Met while modelling, each by a run of the module with the constant or the
condition that excludes it changed. The conditions in the properties (`InOrder`,
`late`, `overlap`, `alone`, `overrun`) name where they are.

* `uwb_ucif.c:567` checks a response by group and opcode only: an answer later than
  the core's whole retry sequence closes the next exchange with the same header.
* `rawCmdCbflag` outlives a raw command that timed out (`uwb_ucif.c:554`): the next
  response is handled by `uci_proc_raw_cmd_rsp` ("Process RAW CMD responses",
  `uci_hmsgs.c:355`).
* There is no queue behind a shut window (`uwb_ucif.c:209`), although
  `uci_hmsgs.c:262` says "compose and send command to command queue": after finding
  1, a caller of the UWB task's priority can lose a command.
* A device error stays in `dev_state` (`UwbApi_Internal.c:2077`): any notification
  then wakes a waiting caller, which reads the former outcome (`MaxFault = 1` in
  `UwbStack` breaks `OkIsOwn`).
* A data chain without room for its last packet is emptied and handed up all the
  same, and its length wraps to 65532 (`uwb_ucif.c:358`; `uci_defs.h:450`: "max data
  size which we can send and rcv is 2031"). A response to a raw command longer than
  the buffer is checked without its header and copied with it: four octets more
  than there is room for (`uwb_ucif.c:454`).
* `UwbApi_SendData` fails, though its packet is sent, when the command before it
  ended in an error: `sendUciCommand` returns the `wstatus` it finds
  (`UwbApi_Utility.c:65`). The packet then shuts the window for the next call.
* A caller that does not outrank the client can miss a transmit status or a credit
  that comes between the test and `sep_SetWaitEvent`, or whose record another
  callback overwrites, or that is cleared at `UwbApi_Internal.c:2295`: the data is
  sent, the call fails. A session call in the same case waits to the end and then
  succeeds, as the comment there intends.
* A wait for a notification that ends by itself leaves `currentEventId` set, and a
  packet given up posts `devMgmtSem` whether or not somebody waits: the token ends
  the next call's wait before its response.
* `phUwb_OSAL_send_msg` posts another's message when overtaken
  (`UwbAdaptation.c:70-93`), and `phOsalUwb_Timer_Stop` uses a handle that the daemon
  may have freed since the test (`phOsalUwb_Timer_FreeRTOS.c:227`).
* `phNxpUciHal_ext.c:140`: "Returns UWBSTATUS_SUCCESS if sending cmd is successful
  and response is received". SUCCESS is also returned unanswered: when an attempt
  after the first cannot be written (76), or the wait ends by itself (96), since
  `status` is still that of `phOsalUwb_Timer_Start`. `OkMeansAnswered` without its
  last two disjuncts fails. In the other direction a timer that cannot be stopped
  (111) makes a failure of an answered SUCCESS.
* After such an exit, or when the timer of an extension command expires as its
  answer arrives, the next command may take the leftover token or answer for its
  own; and an answer that comes when `hal_ext_enabled` is cleared goes up to the
  core (`phNxpUciHal.c:510`). `OkMeansAnswered` and `KeptFromCore` without `~late`
  fail.
* The abort may fall between the reader's post and its flags (`phTmlUwb.c:598`): with
  `CutsPost` TRUE, `BufferIntact` fails.
* `cleanUp` deletes `devMgmtSem` under an application that waits for it
  (`UwbApi_Internal.c:79`). A second crash, or a start that is failing, during the
  recovery (`AppCallbacks.c:219`) breaks `InitSurvives` and `FreshStart`.

## 4. The proofs

`UwbStack_proofs`, its first part about the core alone: for every set of headers and tags, every retry limit and every
length of the mailbox, from `UciCoreAssumption` alone (the zero header is a
header; the two limits are naturals):

* `TypeCorrect`: `Spec => []TypeOK`. The type invariant is inductive by itself.
* `CoreInvariants`: `Spec => [](WindowInv /\ NoSilentWait /\ TimeoutHasCommand)`
  (`AlwaysWatched` and `TimeoutsHaveCommand` state the last two by themselves).
  `TimeoutHasCommand` is not inductive: a timer that fires posts a timeout, and
  nothing in the property says that a command was sent. The inductive invariant
  `Inv` adds `ShutByCommand`: a shut window means a saved command. A running
  timer implies a pending response (`WindowInv`), that a shut window, and that
  the command. Two lemmas say what posting and taking do to the timeouts in the
  mailbox (`PostTimers`, `TakeTimers`).
* `Refinement`: `Spec => Abstract`. Each handler is a step of `CommandWindow` or a
  stutter. `WindowInv` is what makes it so: a stale timeout may only re-send when
  a response is pending, and then the abstract phase is "awaiting".

The second part is about the closed stack, with `UwbStackAssumption`. Two theorems
hold in every environment, with late answers, faults and a full mailbox:

* `StackTypeCorrect`: `StackSpec => []StackTypeOK`.
* `StackImplementsCore`: `StackSpec => Spec`. The caller, the controller and the
  link post what `UciCore` lets anybody post, and each action of the task is one of
  the core's. So `Inv`, and with it every theorem of the first part, holds in the
  closed stack, and the proofs below use it.

The other five assume `Regular`: answers are timely, the device reports no error,
and there are fewer notifications than places in the mailbox. Each part is needed,
since without it the properties fail: a late answer or a stale timeout ends another
call's wait (`UwbStackStaleTimeout`, and section 3), a device error flushes a command
nobody will answer, and a full mailbox loses the command or its answer. The run
`UwbStack` has the same three. They are `OwnAnswer`, `RealTimeout` and `NoTokenLeft`
(`[]OkIsOwn`, `[]TimeoutIsReal`, `[]NoStaleToken`), `CoreWakes` (`WokenByCore`) and
`EveryCommandSent` (`NoCommandDropped`), for any number of calls and retries and with
a caller of either priority. The properties speak of the outcome of a call that is
over; the invariant says where the call is while it lasts. Its exchange is in one
place at a time (`At`): a command in the mailbox, with the controller, an answer in
the mailbox, lost, a timeout in the mailbox, or over; beside it the mailbox has
notifications only (`Only`, `Clear`). So the semaphore is posted once for a call, by
its own answer or by the last timeout, and `copies` counts the sendings so far.

`UciReassembly_proofs`, for every payload and buffer that holds one packet, every
number of messages, packets and losses, from `UciReassemblyAssumption`:

* `ReassemblyTypeCorrect`, `BufferBound` and `ControlUpcalls`:
  `Spec => []ReassemblyTypeOK`, `[]ChainFits`, `[](OneHeader /\ ControlLength)`
  (`ControlLengths` states its second half by itself).
  The inductive invariant `IInv` says of every chain what `ChainFits` does and,
  of the control channel, that its pieces carry the header of the chain:
  `OneHeader` alone says nothing of a chain that has not gone up yet.
* `LossContained`: `Spec => Contained`. While the message before left no trace,
  an open chain is exactly the packets of the present message (`Prefix` in
  `Clean`), and its offset plus what is still to come (`Rest`, `Headers`) stays
  within the buffer: each packet takes from the rest what it adds to the offset.
  So the packet meets neither `Foreign`, `Overflow` nor `Overrun` (`RoomForRest`,
  `PacketClean`), and the last one delivers the message. A response whose raw
  callback is set in the middle is stored with the headers from there on, which
  is why `Prefix` gives its offset only as a bound.

`OsalSend_proofs` (`OvertakenOnly`), from `OsalSendAssumption`: any number of tasks, no
two of one priority. The property is about the queue alone, so the invariant has to
say what leads to it: `LowerOvertaken`, whoever is inside `phUwb_OSAL_send_msg`
together with a task of higher priority has been overtaken; hence whoever runs has
overtaken all others inside (`OthersOvertaken`), and what it assigns spoils only
theirs; `Kept`, what a task that was not overtaken has assigned is still in the
message; `Shape`, the send comes last, so that then all of it is there; and `Posted`,
the property element by element of the queue.

`OsalTimer_proofs` (`TwoTimersSuffice`, `OwnTimerOnly`, `CommandWatched`,
`NothingLeftOver`: the four invariants of the run), from `OsalTimerAssumption` and
`TwoSlots`, that there are at least the two slots of `PH_UWB_MAX_TIMER`; for any
number of FreeRTOS timers, posted timeouts and queued commands. None of the four is
inductive. The invariant `IInv`, which TLC checks for two and for three slots, has
four parts. `Owned`: the HAL's timer is in the first slot and the quick timer in
the second, always, because the HAL creates its own before any command and outlives
them; so an id that is stale still never names the other's slot. `Timers`: the timer
of a slot exists and has no deletion queued, except between the two last steps of
`phOsalUwb_Timer_Delete`; no queued command comes after the deletion of its timer
(`Sound`); and a quick timer that is marked stopped cannot expire (`Quiet`): it does
not run and no start is queued, or a stop is queued and the daemon takes it before
it looks for expiries. That is why `Process` comes first after a sleep in
`phOsalUwb_Delay`. `Agenda`: what the UWB task has still to do is the rest of one of
its handlers, each with what the handler relies on at that point. The theorems do
not say that the handle a stop or a delete uses is still good: it may not be (fault
`"handle"`, a deviation of section 3), and the model ends there. What they say is
that this is the only fault.

`HalExt_proofs` (`SuccessAnswered`, `FailureReal`, `CoreUntouched`), from
`HalExtAssumption`, for any number of commands, attempts, losses and failed calls.
The invariant says that, while nothing has outlived the wait for it, the attempt is
in one place at a time (`At`): with the controller or on its way back, with the
client thread, with the timer's callback, on the semaphore, or nowhere. So one of
them writes `status` at a time and the semaphore is posted once for an attempt. With
it go `Truthful` (the status is final exactly when the controller has said so of this
command) and `Open` (it has said nothing yet), `Loop` (what ends the retries is
final, or the last attempt's outcome; no later command has an answer) and `Shape`
(the places of the application, with the flags `hal_ext_enabled` and `sem` that they
fix). All ends of a command, `Result` and the exits but `NoSemaphore`, are one lemma,
`ReturnIInv`: what is returned is `Justified`, and nothing is under way or it is
late. After that nothing is claimed, and nothing holds: see the deviations.

`TmlReader_proofs` (`BufferKept`, `TakenInOrder`), from `TmlReaderAssumption` and
`~CutsPost`, for any number of packets, empty reads and recoveries. `bThreadBusy`
alone does not protect the buffer: the client clears it before its callback, and the
abort clears it at any time. What protects it is `OneUser`: a request (`bEnable`)
exists only when the queue is empty and the client has finished, since the client
asks for the next read after its callback; and a reader that is past its test keeps
that so until it posts. `~CutsPost` is needed where the abort would clear `bEnable` under
a reader that goes on to post. `Ordered` carries the order of the packets through the
places one can be in: delivered, in hand (`InHand`), at the controller.

`UwbNotify_proofs` (`TypeCorrect`, `OkTrue`, `DoneOk`, `NoTokenLeft`: the four
invariants of the run), from `UwbNotifyAssumption`, for any sessions, calls and
faults. The properties speak of the end of a call, and none but `TypeOK` says what
leads to it; the invariant `IInv`, which TLC finds true on the instance of the run,
says it of the messages under way, the mailbox and what the controller
has sent, taken as one sequence (`transit`): a step adds messages behind, takes the
first, moves one without changing the sequence, or leaves it. Its parts:
* `Window`: the command window is shut just while one packet that opens it is under
  way, and every data packet has its credit behind it.
* `Control`, while no wait ended without its notification and no data packet was
  given up (`InOrder`): a token on `devMgmtSem`
  is for the caller that waits, answers are under way only for a caller that waits
  for its response, and `currentEventId` names what the caller waits for.
* `Answered`: the status of the response, under way or in `wstatus`, says whether
  the controller has carried out the call.
* `Statuses`: the only session status under way is the one the call waits for, and
  when it has passed, `sessionInfo` holds it. This is why a wait for a session
  status may report success when it expires. It needs that no session ended by
  itself: such a status looks like the call's.
* `Transfers` (with `Stage`): for a caller that outranks the client thread, what is
  under way of a transfer (statuses, then the credit) fits the place of the caller
  in the loop of `UwbApi_SendData`. A caller of the client's own priority may miss
  the status, which is the exception `DoneIsOk` makes.

`UwbLifecycle_proofs` (`NoNullCall`, `NoSendToReleased`, `StartsFresh`, `UpIsUp`: the
four invariants of the run), from `UwbLifecycleAssumption`, for any number of crashes,
calls and re-transmissions and any recovery queue with a place in it (the code's has
two, `AppRecovery.c:45`; without one a crash is forgotten and `ComesBack` fails, as
TLC shows). Three of the properties say that a step never happens, and none says why
not; the fourth is about an application that is up, while what has to be right is what
it leaves when it goes down. The model ends at the first fault, so the inductive
invariant `IInv` is the properties and, of a state without fault, `Inv`. TLC finds it
true on the instance of the run and on others. Its parts are mostly about the order in
the mailbox:
* `Phases`, with `Shutting`: `cleanUp` clears `devMgmtSem` before it posts the shutdown,
  so the semaphore tells which side of it a state is on. Behind it, the first shutdown in
  the mailbox has a disable before it and no command between the two. The disable
  closes the HAL and stops the timer, and only a command could start it again. So
  the UWB task ends with both at rest.
* `Down`: the queue is released only then, with no HAL that could post a packet, no
  timer that could fire, and the application not begun, at its end, or about to be
  deleted by the recovery.
* `Exchange`, with `Cold`: that no command comes after the disable. The application
  has one under way at most, and leaves its call only when that is answered, given up,
  or swallowed by a crash, whose scenario then waits in the recovery's queue.
* `Starts` (`Enabling`, `Registering`): a start has one message under way at most and
  nothing else in the mailbox, and its waits for the enable and the registration never
  time out.
* `Disabling`: the HAL is open until the disable is taken, and there is one disable
  only, unless `overlap`; so it finds `uwb_cb` filled, and its callback is there.
* `Stack`, `Places`, `IsUp`: how the UWB task, the HAL, the application and the recovery
  go together.

All the invariants that the runs check have a theorem. Only model-checked: liveness
(`CommandResolved`, `CallReturns`, `ExtReturns`, `PacketTaken`, `ComesBack`), which
needs fairness and is beyond the prover.

## 5. Plan

Done: the exchange of commands (`CommandWindow`, `UciCore`, `UwbStack`), chaining
(`UciReassembly`), and what is above, below and around them (`UwbNotify`,
`UwbLifecycle`, `OsalSend`, `OsalTimer`, `HalExt`, `TmlReader`).

Left:

1. `AppSessions`: the session table, its notification callback and the clean-up.
2. `NearbyInteraction`: the session state machine of each device. Reading it, two
   things to check: `handleStopSession` loops for as long as the stack answers
   NOT_INITIALIZED, and it runs without `mTlvMutex` on a disconnection
   (`ble_server.c:499`).

## 6. Not modelled

Most of the repository's lines are not the stack: vendored libraries (`ext/`:
mbedtls, CMSIS, the board's SDK and its Bluetooth host), firmware images as arrays,
the secure element's middleware (`se_mw/`), register headers. They are used, not
developed, here, and the stack's state does not depend on them; the HAL, OSAL, UCI
core and API together are a few percent.

Of the stack itself: parsing and serialising of payloads, logging, firmware
download (one thread's blocking transfers), SPI transactions, the secure element,
the PnP and VCOM bridges, the POSIX ports, the session table and the
nearby-interaction demo (see the plan). `PROJECT.json` names each component with
its status.

Within the modelled components: `UciCore` and `UwbStack` take packets that are whole
messages; memory allocation succeeds, but for the semaphore of an extension command.
In `UciReassembly`, a segment of a command (PBF) that clears the raw flag a former
command has left (`uwb_ucif.c:253`; `UciCore` has it). Of the HAL: a data credit that posts the
semaphore of an extension command (`phNxpUciHal.c:505`), and packets that are not
handed up while `hal_ext_enabled` is set (`phNxpUciHal.c:511`), among them
notifications. Of the UWB task: the failure events of the HAL.
