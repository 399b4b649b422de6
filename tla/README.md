# TLA+ models of the NB-IoT sensor node

The program is the firmware of a sensor node: an EFM32 board under Micrium OS
reads humidity and temperature, and posts them to a cloud service through a
Digi XBee 3 NB-IoT modem.  This directory holds TLA+ models of its concurrent
and protocol-bearing parts, the TLC configurations that check them on small
instances, and proofs for TLAPS, which hold for every value of the constants.
`PROJECT.json` lists the runs, the source lines each definition stands for, the
hazards and the findings.

    tlc -config MCPipeline.cfg MCPipeline.tla      # check one configuration
    tlapm PipelineProofs.tla                       # check the proofs

Paths below are those of the repository, under `src/`.

## 1. Inventory

| Component | State | Operations | Where |
|---|---|---|---|
| Application tasks | `local_in_buff`, its count, `CellTXBuffMutex`, `CellTXBuffSem`, the delays of both tasks, updates sent, LED | `mainStartTask`, `localInTask`, `cellTXTask` | `src/main.c` |
| Kernel: tasks, scheduling, mutexes, semaphores, time | ready lists, current task, states, priorities, pend lists, tick lists, owners and mutex groups, semaphore counters | `OSMutex*`, `OSSem*`, `OSTask*`, `OSTimeDly*`, the tick task | `kernel/source` |
| GNSS receiver | parser statics of `gnssRxHandler`; two halves, front index, locks | RX and TX interrupts, `gnssInit`, `gnssSln`, `gnssPutAll` | `src/gnss.c` |
| Circular buffer | head, tail, mask, bytes | put/get of a byte or a block, flush, used, free | `XBee/xbee_cbuf.c` |
| XBee serial driver | `rx_buffer`, `tx_buffer`, RTS, TXBL enable, break flag | both interrupts, read, write, getchar, flush, break, open | `XBee/xbee_serial_efm32.c` |
| XBee device layer | frame id counter, receive state, flags, modem status | frame write, load, dispatch, tick | `XBee/xbee_device.c` |
| IPv4 envelope | none | `xbee_ipv4_envelope_send` | `XBee/xbee_ipv4.c` |
| HTTP client | `sendContext`, `recvContext`, `txStat`, connection flag | connect, send, receive, two frame handlers, `sendDataToCloud` | `src/http_client.c` |
| AT commands | table of requests with sequence numbers and timeouts, the list head of the device query, flags of the device | create, send, release, expire, response handler, query, refresh | `XBee/xbee_atcmd.c` |
| Command mode, configuration | break, baud rate, response buffer, timers | enter, exit, send and read a command, `configureXBee`, `configureAPN`, the modem's radio | `XBee/xbee_atmode.c`, `xbee_config.c`, `src/main.c` |
| Platform, helpers | seconds counter | pure helpers | `XBee/xbee_platform_efm32.c`, ... |
| Sensor, LEDs | I2C and timer registers | pure I/O | `src/temp_sensor.c`, `leds.c` |
| Rest of the kernel; common, ports, BSP, emlib, drivers, SystemView | vendor state | vendor code | `kernel`, `common`, `cpu`, `ports`, `BSP`, `emlib`, `Drivers`, `SystemView` |

How they interact.  `mainStartTask` brings the board and the XBee up and
creates `cellTXTask`, which resolves the server's name and creates
`localInTask`.  `localInTask` (priority 26) reads the sensor into the shared
buffer; `cellTXTask` (priority 20) takes the buffer over, and calls
`sendDataToCloud`.  That loops over `xbee_dev_tick`, which reads bytes through
the serial driver, assembles frames and calls the HTTP client's handlers
back; the handlers leave what they found in two static contexts the loop
examines after the tick.  The serial driver shares a circular buffer with an
interrupt in each direction and stops the modem with RTS.

`initXBee` configures the XBee in command mode for bypass, tells the modem
behind it which radio to use, enters command mode again to configure the XBee
for API frames, queries the device through the AT commands, and sets its APN in
command mode.  (The build defines `XBEE_DEVICE_ENABLE_ATMODE`,
`XBEE_DEMO_CONFIG`, `XBEE_DEMO_HOLOGRAM_SIM` and `XBEE_CHANGE_APN`, `.cproject:103`.)
Around command mode both buffers are flushed.  The AT command layer keeps a table
of requests; its response handler is called by the frame loader, its expiry by
whoever ticks, and its callbacks create and release requests in turn.

All waiting goes through the kernel: each service is a critical section that
ends in the scheduler, and a tick task wakes those whose time is up.  The GNSS
receiver is separate: its interrupt parses, `gnssSln` copies the last solution
out of a double buffer.

What is hard.  Two tasks that preempt each other in the middle of a buffer
update; a semaphore that is posted several times, or late, for one send; a task
that never blocks at the higher priority; interrupts between any two accesses of
a lock-free buffer; an index that may equal the size of its buffer; flow control
decided in two steps; a task that is suspended, timed out, aborted and deleted
while it waits; priorities passed along chains of owners; callbacks that restart
the list they are called for; a dialogue in lines over bytes left from before;
confirmations that come after their request timed
out, under ids that wrap; a response cut anywhere; state a flush, a reset or a
failed call leaves behind.  `PROJECT.json` has each at its line.

What makes each component correct:

- *Tasks*: every update is one reading, fresh, never torn; buffer and count
  agree; the node keeps sending until its data limit.
- *GNSS*: a solution comes from one good packet; good packets are not missed;
  the parser recovers.
- *Serial driver*: each direction is a queue of bytes; a stopped modem or a
  disabled interrupt is always started again; frames are queued whole or not.
- *HTTP client*: a send is confirmed by its own frame; a finished response is a
  whole response; success means the server has it; a call with a timeout
  returns.
- *AT commands*: an answer reaches the request that asked for it, or nobody; a
  query that is done has all its values; whoever polls it or waits for a request
  gets on.
- *Frame loader*: a frame whose start is seen is delivered as it was sent, after
  whatever noise; handlers keep the frame they were given.
- *Command mode*: a configuration that succeeds is in the XBee and in its flash.
- *Kernel*: a task is in the lists its state says; nobody waits for what is free;
  delays are exact; a mutex goes to the first of the highest priority, and
  who gets it owns it; inherited priorities are exact, and given back.

## 2. Modules

| Module | Models | Depends on |
|---|---|---|
| `Pipeline` | the two tasks, the end of start-up, the kernel services they use | |
| `PipelineProofs` | theorems about `Pipeline` | `Pipeline`, `TLAPS` |
| `Gnss` | UBX parser, double buffer, `gnssSln`, the line | |
| `GnssProofs` | theorems about `Gnss` | `Gnss`, `TLAPS` |
| `CBuf` | the circular buffer, as operators on a record | |
| `ByteQueue` | abstract: what one direction of the line promises | |
| `SerialRx` | RX interrupt, RTS, `xbee_ser_read`, command mode; implements `ByteQueue` | `CBuf`, `ByteQueue` |
| `SerialRxProofs` | lemmas about the buffer, theorems about `SerialRx`, the refinement of `ByteQueue` | `SerialRx`, `TLAPS` |
| `SerialTx` | TX interrupt, `xbee_ser_write` under `xbee_frame_write`, break | `CBuf` |
| `SerialTxProofs` | lemmas about the buffer, theorems about `SerialTx` | `SerialTx`, `TLAPS` |
| `HttpParse` | `ipv4ReceiveHandler` as an operator on a received frame | |
| `HttpClient` | the HTTP client over the XBee and a server | `HttpParse` |
| `HttpClientProofs` | theorems about `HttpClient` | `HttpClient`, `TLAPS` |
| `Kernel` | ready, pend and tick lists, scheduler, mutexes, semaphores, tasks, time | |
| `KernelProofs` | theorems about the lists, counts and owners of `Kernel` | `Kernel`, `TLAPS` |
| `KernelPrioProofs` | theorems about its priorities and critical failures | `KernelProofs` |
| `AtCommand` | request table, command list, device query; start-up and name resolution over them | |
| `FrameLoad` | `xbee_dev_tick` and `_xbee_frame_load` over a queue of bytes | |
| `CommandMode` | `initXBee`: command mode, configuration and modem, on the loader's port | `FrameLoad` |
| `CommandModeProofs` | theorems about `FrameLoad` and `CommandMode` | `CommandMode`, `TLAPS` |
| `MC*` | instances for TLC | |

Operators whose comment begins with *Fault:* are not part of any specification.
Each is the operator that follows it with one plausible mistake made, and shows
that a property would notice that mistake.

### Pipeline

State: `pc` and `dly` stand for the three tasks' control blocks, `sem` and
`owner` for the two kernel objects, `buf`, `count` and `copy` for the shared
buffer, its count and `local_in_cpy`.  An action is one statement or kernel call
of a task; `Runs(t)` lets only the ready task of the highest priority move,
with the priority a mutex owner inherits.  `snprintf` fills the buffer from the
left, so it is two steps and a switch in between shows.  Kernel calls have
their effect on the program's objects: a post hands the mutex or the permit
straight to a waiter, as `OS_Post` does.  `OSTimeTick` may fall between any two
steps.  Readings are 1 and 2 in turn.

### Gnss

`RxHandler` is the whole of one call of `gnssRxHandler`, its five states and
the two labels `next` and `reset`; `SlnBegin`, `SlnCopy` and `SlnEnd` are
`gnssSln`, one byte at a time, since only its ends run with the interrupt
disabled.  The line carries good packets, damaged ones and other messages,
at random.  `SlnEnd` unlocks what is the front half *then*, as the code does.
`heard` and `fixes` are history: what came over the line, cut at every place where a
NAV-PVT packet may begin, and the payloads of those that came whole and whose checksum
is right (`Fletcher`, by the definition of the sum, not by what the parser computes).
`SolutionWhole` compares what `gnssSln` copies with these.

### CBuf, SerialRx, SerialTx

`CBuf` keeps the code's arithmetic, including what it does not wrap:
`xbee_cbuf_put` and `xbee_cbuf_get` may leave an index equal to `mask + 1`.  Block
operations come in the two halves between which an interrupt may fall.
`SerialRx` has the RX interrupt with `checkRxBufferUpper`, the read in four
steps, and `checkRxBufferLower` in two, the comparison and the pin.  `SerialTx`
has `xbee_frame_write` reading free and used space in separate steps,
each piece of a frame put in two halves, and the break of `enterCommandMode`.
Both keep the ways in and out of command mode as far as they touch the buffers.

### HttpParse, HttpClient

A response is a string of tokens, each where the code looks at one byte.
`Receive` is one call of `ipv4ReceiveHandler` with its fall-through cases.
`HttpClient` has the loops of `httpClientSend` and `httpClientRecv` between
ticks, `Dispatch` for each frame a tick hands to a handler, and `Expire` for the
seconds timer.  The XBee and the server are external: frames are confirmed in
order, delivered or refused, and responses come back in pieces, cut anywhere: within
the body, within a header line, between CR and LF.  `MaxCuts` bounds how often headers are
cut, `cuts` counts it, and `split` records that a cut fell where the receiver cannot
join the pieces.  Behind the LF of the status line it can, and behind that of a later line as long as
a body is to come: the frame falls through to the body with nothing to copy, and the next one
goes on with the headers.  Elsewhere a line, or its end, is lost (`Joins`).

### Kernel

The variable `k` is a record of the kernel's data structures.  A function of the
C code is an operator from `k` to `k`; a service is its critical section followed by
`OSSched`, hence one step.  The running task may call any service with any
argument, an interrupt may post a semaphore, and `OS_TickTask` wakes the delayed
and the timed out as the tick task does, which is above all tasks of the model:
while it runs, the current task and priority are its own, which decides where in
a ready list a task is put.  `TaskChangePrio` follows the chain of owners with
the loop of `OS_TaskChangePrio`; `failed` is a chain or search without end, or
`RTOS_CRITICAL_FAIL_EXEC`.  Loops over lists (`EndPends`, `MutexPendAbort`,
`MutexGrpPostAll`, `TickListUpdateDly`, `TickListUpdateTimeout`) are recursive functions of
the number of entries that are done.  Four fields are history: `held` (the mutexes a
task was told it has), `due` (the ticks it should still wait), `astray` (the code
has taken one of the two turns described below) and `rare`, a bound.

The kernel here is the general one; `Pipeline` has the effect of its services on
two tasks with one mutex and one semaphore.

### AtCommand

One task runs the layer, so a function of it is an operator from a state
of the layer to the *set* of states it may leave: a frame may be refused.
Callbacks are part of these operators, since they run inside of the tick that
calls them; `xbee_cmd_create` ticks a full table to free a slot, but not within
`xbee_cmd_tick`, hence `QueryInTick` besides `QueryDevice`.  The actions are the
statements of the loops in `initCommandLayer`, `sendAtRequest`, `checkConnection`
and `resolveFQDN`.  The XBee is a queue of answers it owes: they come in order, and
may be late, lost or negative.
`wrong`, `answered`, `robbed` and `heard` are history.

### FrameLoad, CommandMode

Bytes have their values, so that data may look like a start byte or a return.
`FrameLoad` has one action per state of `_xbee_frame_load`; the stack of calls
shows the recursion that `XBEE_DEV_FLAG_IN_TICK` prevents.  The first byte of an
undamaged frame carries the frame, which only `expect`, history, picks up.
`CommandMode` extends it: `initXBee` step by step, with the XBee's mode,
registers and flash, its late answers and refusals, the modem in bypass mode, and
baud rates, at which bytes arrive only if they agree.  The loader runs on the
same port before and after each visit to command mode.  `UratTimeout` compares a
buffer that was not initialised: either result is possible.

## 3. Runs

Runs that pass:

| Run | Properties | Shows | States |
|---|---|---|---|
| `pipeline` | `TypeOK`, `NoTornSend`, `CountMatchesBuffer`, `FreshSend`, `KeepsSending` | no torn, stale or lost update under preemption; sending goes on to the limit | 4.5 k |
| `gnss` | `TypeOK`, `SolutionWhole`, `GoodPacketDelivered`, `FixOnceClean` | solutions are never mixed, good packets never missed, the parser recovers | 2.6 M |
| `serial_rx` | `TypeOK`, `RxIsQueue`, `Resumes` | receiving implements `ByteQueue`; a stopped modem is released | 16 k |
| `serial_tx` | `TypeOK`, `InOrderUntilAstray`, `WholeFrames`, `NoneStuck` | frames leave whole and in order, none is left behind, until the interrupt passes the tail | 783 k |
| `http_safe` | `TypeOK`, `SendMeansDelivered`, `DoneMeansWhole`, `OkMeansAnswered` | two requests with timeouts, refusals and late confirmations, a header cut anywhere | 3.0 M |
| `http_live` | `TimedReturns`, `ResponseEndsWait` | calls return and responses end waits, with headers cut twice and bodies that do not fit | 114 k |
| `at_command` | `TypeOK`, `AnswersOwn`, `QueryNotStranded`, `DoneMeansAll`, `GetsOnline` | answers reach whom they belong to, a query that is done has all its values, the start-up comes through | 204 k |
| `kernel` | `TypeOK`, `ListsAgree`, `NoLostWakeup`, `DelaysExact`, `PendSorted`, `PrioExact`, `HolderOwns`, `NeverFails` | any mix of services keeps lists, delays, orders and priorities right | 786 k |
| `command_mode` | `TypeOK`, `HandlersSeeFrame`, `ConfiguredMeansSaved`, `StartSeenDelivered`, `FramesArrive` | a configuration that succeeds is saved, and frames arrive, with damaged frames and answers late or refused | 1.2 M |

Runs that find a violation, each a disagreement between the code and what a
comment of it says:

| Run | Property | What happens |
|---|---|---|
| `gnss_unlock` | `UnlockedWhenIdle` | A packet that completes while `gnssSln` copies flips the halves; line 302 unlocks the new front half, the one locked on line 286 stays locked. It is the back half now, every later packet is dropped, and `gnssSln` returns the same solution from then on. |
| `serial_tx_order` | `SendsInOrder` | A put that ends at the end of the buffer leaves `tail = mask + 1`, which the masked head never equals: the interrupt runs past the end and sends the buffer again. |
| `http_split` | `DoneMeansComplete` | A frame ends within the headers, before Content-Length has been read as a line. `ipv4ReceiveHandler` falls through to the body, copies the piece of a line there, and finds it has all of a body of length 0: it is done without the body. |

The modules state more of what comments say that TLC refutes.  No run is spent on
these; where TLC needs other bounds than those of the module's passing run, they are named:

- `NeverBelowBase` of `Kernel` ("Base priority (Not inherited)", `os.h:819`): B owns m2 and
  waits for m1, whose owner has a high priority of its own; H waits for m2 with a timeout, and
  B inherits its priority.  When the timeout expires B goes back to its own, and the loop of
  `OS_TaskChangePrio` gives that priority to the owner of m1 (`os_task.c:2386`), though it
  never had one from B: it runs below its base priority.  `MaxRare = 0` is enough.
- `NewOwnerOwns` of `Kernel` ("Give mutex to new owner", `os_mutex.c:879`): a task is deleted
  while another waits for its mutex.  The waiter is made ready and told that it has the mutex,
  but the deleted task is written down as the owner: the mutex is never free again, and
  its post is refused.
- `CopiesInRoom` of `HttpClient` ("If we have room in the buffer", `http_client.c:313`): a frame
  ends between CR and LF.  `headerToString` counts both, the length of what is left becomes -1,
  passes the test for room, and is what `memcpy` gets.
- `AnswerEndsWait` of `HttpClient` ("Blocks, waits for incoming/complete http response",
  `http_client.c:556`): the response is dispatched in the same tick as the confirmation of the
  request's body.  `httpClientRecv` then resets `recvContext` and waits for a response that
  was read already; without a timeout, as `cellTXTask` calls it, for ever.  One request and
  `MaxCuts = 0` are enough.
- `ZeroMeansSet` of `CommandMode` ("Successfully set the correct APN", `xbee_config.c:169`): two
  answers of an earlier visit to command mode come in the visit that sets the APN.  Each is
  taken for the answer to the next command, since nothing tells them apart: the XBee refuses
  the name, and `configureAPN` returns 0 with the refusal still unread.  It takes
  `MaxFaults = 3`, and only the frame `<<138, 13>>` keeps that small.
- `AssertedWhenEmpty` of `SerialRx`: a flush empties the buffer without asserting RTS, and
  `xbee_ser_getchar` returns before `checkRxBufferLower` when it finds no byte: in
  command mode nobody releases the modem.
- `EmsgsizeMeansNever` of `SerialTx`: free and used space are read one after the other,
  with the interrupt in between; a frame that would fit returns `-EMSGSIZE`.
- `NotRobbed` of `AtCommand`: the list callback starts the query again, a full table is
  ticked, the request whose callback runs is released and its slot taken; the
  dispatcher then releases the new request.  It takes six faults, so that TLC finds
  it with `MaxFaults = 6` and not within the bounds of `at_command`;
  `AnswersOwn` and `QueryNotStranded` hold with six faults too.
- `ConnectionFollowsAI` of `AtCommand`: `checkConnection` passes no context, so the
  answer to AI does not reach the flag, and a timeout writes through NULL.
- `GreenMeansSent` of `Pipeline`: the green LED shows after a failed update too.

`serial_tx` passes because its properties speak of the executions before
the interrupt goes `astray`; what happens then is `serial_tx_order`.
`DoneMeansWhole` and `OkMeansAnswered` speak of the executions before headers were cut where
the receiver cannot join the pieces (`split`); what happens then is `http_split`.  The liveness
properties of `http_live` hold after such a cut too, unless `memcpy` got a negative size
(`FAULT`, which `DoneMeansWhole` excludes before one).  `OkMeansAnswered` speaks of clients
without failures: after a failed update the connection stays open
(`http_client.c:802`), and a late response may be taken for that of the next one.
`kernel` has `PrioExact`, `HolderOwns` and `NeverFails` until `k.astray`: until
`OS_TaskChangePrio` has passed a lower priority to an owner that had none from this
task (`NeverBelowBase`), or a task was deleted while others waited for its mutex, when
`OS_MutexGrpPostAll` writes the deleted task where it means the heir
(`NewOwnerOwns`).  `ConfiguredMeansSaved` speaks of the visits in which the
XBee's own answer ended `enterCommandMode`.  `GetsOnline` excepts the crash above.

### Bounds

- *pipeline*: `TxDly = 6`, `InDly = 2`, `MaxWork = 2` for 1000, 10 and the CPU
  time of a pass; three updates (`DataLimit`).  Six ticks are two passes of
  `localInTask` and a sleep in between: the semaphore gets its surplus
  permits, and every point of a pass is preempted, by the tick too.  Three
  updates are one after start-up, one after a reset of the semaphore, and the
  limit.  The proofs have no bound.
- *gnss*: bytes of 3 bits, payloads of two bytes, two solutions.  Checksums
  wrap, a mixed solution shows with two bytes, and the foreign messages hold an
  acknowledgement and a lone sync byte.  With one damaged byte of value 5,
  the first sync byte, a packet can appear to begin within another.
- *serial_rx*, *serial_tx*: buffers of 8, where 1024 and more are configured.
  The code depends on the size only through the mask and the two RTS bounds,
  and a buffer of 8 has each of them at a distance of its own; a block get of
  5 wraps in every way.  Bytes are numbered modulo 9, one more than can be under
  way, so a loss, a repetition and a swap all show.  The frames have a header only, data
  only, and both, which makes pieces of two lengths and a frame of three pieces and one of four.
- *http*: `http_safe` has two requests, ids modulo 3, two frames a tick, bodies that are
  empty or fill the buffer of two bytes, and one cut through headers, anywhere.  Two requests are
  what it takes for one to meet what another left behind.  A request that
  times out and a resend use up three ids and make them wrap.  `http_live` has one
  request, bodies longer than the buffer too, and two cuts, so that a piece of headers may come
  between two others.  The proofs bound neither.

- *kernel*: three tasks of different priorities, so that one can come between an owner
  and its waiter; two mutexes, for chains of owners and for deadlock; one semaphore
  with a count of at most one (`MaxCtr`); waits for ever or for two ticks, so that a
  second wait may begin while the first is half over.  Services other than
  pend and post are called once (`MaxRare = 1`), which still puts each of them between
  any pends, posts and timeouts, but never has two of them in one execution: that any number
  may be combined is shown by the proofs only, which have no such bound.  The mutexes are a symmetry; tasks are not, as
  their priorities differ.
- *at_command*: a table of two requests, the query and one more, so that it can be
  full; two sequence numbers and four ids, so that both wrap; a query of three
  commands, refreshed from the second on; timeouts of two seconds; three
  faults: an answer late, a frame refused and a refresh can meet.  More faults make
  liveness too expensive.
- *command_mode*: one frame with a handler whose data is the start byte, one without
  whose data is a return; a driver that holds six bytes (`MaxRx`), the length of
  the modem's answer, so that frames and answers fill it; two dispatches per
  tick; a response buffer of 9, which a line of text can fill; one fault, as
  faults multiply the states, but from either kind of XBee: as delivered, or
  configured before, with the right APN or another.

Three runs do not check for deadlock besides the HTTP ones: the kernel stops at a
failure, an AT command layer that has crashed or is online goes no further, and so
does an `initXBee` that failed.

### Assumptions

- `TimingAssumption` of `Pipeline`: while `cellTXTask` sleeps, `localInTask`
  finishes its pass, sleeps and refills the buffer.  The code's 1000 ms against
  10 ms provide that.
- `MarginAssumption` of `SerialRx`: the modem sends at most `Overshoot` bytes
  after RTS is deasserted.  This is of the modem, not of the code.  The space
  held back must take the overshoot *twice*: between the comparison and the
  pin of `checkRxBufferLower` the interrupt may find the buffer full, deassert
  RTS, and have the task assert it again.
- `CommandAssumption` of `CommandMode`: the text of an access point's name holds no
  return, which ends an answer.
- `KernelAssumption` of `Kernel`: finitely many tasks, priorities from 0 on, and objects,
  tasks and the null pointer that differ; nothing else is assumed of their numbers.
- `IdAssumption` of `HttpClient`: a run of the client sends no more requests than there
  are frame ids, 10 (`DEV_DATA_LIMIT`) and 255 in the code.
- The XBee confirms frames in order, each at most once, or not in time.  No answer of
  it is so late that all frame ids have been given out since.
- In command mode the time of a byte is nothing against the timeouts: an answer
  comes before its timeout, or is late, which counts as a fault.

### Fairness

- *pipeline*: the tick comes, and the CPU executes the running task.  Nothing
  is assumed of the network: `TxConnect` and `TxSend` may never end, as the calls
  have no timeout.  `KeepsSending` is stated around them.
- *gnss*: the line delivers, and the module goes on sending, as `gnssInit`
  configures it to.  `FixOnceClean` assumes in addition a line that is clean from
  some time on.
- *serial_rx*: the task polls (`xbee_dev_tick`, `getResponse`).  The modem
  need not send anything.
- *http*: the loops tick, the clock runs and the XBee forwards what it has
  received.  The server need not answer, nor the XBee confirm.
- *at_command*: the task runs, seconds pass again and again while it sleeps, as its
  loops call `OSTimeDly`, and the XBee is not late for ever.
- *command_mode*: the receive interrupt is served, and the loops that wait for frames
  tick and let the loader go on.  Nothing is assumed of the XBee, which sends what it
  likes, or of the dialogue in command mode.

## 4. Proofs

Each theorem holds for every value of the constants that the `ASSUME`s of the
modules allow (section 3).  Except for the parts about what was heard (`HeardInv`) and
about cuts through headers in `FlowInv`, TLC checked the inductive invariants below on
a small instance before they were proved.

| Module | Theorems | Run property |
|---|---|---|
| `PipelineProofs` | `Invariance`, `FreshInvariance`; `TypeCorrect`, `NeverTorn`, `CountCorrect`, `SendsFresh` | `TypeOK`, `NoTornSend`, `CountMatchesBuffer`, `FreshSend` |
| `GnssProofs` | `Invariance`, `HalfStands`; `TypeCorrect`, `PacketDelivered`, `CopiesWhole` | `TypeOK`, `GoodPacketDelivered`, `SolutionWhole` |
| `SerialRxProofs` | `Invariance`, `NeverFull`; `TypeCorrect`, `ImplementsQueue` | `TypeOK`, `RxIsQueue` |
| `SerialTxProofs` | `Invariance`; `TypeCorrect`, `NeverStuck`, `InOrder`, `FramesWhole` | `TypeOK`, `NoneStuck`, `InOrderUntilAstray`, `WholeFrames` |
| `HttpClientProofs` | `Invariance`, `FlowInvariance`; `TypeCorrect`, `SentIsDelivered`, `ReadMeansWhole`, `OkIsAnswered` | `TypeOK`, `SendMeansDelivered`, `DoneMeansWhole`, `OkMeansAnswered` |
| `CommandModeProofs` | `Invariance`, `FrameInvariance`, `DialogueInvariance`; `TypeCorrect`, `HandlersFrame`, `StartSeen`, `ConfiguredSaved` | `TypeOK`, `HandlersSeeFrame`, `StartSeenDelivered`, `ConfiguredMeansSaved` |
| `KernelProofs` | `Invariance`; `TypeCorrect`, `ListsKept`, `WakeupsKept`, `DelaysKept`, `PendsSorted`, `HoldersOwn` | `TypeOK`, `ListsAgree`, `NoLostWakeup`, `DelaysExact`, `PendSorted`, `HolderOwns` |
| `KernelPrioProofs` | `PrioritiesExact`, `NeverFail` | `PrioExact`, `NeverFails` |

### Pipeline

None of the properties is inductive.  A switch can fall anywhere, so that
`NoTornSend` is kept by the step that copies the buffer only if the buffer
holds one reading whenever `cellTXTask` may copy it; that it does, depends on who
owns the mutex at which program position.  `IInv` has these parts:

- `TypeInv`: `TypeOK`; `Startup`, that tasks begin in the order in which they create
  one another; `Sleepers`, that a sleeping task has ticks to go; `BelowLimit`, that
  fewer updates than the limit were sent before the task heads for the halt;
- `MutexHeld`: a task owns the mutex exactly where its program is between pend and
  post, so two are never there together;
- `BufferWhole`: what the buffer and the count hold, by the position of
  `localInTask`: in the middle of its writes they disagree, otherwise not;
- `StartsEmpty`: until `localInTask` has cleared the count, nothing is in
  the buffer;
- `CopyWhole`: what was copied is one reading.

The lemmas `WokenBySem`, `WokenByMutex` and `WokenToClear` say what a kernel post does
to the task it wakes: where it resumes, and what it then owns.  `TypeStep`,
`MutexStep`, `BufferStep` and `CopyStep` take one part of the invariant each through
every action.

`SendsFresh` depends on time.  `FreshInv` says what has to happen before
`cellTXTask` wakes: `TicksToWrite` adds up the ticks that `localInTask` still sleeps and
the work it may still be interrupted in, and `WrittenInTime` keeps that sum below the
ticks `cellTXTask` has left.  `WaitsForOther` and `MainGone` say that by then no other task
takes the processor, `NoPermit` that a permit left over from before is gone,
`PermitIsFresh` that the one there is was posted after a write.  `TimingAssumption` is
used in one place, where the sleep begins.

### Gnss

The checksum is a sum of sums over a packet, so what a packet leads to cannot be seen
from the state before its last byte.  `Parsed(n)` states the whole state of
the parser before byte `n`, with the checksum in closed form (`Sums`, with
`Triangle` for the sum of the sums), and each byte takes `Parsed(n)` to
`Parsed(n + 1)`.  `ParserInv` bounds the indices in each state, and `ReaderInv` ties the
locks to the copy.

`CopiesWhole` has no hypothesis about the line: whatever damage, foreign messages and
stray sync bytes it carries.  `HeardInv` says that while the parser takes what it reads for a
NAV-PVT packet, some of the strings in `heard` is exactly what it has taken (`Read`), with the
same checksum so far (`Runs`, the sums along the bytes heard), and that the halves
hold payloads in `fixes`.  `FletcherRuns` shows that these sums are those of `Fletcher`, by
the least number of bytes for which they would differ; `ReadStep` takes each byte through
the states of the parser, and `FlipIsFix` shows that a flip happens only when a packet
is complete.  A damaged packet whose checksum fits by chance, and a packet inside of a
damaged one, are fixes of this kind as much as one the module meant: the code cannot tell
them apart, and the theorem says no more than that it reads no others.

### The circular buffer and the serial driver

Both modules begin with what `put`, `get` and their halves do to the bytes of the buffer, counted
from the head (`Place`), for each size, as far as they need it: the receiver's, a put and the
halves of a get; the transmitter's, a get and the halves of a put.  Sizes are powers of two, and `x & mask` is `x % Size`; the
lemmas about counting modulo `Size` and modulo `Numbers` are there too.

`SerialRxProofs` shows the refinement: the mapped initial state is one of the
abstract specification, and every step is a step of `ByteQueue` or leaves it as it is.
`Numbered` says the buffer holds consecutive bytes in order, which makes a put the
abstract arrival and the second half of a get the abstract delivery.  `FlowControl` bounds the
free space by RTS, the bytes sent since and the program counter; it needs the
overshoot twice, as `MarginAssumption` says, and `NeverFull` follows.

`SerialTxProofs` has two parts.  `NoneStuck` holds always, also after the
interrupt has gone astray.  `Orderly` holds until then: `Numbered` as above, and `Reserved`, that
the room found by `xbee_frame_write` stays until the last piece is put, as
interrupts only make more.

### HttpClient

`Position` and `Waiting` follow the two parts of a request and the confirmation the loop
waits for; `Settled` and `Left` say whose frames are on the way and how old their ids
are.  Ids wrap; that a confirmation with the awaited id is the request's
own follows from the age of an id, by `IdAssumption`.  `MaxLemma` and `MinLemma` give the greatest
and least number of a finite set from the well-founded order of its subsets, since induction
with an operator as a parameter is out of reach.

`DoneMeansWhole` and `OkMeansAnswered` rest on a second invariant, `FlowInv`.  No
constant restricts how responses are cut: the body may be of any length, and body and headers
are cut any number of times.  `FlowInv` speaks of the executions up to the first cut
through headers where the receiver cannot join the pieces; after it both properties are false
(`http_split`).  `Ends(n)` are the places in a response with a body of n bytes where the
receiver can go on: behind the status line, behind the other header lines if n is not 0,
and behind every byte from the empty line on.  `CutEnds` shows that a cut which the receiver
can join (`Joins`) is one of these.  `FlowInv` says that there are
cursors `cs`, `cs[k]` telling how far the frames before the k-th take a reader:

- `Stream`: every frame on its way takes the reader on to the next cursor (`Takes`), and
  behind the last one comes what the server has not sent yet (`Rest`);
- `Reading`: the receiver has read as far as `cs[1]`, which may be in the middle of
  headers.  `Piece` is what is between two ends, `SliceLines` finds its header lines and
  its empty line, and the lemmas `ReceiveFirstPiece` and `ReceiveNext` compute what
  `ipv4ReceiveHandler` makes of it in each state; `ReceiveStray` that
  the rest of an earlier response ends in an error and never passes for one;
- `InStep`, while no request has failed: the position of the client tells what the server
  took and what is left of the response (`Pre` before it takes the frame waited for, `Post`
  after it), and whether the frame or its confirmation is on its way
  (`Unconfirmed`, `Confirmed`).

A client whose request failed is out of step, and may find a response to an earlier
request; that is why `OkMeansAnswered` speaks of clients without failures only.
TLC checked `FlowInv`, for headers in one frame, with the cursors as a history variable.

### FrameLoad and CommandMode

`FrameInv` says that from the start byte on the loader's buffer, the queue of the driver and the line
add up to the frame that was sent (`ExpectOK`), for as long as the frame is
undamaged.  `Checksum` is a recursive function; what is needed of it is proved by the
least number for which it would be wrong.

`Dialogue` is about a visit to command mode whose entry was answered by the XBee.
`Listening` says in what mode the XBee then is, and that nothing else comes in;
`SendOK` that nothing is left to read when a command is sent; `ReplyOK` that what is left to read
(read so far, in the driver, on the line, late) is the answer to this command, and what the
XBee has done by then; `ExitOK` that a visit which ends well has done its work.
Without the emptiness in `SendOK` an answer left over would be
taken for the next one, which is what the hazard at `xbee_config.c:125` is about.

### Kernel

A service is one step of the model, but a long composition of operators, each of
which breaks what the service as a whole keeps: a task is in no list while it goes from
one to another.  `IInv` therefore is made of parts that single operators keep:

- `Core`: the types (`Types`); `Readied`, the ready lists hold the ready tasks, each
  once, at its priority; `Pended`, the pend lists hold the tasks that wait for an object,
  each once and sorted; `Waiters`, `Owned` and `Counts`, that only tasks in a pending
  state wait for an object, and only for what is not free;
- `Ticks`: both tick lists hold the tasks they should, each once, in the order of
  their ticks, and each delta is the difference between the ticks of two neighbours
  (`Summing`).  `DelaysExact` speaks of sums over the list; stated as differences, an
  insertion or removal disturbs two entries only, and `TotalLemma` leads back to the sums;
- `Blocked`: a task in a pending state waits for an object.  This is what the critical
  failure in `OS_TaskChangePrio` relies on;
- `Hold`: until the code has gone astray, who holds a mutex owns it, and the mutexes
  in a task's group are exactly those it owns;
- `Bounds`: the rare calls made so far bound suspensions and nesting.

Each part has a set `D` of tasks it does not speak of, those which `OSTaskDel` has
taken off the lists but which still own mutexes; after a service `D` is empty.  What an operator
leaves alone is said by `Frame`, the set of fields it may change, so that a part whose
fields are not among them is kept without looking at the operator.

Priorities change along a chain of owners whose length is not bounded by the proof.
`Reprio` is the relation between two states that differ in priorities and in the
lists sorted by them, with both sorted rightly.  It is reflexive and transitive, every branch of
`ChangeOne` is in it (`ChangeOneReprio`), hence the whole loop is, and all the services
that lower or raise priorities on their way.  Whether the loop ends, and which priorities it
leaves, is not needed for any of the properties of `KernelProofs`.

It is what `PrioExact` and `NeverFails` are about, which `KernelPrioProofs` proves.  `Best` says which priority a task should
have: the best of its own and of those who wait for a mutex it owns.  `Fine`, the second
invariant, says that until the code has gone astray every task has it (`Exactly`), nobody waits
for its own mutex (`Selfless`), and nothing has failed.  Along the chain of owners one
task at a time is the exception, the one the loop has reached: `Chained` has the base
priorities `b` that count meanwhile, the task, and the priority `r` the chain raises to or
lowers from.  A chain that raises meets only tasks below `r` and leaves them at `r`; one that lowers meets only
tasks at `r` and leaves them below, since an owner with another priority would be
where the code goes astray.  So the tasks the chain can still come to (`Left`) get fewer with
every round (`GoingStep`), and the loop ends after at most as many rounds as there are
tasks, in a cycle of deadlocked tasks too; the model's limit, three times as many, is never
reached (`TaskChangePrioExact`).  Then `b` is what the service makes of the base priorities:
in `OSMutexPend` the owner inherits before its waiter is in the list, and `JoinExact` puts the
waiter in; a wait that ends leaves the list first, and `AbandonFine` takes back what the owner had
from it.  `OSMutexPendAbort` does this wait by wait;
`OSMutexDel` once, after all waiters have left (`OrphanExact`); `OSTaskDel` as for a wait that
ends, since where tasks wait for its mutexes the code has gone astray.

Loops are recursive functions.  Their values are shown to exist by `FoldExists`:
if each step leads from a set of states to the next one, there is a function
with these values; `FoldAgree` says that it is the one the definition chooses.  Both use the
least number for which something would be wrong, as induction itself is out of reach.
`TickDown` needs the same of the number of expired tasks, which
`OS_TickListUpdateDly` takes from the front of the list one by one.

### Only model-checked

- everything of `AtCommand`, whose operators return sets of states and fold over lists;
- every liveness property (`KeepsSending`, `FixOnceClean`, `Resumes`, `TimedReturns`,
  `ResponseEndsWait`, `GetsOnline`, `FramesArrive`), which is beyond this
  prover.

## 5. Not modelled

- *Of the kernel*: the scheduler lock, round robin, the options `NO_SCHED`,
  `NON_BLOCKING` and `DEL_NO_PEND`, the semaphore and queue built into a task; event
  flags, queues, timers, monitors, partitions and statistics, none of which the
  program uses.
- *Of the XBee library*: remote AT commands and requests without a callback;
  `xbee_atmode_enter`, `xbee_atmode_exit` and `xbee_atmode_tick` (command mode by escape
  characters); reset and sleep of the device; `xbee_ser_putchar`; address
  conversions.  None has a caller in the program.
- *GNSS transmitter*: `gnssInit` sends fixed packets once.
- `getDataFromCloud`, `initCloudDataStream` and the base64 encoder have no caller; nor has
  `updateTemp` (`main.c:446`, "Not Used"), the only caller of `gnssSln`.  `Gnss` has
  `gnssSln` called at any time, as its header file offers it.  The only call of
  `sendDataToCloud` (`main.c:637`) passes no timeout; `HttpClient` has both kinds.
- *Content-Type*: `processHeader` stores the type of the content, which nobody reads.  Without a
  `;` in the header it passes NULL to `strstr`, and the `%s` that reads the type has no
  bound (`http_client.c:141`); both are left out.
- `main.c:245` passes the length 10 for the five characters of `"ATE0\r"`: what follows them
  in memory is sent too.  These bytes are data no property is about.
- *Sensor, LEDs, display*: I/O; `Pipeline` has the reading and the colour.
- *Wording*: the text of requests, numbers and messages.
- *Vendor code*: emlib, board support, display and sensor drivers, the Micrium
  common modules, ports and SystemView are most of the repository's lines.  They are
  register accesses, string and memory functions, clock arithmetic and tracing, with
  no state of the program's own; what the program relies on in them
  is in the models as the hardware or the call it stands for.

Behaviours that are in the models, or were met on the way, without a run that demands
otherwise:

- The client looks at its timeout before it looks at what the tick brought: a confirmation that
  comes in the tick in which the time is up is thrown away (`http_client.c:526`).
- Without a timeout a response that never comes is waited for without end
  (`http_client.c:574`).
- `sendAtRequest` takes the handle 0 for an error (`http_client.c:428`): that request stays in
  the table until it expires.
- `enterCommandMode` returns the length of a line it read when its three seconds were
  over, which its callers take for success (`xbee_config.c:116`); the result of
  `exitCommandMode` is not looked at.
- `configureAPN` flushes the receiver while the loader may be in the middle of a frame,
  and sets "-", where `main.c:347` speaks of `XBEE_TARGET_APN`.
- Deleting a task of a deadlocked cycle of mutex owners reaches
  `RTOS_CRITICAL_FAIL_EXEC` (`failed` of `Kernel`, after `astray`).

## 6. Plan

The order is that of importance to the program: first the path of a reading from
the buffer to the server, then what supports it.

1. Done: `Pipeline` with proofs, `Gnss`, `CBuf`, `SerialRx`, `SerialTx`, `HttpParse`,
   `HttpClient`.
2. Done: `AtCommand`, `FrameLoad`, `CommandMode`, `Kernel`.
3. Done, proofs: types and safety of `Pipeline`, `Gnss`, `SerialRx`, `SerialTx`; the refinement
   of `ByteQueue`; types and every safety property of `HttpClient`, `FrameLoad`,
   `CommandMode` and `Kernel`.
4. Proofs still to write: `AnswersOwn` of `AtCommand`, over the ids in the table and in
   the air.
5. `Pipeline`'s mutex and semaphore as an abstraction of `Kernel`'s.
