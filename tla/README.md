# A TLA+ model of joycontrol

joycontrol emulates a Nintendo Switch controller (Joy-Con L, Joy-Con R or Pro
Controller) over Bluetooth. It pairs with a console, answers the console's sub
commands, sends input reports at the rate of the current mode, and emulates an
NFC tag (amiibo) that the console can read and write. Everything runs in one
process on one asyncio event loop.

That last fact shapes every model here. A coroutine runs without interruption
from one suspension point (`await` that really suspends) to the next, so **one
action is one such run**. What is hard is what happens between two runs: other
tasks have changed the state, a future was resolved and its task has not run
yet, the connection is gone.

## 1. Inventory

Paths are relative to `src/joycontrol/` unless they say otherwise.

| component | state | operations | talks to |
|---|---|---|---|
| flow-control window, `my_semaphore.py` | `_value`, `_aquired`, `_limit`, the list `_waiters` of (count, future) | `acquire` (suspends), `release` with and without `best_effort`; `increase`, `reduce`, `set_limit` | used by the transport |
| L2CAP transport, `transport.py` | the window, the write lock (an Event), two sockets, an HCI socket, three tasks, `_is_closing` | `write`, `read`, the reader task, the write-window monitor, the write-lock monitor, `close` | calls `report_received` and `connection_lost` of the protocol; is called by every task that writes |
| controller protocol, `protocol.py` | mode, `_is_pairing`, `send_delay`, the events `_input_report_wakeup`, `_not_paused`, `sig_input_ready`, `_controller_state_sender` | the writer tasks, `_write`, one handler per sub command, `send_controller_state`, `pause`, `unpause`, `connection_lost` | transport, controller state, MCU |
| NFC/IR MCU, `mcu.py` | power state, NFC state and counter, poll and removal memory, `ack_seq_no`, `received_data`, the response queue | sub commands 0x21/0x22, the 0x11 requests (status, start/stop polling, read, write set-up, write packet), `get_data`, the task `process_nfc_write` | called by the protocol's handlers, read by every report of mode 0x31; writes the tag |
| NFC tag, `nfc_tag.py` | data, `mutable`, source file, backups on disk | load, back up, write, save | MCU, command line |
| controller state, `controller_state.py`, `controller.py`, `memory.py` | buttons, sticks and their calibration, flash contents, `sig_is_send` | setters, `send`, `connect`, packing to bytes | protocol, command line |
| reports, `report.py` | the bytes of one report | setters and getters of fields | protocol, scripts |
| HID server, `server.py`, `device.py` | listening sockets, D-Bus adapter | `create_hid_server`: pair or reconnect, send empty reports until the console answers | creates transport and protocol |
| command line, `command_line_interface.py`, `run_controller_cli.py` | registered commands | parse, dispatch, amiibo and mash helpers | controller state, protocol |
| SPI dump, `src/scripts/dump_spi_flash.py` | the pending request with its Event, the output file | request, receive, time out, repeat, close | a real or emulated controller |
| relays, `src/scripts/joycon_ip_proxy.py`, `src/scripts/relay_joycon.py` | two bounded queues, the read queue of a UDP endpoint | connect either side, receive to queue, send from queue | a real controller and a console |
| capture tools, utilities, logging | none that matters | | |

### What is hard

* **Interleaving.** A woken semaphore waiter may find its credit taken. The
  write lock is an Event: a writer that was woken does not look at it again.
  Several writers share one wakeup event and the first to run clears it.
  `send_controller_state` callers share one event and one sender. The task that
  applies an NFC write shares its data with the packets that still arrive.
* **Cancellation and loss.** `connection_lost` can be called from any write of
  any task, may raise, and only schedules `close`. `close` cancels tasks
  wherever they are.
* **Composition.** The task of `server.py` that writes empty reports is never
  cancelled and writes beside the protocol; a command of the user waits for a
  report that any task may send, and the input can be paused under it.
* **Liveness.** Nothing in the program has a time limit of its own: a lost
  wakeup or credit stops the input for good, without an error.
* **Bounded resources.** The window of packets under way, the socket's buffer,
  the MCU's response queue, which drops what does not fit; the proxy's queues,
  one of which drops while the others block.
* **Files.** A tag is written in place; a failure between opening and writing
  leaves the file cut short.

### What makes each component correct

* Window: credits are conserved; a sleeping task has exactly one live request;
  no wakeup is lost; waiters keep their order; each sleeper is woken.
* Transport: never more packets under way than credits; the reader answers one
  report at a time; nothing gets past the lock after `close`; writers that keep
  writing keep getting packets out; `close` closes.
* Protocol: a change of the delay is not slept through by every writer; none
  dies while the connection stands; a registered sender has a user; sends return.
* MCU: a write that is applied is whole; what is acknowledged is stored; a read
  answer stays together; after a write the console sees the tag removed.
* Session: back at its prompt the command line holds only what the user holds;
  commands end; every change of the buttons gets to the console.
* Reports: what is written into a report is what the other side reads, and an
  answer leaves the rest of its report alone.
* Proxy: packets come out in order and at most once, and none gets stuck.
* Tag: no content a file ever had is lost.
* SPI dump: no chunk is skipped or out of order whatever is lost or late; the
  dump ends; the file is the flash.

`PROJECT.json` lists every hazard at its line with the properties that would
catch it going wrong.

## 2. Modules

```
MySemaphore  <---- MySemaphoreProofs
    ^  INSTANCE (the window)
Transport  ---- implements ---->  ReportChannel      TransportProofs
                                       ^  INSTANCE (the transport, as seen from above)
                                   Protocol
                                       ^  EXTENDS
                                   Session  <---- ProtocolProofs
IPProxy    ---- implements ---->  LossyFIFO            IPProxyProofs
NFCTag  <---- NFCTagProofs
    ^  INSTANCE (the tag)
   MCU  <---- MCUProofs
SPIDump  <---- SPIDumpProofs
ControllerState
    ^  EXTENDS
Reports  <---- ReportsProofs
MC_Semaphore, MC_Transport, MC_Protocol, MC_Session, MC_MCU, MC_SPIDump,
MC_IPProxy                                           (small instances)
MC_ControllerState, MC_Reports           (operators on small inputs)
```

An operator whose comment begins with "Faulty" is not part of a model: it is a
plausible mistake in the definition that follows it, kept to show that the
properties notice it. `PROJECT.json` ("mutants") says which one breaks which
property.

### MySemaphore

`value`, `acquired`, `limit` are the three counters. `waiters` is the list, each
request named by its task; a request whose future is done because its task was
cancelled stays in the list as `Done`, since the code removes it only at the
head. `pc` says where a task is inside `acquire`: *waiting* on its future,
*woken* (future resolved, task not yet run), *cancelled* (the CancelledError has
not reached it yet). `Acquire`, `Resume`, `Cancel`, `ResumeCancelled`,
`Release`, `ReleaseBestEffort` are the methods; `CheckNext` is `_check_next`.
`increase`, `reduce` and `set_limit` are left out: the program never calls
them.

### ReportChannel and Transport

`ReportChannel` is the abstract specification of `transport.write`: a write is
under way until its report is sent or it is given up, and no more than
`Capacity` reports have been sent and not been reported complete.

`Transport` is the detailed one. `stage` says where each task is inside
`write()`: in the window, at the lock, past the lock but not yet run
(*ready*), in `sock_sendall`. `registered` is the one write that the loop
continues when the socket becomes writable: `add_writer` keeps one callback per
socket, so a second blocked write replaces the first. `inFlight` counts packets
in the adapter, `completed` those whose HCI event has not been read.
`ReadForeignCompletion` is the window monitor reading an event of another
connection: it ignores the handle (line 59), so the credit comes from elsewhere
and one of its own may be lost. The history variable `foreign` remembers that
this has happened, for the properties that it breaks.
`closing` follows `close()` through its one suspension, at which it awaits the
reader. The refinement mapping takes the tasks with a stage other than *idle*
as busy and `inFlight + completed` as the flight.

The protocol above is seen only through what it does: report_received may write
(`Write(Reader)`), may raise (`HandlerRaises`), and `connection_lost` may raise
(`Fails`). The reader may still read, and answer, what was buffered before the
peer went; when it reads the end of the file it never suspends again before
something raises, so `ReadEOF` ends it in one step. The task of `server.py` that
writes empty reports is one of `Callers`.

### Protocol

Tasks are users (the application), writers and the reader. `phase` says where
each is; the transport is a `ReportChannel` that may also be lost. `Put` is one
call of `_write` up to its first suspension: it generates nothing new, ends
the pairing when the report shows a button of the pairing menu (which sets the
mode, and with it the delay, again), then sends at once, suspends, or finds the
connection lost. `Returns` is everything from the return of the write to
the caller's next suspension. A report is abstracted to the *version* of the
buttons it shows, whether a menu button is among them, and whether a stick has
been moved out of its 12 bits (`stray`, set by `MoveStick`). While it is there,
generating a report fails an assertion, which ends the writer or the reader, or
comes out of a send that is made while the input is paused (`MayNotReport`). As
the stick may have been put back since, such a report may also be sent; a writer
that has ended stays so.

A writer that goes to sleep does so in two steps. In the run in which its write
returns it computes its delay, and `wait_for` (of Python up to 3.11) makes a
*task* of `_input_report_wakeup.wait()`: the writer is *called*. Only when that
task runs (`BeginWait`) does it look at the event, and either waits (*sleep*) or
is *woken* at once. Between the two another task may change the mode, and yet
another writer may clear the event. So the first of several writers that is
woken takes the event from one whose wait has not begun, and that one sleeps with
the delay of the old mode. What the code does keep is `SomeWriterFollowsMode`:
nobody waits for an event that stands, and once one has cleared it some writer
follows the new delay. A user's wait has the same two steps (*called* and
*waiting*). A writer whose wait ended with the event clears it (`AfterWait`),
one whose wait timed out does not.

### Session

One run of `run_controller_cli.py`, on top of Protocol's variables. `server`
follows `create_hid_server` through its suspensions (binding and listening, the
two accepts, the wait for the first report); `SetUpFails` is any call of it that
raises. `ConnectionMade` is one run of the loop from the second accept to the
wait: it clears `sig_data_received` after the reader's task was created but
before that has run. `greeter` is the task of `_send_empty_input_reports`, one
more writer of the same channel that knows nothing of the protocol: its writes
set no `sig_is_send` and show no buttons, but take the capacity, and its failure
calls `connection_lost` like any other.

`cli` says where the command line is: reading a *line*, waiting to *connect*
(`sig_input_ready`), in the send of a *press* or a *release*, in one of the two
*sleeps*, in the send that ends a line. `op` is its command and decides where it
goes on (`AfterSend`). `pressed` are the buttons of `ButtonState`, `held` those
the user asked to hold. Protocol's `buttons` stays their version with the
pairing buttons; `CallSend` and `SendWhilePaused` take the new ones as a
parameter, since setting them and calling `send` is one run. A command's
exception is printed and the loop goes on (`Raised`), except for the buttons at
the end of a line.

Protocol's other steps are taken over with `Runs`. `ReportReceived` is
`report_received` from its first line, which sets `sig_data_received`; so is the
end of the connection, which the transport hands on as an empty report: a
connection lost during the handshake makes `create_hid_server` return.
`StickCommand` moves a stick to where it does not fit; the properties say what
they still promise then.

### Reports

Pure operators on ControllerState's: the bytes of a regular report in each mode
(`Generated`, cut by `__bytes__` to `Sent`), of the answer to each sub command
(`Answered` with its payload), of the request for the flash and how the
controller reads it, and the fate of received data up to the handler
(`Outcome`). A Python list is a function from its indices, so an assignment to
a slice that does not have its length is visible (`Spliced`). The clock and the
MCU's data are parameters. `MC_Reports` states facts about these operators as
ASSUMEs, evaluated by every run of Protocol: among them those that
Protocol's abstraction of a report rests on. A report ends the pairing exactly
when it shows a button of `close_pairing_menu_map`
(`PairingEndsWithItsButtons`), the constants of mode 0x3F always do on a left
Joy-Con and nowhere else (`ConstantsEndPairing`), and the empty reports of
`server.py` never do.

### LossyFIFO and IPProxy

`LossyFIFO` is what a relay promises: packets come out in order, none twice;
some may be lost. `IPProxy` is the way of the input reports from the Joy-Con
through two instances of `joycon_ip_proxy.py` to the console. `pipe` holds the
packets at each stage (the near queue, the network, the read queue, the far
queue, the hand of `sock_sendall`). A `recv_to_queue` whose `put` waits keeps
its packet behind the queue (`putting`), since nothing else puts into it.
`Handshake` is `connectEth` as the server, which takes whatever comes first for
the packet that tests the connection. A closed socket returns empty data at
once and for ever (`AcceptNothing`): it fills the near queue and is not sent
by `sendto` of a connected endpoint. `NearStops` and `FarStops` are
an exception out of `gather` or an interrupt; each instance may be started
again, with everything it held lost. The refinement mapping takes
the packets in any stage as pending.

The way back, from the console, passes the same two functions and is the same
without the handshake, so it has no variables of its own. The network is
assumed to lose but not to reorder or duplicate datagrams: the proxy has no
numbers to notice either by, and promises nothing then.

### NFCTag

`tag` is the tag in memory, `disk` the files, `backups` the contents of the
backups beside each file, `held` (history) everything a file ever contained. A
file whose writing was cut short contains `Cut`. A kill of the program in the
middle of a write is a failure of the same operation followed by `RemoveNfc`.

### MCU

One action per handler; none awaits. `queue` holds responses reduced to what
they are and, of the answer to a poll, the UID and how many writes came before
it. `received` holds the numbers of the
packets `received_data` was put together from. A task of `process_nfc_write`
holds a *reference* to that list: `Shared` stands for "the list that is
`received_data` now", and `SetUpWrite` makes a new list, so references to the
old one become copies. The tag is an INSTANCE of NFCTag, and `RunWrite` makes
`NFCTag`'s steps. `TagLosesNothing` is the tag's property under the writes
the MCU makes, with files that fail at any point. `reported`, `removalSeen` and `lost` are
history variables for the property about the removal: the tag the last report
told of, whether one has shown the removal since the last write, and how many of
the answers that were to show it were dropped by a full queue or flushed.

The console is external. It sends the packets of a request in order and may
repeat the latest one. In `LossySpec` a packet may also not arrive, and with
`Interrupts` it may abandon a request half way. It polls as often as it likes,
also while the queue is full (`mcu.py:271`: "the switch spams this up to 8 times
a frame"), and reads and changes the power state, which flush the queue, at any
time.

### SPIDump

The sender (`send_spi_read_request`, and the loop over the chunks) and the
reader (`receive_data`) share `pending_request` and its event. `sender` is
*writing*, *waiting* for the event, or *replied* when the event was set before
it began to wait; `TimesOut` may also happen when the event has just been set,
since both may fall into one turn of the loop. `requests` and `answers` are the
link. A byte of the flash is named by its address, so `file`, the pieces
written, shows where each byte came from. Offsets travel as digits of base
`Byte`, as in `report.py`.

### ControllerState

Pure operators, no behaviour: the bit of each button (`Buttons`, `Available`,
`SetBit`), the three bytes of a stick (`StickBytes`, `FromBytes`, and the
assertion between), and the calibrations that decide where `set_up` and its like
move a stick (`Moved`). `OrShifted` is Python's `x | n << 4` for an `x` that may
be negative or too wide, as a calibration from a dump can make it: there the two
halves of the byte meet. The flash is only the addresses that calibrations are
read from. `MC_ControllerState` states facts about these operators as ASSUMEs;
`MC_Reports`, and with it `MC_Protocol`, extends it, so that every run of
Protocol evaluates them: each button a controller announces has one bit of its own; a setter touches one
bit; `OrShifted` is the bitwise or of the library; with a blank flash every
direction is shown where it is, and no two stick commands of the command line
(`SetStick`) take a stick out of what a report can show.

## 3. Runs

| run | instance | shows |
|---|---|---|
| `semaphore` | 4 tasks that ask for one credit of 2 | every property of the window, with liveness |
| `transport` | 2 writers and the reader, window 2, socket buffer 2 | credits cover every packet, the socket never blocks and the channel is implemented until another connection's event is read; the reader matches its write; the lock stays shut after close; writers go on |
| `transport_close` | 1 writer (violation) | `close` does not always close |
| `protocol` | 2 users, 2 writers, a left Joy-Con, modes 0x30 and 0x3F, pairing, a stick that does not fit, loss | delays, writers and senders |
| `protocol_send` | 1 user, 1 writer (violation) | a send may return too early |
| `protocol_loss` | 1 user, 1 writer (violation) | a send may never end when the connection is lost |
| `session` | the command line, 1 writer, 1 empty report, 1 button, a stick that does not fit, mode 0x30, connecting anew, loss at any write | what is pressed at the prompt, commands end, buttons get shown |
| `mcu` | 1 file that may fail, 2 requests of 2 packets, up to 2 tasks, queue of 2, removals of 2, countdown of 1 | whole writes, covered acknowledgements, whole read answers, the removal is shown unless every answer that would is lost, no content is lost |
| `mcu_lost` | as LossySpec, 1 request (violation) | a write with a packet missing is applied |
| `spi_dump` | 8 bytes, 3 at a time, base 4, 2 requests and 2 answers under way, losses, refusals, failures, interrupts | nothing skipped, no byte missing but the last, the dump ends |
| `spi_file` | the same (violation) | the file is not the flash |
| `ip_proxy` | 5 packets, queues of 1, a read queue of 2, 2 datagrams on the network, 1 stop of each instance | in order, at most once, none stuck, the test packet stays inside |

### Bounds

* `MaxDone` (cancelled requests in the list) 2: `_check_next` skips a run of
  them as it skips one; two make a run.
* `MaxUnread` = buffer + window (completions not yet read): more can only pile
  up when the monitor is stopped, and then nothing reads them.
* `Capacity` 1 in Protocol: a write suspends as soon as one other report is
  under way, so every write both can and cannot suspend.
* `MaxState`: changes of the buttons that make a new version. `SendShowsButtons`
  compares versions and has one change (two versions); the other properties only
  look at the menu buttons, which change without bound.
* `MaxRequests`, `MaxTasks`, `MaxForced` in MCU: two requests are needed for
  one to leave something behind for the next. Two tasks let the last packet be
  repeated, which makes a second task, while the first still waits with the
  list they share. Forced responses make the
  queue longer than `max_response_queue_len`; three hold a read answer.
* In `mcu` the queue is short (2, where the code has 4) so that it overflows
  within a few steps, with polls and status requests as well as with forced
  responses. A read answer, of three, is longer than that by itself.
* `Removals` (4 in the code) is 2 in `mcu`, so that one answer of a removal may
  be lost and the other not; `Countdown` (4 in the code) is 1, as it only says
  after how many status requests the state is NONE, and other requests come
  between. The proofs hold for any.
* In `session` one empty report is enough to be in the channel when any other
  write begins or ends, as `MaxGreets` only says how often that can happen. The
  one button is not of the pairing menu (`MenuButtons`), which keeps the states
  few enough for liveness; the end of the pairing, by whichever report, is in the
  run `protocol`. One
  change makes a new version (`MaxState`): `ButtonsGetShown` follows the first,
  whatever comes after it. The other commands of the run repeat without bound.
* In `ip_proxy` five packets fill every stage at once; queues of one (10 in the
  code) are full with every other packet. One stop of each instance makes
  every order of starting and stopping. Empty data come without bound.
* In `spi_dump` the flash has two whole chunks and a remainder, an offset has
  two digits that are not zero, and two requests under way make late and double
  answers. Nothing else is bounded: a chunk can be asked for any number of
  times.
* In `semaphore` tasks ask for one credit each, as the transport does. With
  larger requests a task at the head may wait for ever while newcomers take
  single credits; the safety properties are proved for all counts.

`CHECK_DEADLOCK FALSE` is said in the Transport, Session and SPIDump runs only:
a closed transport, a program that ended and a finished dump really stop.

### Fairness

* *The loop runs every task that is ready*: weak fairness of each task's
  continuation. asyncio's ready queue is FIFO, so this is what it guarantees.
* *Sleeps end*: the pause of the write-lock monitor, a writer's `wait_for` with
  a finite delay.
* *The adapter completes what it was given* while the connection is up, and its
  events reach the monitor. This is Bluetooth's flow control, on which the
  window relies. In MySemaphore it reads: credits keep coming back.
* In Protocol, *some* pending write ends while the connection stands, not each:
  that is what `WritesGoOn` shows of Transport.
* In Session the same, the sleeps of a push end, and the loop goes on with a
  command or with `create_hid_server` when what it waits for has come. The
  empty reports themselves need no fairness.
* In IPProxy each of the four loops goes on when it can, the network delivers
  or loses what it has, and a console that is connected takes what it is sent.
  Whether it ever connects is left open, and named in `NothingStuck`.
* The dump's link lets a request through that is made again and again, and the
  controller's answer to it (strong fairness); `wait_for` ends after a second.
* No fairness is assumed of the console, the user, `acquire`, new writes,
  pauses, losses, stops or restarts.

### Where the code does not do what it says

The five violation runs each check a sentence of the code's own documentation.

* `transport_close`: `close()` "Stops reader and closes underlying socket"
  (`transport.py:210`). It awaits the reader and suppresses only
  CancelledError. A reader that has ended with another exception (any exception
  of `report_received`, or `getpeername` on the dead socket) raises that out of
  `close()` before the sockets are closed, and `_is_closing` makes every later
  call do nothing.
* `protocol_send`: `send()` "Returns after the controller state was send"
  (`controller_state.py:63`). A report that was already in `write()` when
  `send()` was called sets the event it waits for.
* `protocol_loss`: `send_controller_state` "Raises NotConnected exception if
  [...] the connection was lost" (`protocol.py:306`). `connection_lost` calls
  `set_exception` of a Task, which raises RuntimeError; the sender waits on.
* `mcu_lost`: a packet out of sequence logs "aborting." (`mcu.py:336`), but
  only the count starts over; what was received stays, and the last packet has
  it applied.
* `spi_file`: `FlashMemory` takes "data from a memory dump (can be created using
  dump_spi_flash.py)" (`memory.py:5`). The last chunk is asked for at
  `SPI_FLASH_SIZE - 1 - remainder` (line 122), one byte early: the file has one
  byte twice and lacks the last one (and no other: `OnlyLastByteMissing`). A late
  answer that is written a second time (line 106) would make the file too long,
  too.

Conditions of the passing runs are there because the code needs them.
`WritesAreComplete` also fails with `Interrupts = TRUE`: setting up a write
clears `received_data` but not `ack_seq_no` (`mcu.py:314`), so after an
abandoned write the first packets of the next are taken for repeats.
`TagReappearsRemoved` has to except the removal of which *no* answer gets out. A
poll counts as a removal even when its answer is dropped at the full queue, which
holds four, and the console may poll eight times before a report takes one
(`mcu.py:161`, `271`); a read and a change of the power state flush those that
are queued. When all are lost, the tag is back without a removal that "the switch
demands" (`mcu.py:136`). One that gets out is enough: that is the property.
With several writers (`protocol.py:455` starts one for every SET_PLAYER_LIGHTS)
one may sleep with the delay of the last mode, if another clears the event before
its own wait has begun; `SomeWriterFollowsMode` says that not all do.
A stick that does not fit a report (`controller_state.py:384`, raised outside the
try at `protocol.py:171`) ends a writer for good: `WritersSurvive`, `CommandsEnd`
and `ButtonsGetShown` except it.
`ReleasedAtPrompt` and `WritersSurvive` need `ModeFirst` and a console that never
sets the mode 0x00, which `_generate_input_report` takes for none at all: a
writer that runs then raises and ends (`protocol.py:171`), and a push while the
input is paused raises between press and release (`controller_state.py:242`), so
that the button stays pressed. `TestStaysInside`
fails when the near instance is restarted: the far one has had its handshake and
forwards the new test packet as an input report (`joycon_ip_proxy.py:167`).
`CommandsEnd` speaks of commands while the connection stands; what becomes of the
others is the run `protocol_loss`.

Seen while modelling, and in the models as a failure or a loss: a failed set-up
leaves the adapter discoverable and pairable (`server.py:99-128`); a second
attempt to bind after the first bound one of the sockets fails again
(`server.py:92`); `paths.items()` is called on a list (`server.py:140`); after a
connection that is lost during the handshake `_main` calls `close()` of None
(`run_controller_cli.py:334`).

## 4. Proofs

Checked by TLAPS for every value of the constants that meets the modules'
assumptions (numbers are numbers, the tasks are finite in number where they are counted,
`Done` is not a task, `Cut` not a content, `NoRequest` not a request, a write
request has more than one packet: one that has not takes another way in the
code; the reader is no user and no writer; an offset of the flash fits into four
bytes and a chunk into one and into the flash).

**MySemaphoreProofs** proves `[]` of `TypeOK`, `WindowConserved`,
`QueueMatchesSleepers` and `NoLostWakeup`, and the action property
`FirstComeFirstWoken`. The conjunction `Inv` of the first four is inductive. `NoLostWakeup` is not inductive alone: it speaks of the first live request
of the list, so it needs `QueueMatchesSleepers` to know that the task named there
is asleep, and that waking it leaves no second request of its behind. The argument has three layers: facts about the first live entry of a
list (`FrontIsFirst`, `FrontOfAppend`, `FrontOfRest`); `CheckNextAttends`,
which says that from any list that matches the sleepers `CheckNext` leaves one
that does, and that the first live request is then attended; and one lemma per
action. That the oldest is woken first follows from `Inv` and what `CheckNext`
leaves of the list: a list without its beginning (`CheckNextKeepsTurn`).

**TransportProofs** proves `[]` of `TypeOK`, `FlightAccounted`,
`WindowKeepsSocketFree` and `ReaderMatchesWrite`, the refinement
`ImplementsChannel` and the action property `ClosedForWriting`, for any finite
number of writers, any window and any buffer. The window's invariant is not
proved again: every step of Transport leaves the window alone or is a step of
MySemaphore, so the lemmas of MySemaphoreProofs are instantiated (`W`) and give
what each step does to the credits (`AcquireEffect` and the like). The invariant
`Inv` adds to the properties what ties the parts together: a task is in the
window exactly while it is inside `acquire` and asks there for one credit
(`Places`); the write that the loop remembers is inside `sock_sendall`
(`RegisteredSends`); a cancelled reader has neither a registration nor a wakeup
left (`CancelledStays`), without which it could come back to life and take the
reader's state with it. The proof that a step preserves `Inv` has three general
lemmas: a task that goes on with a credit (`GoesOn`), one that stays without
(`QueuesUp`), and a step around the writes (`Around`). The refinement needs
`FlightAccounted` to show that there is room in the channel whenever a report is
sent, and that an event never completes more than is under way. Closing has an
invariant of its own, `LockShut`. That the transport makes no step on the
window but the semaphore's is also a theorem (`TransportUsesWindow`), from which
two of MySemaphore's properties follow for the transport: writes are woken in the
order they came (`WritersAreWokenInOrder`), and none is forgotten while there is a
credit for it (`NoWriterIsForgotten`).

**NFCTagProofs** proves `[]TypeOK` and `[]NoContentLost`. The latter is not
inductive: a write backs up what is in *memory*, so that no content is lost
needs to know that the file holds what the memory holds, or that what it holds
has a backup (`FileBehindTag`), also after a failed save, and that what a file
holds now was counted as held (`LatestHeld`).

**MCUProofs** proves `[]` of every property the run `mcu` checks, for any number
of packets, requests, tasks and removals and any length of the queue.
* `TypeOK`, and that the tag underneath loses nothing: every step of MCU leaves
  the tag alone or is a step of NFCTag (`TagSteps`, and as a theorem of the
  specification `MCUUsesTag`), so `N!Inductive` of NFCTagProofs applies.
* `ReadAnswerWhole` is inductive with the types, for every console.
* `WritesAreComplete` and `AckCoversData` need `~Interrupts`: a request left half
  way makes both false (see the findings). The invariant `WriteInv` says what a
  request under way has stored, that the count is zero when none is, and that a
  task that shares its list with the packets still to come finds a whole request
  in it; the only packet that may follow is a repeat of the last one, and that
  is never stored as the count is back at zero and the packet is not the first.
* `TagReappearsRemoved` holds for every console, however fast it polls and
  whatever it abandons. The invariant keeps an account of the answers of a
  removal that the console has not seen: those still to be given (`removing`),
  those in the queue and those lost make up at least `Removals` (`Accounted`). So
  if not all are lost, one is queued or will be, and every answer that tells of a
  tag and is queued before it is older than the write (`Pending`).

**ProtocolProofs** is about Protocol and about Session, which makes Protocol's
steps beside its own, for any users, writers, modes, buttons and commands and any
capacity of the channel. Of Protocol it proves `[]` of `TypeOK`,
`SomeWriterFollowsMode`, `WritersSurvive` and `SenderBelongsToUser`
(`ModeIsFollowed`, `WritersAreKept`, `SenderHasUser`), and that a writer that is
alone never sleeps with a delay that is not the mode's (`OneWriterSleepsRight`).
Their conjunction is inductive together with `StartedInMode`: a writer that was not started is where
it begins, and a console that sets the mode first has set one when the first
writer starts. Nearly every handler is a chain of calls, each of which may
change the mode, end the pairing, wake the writers, write or lose the connection.
So the proof follows the calls: `Steps(t, p, w, s)` says what a run of task *t*
may have done to everything else when *t* ends up at *p*, and whether it set the
two events; `StepKeeps` shows once that any such run keeps the invariant, and one
lemma per operator (`PutKeeps`, `FinishWriteKeeps`, `ReplyKeeps`, ...) that it
is such a run. None of them minds who else is in the channel, so Session's steps
that are Protocol's keep the same invariant (`SessionKeepsProtocol`), and what is
left for `SessionTypeOK` and `ReleasedAtPrompt` are the steps of the server, the
empty reports and the command line. `ReleasedAtPrompt` is not inductive, as it
speaks of the prompt only: `PressedIsAccounted` says of every stage of a command
which buttons are still to be released, and `LineFollowsCommand` that the command
has the stage it is at, and that there are writers once it is past its connect:
with none, a push would raise between press and release. The same chain of calls
gives the refinement that joins Protocol to Transport: its tasks write to the
channel and are told of its loss as ReportChannel has it, and in no other way
(`ProtocolUsesChannel`); in a session the empty reports are one more writer
(`SessionUsesChannel`). With `TransportImplementsChannel` the two sides of the
channel are proved against one specification (the transport's up to an event of
another connection).

**IPProxyProofs** proves `[]` of `TypeOK` and `TestStaysInside` and the refinement
`ImplementsFIFO`, for queues of any length and any number of packets, losses and
restarts. The invariant is one strict order: read from the stage nearest to the
console backwards, the packets grow (`Ordered`), and so no packet is there twice.
The packet of the test counts as the first as long as the near instance has not been
restarted; a second test packet has no place in the order. `TestAhead` says
where it may still be: on the way to a far instance that has not finished its
handshake. Under the refinement the Joy-Con's send is `Accept`, that of a packet
to the console `Deliver`, and everything else, a move from stage to stage as well
as a stop with all it held, leaves a subset of what was pending (`Lose`).

**SPIDumpProofs** proves `[]` of `TypeOK`, `NothingSkipped` and
`OnlyLastByteMissing`, for a flash, chunks and bytes of any size, any number of
requests and answers under way, losses and repeats. The invariant says that the
pending request is the one of the present chunk, also after an interrupt
(`Places`), that what is under way and in the file are requests, answers and
pieces of chunks (`Traffic`), and that the file is the chunks up to the present
one, in order, each once or several times in a row (`InOrder`). It rests on two facts about
numbers: four bytes read back as the offset they were made of
(`OffsetArrives`), so that an answer to one chunk is never taken for another; and
no two chunks begin at the same offset, although the last begins one byte early
(`OffsetsGrow`), so that the piece tells the chunk (`NumberOfChunk`). Which bytes
the chunks name is `OtherBytesAreAsked` and `LastByteIsNotAsked`.

**ReportsProofs** proves, for every report and payload of bytes: an answer of up
to 35 bytes leaves the id, timer, buttons and sticks of its report alone and is
sent whole (`AnswersKeepTheReport`); a regular report shows mode, buttons and
sticks as they are in the controller state, however short `__bytes__` cuts it
(`ReportShowsState`, which rests on `ReportCarriesStick`); a request for the flash that `OutputReport` accepts is read as
the same range by the controller, and its answer fits (`FlashRequestArrives`);
times read back in steps of 10 ms (`TimeIsShown`). `ConstantsReplaceTheId` states
what the slice at `protocol.py:141` does: a report of mode 0x3F is sent with
id 0x28. The argument about numbers is division with remainder, byte by byte
(`FourBytesRead`).

Of the operators of ControllerState it proves for all sticks what the ASSUMEs check at the
borders of the bytes (`ReportCarriesStick`), and what becomes of the sticks that
are not within 12 bits (`AssertionMissesTheRight`): the assertion in `__bytes__`
(`controller_state.py:384`) stops a stick that is too high, too low or too far to
the left, but the bit by which it is too far to the *right* falls on the lowest
bit of `v`'s half of the middle byte, so the report shows it 4096 to the left.
`CalibratedReach` says that the directions of any calibration lie where that
theorem applies, and that the center is always safe. The argument is division
with remainder by the literals 16 and 256, byte by byte (`Split`, `MiddleByte`).

Only model-checked, as out of the prover's reach: liveness (`EveryWaiterIsWoken`,
`WritesGoOn`, `CommandsEnd`, `ButtonsGetShown`, `NothingStuck`, `DumpEnds`). Every
other property of a passing run has a theorem. The properties of the violation
runs are false and have none.

## 5. What is not modelled

* The bytes of MCU responses and of write requests, and their layout; in the
  behavioural modules also those of reports, which Reports has.
* `get_delay`, the debug hook that can override the delay (`protocol.py:177`),
  and the trigger of a slow write's warning. The `wait_for` of Python 3.12, which
  begins the wait in the caller's run: for it `BeginWait` always comes at once,
  which is one of the orders checked.
* A write to a tag with another UID: the code logs it and goes on (`mcu.py:239`).
* Of `server.py` and `device.py`: the dialogues about paired consoles, the
  restart of Bluetooth, `set_address` (not called), and what the D-Bus calls do to
  the adapter beyond its being advertised.
* Of the command line: the parsing of a line, help, and the commands that do
  not reach the protocol (`nfc`, `debug`). Of the stick command the values are an
  operator of ControllerState, and the protocol sees only one that does not fit.
  Several users of one session: `protocol` has two.
* `relay_joycon.py`: two loops that hand each report on at once, in the same
  run, and keep nothing; `parse_capture.py` and `hcimon.py` only print.
* The timer and rumble data of output reports, the getters that only scripts
  print with, and `is_center`.
* In SPIDump: reports that are no answers to a read (the reader skips them), and
  finding the device and opening the file.
* Not callable or not called: `set_write_buffer_limits`, `writelines`,
  `pause_reading`, `increase`, `reduce`, `set_limit`.

## 6. Plan

Done: every module of section 2, model-checked, and the proofs of section 4: the
types, the invariants and action properties of the passing runs, both
refinements, and that each composed module makes only steps of the components it
uses.

Next, in this order:

1. *What holds instead of what does not*: for each of the violation runs the
   property with the condition the code needs (`close` with a reader that did not
   raise, a send that no report was under way for), proved.
2. *Reports*: that each answer to a sub command in `Answered` is one the console
   can read back, field by field.
3. *The rest of the command line*: the helpers of `run_controller_cli.py` that
   put commands together.
