# TLA+ models of the x86_64 TV device tree

The repository is an Android device tree: build files, prebuilt data, scripts,
and a handful of native programs that run on the device. The programs and
scripts carry the logic; this directory models them, those first whose mistakes
are hard to see in a test: the DHCP client of the recovery image, the two
programs that edit the boot loader's configuration file, the driver of serial
tablets and the translator of the tablet mode switch.

## 1. Inventory

| Component | Source | State | Operations | Interacts with |
|---|---|---|---|---|
| DHCP client | `dhcp_recovery/client/{main,dhcpclient,timer}.cpp` | state of the protocol, retry timeout, T1 and T2, addresses of the offer, last message sent, what the last ACK said | `run` (one branch per state), `waitAndReceive`, `configureDhcp`, `haltNetwork` | interface and router, properties, socket |
| interface and router | `dhcp_recovery/client/{interface,router}.cpp` | index and name of the device; two netlink sockets and what they have to read | `init`, `bringUp`, `bringDown`, `setMtu`, `setAddress`, `setDefaultGateway` | kernel, which may lose the device |
| DHCP segment | the same, and `dhcp_recovery/common/message.cpp` | `sNextTransactionId`, `mLastMsg` of every client; the server's table (external) | send DISCOVER/REQUEST, accept OFFER/ACK/NAK | other clients and the server, through broadcasts |
| DHCP messages | `dhcp_recovery/common/message.cpp`, parsing loop of `configureDhcp` | bytes of the options, read index | `addOption`, `endOptions`, `getOption`, parse | client |
| raw UDP socket | `dhcp_recovery/common/{socket,utils}.cpp` | none | build and check headers and checksums | client |
| boot control HAL | `bootctrl/*` | the call in progress; the file at `/bootloader/...`; `misc` | `setActiveBootSlot`, and calls handed to `libboot_control` | boot loader's file, `misc` |
| boot mode selection | `scripts/boot-mode-selection.sh`, `init.x86.rc`, `init.recovery.x86.rc` | the file and its `.tmp`, a completion property | check, two passes, two moves, reports | init, boot loader's file |
| serial tablet | `wacom/{wacom-input,wacserial,wactablet}.c` | device, version, parser and packet length; bit error count, packet buffer; values of the tool | open, identify and reset; read; parse; report | tty, uinput |
| tablet mode switch | `tablet-mode/tablet-mode.c` | two descriptors | translate switch events | evdev, uinput |
| USB tablet | `wacom/wacusb.c` | - | not reachable in this build | - |
| property setup | `libinit/*` | properties | tables from memory size and DMI names | init |
| system scripts, magisk, io switch, recovery UI | `*.sh`, `magisk/`, `io_switch/`, `librecovery_ui/` | none of their own | straight-line set-up | init |

### What is hard

* **DHCP client.** A single thread, but a protocol with timeouts: replies come
  late, twice or never; the kernel's calls fail half way through applying a
  lease; timers expire inside a poll; 32-bit arithmetic on seconds and
  milliseconds. Correct means: Bound implies a configured interface; a reply is
  taken for the answer to what was last asked; the client wakes before its lease
  ends, gives up in time when it cannot be renewed, and never hangs.
* **DHCP segment.** Several clients share one broadcast medium. Correct means: a
  bound client uses an address the server has given *it*.
* **Interface and router.** Some calls name the device, others the index it had at
  the start; one netlink answer is read for each request of one kind and none for
  the other. Correct means: success is true of the device that was meant, no answer
  is taken for another's, and nobody waits for one that does not come.
* **DHCP messages.** Lengths come from the network. Correct means: what was
  written is what is read, parsing ends, and no read leaves the message.
* **Boot configuration.** Two programs edit one file without a lock, one of them
  while the device shuts down, and power may go at any moment. Correct means: the
  file never names two slots; an answer "Success" is true; the script never
  leaves a half-made file; and it always reports back to init, which waits.
* **Serial tablet.** Bytes are lost; the reader must find the packet boundary
  again, and must do so after a reset that itself may fail. A reset asks questions
  whose answers come late or damaged, and has to end with the parser and the packet
  length of the tablet that is there. Six protocols put fields into bits; a tool's
  kind is told once and must be remembered.
* **Tablet mode.** Switch events queue up, and are dropped, while the program
  sleeps, and a failing `read` is taken for an event. Correct means: the lid is
  shown as the switch is, and never an older state after a newer one.

The full list, with lines, is `hazards` in `PROJECT.json`.

## 2. Plan

1. `DhcpClient` - the client's state machine, timers and configuration. **Done**,
   with proofs in `DhcpClientProofs`.
2. `DhcpSegment` - clients and a server on one segment. **Done**, with proofs in
   `DhcpSegmentProofs`.
3. `DhcpOptions` - writing and reading options; `UdpFrame`, which it uses - headers
   and checksums against the definition of the one's complement sum. **Done**.
4. `BootConfig` - HAL, script and restarts on one file. **Done**, with proofs in
   `BootConfigProofs`.
5. `SerialTablet` - main loop, packet reader, bit error counter. **Done**, with proofs
   in `SerialTabletProofs`.
6. `SerialIdent` - opening, identification and reset. **Done**, with proofs in
   `SerialIdentProofs`.
7. `TabletPackets` - the parsers and what is reported. **Done**, with proofs in
   `TabletPacketsProofs`.
8. `TabletMode` - the switch translator and its queue. **Done**, with proofs in
   `TabletModeProofs`.
9. `InterfaceCalls` - the client's system calls one by one. **Done**, with proofs in
   `InterfaceCallsProofs`.
10. `DhcpLease` - what a client does to its address and its claim; `DhcpClient`
    implements it. **Done**, with proofs in `DhcpClientProofs`.

`DhcpSegment` abstracts `DhcpClient` (any send may happen at any time) instead of
instantiating it: with timers for every client the state space is out of reach,
and what it asks does not depend on when messages are sent.

## 3. Modules and code

### DhcpClient

One action per branch of `run` (`RunInit` ... `RunRebinding`), per kind of reply
that `waitAndReceive` handles (`ReceiveOffer`, `ReceiveAck`, `ReceiveNak`), for
the end of a poll (`PollTimeout`), for `main` and `init` (`Startup`), and `Tick`
for the clock. `pc` says whether the loop is at its switch or in `ppoll`. The
variables have the names of the members; `iface`, `route` and `props` are what
the kernel and the property service hold, `lease` is a history variable: what is
left of the lease last granted.

* `ConfigureDhcp` is the whole of `configureDhcp` after parsing: `LeaseRead`,
  `BroughtUp`, `AddressSet` and `Configured` are how far it comes, and a call of
  `FailingCalls` may fail at each. `mDhcpInfo` and the timers are replaced before
  the first call that can fail, as in the code.
* Time is in seconds and passes only while the client polls. Two constants stand
  for integer widths: `MillisSpan` for what a `uint32_t` of milliseconds can hold
  and `SecondsSpan` for a `uint32_t` of seconds. `RemainingMillis` and
  `RebindingTime` cut as the code does. When a multiple of the span is left, the
  code spins without polling; `Tick` covers that too (`Spins`).
* A timer is the time left. `mT2` counts on below zero, to `-Horizon`, so that how
  long ago it expired can be told.
* A reply with another transaction ID, an invalid frame, a signal and a failing
  `ppoll` change nothing and are stuttering steps. Which reply has the right ID is
  `DhcpSegment`'s question; here any offer of `Offers` and ACK of `Acks` may come
  at any time an answer is awaited and the interface is up.
* The kernel is not asked to confirm a route: `installed` is a free choice.
* `setAddress` is one step, and `iface` is what the client believes to have set;
  what the kernel makes of it is `InterfaceCalls`.

### DhcpLease

What a user of the network sees of the client: a claim (`phase`), the address on
the interface, T1 and T2. A claim is asked for, granted, held until T1, renewed
until T2, rebound, and ends when a server denies it or, in `asking` and
`rebinding`, when it is given up. `Spoil` is a lease that could not be applied to
the end: it replaces the timers, and perhaps the address. `DhcpClient` implements
it under the mapping `L` (Init and Selecting are `none`, T2 is cut off at 0): no
poll, retry, message or failing call does anything else to the address.

### InterfaceCalls

`todo` is the list of system calls a handler has left, one action for each kind:
`init`, `configureDhcp` and `haltNetwork` are the lists `InitCalls`,
`ConfigureCalls` and `HaltCalls`. A call that fails ends its handler, but for the
MTU's and those of `haltNetwork`. The kernel is external: it handles a netlink
request before `sendto` returns and, if asked to, leaves an answer, or ENOBUFS
where it has no memory for it. `Unplug` and `Plug` come between any two calls; a
new device has the name and another index. The handlers run only for a client
that received something, which needs the old index.

### DhcpSegment

`wire` is the set of all messages sent, so any may be read late, again, or never.
A client sends (`SendDhcpDiscover`, `SendDhcpRequest`, and `ReceiveOffer`, which
requests at once because the loop evaluates a new state without polling) and
accepts replies by `IsValidDhcpMessage`, which looks at `op` and `xid` only. The
server is external and well behaved: it offers and grants only what is free or
already the client's, may refuse, and ends a lease only when its holder is no
longer Bound and no answer is outstanding. The first of these is what
`WakesBeforeLeaseEnds` in `DhcpClient` gives for sensible T1; the second is an
assumption on delay: a message does not outlive a lease.

### DhcpOptions and UdpFrame

A message on its way, as bytes. `AddOption`, `EndOptions` and `GetOption` are the
functions of `message.cpp`, `ParseOption` and `EndOfOptions` the turns and the end
of `configureDhcp`'s loop, with `i` counted from the byte after the cookie. `Wire`
pads, cuts or damages the frame; `ReceiveDhcpMessage` is `receiveDhcpMessage` with
the tests of `receiveRawUdp` and `isValidDhcpMessage`. Two of the fields are kept,
lease time and T1; the others are read by the same code. Of the fixed part of a
message only the fields that are tested are there.

`UdpFrame` has the headers and the checksum as the code computes them: words in
the machine's (little-endian) order, the pseudo header in parts, a last odd byte on
its own, folding after each part. `OnesSum` and `Verifies` are the definition they
are held against.

### BootConfig

A file is a partial function: from the texts before a suffix that are in it to
suffixes, and from the mode keys in it to modes. `Lines` and `LineOf` say on which
line each is; lines with none of them are left out. `Empty` is a truncated or missing
file. The HAL's call is four steps (`SetActiveBootSlot`, which also writes `misc`, then
`SetBootSlotRead`, `SetBootSlotTruncate`, `SetBootSlotWrite`). The script is a check
and, for each of the two keys, a pass of as many steps as the file has lines
(`ScriptOpen`, `ScriptLine`, `ScriptEndOfFile`), a move (`ScriptMove`) and the tests
after it; a line is read from the file as it is at that moment, so that a HAL that
truncates and writes it in place cuts or mixes the copy. Nothing keeps the two apart.
`attached` says whether the HAL's open stream is still the file at the path: after
the script's `mv` it is not. `Restart` may come between any two steps, for it is
a shutdown's end as well as a loss of power.

* Reading the file into the HAL's string and writing it back are one step each: the
  file is smaller than the stream's buffer. A write that fails leaves the lines before
  the failure.
* Suffixes have one length, so that the script's place in the file is at the beginning
  of a line also after the HAL has written it anew. (With modes of different lengths
  the script may in truth go on in the middle of a line; that file counts as torn too.)
* What was written is on the disk: neither program syncs, so a loss of power may also
  undo earlier steps. The boot loader starts only from a file with all four texts.
* The vendor service runs the script under `sh -e`, recovery without. A failing `klog`
  or `mv` ends the script there (`Stops`), while in recovery it goes on. A failing
  `printf` does not end the loop but takes the line away; only the last one decides
  whether `mv` follows. A loop whose files cannot be opened is not followed by `mv`.
* `history` records what the properties have to know of the past: that the HAL wrote
  the file while the script read it (`torn`), that the copy is no true copy of the file
  (`spoiled`), that it was moved with no older content in the HAL's hands (`kept`), that
  the HAL's call could switch the file that it read and wrote all of it, with no older
  copy moved over it (`good`), and that `sh -e` ended the script (`stopped`). No guard
  reads it.

### SerialTablet

A byte is which packet it belongs to, its place in it and that packet's pen; only
the first has its high bit set, which is all the code can see of this. `TabletSends`
is the tablet and the line, which may lose the byte. `ReadRaw`, `Read`, `Timeout`
and `ReadFails` are `SerialReadRaw` from its entry (with the reset after too many
bit errors) through its loop to its three ways out; `Parse` is `SerialParseData`
and the report of `main`. `Restarted` and `GivenUp` are the two ends of
`SerialReset`. The history variables say which packets were damaged on the way or
thrown away, so that the properties can say what must *not* be missed.

* `select` may run out whenever there is nothing to read, in the middle of a packet
  too: the half second is set once for all the reads of a packet
  (`wacserial.c:1541`) and `select` uses it up. A packet that is cut so is thrown away
  and counts as damaged, as with a failing `read`.
* When `read` returns 0, `SerialParseData` judges a byte that was left in the
  buffer: `nBitErrors` becomes either value.
* Of the packet's fields proximity and pressure are kept, the ones BTN_TOUCH
  depends on; the others are the subject of `TabletPackets`.

### SerialIdent

`SerialReset` from end to end, as it runs when the tablet is opened and again after
too many bit errors: through the baud rates (`SerialResetAtBaud`), the stop and
flush, the requests for identity and dimensions (`SerialSendRequest`, read in three
parts as the code does), the tables (`SerialIdentWacom`), parser and packet length
(`SerialInitWacom`) and the start. A character of an answer is a token; some of
the tables' names are kept, two of which begin alike. `errno` is a variable, since
what an earlier call left there decides whether the tablet is asked again.

* The tablet and the line are external: a command is heard when both ends have one
  speed, an answer may lose one character or have it damaged, or come after
  `select` gave up, and the tablet may be switched off and on. A tablet that is
  asked answers with a name of the tables; a tablet PC, which is not asked, is opened
  as one (`IdentAssumption`).
* What `SerialSend` returns for the single-device commands and for the start is not
  looked at, as in the code.
* The reader between two resets is reduced to `Fits`: packets of another length, or
  at another speed, lead to bit errors and at last to a reset (`SerialTablet` has the
  reader). That is not so of every misfit: each packet that is accepted clears the
  count (`wacserial.c:1612`), so that packets of nine bytes read as seven would never
  be noticed. No state of the model has these two lengths together.
* The tablet is switched off and on only while the program reads packets, not during
  a reset, where it might begin to send packets into the reading of an answer.

### TabletPackets

The parsers as functions from a packet's octets and the values so far to new
values (`SerialParseWacomV`, `_IV_1_4`, `_IV_1_3` and `_1_2` in one since they differ
in a few bits, `SerialParseTabletPC`), and `Report`, which is the loop of `main`.
Every mask of the code is a run of bits: `Field` is what it leaves, moved down, by
division and remainder, and `Set` tests a single bit. The kinds of packet of protocol 5
have an operator each (`PenPacket`, `WheelPacket`, `MousePacket`, `RotationPacket`).
The tablet's side (`EncodeV`, `EncodeIV`, `EncodeTPC`, external) is written from the
protocol, octet by octet, not as the inverse of the parsers. Packets are whole or lost.
The pen of a tablet PC has two switches; the second has the bit of the eraser, as the
parser expects it.

### TabletMode

All of `tablet-mode.c`: the search through `/dev/input` (which may find nothing: the
directory cannot be read, or the device goes before it is asked), `CreateUinput` with the ten
seconds before it, `InitialState`, and `Read` and `Handle` in turn. The input layer is
external: events are queued by descriptor, an overflow leaves SYN_DROPPED and the
newest event, and EVIOCGSW takes queued changes of switches out of the queue. When
the device has gone `read` returns -1, which passes the test: `Handle` then sees the
event before, or at first whatever the buffer holds (`Garbage`).

## 4. Runs

| Run | Checks | Shows |
|---|---|---|
| `dhcp_timing` | `TypeOK` `WakesBeforeLeaseEnds` `GivesUpInTime` `WaitsEnd` `RenewalEndsOrIsPutOff` | the timers, for leases from one second to one whose T1 does not fit; ACKs may fail to apply |
| `dhcp_config` | `ReplyAnswersLastMsg` `BoundIsConfigured` `HaltedHasNoLease` `ImplementsLease` | two servers, four kinds of ACK, every call of the interface and the router failing |
| `dhcp_one_client` | `TypeOK` `BoundIsLeased` | one client on an unreliable segment |
| `dhcp_options` | `TypeOK` `ReadsWhatWasWritten` `SentVerifies` `ParsingEnds` | all messages of up to three options, framed, then padded, cut by up to three bytes or damaged in one |
| `interface_calls` | `TypeOK` `SuccessIsApplied` `RouteHasAddress` `HandlerEnds` | every call refused, the device replaced twice |
| `serial_ident` | `TypeOK` `SetUpFits` `StreamFits` `ResetEnds` | six tablets at every speed; late, lost and damaged answers; failing writes; power cycles |
| `serial_reader` | `TypeOK` `NoSplice` `WholePacketsAreRead` `TouchIsPen` | lost bytes, reads of every length, failing reads, writes and resets |
| `tablet_packets` | `TypeOK` `ShownIsTool` `DecodedIsSent` `ToolIsKept` | six protocols, all tools and kinds of packet, two packets lost |
| `tablet_mode` | `TypeOK` `NeverBackward` `LidFollows` | the switch turning at any time, an overflow, a device that goes |
| `boot_overlap` | `TypeOK` `OneSlot` `SuccessSwitches` `ModeIsSet` `OnlyHalTruncates` | HAL and script interleaved in every way, two calls per boot, everything failing, power lost anywhere |
| `boot_reports` | `ScriptReports` | the script at shutdown and in recovery, over two restarts, every command of it failing |

One run is a counterexample to what the repository says of itself:

| Run | Property | What happens |
|---|---|---|
| `default_route` | `RouteIsReplaced` | `router.h` says that another default route "will be removed and replaced"; the request has no NLM_F_REPLACE, so after a renewal with another gateway both routes are there |

### Known from the models, without a run of their own

*DHCP.*
* Each ACK that cannot be applied sets T2 anew before it fails, so Renewing need not
  end, though the comment at `dhcpclient.cpp:265` says it does.
  `RenewalEndsOrIsPutOff` says that nothing else keeps the client there.
* After a NAK nothing brings the interface up again (`dhcpclient.cpp:271`): the
  DISCOVERs of the new start cannot leave it.
* Two clients that start together count transaction IDs from the same start, and
  neither looks at the hardware address (`message.cpp:155-198`): with two clients
  `BoundIsLeased` fails.
* The estimate of T2 (`dhcpclient.cpp:406`) multiplies in 32 bits: with a lease of
  more than 613566756 seconds T2 may come before T1. `GivesUpInTime` excludes such
  leases by `OrderedTimers`.
* A client that gives up Rebinding moves to Init without `haltNetwork`
  (`dhcpclient.cpp:174`): the address of the ended lease stays on the interface.
  `DhcpLease` says so (`GiveUp`).
* To the kernel `setAddress` adds an address and the address 0 means nothing: those
  of earlier leases stay on the device. A lease that goes back to a gateway used
  before leaves the later one in use, for the kernel refuses a route that is there
  and is not asked. An ACK without an MTU leaves the one of the lease before.
* The check on an option's length (`dhcpclient.cpp:322`) leaves out the option's two
  header bytes, so a value that ends one byte after the message is accepted;
  `TypeOK` of `DhcpOptions` says that it is never more than one. A PAD is read as an
  option, so that options after it are missed. A frame's checksums and lengths are
  not tested when it is received.

*Boot configuration.*
* The second `setActiveBootSlot` of a boot looks for the suffix of the running slot
  (`x86_boot_control.cpp:33`), which the first has replaced: it answers "Success" and
  changes nothing. `SuccessSwitches` has this and the next but one as its exceptions.
* A HAL write that fails leaves a part of the file and the answer "Success"
  (`x86_boot_control.cpp:61`).
* A copy that the script began before the HAL's write and moves after it undoes the
  switch of slots. If the HAL truncates and writes the file while the script reads it,
  the copy may end early, or begin with the lines of one slot and end with those of the
  other (`boot-mode-selection.sh:42`): the exceptions of `OneSlot` and `OnlyHalTruncates`.
* A HAL call that read the file before the script moved its copy over it, and truncates
  it after, writes the old mode back (`x86_boot_control.cpp:46`). The script reports
  success also when the last `printf` failed and the copy was not moved, and in recovery
  when `mv` failed: the exceptions of `ModeIsSet`.
* Under `sh -e` a failing `klog` or `mv` ends the script before it sets the property,
  and init waits for it in vain: the exception of `ScriptReports`.

TLC finds a counterexample to each of these properties when its exception is taken out.

*Tablets.*
* A reset that fails after the stop leaves the tablet silent for good: without
  packets there are no bit errors, and without those no reset. After the first
  character of an answer `read` has no timeout, so a character lost there blocks the
  program (`wacserial.c:1398`).
* A protocol 4 tablet whose major version is not 1 opens without a parser. PL-600 is
  found before PL-600SX, whose name begins with it; the device is the same.
* A packet that begins near the end of the half second of `SerialReadRaw` is thrown
  away without a byte lost. When it was the one that lifts the pen, BTN_TOUCH stays down
  until the next packet.
* The second switch of a tablet PC's pen turns it into an eraser and back, at any packet
  (`wacserial.c:1235`). Places are shown as the packet has them, also where they exceed
  the dimensions that were announced (`wacserial.c:863`). The "in" packet of protocol 5
  shows the tool at (0, 0).
* A lost "in" packet leaves the buttons of a mouse to be read as those of the tool
  before; a pen that comes with its second switch pressed is an eraser until it
  leaves; the wheel packets of an airbrush lift its touch; the "out" packet of
  protocol 5 also clears the ranges of the fields, which are not used again.
* Events of the mode switch that the input layer dropped are not made up for, since
  SYN_DROPPED is not looked at (`tablet-mode.c:120`).

### Bounds

* `InitialTimeout = 1`, `MaxTimeout = 16`: the ladder of five waits keeps its
  shape, scaled by four. `TimeoutSpan = 1` is its proportion at most. `MillisSpan
  = 20` is just above the longest retry, so a lease of 80 has a T1 of twice the
  span: both the cut and the spin happen. `Horizon = 60` exceeds `GiveUpBound` (53
  with these constants), so `GivesUpInTime` can fail; where no property
  looks at how long ago T2 was, it is 4.
* `dhcp_one_client`: five messages are enough for a DISCOVER, a request, two
  renewals and a new start, with every reply late or repeated.
* `dhcp_options`: the options of `SomeOptions` include an empty one, one of the
  wrong length, a value that contains another option's code, and padding; messages
  of odd and even length happen, and one whose UDP checksum is 0. Messages of up to
  two options are damaged in each byte.
* `interface_calls`: three devices let one be replaced during a handler and again
  after it; two addresses and two gateways, so that a lease changes them.
* `serial_ident`: three faults are a failed write, a damaged answer and a power
  cycle; two late answers put both questions off. The buffer takes nine tokens, which
  two answers in one exceed.
* `tablet_packets`: four samples whose bits tell the octets apart and that hold the
  ends of the ranges and both sides of the threshold.
* `tablet_mode`: room for five events and five events of the device, with the report
  after each: the queue overflows before and after the first report.
* `serial_reader`: packets of three bytes, four of them, two losses: enough for a
  damaged packet, the search after it, four bit errors and a reset, and a packet
  after that. Every length of `read` up to a packet happens. (Packets of four bytes
  give the same result.)
* `boot_overlap`: two slots, three lines (`SLOT=` and `MODE`, then the kernel with
  `androidboot.slot_suffix=` and `androidboot.mode`, then the initrd), so that a pass
  can be interrupted between any two of them; two calls of the HAL, for the second meets what
  the first did; one restart, after which all may happen again.
* `boot_reports`: two restarts, enough for a shutdown into recovery, the script's run
  there and the one of the next shutdown; one call of the HAL in each boot.

### Fairness

`DhcpClient`: weak fairness of the loop, of the end of a poll and of the clock.
The client is a process of its own that nothing else can block. Nothing is
assumed of the network or of calls. `InterfaceCalls`: the client makes the call at
hand; `recv` is enabled only when there is something to read, so that `HandlerEnds`
shows that there is. `BootConfig`: weak fairness of the script, which init runs as a
service; `ScriptReports` lets a restart take the place of the report, since a device
without power reports nothing, and a script that `sh -e` has ended has no step left. `DhcpOptions`: the loop runs. `SerialIdent`: the
program runs, a tablet that heard a question answers at some time (or the program
gives up before), and packets that do not fit, of the lengths that can meet here, are
noticed as bit errors.
`TabletMode`: the program runs; the switch and the input layer have no fairness. The
HAL and the server have none either.

`CHECK_DEADLOCK FALSE` stands where the system may stop: a parsed message, a
segment or a tablet whose bound on messages is used up, a client or a tablet
program that waits for something to arrive, a device that has been shut down or has
nothing to start from.

## 5. Proofs

Eight modules, each named after the module it is about, prove for all values of the
constants that satisfy the named assumptions:

| Theorem | States |
|---|---|
| `DhcpClientProofs!TypeCorrect` | `Spec => []TypeOK` |
| `RepliesAnswer` | `Spec => []ReplyAnswersLastMsg` |
| `BoundConfigured` | `Spec => []BoundIsConfigured` |
| `HaltedWithoutLease` | `Spec => []HaltedHasNoLease` |
| `WakesInTime` | `Spec => []WakesBeforeLeaseEnds` |
| `GiveUpInTime` | `Spec => []GivesUpInTime` |
| `LeaseImplemented` | `Spec => ImplementsLease`, that is `L!Spec` |
| `BootConfigProofs!TypeCorrect` | `Spec => []TypeOK` |
| `StartsOneSlot` | `Spec => []OneSlot` |
| `ScriptKeepsTheFile` | `Spec => OnlyHalTruncates` |
| `SuccessMeansSwitched` | `Spec => []SuccessSwitches` |
| `SuccessMeansMode` | `Spec => []ModeIsSet` |
| `DhcpSegmentProofs!TypeCorrect` | `Spec => []TypeOK`, for any number of clients |
| `AloneBoundIsLeased` | for one client, `Spec => []BoundIsLeased` |
| `InterfaceCallsProofs!TypeCorrect` | `Spec => []TypeOK` |
| `SuccessApplied` | `Spec => []SuccessIsApplied` |
| `RoutesHaveAddress` | `Spec => []RouteHasAddress` |
| `SerialTabletProofs!TypeCorrect` | `Spec => []TypeOK` |
| `NothingSpliced` | `Spec => []NoSplice` |
| `WholeAreRead` | `Spec => []WholePacketsAreRead` |
| `TouchFollowsPen` | `Spec => []TouchIsPen` |
| `SerialIdentProofs!TypeCorrect` | `Spec => []TypeOK` |
| `SetUpIsRead` | `Spec => []SetUpFits` |
| `TabletPacketsProofs!TypeCorrect` | `Spec => []TypeOK` |
| `ToolIsShown` | `Spec => []ShownIsTool` |
| `SentIsDecoded` | `Spec => []DecodedIsSent` |
| `TypeOfToolIsKept` | `Spec => ToolIsKept` |
| `TabletModeProofs!TypeCorrect` | `Spec => []TypeOK` |
| `LidNeverBackward` | `Spec => NeverBackward` |

*Assumptions.* `TimeoutAssumption`: the longest timeout is sixteen times the
first and the fuzz at most the first, as 64, 4 and 1 seconds are.
`SpanAssumption`: no retry timeout wraps. `ReplyAssumption`: what a message
carries fits its field. `BootAssumption`: types, and at least one slot.
`IdentAssumption`: the tablets are those of the tables, and nobody asks for a tablet PC
where another tablet is. `PacketsAssumption`: the parsers are the code's, and what a
tool does fits the fields that the protocols have for it. The other modules assume types
only, but for a packet of more than one byte (`TabletAssumption`) and a queue of more
than three events (`ModeAssumption`).

*Hypotheses.* `AloneBoundIsLeased` is about a client that is alone; two that count alike
break the property (section 4). No other theorem has a hypothesis of its own: where a
property has exceptions they are part of its definition, which TLC checks as well.

*Messages.* `ReplyAnswersLastMsg` speaks of polling states only, but the request
sent there was built from members set long before. `MsgInv` adds that from
Requesting on the two members come from one offer (`OfferRead`), that the message
last sent fits the state (`LastMsgSent`), and that before the start nothing has
been sent (`NotStarted`), together with what is known of the interface; it is
inductive with `TypeOK`.

*Time.* `GivesUpInTime` bounds how far past T2 the client can be. A step of the
clock says nothing of that unless one knows how much waiting is left and was
done. `TimeInv` relates four quantities: the retry timeout is on the ladder
(`RetryWait`); in Bound the poll ends before T1 and the lease (`BoundWait`); in
Renewing T2 had not expired when the poll began, so what has passed since plus
what is left of the poll is at most one longest wait (`RenewalWait`); in Rebinding
what has passed since T2 is at most that wait plus the rungs of the ladder
already used, less what is left of the current one (`RebindingWait`, with
`Spent(n)` the sum of the rungs up to `n`). Leaving the last rung gives
`GiveUpBound`. An ACK that cannot be applied in Rebinding replaces T2 by a time in
the future, which only helps, if no T2 precedes its T1.

*Refinement.* `LeaseNext` shows of each action which step of `DhcpLease` it is:
sending and polling are hidden (`HiddenSend`, `HiddenStep`), a turn of the loop that
moves is Ask, Renew, Rebind or GiveUp, whose guards on T1 and T2 are the code's
`expired` tests (`LeaseRun`), an ACK is Grant or Spoil with the lease it carries
(`LeaseAck`), a NAK is Deny (`LeaseNak`), the clock is Age. It needs `TypeOK` and
one more invariant, `Unconfigured`: before the start the interface has no address,
so that `init`'s `setAddress(0)` changes nothing.

*Files.* The steps of the script are first reduced to four kinds: those that touch no file
(`Control`), the start of a pass (`Opened`), a line (`Copied`) and the move (`Moved`).
`OneSlot` is not inductive: the HAL's string and the script's copy become the file later.
`SlotInv` states it of all three, and that a copy under way agrees with the file it is
made from, which is what a write during the reading breaks. `AttachInv` says that the file
is empty while the HAL has it open, so that its write takes nothing away. `CopyInv` says
that a copy that is not spoiled has just the lines read so far, with their suffixes, and at
the move all of them; this gives `OnlyHalTruncates`, and that a move does not undo a switch
of slots. `SwitchInv` follows the slot from `misc` through the HAL's string into the file,
`ModeInv` the mode from the script's copy into the file, and from there into the string of
a HAL that reads it afterwards and into the file again.

*Replies.* A bound client was leased its address when the server sent the ACK, long
before. `LeaseInv` follows the ACK: transaction IDs grow, so that no reply to an older
message has the ID of the last one (`XidsGrow`); every address on the wire is of the
pool (`PoolAddresses`); and an ACK that would be accepted is for a lease that the
server still keeps (`AckIsLeased`). The last needs that the client is alone: the server
may lease the address to another one when the lease has ended.

*System calls.* `InterfaceInv` says of the calls that a handler has left that they are
in the code's order and for its lease (`CallsInv`), of the device that it is the last
that came or none, and that its routes go with it (`DevInv`), of the socket that it
holds an answer just while `setAddress` waits for one (`AnswersInv`), and of a
configuration under way what it has done so far (`AppliedInv`): up once the flags are
dealt with, with the address once the answer is read.

*Bytes.* The bytes of buffer and queue together are a stream that the tablet appends
to and the reader takes from, and each byte has a time at which it was sent (`Sent`).
`LossInv` says that times increase, that the last loss is at none of them, and, while
losses are a packet apart, how far the times of bytes can be from one another and from
the next one's: but one missing within a packet's length. A packet with a foreign tail
would have two. `ReadInv` says that every byte of an undamaged packet that was sent
since the first one in the stream is in it (`PresentInv`), whence such a packet is in it
as a run of `PacketLength` bytes (`WholeRun`) and the next start is a packet's length
behind (`StartsBehind`); that a packet still awaited has its first byte in the part that
is still to be judged (`FreshInv`); and that the newest packet's bytes, and BTN_TOUCH
once it was accepted, are those of the pen of now (`TouchInv`). Where these arguments
would be inductions over positions, `LeastNumber` gives the first position that goes
wrong.

*Answers.* That a tablet which is called set up is read rightly is decided in four
places. The rates are tried until the tablet's own comes, the lowest last, so that after
them both ends have one speed (`SpeedInv`, `TryInv`, `HearInv`). The line is flushed after
that, so that what is on it are answers of this tablet, with the version true unless it
was damaged (`WordInv`). The first word of an answer, damaged or cut as it may be, matches
no entry of the tables but one of the connected device, and the last version read before
the parser is chosen is the true one, even when an answer is made of two (`AskedInv`,
`ParserInv`). The choice of parser and packet length is then the tablet's own at the start
(`StartInv`). That no answer leaves its buffer needs that there is room for one more
character whenever one is read (`RoomInv`).

*Packets.* Most of the proof is about octets: for every sample of a tool, the field that
the parser takes out of an octet is the part of the number that the tablet put there, and
the parts add up to the number (`PlaceReadV`, `TenReadV`, `KeysRead`, `ReadIV`, `ReadTPC`).
`PacketIsRead` collects what any packet is read as, whatever the values were before. What
remains is what the parser remembers. `Inv` says that the values know whether a tool is
near unless a packet about coming or leaving was lost (`NearInv`); that a mouse of protocol
5, whose packets leave the pressure alone, then finds none left by a pen (`LiftInv`); and
that in the protocols without such packets the tool in the values is the one of which a
packet has arrived (`HeardInv`), which in protocol 4 keeps the second switch from turning a pen
into an eraser.

*Turns.* `TurnInv` says that what is queued is not older than what was read last, nor
that than what uinput was told last. EVIOCGSW empties the queue of changes just before
the first report, which is what makes it hold from then on.

### Only model-checked

* Liveness (`WaitsEnd`, `RenewalEndsOrIsPutOff`, `HandlerEnds`, `StreamFits`,
  `ResetEnds`, `LidFollows`, `ScriptReports`, `ParsingEnds`), which the prover does
  not handle.
* `DhcpOptions` and `UdpFrame`, whose functions recurse over the message and would
  need induction over data.
* `BoundIsLeased` is proved for a client that is alone; with more it is false (section 4).

## 6. Not modelled

* The USB tablet driver: every use of it is under `WCM_ENABLE_LINUXINPUT`, which no
  build file defines, so no path of this build leads to it.
* `bindIp`, `sendOnInterface` and `receiveFromInterface` of `socket.cpp` and the
  constructors of a server's replies: no program of the repository calls them.
* Two tools at once on an Intuos tablet (`wacserial.c:773` asks for them): the driver
  keeps one state for both, and nothing says what is to be shown.
* The getters and device lists of `wactablet.c`, the command line and the logs.
* `libinit`, the system scripts, `io_switch`, `librecovery_ui`: tables and
  straight-line set-up without state of their own.
* `magisk/`: vendored installer functions.
* The HAL's other methods: each hands its arguments to `libboot_control`, which is
  not in the repository.
* Build files, overlays, firmware and other data.
