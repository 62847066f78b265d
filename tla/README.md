# A serial keyboard adapter: models, checks and proofs

The firmware turns characters received on a bit-banged serial port into USB
keyboard reports sent on the hardware serial port. This directory holds TLA+
modules that model its core logic, TLC configurations that check them on small
instances, and TLAPS proofs for every instance. Line numbers are those of the
repository; paths below leave out the leading `src/`.

## 1. Inventory

| Component | State | Operations | Interacts with | What makes it correct |
|---|---|---|---|---|
| Sketch, `src/Keyboard_Over_Serial.cpp`, `include/UsbKeyboardMapping.h` | `keyboard_buffer`, the constant table | `main` loop, `translateInput`, `blinkLED` | reads `uart` (SoftwareSerial), writes `Serial` (HardwareSerial) | every stored character that has a key is typed once, in order, and its key released before the next |
| SoftwareSerial, `lib/SoftwareSerial` | one receive ring and one `active_object` for all objects; delays and overflow flag per object; PCMSK, SREG | `begin`, `listen`, `stopListening`, `end`, `read`, `peek`, `available`, `overflow`, `write`; handler `recv` | pin change interrupt against the main thread; two objects against each other | the ring is a queue; drops are flagged; the handler runs for the listener only, and the listener hears |
| HardwareSerial, `core/HardwareSerial*` | two rings, `_written`, UCSRA, UCSRB, UDR | `begin`, `end`, `write`, `flush`, `read`, `peek`, `available`, `availableForWrite`; two handlers | data register empty and receive complete interrupts, the USART | each byte leaves once in order; `flush` waits for the last one; nothing hangs with interrupts off |
| Print, `core/Print.cpp` | write error | `print` of texts, integers, doubles, `write(buffer, size)` | virtual `write(byte)` | what is printed reads back as the number; the count returned is what the port took |
| Stream, `core/Stream.cpp` | `_timeout`, `_startMillis` | `timedRead`, `timedPeek`, `findMulti`, `parseInt`, `parseFloat`, `readBytes` | the port's `read`/`peek`, `millis` | a target is found wherever it is; the wait is bounded |
| Time, `core/wiring.c` | overflow count, milliseconds, fraction, TCNT0, TOV0 | `millis`, `micros`, `delay`, `delayMicroseconds`; timer 0 handler | overflow interrupt against the main thread | `micros` never runs backwards, `millis` does not drift, delays are as long as asked |
| Pulse measurement, `core/wiring_pulse.*` | none | `pulseIn`, `pulseInLong` | `micros`, pin | the width is right, the time-out is honoured |
| Digital pins, `core/wiring_digital.c`, `wiring_shift.c` | port, direction and timer registers | `pinMode`, `digitalWrite`, `digitalRead`, `shiftOut`, `shiftIn` | handlers that write the same registers | no update of a neighbour pin is lost |
| External interrupts, `core/WInterrupts.c` | table of handlers, EIMSK | `attachInterrupt`, `detachInterrupt` | vectors, handlers | a handler runs only while attached, whole |
| USB core, `core/USBCore.cpp` | end point banks, `_usbConfiguration`, suspend state, UDIEN | `USB_Send`, `USB_Recv`, `USB_Flush`, `attach`, `wakeupHost`, control requests | general and control interrupts, host | bytes arrive in order or the error is told; descriptors tell the truth; the suspend state settles |
| USB serial, `core/CDC.cpp` | line state, `peek_buffer`, boot key, watchdog setting | `Serial_` calls, `CDC_Setup` | USB core, bootloader | as above; a cancelled reset leaves no trace |
| PluggableUSB, `core/PluggableUSB.cpp` | chain of modules, counters, `_initEndpoints` | `plug`, `getInterface` | control requests walk the chain | modules share no interface and no end point |
| String, `core/WString.cpp` | buffer, capacity, length | copy, concat, replace, remove | `malloc` | length stays within capacity when allocation fails |
| Helpers, run time support, build | none | | | |

The USB part is compiled for boards whose chip has a USB device, not for the Uno
of this firmware; it is part of the repository's core and modelled as such.

Hard behaviours: the pin change handler and the accesses of `read`, `peek`,
`available`, `overflow`, `listen` to the same ring and pointer; three parties on
the transmit ring, UDRIE and TXC (main thread, handler, shift register), with the
handler also called as a function when interrupts are off; full rings; frames that
start while interrupts are off; counters that wrap in the middle of a wait; pointers
and registers changed in two accesses; double buffered end points that a frame
interrupt releases under a write; a host that resets, suspends or stops reading at
any time; requests that meet a half plugged module; allocation that fails. The
list with lines is under `hazards` in `PROJECT.json`.

## 2. Modules

| Module | Models |
|---|---|
| `RxQueue` | what a receiver promises: a bounded queue that can be discarded |
| `TxChannel` | what a transmitter promises: accepted bytes leave once, in order |
| `PacketPipe` | what a pipe of packets promises: batches out are the batches in, cut elsewhere; losses only with the connection or told |
| `SoftwareSerial` | the bit-banged port; implements `RxQueue` |
| `HardwareSerial` | the USART driver with the USART; implements `RxQueue` and `TxChannel` |
| `UsbKeyboardMapping` | the key table, row by row |
| `KeyboardOverSerial` | the sketch over one `RxQueue` and one `TxChannel`, with the chip and the target computer at the far end |
| `Timer` | the clock: `millis`, `micros`, `delay` and the timer 0 overflow interrupt |
| `Pulse` | EXTENDS `Timer`: `pulseInLong`, `pulseIn`, `delayMicroseconds` |
| `Pins` | one port and one timer: `pinMode`, `digitalWrite`, `digitalRead`, the shifts, a handler's write |
| `ExternalInterrupts` | EXTENDS `Pins`: the handler table, the mask, the vectors |
| `StreamSearch` | how `findMulti` follows one target, and the reference it is checked against |
| `Stream` | the timed reads, searches and parsers every port inherits, over an `RxQueue`-like port and a wrapping clock |
| `PrintText` | what `Print` offers a port that may refuse characters |
| `WString` | class String under an allocator that may refuse any request |
| `UsbSerial` | the data path of the USB serial port, both directions; each implements `PacketPipe` |
| `CdcControl` | `CDC_Setup`: line state, break, reset into the bootloader |
| `PluggableUsb` | `plug`, store by store |
| `UsbDevice` | EXTENDS `CdcControl`, `PluggableUsb`: bus events, configuration, control requests |
| `DataTheorems` | lemmas: what a ring of any size with a head and a tail holds, as a sequence; induction along an interval and recursive functions on one |
| `SketchProofs` | theorems about `SoftwareSerial` and about `KeyboardOverSerial`, the sketch that reads it |
| `TextProofs` | theorems about `StreamSearch` and `Stream`: one character of the search, the types and the time-out, the whole search, reads, numbers; and about `WString` |
| `PulseProofs` | theorems about `Pulse` and the clock of `Timer` it runs on |
| `ExternalInterruptsProofs` | theorems about `ExternalInterrupts` and the pins it extends |
| `HardwareSerialProofs`, `UsbSerialProofs`, `UsbDeviceProofs` | theorems about the modules they are named after |
| `MC*` | sets and bounds for TLC |

The composition is modular: `KeyboardOverSerial` uses the two ports through their
abstract specifications, and the detailed modules are shown to implement those.
`Pulse` runs on the clock of `Timer`, `ExternalInterrupts` calls handlers that
write the port of `Pins`, `UsbDevice` joins line control and plugged modules under
one handler of requests.

### SoftwareSerial

Variables carry the source's names without the leading underscore; sets replace
per-object flags (`overflow` is the set of objects whose `_buffer_overflow` is
set, `mask` the pins enabled in PCMSK). `pc` is the next shared access of the main
thread, `self` and `reg` the object and the local variable of the call in
progress. Each call is split at every access the handler could come between:
`read` into test, load and store of the new head; `available` into the load of
tail and of head; `overflow` into test and clear; `listen` into masking, clearing
the pointer, resetting, setting it, unmasking. Accesses nothing else can see are
grouped. The handler is one step (`Recv`), as it runs with interrupts off.

*Timing assumption.* A pending, enabled interrupt runs before the next access of
the main thread (`Preempted`): the processor runs at most one instruction first.

*The wire.* `line[p]` is idle, at a start bit, or `Late`: in the middle of a frame
whose start bit was not seen. From a `Late` frame, or with delays of zero, `recv`
samples an arbitrary byte (`RecvGarbage`), and may run into the next frame.

*Reduced:* the delays are zero or set (the two tests of the code); port registers
and the bits sent by `write` are left out, its effect on interrupts is not. A
`begin` on a pin without a pin change interrupt (`Port \ PcintPort`) never gets an
`_rx_delay_*` and never listens.

### HardwareSerial

The same style with three parties: `pc` for the main thread, `irq` for the
data-register-empty handler, and the USART's own steps. The handler is split into
its accesses because the shift register moves between them, and because `write`
and `flush` call it with interrupts off (`WritePoll`, `FlushPoll`). The receive
handler is one step: only the main thread shares its data, and it cannot run
meanwhile. `UDRE` is `udr = None`. `begin` and `end` change UCSRB by `sbi`/`cbi`
on a memory-mapped register, thus by load and store (`RmwLoad`, `RmwStore`).

*Assumptions.* `TxcWindow`: a frame is longer than the few cycles between writing
UDR and clearing TXC in uninterrupted code. The sketch writes to open ports only;
`MayRebegin` allows `begin` on an open port, `MayDisable` calls with interrupts off.

### KeyboardOverSerial

`ReadAndTranslate` is `memset`, `available`, `read` and `translateInput`;
`WritePress` and `WriteClear` are the two `Serial.write(.., 8)`, a byte at a time.
`SendByte` is the external end: the interface chip cuts eight bytes to a report,
the target holds down what the last one said, a key code (`down`) and modifiers
(`mods`), and types a key code that was not down in the report before. `blinkLED`
only takes time. Arrivals are bounded by `MaxChars`. `expected` is a ghost: the
keys, modifiers included, that the characters stored so far stand for. Definitions
that `SoftwareSerial` has too carry a name of their own (`SketchInit`, `point`), so
that one module can speak of both.

### Timer

The main thread moves by one register or memory access; the overflow handler is
one step, as it runs with interrupts off; the timer ticks in between. `wraps`
is the true number of overflows, `Now` the true time, `Handled` the overflows the
handler has counted; properties compare what the code returns with these. A
four-byte load is two loads of `ByteSize`. `SREG` is saved and restored as in the
code, so the calls work with interrupts on and off.

*Timing assumptions* (`InTime`): with interrupts off, one access takes less than
a tick (64 cycles); with interrupts on, handlers hold the main thread up for at
most `MaxLag` ticks; a pending overflow is served before the timer reaches its
last value again. Without the last one `micros` cannot know how many overflows it
missed. `delay` is called with interrupts enabled: otherwise it does not return.

### Stream

A call is a record: what is read (`limit`, `stop`), found (`targets`) or parsed
(`lookahead`, `ignore`, `decimal`). The timed read is three steps (the clock, the
poll, the comparison), characters arrive and milliseconds pass in between, and a
method's loop body is one step (`ReadGot`, `FindGot`, `SkipGot`, `ParseGot`): it
touches only its own variables and the queue's head. `NextIndex` is the body of
`findMulti` for one target: the walk back stops at the greatest index that fits.
Digits are numbers below `Base`; a `long` that overflows has any value that is not
negative (the language allows those too; `ParsedValue` leaves overflow out). `limit = None` is a `readString`. *Reduced:* the float factor is a
count of `places`; an `ignore` or terminator of 0xFF, which equals -1, is left out.

### WString

Calls run to completion, so each is one action. `Reserve` yields the outcomes of
`realloc`; every call that allocates has a branch where it is refused. `text` is
what stands before the first NUL of the buffer, `len` the field: the code keeps
them equal, and `move` does not. Out of a sketch's choices three are switched by
constants because they break the string: going on with moved-from objects
(`MayKeep`), appending an object to itself (`MaySelf`), and a growing replacement
that completes further occurrences (`MayRepeat`).

### Pulse

`pulseInLong` is split at each access of the pin and each `micros()`, which is the
one of `Timer`, access by access; the argument comparison is that of unsigned
numbers. `countPulseASM` is one turn per step, its counter in cycles. Edges come at
any time. `delayMicroseconds` is a table of what the preprocessor leaves for each
clock and a formula for the cycles spent; the unsigned 16 bit product is kept.

### Pins and ExternalInterrupts

A register is the set of its bits. Each call is split at each load and store,
`cli()` and the restore of SREG included; the handler comes in between whenever the
I bit is set and writes a pin of its own in one step. The outside is a shift
register of bits that follows the clock pin's edges. In `ExternalInterrupts` a
function pointer is two bytes stored one after the other; an event sets a flag that
waits until its interrupt is enabled, and the vector calls what the table holds.

### UsbSerial

A bank is the sequence of its bytes: `in` what was released to the host, `fill` what
is being written, `out` what the host sent. `LockEP` is one step; what runs without
it (the loop of `USB_Send`, `USB_Flush` on the main thread) is split at the accesses
a handler can come between: `SendSpaceStep` reads the room, `SendPush` finds it gone
or not. The frame interrupt, bus reset, configuration, line state, suspension and
the host's reading come at any time. `FlushRelease` releases only while the end point
it selected is still selected: what it would do to another one is left out.

### CdcControl, PluggableUsb, UsbDevice

A request is one step, as its handler runs with interrupts off; `plug` on the main
thread is a step per store, so requests meet a linked module without numbers. The
descriptor is a sequence of pieces that tell whose byte it is; it is measured and
sent by the same fold (`SendInterfaces`), in as many packets as the host takes. RAM
is the two words the bootloader key may lie on. The interrupt flags and enables of
the bus are sets; `GeneralInterrupt` is the handler's three cases.

### PrintText

The port is a record of what it was asked and took; `no` numbers the characters it
refuses. Digits are numbers, the float is a fraction in exact arithmetic: `PrintsFraction`
is about the digits, not about how near a `double` comes to them, and about what is in
range (`InRange`), as the code prints `ovf` for the rest. `PrintedTrue` of `Stream` states
its properties and that `parseInt` and `parseFloat` read back what `print` wrote; the run
`stream` evaluates it with binary digits and longs from -4 to 3, the theorem covers the
others.


### Operators named after a bug

Beside some definitions stands a changed form (`HasRoomAlways`,
`StoreDropsOldest`, `FullLate`, `WritePressOnly`, ...). No
specification uses them: substituted for the original, each makes the property
named with it in `PROJECT.json` fail, which shows that the property depends on
the code.

## 3. Runs

| Run | Instance | Question |
|---|---|---|
| `software_serial_one` | 2 objects, one without pin change interrupt, 2 bytes, ring of 3 | is the ring a queue under every interleaving with the handler, does what a call told stay true, is no drop silent |
| `software_serial_two` | 2 objects, 1 byte, ring of 2, fair | does taking over listening leave the handler a whole pointer and the listener able to hear; is an edge received during `write` served |
| `hardware_serial_tx` | 2 bytes, ring of 3, interrupts on or off, fair | does every byte leave once in order, does `flush` wait, does `availableForWrite` keep its word, do calls return and queued bytes move |
| `hardware_serial_rx` | 2 bytes, ring of 3, parity errors | is the receive ring a queue and empty for good after `end` |
| `keyboard` | 6 characters, 3 arrivals, rings of 2 and 5, fair | are stored characters typed in order, once and in the end; is nothing but Left Shift held down behind a key and at the end; does every printable character have a key of its own |
| `timer` | a period of 4 ticks, 37 ticks, `unsigned long` modulo 64, fair | is `micros` within a tick of the truth, `millis` without drift, `delay` and `delayMicroseconds` never short; are pulse widths and time-outs right across a wrap; do all waits end |
| `stream` | words of 3 bits and overlapping targets, up to 4 characters, time-out of 1, clock modulo 4, fair | is a target found where it first appears, does a read give what it took, is the number the digits taken, does every call wait its time-out out and return; does what `Print` prints read back |
| `string` | 2 strings of up to 3 characters | do length, capacity and text agree, does each call do what `WString.h` says and touch nothing else |
| `usb_serial` | end points of 2 bytes, a `write` of up to 3, 2 waits, fair | are bytes in order, once or told, in both directions; are transfers ended; do calls return when the host sleeps, resets or stops reading |
| `usb_device` | 3 modules of which two fit, packets of 4, fair | is the host told the end points it gets; do modules stay apart; does the suspend state end true to the bus; is the sketch's RAM given back |
| `pins` | 3 pins, bytes of 2 bits, 2 interrupts | does no write undo a handler's; does a byte shifted out read back; is no half stored pointer called |
| `cdc_watchdog` | DTR low twice, then high | counterexample: the watchdog setting saved first is lost |

*Bounds.* The ring operations see only differences modulo the size: rings of 2
and 3 already fill, drain and wrap, with one and two bytes stored; the theorems
remove the bound for both serial ports. Two bytes tell order apart, two objects are
one that listens and one that takes over, or one that cannot listen. The keyboard's
transmit capacity of 5 is smaller than a report, so every `write` waits in the middle of one. The small
timer keeps the relations of the real one (`TimerAssumption`): exact fractions, a
carry, and counts that wrap within the modelled time `MaxNow`. Words of three over
two letters hold every overlap a walk back of up to two can meet; three characters
hold a sign or skipped character, digits and what ends them; strings of three grow,
shrink and shift under every call. End points of two bytes are partly full, full and
overrun by messages of up to three. Of three modules the third finds too few end
points left, in any order.

Four runs have a CONSTRAINT. States beyond it are checked but not continued, and
liveness is checked on what is within it:

- `OneWay` (`usb_serial`): the two directions share the end point selector and the
  main thread, and nothing else; states in which both hold bytes are not continued.
  While bytes wait in one direction every step of the selector by the other is
  still taken once.
- `OneAtATime` (`usb_device`): modules, suspension and the port's reset requests
  share the bus alone; once two of the three have begun, the state is not continued.
- `Bounded` (`stream`): a search sees four bits, another call three characters.
- `FewPulses` (`timer`): pulses are measured from moment 29 on, where `micros` wraps
  before, in or after the pulse depending on when it comes.

*Fairness.* A call once begun runs on, a handler once entered runs on, the USART
shifts what it has (weak fairness: nothing disables these). A pending interrupt
is taken; in HardwareSerial with strong fairness, because the main thread may
enable and disable interrupts again and again and the hardware takes the
interrupt in the first such window; so in Timer, where `micros` in the loop of
`delay` does the same to the overflow interrupt. Time goes on (strong fairness of
`Tick`: it pauses only while the modelled handlers have used up what they may
take). A bus that is awake has a frame every millisecond (`StartOfFrame`) and
carries traffic; an interrupt pending and enabled is served (`GeneralInterrupt`); a
host takes packets only while it reads (`HostTakes`), and it may stop for good.
Nothing is assumed about when the sketch calls, characters arrive or the host asks.

*Known disagreements.* The run `cdc_watchdog` ends in a counterexample (`findings`
in `PROJECT.json`): `CDC_Setup` saves WDTCSR each time the port is closed at 1200
baud (CDC.cpp:133), a second time after it has changed it. The same modules show
others when a constant or the mix of calls is changed; the passing runs keep clear
of them:

- `begin` on the listening SoftwareSerial object sets its delays to zero first
  (SoftwareSerial.cpp:306); a frame that arrives then is sampled with them, against
  SoftwareSerial.h:62 ("must never be 0!"). `DelaysSetWhenSampling` fails.
- `listen` returns true when it replaced nobody, against SoftwareSerial.cpp:85-86.
- `MayRebegin = TRUE`: `begin` on an open HardwareSerial port clears `_written` but
  not the ring; the next `flush` returns with bytes queued (`ToldTrue`).
- `clear_command`, sent behind every key, begins with 0x02 (UsbKeyboardMapping.h:9):
  Left Shift. So it releases the key and any other modifier, and holds Left Shift down
  on the target until the next key, for good behind the last one. The keys typed are
  right all the same, as each report states its modifiers; a mouse click or a key of
  another keyboard meanwhile is a shifted one. `TypedRight` and `AllTyped` admit Left Shift and
  nothing else; `NothingHeld`, which does not, fails. No document of the repository
  says what the report between two keys should be, so it is not a finding.
- Characters that arrive while the `uart` ring is full are lost without a word: the
  sketch never calls `overflow`. At equal baud rates one character in takes sixteen
  bytes out, so a burst longer than the ring loses some. `TypedRight` and `AllTyped`
  speak of the characters stored.
- The 110th row of `keyboard_map` is left zero by the initialiser, so a received
  NUL is sent as a report without a key (`PrintableRelayed` is about the printable
  characters, and refuses neither this row nor another of zeroes).
- A character in `High`: `findMulti` compares the int 0..255 of `timedRead` with a
  signed `char`, so targets with bytes from 0x80 on are never found (`FindsFirst`).
- `MayKeep = TRUE`: `move` leaves its source's text with length zero; a copy of it
  then overruns a one-byte buffer. `MaySelf = TRUE`: so does `s += s`. `MayRepeat
  = TRUE`: so does a replacement that completes another occurrence. `TextKept` fails.
- A handler's pin and a pin of the sketch on one timer: `turnOffPWM` loads and stores
  the control register with interrupts on, and may switch the handler's output back
  to the timer (`WrittenPinIsDigital`, wiring_digital.c:147).
- `MayReattach = TRUE`: `attachInterrupt` on an enabled interrupt stores the pointer
  in two bytes with the interrupt on (`RightHandler`).
- `pulseIn` with a time-out below one turn of its loop: `maxloops` is 0 and the first
  `--maxloops` makes it the greatest.
- A port that refuses the '-' of a number is offered the digits all the same
  (Print.cpp:93): the count returned is right, the number taken is not.
- `HostZlp = TRUE`: `USB_Recv` releases a bank when it takes the last byte out of
  it, so an empty packet of the host is never released and hides those behind it
  for good (`AvailableTells`).
- `plug` links a module before it numbers it, with a two-byte pointer: a request in
  between walks a module with numbers of zero. `DeclaredTrue` speaks of what was
  read after `plug` was done.
- A write that times out on the USB port is reported as 0 although a part may have
  been queued; the property asks for the error flag, which is set.

## 4. Proofs

### SoftwareSerial (`SketchProofs`)

`IInv` is proved for every set of objects and bytes and every ring size from 2 to 256
(`SoftwareSerialAssumption`), and from it type correctness, `NoSilentDrop`, `BytesTold`, `PinInterruptRight` and `FrameKept`.

The properties alone are not inductive: that `available` is right depends on the
tail it loaded being older than the present one; that `peek` and `read` return
the oldest byte, on the ring having been non-empty at the test; that the
handler's object is the listener, on the pin being masked throughout the change.
`Consistent` says so for each program counter. The proof has one step per
action; the handler's store has a lemma (`StoreIInv`), and the modular arithmetic
of the indices is done once (`SuccCases`, `CountCases`, `CountStore`,
`CountRead`).

`RingImplementsQueue` proves that the port implements `RxQueue`. The abstract
queue is the contents of the ring read from head to tail; `DataTheorems` relates
the ring to that sequence for any size (`ContentsStore`: storing at the tail
appends; `ContentsRead`: advancing the head takes the first element;
`ContentsEmpty`), with the index arithmetic in `WrapCases` and `FillCases`. Each
action then is one of `Put`, `Get`, `Discard` or a stutter (`NextIsQueueStep`).

### HardwareSerial (`HardwareSerialProofs`)

`ToldTrue` and `ReceivedTrue` are proved, and that the two rings implement
`TxChannel` and `RxQueue`, for every ring size the module admits, any bytes, calls with interrupts on or off, under the hypothesis `BeginsClosed`:
`begin` is called on a closed port only (with it the first disagreement above does
not arise). The invariant has five parts beside the types:

- `HandlerInv`: UDRIE is set exactly when the ring holds a byte, save within the
  handler and between the store and the enable of `write`. It rests on the
  main thread being alone there, or with interrupts off.
- `QuietInv`: `flush` believes TXC, so TXC must mean that UDR, shift register and
  ring are empty; it does because `write` clears TXC behind UDR before the frame can
  end, and the handler likewise.
- `RoomInv`: the slot `write` waits for stays free, and the room reported with it.
- `ChangeInv`: while `begin` and `end` load and store UCSRB nobody else changes it.
- `ReceiveInv`: between `read`'s accesses the byte it saw is there, and without
  RXCIE the ring is empty, except within `begin` and `end`.

For the channel, what is under way is the shift register, UDR, the byte the handler
holds and the ring, in that order; `Joins` and `TxQueueMoves` say how a byte passes
from one to the next, and each action is an `Accept`, an `Emit` or a stutter
(`NextIsChannelStep`).

### Stream (`TextProofs`)

The first part is about `NextIndex` alone, the walk back of `findMulti`,
for every target, stream and alphabet: if the index was the length of the longest
beginning of the target that the stream ends with, it still is after one more
character (`NextIndexCorrect`), although the stream itself is not kept. The
argument: what the stream ends with can be read off the target
(`EndsWithShorter`), so the positions the walk may stop at are exactly the
shorter matches (`WalkBackFindsEnds`), and it stops at the greatest.

The second proves, of the specification in `Stream`, type correctness and
`GivesUpInTime` for every time-out and every width of `millis()` greater than the
time-out. `ClockInv` is what makes it inductive: until the time-out is over the
clock is `startMillis + waited`, once reduced. The third proves
`MatchKept` and `FindsFirst` for every set of calls, any arrivals and any
interleaving with the clock, under the hypothesis `PlainTargets`: no target holds
a character from 0x80 on, which as a signed `char` matches nothing. The
inductive invariant `SearchInv` adds to `MatchKept` that no target has occurred
yet, and says what is known while a character is read and not yet looked at.

The fourth proves `ReadsExactly` (`ReadsAreExact`) for any calls that read, under
the hypothesis `PlainStops`: a terminator is below 0x80, for the same reason.
`FillInv`: until the call returns, what it took is what it placed in the buffer, and
the character in `c` where that is not yet looked at; the terminator is not among
them, and there is room for one more.

The last is about `parseInt` and `parseFloat` and has no hypothesis. `ParsedExtent`, the
half of `ParsesNumber` that says which characters are taken: in `ExtentInv` the number
so far is the end of what was taken, all before it could be skipped, and the
character looked at is still first in the port: handlers only append. `ParsedValue`,
the other half: `value` is what the digits so far stand for, unless it has
overflowed, and `places` counts those behind the point; as what digits stand for
is a function on the places of a text (`Values`), one more digit is one more step
of it (`ValuesAre`). A digit is below 0x80 in every character set of the core
(`StreamAssumption`). `ParsesNumberRight` joins the two.

### Print (`TextProofs`)

`PrintedRight` proves of `PrintText`, for every base of decimal numbers and every width
of `long`, that `print` writes the digits of any `long` in the bases 2 to 16 and returns
what the port took, whichever of the first four characters it refuses, and that any
fraction in range, printed to at most 8 places, is the nearest multiple of its last digit. What digits stand for is Horner's rule (`Horner`,
`ValueGrows`), and one more digit is one more division with remainder (`Parts`), so the
digits written stand for the number and begin with no 0 (`PlainDigits`). Of a fraction,
after `k` decimals, the digits so far times the unit, plus the remainder, are the rounded
number times the `k`-th power of the base (`Progress`).

`PrintedIsTrue` joins it with the parsers: whenever one has returned after it took exactly
what `print` wrote, its number is the one printed. Only digits count for what a text stands
for, so the point can be left out (`NumberSkips`), and `PlacesInv` says that the places
a parser counts are the digits it took behind the point. The hypothesis is that the base
of decimal numbers is even, as 10 is: half of the last digit is added before it is cut.
The assumption on the constants, `PrintAssumption`, is that a digit is a `long`.

### String (`TextProofs`)

`TextIsKept` proves `TextKept` for any objects, any texts and every order of the calls,
whatever `realloc` refuses, under the hypotheses that the three constants of the
disagreements are false. The invariant (`StringInv`) is that every object is
`KeptString`: its fields have their types, `len` is the length of the text and at
most `cap`, and an invalid object is `Null`. Each call has a lemma that it makes such
objects of such objects, and of which text (`CopyKeeps`, `ConcatKeeps`, ...).

The hard one is `replace`. When the text grows the code reserves what it counts from
left to right, each occurrence behind the end of the one before, and then
replaces from right to left in the text as it is by then. `ReplacedLen` proves that
the count is the length of the replacement made from the left, for every text.
`RightIsLeft` proves that the replacement from the right makes that same text unless
`Repeats`, the condition of `MayRepeat`, holds: what stands to the left of a place
already passed is as it was (`SplicedAt`); an occurrence that begins there and
reaches into what was inserted would make the inserted text begin like an end of
`find` (`NoneMade`); and two occurrences of a text that does not overlap itself do
not overlap (`InsideKept`).

`CallsDoWhatTheySay` proves `DoesWhatItSays` under the same hypotheses: the lemma of each
call also gives the text the call makes, and the theorem reads off that it is the promised
one. `remove()`, `trim()` and `substring()` compute theirs with indices and
clamps; `WithoutIs`, `TrimTextIs` and `BothEndsRemoved` say that what comes out is the
text without the range named, without the blanks of both ends, and the range itself.

### USB requests and modules (`UsbDeviceProofs`)

Proved without the constraint of the run: that the word of RAM
under the bootloader's key is given back (`SketchWordNeverLost`) and that plugged
modules share no number (`ModulesStayApart`), for any modules and any number of end
points, and that what the host was told of end points is what it gets when it sets the
configuration (`DeclaredAreSetUp`). A module is numbered after it is linked, so the latter is no invariant on its
own: `PlugInv` says for every point of `plug` how far the numbers of the finished
modules reach, and that the module in hand starts there. `ToldInv`: the host was told only of
end points that are numbered, with the type stored for each, which none changes. `RamInv` adds that a new
bootloader's key lies elsewhere.

`DeclaredIsTrue` proves all of `DeclaredTrue`: also that the configuration, measured in
one pass and sent in another, announces its own length and the interfaces in use.
`OrderInv`: the chain holds each module once, a module in hand last, and they are
numbered in the chain's order up to `lastIf`. The walk of `SendInterfaces` is a sequence of
states (`ChainFold`, from the recursion behind `FoldLeft`), each of which has given a
beginning of the text so far as long as limit and packets allow (`Given`); the same
text comes out of both passes (`Measured`, `ConfigurationSent`). Its hypothesis is that
the longest configuration fits `Most`, the greatest length `InitControl(int)` takes.

### The sketch (`SketchProofs`)

`KeysTypedRight` proves `TypedRight`, the safety of the whole path from a stored
character to the key typed, for any set of characters, any number of arrivals and
queues of any size. The bytes between `main` and the target are a frame begun, the
bytes `Serial` holds and those `write` has not passed on yet (`OnTheWay`). The
invariant `SketchInv` says that they are whole reports, presses and releases in
turn, the first possibly begun (`InTurn`), that `expected` is what was typed, then
the keys of those presses, then the keys of the characters still stored
(`Relayed`), and that no key is down before a press. Whole releases are
`clear_command`, in which the key code is zero and the modifiers are Left Shift
(`ClearHoldsShift`). A row of the table without a
key code (the NUL of the disagreements) is sent as a press and types nothing: a
sequence of presses and the keys it types differ in those (`Types`). The keys of a
queue are a function of it (`KeysOf`), appended to and cut in step with it.

`PrintableAreRelayed` proves `PrintableRelayed`. That no two characters share a key
is shown by a function that gives the character of each key and modifiers
(`CharacterOf`, `TableInverted`).

### Time and pulses (`PulseProofs`)

`MicrosFresh`, `MillisTrue`, `DelayLongEnough`, `PulseTrue` and `ShortDelayTrue`
are proved for the specification of `Pulse`, every call included, for any timer
period, clock rate, `unsigned long` of any width, and handlers as slow as `InTime`
lets them be. The invariant (`ClockAndCallsHold`) ties every register and local
variable to the true time:

- `ClockInv`: the overflow count is `Handled` modulo the width, the milliseconds
  and the fraction are quotient and remainder of the periods handled: no drift.
- `MicrosInv`: what `micros` has loaded so far stands for a time (`ReadTime`) that is
  `lag` ticks ago. It holds as a pending overflow is seen in TIFR, unless the timer
  was read at its last value.
- `DelayInv`: the start of the present millisecond stands for a time `s`, and what
  was asked and not yet counted down lies behind it; so the subtraction modulo the
  width is the true difference.
- `PulseInv`: the starts that `pulseInLong` has taken stand for times, the time-out's
  start lies no further back than the time-out and what handlers add before the next
  comparison (`Slack`), and `start` for one between the rise and what was held since.
- `CountInv`: the turns of `pulseIn` fit its time-out.

That a time-out cannot be missed needs `PulseAssumption`: time-out and handlers'
delays together are shorter than the time after which `micros` wraps (71 minutes).

### Pins and interrupts (`ExternalInterruptsProofs`)

`PinsAreKept` (`PinsKept`), `ShiftsGoRoundTrip` (`ShiftsRoundTrip`) and
`HandlersAreRight` (`RightHandler`), for any pins, handlers, bytes of any width and
both bit orders. `PortInv`: between `cli` and the store interrupts are off and `reg`
is the port. `ShiftInv` says for each phase of `shiftOut` and `shiftIn`, and for each
access within it, which bits lie in the shift register outside and what the clock and
data pins are; it holds since the handler writes a pin of its own. `TableInv`: an
enabled interrupt has a whole pointer; each store still to do is to a disabled one.
`HandlersAreRight` has the hypothesis `~MayReattach`, without which it is false (see
the disagreements).

### USB serial port (`UsbSerialProofs`)

For end points of any size with two banks each and any messages of at most `Longest`
bytes, without the constraint of the run: every transfer is ended (`TransfersEnd`);
`BanksAreTrue` (`BanksTrue`) under the hypothesis `HostZlp = FALSE`, the host sends
no empty packets (see the disagreements); bytes are read in order (`HostIsRead`);
and `write` implements `PacketPipe` but for its fairness (`WritesInOrder`). `UInv`
holds what is needed: a bank being written is never full, `sendZlp` is set exactly
when a transfer is over and ended in a full bank, and the room `USB_SendSpace` told
is still there when the bytes are stored. What the pipe holds is the banks in a row,
the bank being written and the rest of the message; releasing a bank, storing and
reading move bytes between the parts and keep the row (`FlatProps` and the lemmas
behind it unfold `FlattenSeq` for the few banks there are).

### Only model-checked

- Liveness: `InterruptServed`, `CallsReturn`, `QueueMoves`, `AllTyped`,
  `SuspendStateSettles` and the fairness of `WritesArrive` are out of the prover's reach.

Induction over data is done, where the proofs need it, along an interval of numbers:
`DataTheorems` has it for sets of numbers (`InductionTo`, `InductionFromEnd`) and for
recursive functions on an interval (`RecursionFromEnd`, `RecursionFromStart`) and for the
function behind the folds of sequences (`RecursionFromTop`), which rest on every set of natural numbers having a least element.

## 5. Not modelled

- HardwareSerial instances 1 to 3 and `serialEventRun`: the same class on USARTs the
  ATmega328P lacks. The baud rate arithmetic of `begin`, and what `write` to a closed
  port does: UDR is written although the transmitter is off, and no document speaks
  of it.
- SoftwareSerial's delay table and its 16 bit arithmetic: a sampling instant has no
  counterpart in the model, where a frame heard from its start bit is sampled right.
- `init()`: PWM and converter set-up, written once before `setup`.
- USB: clock and PLL set-up, device and string descriptors (constants),
  `USB_RecvControl` of more than one packet (no caller asks for one), the timers of
  the two LEDs. The handler clears bits of UDINT by a load and a store; that an event
  in between is lost is left out. A control reply whose length is a multiple of 64 and
  shorter than asked is sent without an empty packet behind it; how a host ends it is
  not modelled; nor is one of which more than 32767 bytes are asked for (`wLength` becomes
  the signed `end` of `InitControl`). `FlushRelease` on another end point than the one selected is left out.
- External interrupts: the edge selection in EICRA.
- Calls with arguments no property speaks of: `String::concat('\0')`, which raises the
  length and not the text; `replace` with invalid argument strings; number bases outside
  what a `uint8_t` holds; plugging one module twice, which makes the chain a cycle
  (PluggableUSB.cpp:82); SoftwareSerial's `write` with interrupts off, whose restore of
  SREG is therefore one that sets the I bit; `pulseIn` with interrupts off, as
  wiring_pulse.c:31 recommends it for short pulses.
- `-n` of the least `long` (Print.cpp:94) is undefined and taken to wrap, as the compiler does it.
- `begin` of the USB port forgets a byte that `peek` took (CDC.cpp:169); the model counts it as read.
- Random numbers, `map`, character classes: stateless, over the C library.
- Run time support (`new`, `abi`, `hooks`), headers of constants, build files and
  firmware images.

## 6. Plan

Written in this order, because the sketch depends on them in this order: the
software serial port, the hardware serial port, the sketch over both; then the
core's clock, streams and strings; then pulses, pins and interrupts, and USB from
the data path to the requests and modules. What is left:

- `usb_serial` and `usb_device` without their constraints: the state spaces multiply;
  with symmetric bytes and a bound on calls they may fit.
