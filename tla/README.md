# A verification project for tapewyrm

tapewyrm reads QIC tapes at the level of magnetic flux. A board based on the
Greaseweazle firmware (`firmware/`) drives a floppy-interface tape drive and
streams flux over USB. `tw` (`packages/tapewyrm-cli`) wakes the drive, winds,
seeks, and dumps one raw capture file (TWRF) per track. `qiclib` assembles the
captures of any number of passes into a tape image (TWTI), with Reed-Solomon
over each segment, and extracts volumes (TWVL); `qicsilver` shows what is in them.

A tape may survive only a few passes, and a pass takes minutes. Most of what
these modules check is one of two questions: *is the tape ever left in a state
that wears or loses it*, and *can anything that is called good be wrong*.

1. [Inventory](#inventory)
2. [Modules](#modules)
3. [Runs, bounds and fairness](#runs-bounds-and-fairness)
4. [What is proved](#what-is-proved)
5. [Where the code and its documents disagree](#where-the-code-and-its-documents-disagree)
6. [What is not modelled](#what-is-not-modelled)
7. [Plan](#plan)

Run a model from this directory with `tlc -config CaptureSafety.cfg MCTapeCapture.tla`
(each run's module and configuration are in `PROJECT.json`), and the proofs with
`tlapm TapeCaptureProofs.tla`, and likewise for the other `...Proofs` modules. Lines quoted as
`floppy.c:900` are of the files named in the inventory, and `PROJECT.json` maps
every definition to the lines it models.

## Inventory

How the parts talk:

    tw CLI -> drive session -> Qic117Drive -> DeviceLink -> transport =USB= CDC core
                                                                             |
      TWRF file <- track dump <- chunks() <------- flux stream ------- floppy_process()
          |                                                                  |
          v                                                     capture engine, verbs
      flux codec -> merge, place, correct -> image -> volumes                |
                                                                drive on the floppy bus

The board has no threads: `main()` polls `usb_process()` and `floppy_process()` for
ever, and interrupts only timestamp INDEX edges and the DMA.
The host has one thread per command. Concurrency is therefore between the host,
the board's main loop, the USB bus and the drive, each with its own clocks.

### Firmware

| component | state | operations | what is hard | what makes it correct |
|---|---|---|---|---|
| **capture engine** (`qic/qic.c`, the read part of `floppy.c`) | `floppy_state`, `qic_cap`, the ring `u_buf`, the staged packet, the watchdog, `flux_op.status` | `qic_cmd_capture`, `floppy_read` (encode, check overflow, check motion, finish, send), drain, ZLP, `floppy_configure`, `floppy_reset` | four timers racing; a slow or absent host; END written into a full ring; teardown at any point | what the host can verify is complete; no end lets go of a rolling tape; every capture ends and the device comes back |
| **QIC verbs** (`qic/qic.c`) | bus lines, reply buffer | pulse trains, `COMMAND_TXN`, reports clocked bit by bit, `WAIT_READY`, `SCOPE` | early returns that leave the drive inside a report; a train that means something else in another subcontext | a value that is accepted is the drive's; a command arrives as it was sent |
| **GW floppy commands** (`floppy.c`) | units, believed head positions, DMA and ring of a write, delays | select, motor, seek, write, erase, source and sink | a write that underflows with bytes still to come; watchdog; a drive without a sensor | what is acknowledged is on the track; no byte of a stream is run as a command; heads are where they are believed |
| **USB core and CDC** (`usb/`) | EP0 stage, endpoints, line coding | SETUP, data stage, SET_CONFIGURATION, clear-comms by baud rate | lengths of zero and of whole packets; stages out of step | a transfer moves what was asked for, and the next one can begin |
| **USB controller drivers** (`usb/hw_*.c`) | toggle bits, packet rings, flags | endpoint read, write, interrupt | double buffers that controller, interrupt and main loop toggle | each endpoint is a queue of packets |
| **main loop and clock** (`main.c`, `time.c`, `timer.c`) | time stamp, timer queue | poll, timer set and cancel, delays, INDEX filter | stamps that wrap, a timer that cannot reach its deadline, callbacks that re-arm | time is right, a deadline is neither lost nor early |
| **update bootloader** (`fw_update.c`, and `floppy.c` for the bootloader itself) | flash pages, reset flag, the image in RAM | erase, write, CRC, reset | power failure, watchdog or a dead host at any step | a status of 0 means the image is there; nothing torn is run but in one known case |
| **board support** (`board.c`, `cortex.c`, `testmode.c`, ...) | pins | set-up | none of its own | - |

### Host

| component | state | operations | what is hard | what makes it correct |
|---|---|---|---|---|
| **wire protocol** (`protocol/`, `link/protocol.py`) | - | opcodes, layouts | answers carry the opcode only | host and board agree |
| **transport** (`link/transport.py`) | serial port, the bytes in it | send and receive frame | a read that times out leaves its answer to the next one | an answer is credited to the request it answers, or the mismatch is noticed |
| **device link** (`link/device.py`) | - | info, txn, capture, chunks, flux status | which error means what; 2 s of silence as the end of a stream | no command goes out into a running capture |
| **drive driver and profiles** (`qic117/`) | select and motor owned | wake, auto-detect, status, command and poll, jog, release | latches cleared by reading; retries; exceptions between two steps | a drive is never left running, a profile is credited only with its own answer |
| **drive session and commands** (`cli/session.py`, `cli/drive.py`) | the drive, if there is one | open, wake, body, release | Ctrl-C anywhere, also in the clean-up | what was taken is given back, unless a Ctrl-C strikes before that is written |
| **track dump** (`tape/dump.py`) | track, results, files, best pass | wind, seek, capture, analyse, judge | a drive that refuses, faults or changes cartridge between two checks | each file is a whole pass over the track it names; the dump stops before it wears the tape |
| **flux probe** (`tape/fluxprobe.py`) | - | timed capture | abort of a stream | - |
| **command line** (`cli/`) | - | options, printing | - | - |
| **flux codec** (`codec/`) | PLL, scan position | flux to bits, bits to sectors | lost and misread marks | data comes under its own sector's ID |

### Archive

| component | state | operations | what is hard | what makes it correct |
|---|---|---|---|---|
| **TWRF file and parser** (`twrf.py`) | parse cursor, counts | tokens, markers, verification | tokens that read two ways, truncation at any byte | what verifies is what happened; what is cut is its beginning |
| **TWTI and TWVL** (`twti.py`, `twvl.py`) | segment table, chunks, holes | save, load, add, read, count | overlapping chunks and holes; a writer that dies, with no seal on the file | holes are exact; a torn file is refused |
| **archive support** (`errors.py`, `inspect.py`, ...) | - | refusals, reports, tables | - | - |
| **tape assembly** (`build.py`, `merge.py`, `place.py`, `segment.py`, `rs.py`, `geometry.py`) | best copy of each coordinate, segment table | union, place, correct, build | passes and sectors in any order; correction writes into shared sectors | good data is kept; what is called clean or corrected is what was recorded |
| **tape header and identification** (`volume.py`, `identify.py`, `volume_profile.py`, `cartridge.py`) | bad-sector map, geometry, the report of a tape | search, parse, apply the map; identify from sectors or an image | the header itself is damaged; the map decides every codeword; the table is lost, continues elsewhere, or reads as several vendors' | a readable header is found; its map is the tape's; what a report leaves out it notes, and what it names is the tape's |
| **volume extraction and QIC-113** (`extract.py`, `qic122.py`, `qic113*.py`) | position, LZ window, directory tree | select, lay out, decompress, list | lost segments of unequal length; a directory without paths; signatures inside file data | holes stay holes; every file has its own bytes and path |
| **qicsilver** (`entries.py`, `tar.py`) | - | list, restore, report damage | which bytes are missing is known three layers down | what the report does not name is whole |

What is hard to test in each of these, line by line, is the list "hazards" of
`PROJECT.json`, with the properties that cover each hazard or the reason why none
does yet.

## Modules

| module | models | role |
|---|---|---|
| `CaptureSession` | what a capture promises | abstract specification |
| `TapeCapture` | the board during and around a capture, the endpoints, the drive | detailed specification, implements `CaptureSession` |
| `TapeCaptureProofs` | | theorems about `TapeCapture` and its stream; that it implements `CaptureSession` |
| `PassHealth` | `segment_pulses`, `missing_segments`, `check_pass` of `tape/dump.py` | pure operators |
| `IndexLine` | the INDEX pulses of one pass | checks `PassHealth` |
| `TrackDump` | `dump_tracks()`, the drive and its capture | uses `PassHealth` |
| `TrackDumpProofs` | | theorems about `TrackDump`, `IndexLine` and `FluxStream` |
| `LinkExchange` | requests and answers over USB | actions for the modules that extend it |
| `DriveSession` | `tw drive fwd`/`rev` from open to close | extends `LinkExchange` |
| `DriveSessionProofs` | | theorems about `DriveSession` |
| `TapeAssembly` | from marks on the tape to the segment table | |
| `TapeIdentity` | identifying a tape: header, volume table, layout, cartridge | runs with `BackupVolume` |
| `TapeAssemblyProofs` | | theorems about `TapeAssembly`, `TapeIdentity` and `SparseVolume` |
| `PacketPipe` | what a bulk endpoint promises | abstract specification |
| `At32Tx`, `At32Rx`, `Stm32Tx`, `Stm32Rx`, `DwcRx` | five endpoint drivers of `usb/hw_*.c` | each implements `PacketPipe` |
| `EndpointProofs` | | all five endpoint drivers implement `PacketPipe`, for every ring; endpoint 0 (`UsbControl`) transfers exactly what was asked for |
| `UsbControl` | endpoint 0 of `core.c`, `cdc_acm.c` | |
| `UpdateLoader` | both firmware updates | |
| `UpdateLoaderProofs` | | theorems about `UpdateLoader` |
| `StreamCommands`, `DriveBus`, `Clock` | the rest of `floppy.c`; `time.c`, `timer.c` | run together |
| `FloppyCommandsProofs` | | theorems about `DriveBus`, `StreamCommands` and `Clock` in their run |
| `QicVerbs` | `qic.c`'s verbs and the host's calls of them | |
| `QicVerbsProofs` | | theorems about `QicVerbs` |
| `FluxStream` | the stream of a capture, byte by byte | encoder against parser |
| `SparseVolume` | `twvl.py` in memory | used by `BackupVolume` |
| `ArchiveFiles` | the three file formats on disk | |
| `Qic122` | the QIC-122 decoder | |
| `BackupVolume` | from tape image to tar | extends `SparseVolume` |
| `MC...` | | constants for TLC; parts that share no state run side by side in one run |

`TapeCapture`, `TrackDump` and `TapeAssembly` follow one pass downstream. Each
takes from the one before what that one shows: `TrackDump` knows a capture as
something that ends sealed, overflowed or torn down (`DeviceComesBack`), whose END may
have cost flux (below); `TapeAssembly` takes marks that
may be lost or misread and knows nothing of how they were captured; `BackupVolume`
starts from segments that are read, corrected, lost or mapped out (`segment table` of
`TapeAssembly`) and asks whether the files are the backup's. `FluxStream` is the same
capture as `TapeCapture`, seen byte by byte: there the ring never overflows, here it does.

The `MC` modules of the device, of the floppy commands, of the stream and of the volume
put several modules into one run: the variable `part`, chosen in the initial state,
tells which of them a behaviour belongs to, and each property is stated for its part.

### TapeCapture

One action is one call of `floppy_process()`, since the main loop is not
preemptive, or one USB event, or one thing the drive does. `PumpOverflow`,
`PumpFinish` and `PumpContinue` are the three ways through `floppy_read()` in
`ST_read_flux`; `Drain`, `DrainLast` and `SendZlp` are what follows; `Cmd...` are
the commands; `WatchdogFires`, `ClearComms`, `SetConfiguration` and `UsbReset` are
the four ways to be torn down from outside. All of them stop the tape through
`AbortSilent`, and what each does to the drive, the watchdog and the buffers, in
which order, is what the properties are about.

Data: the ring holds units, one for each flux interval, INDEX with its marker, END
or filler (in the code END takes 16 bytes and an interval one or two); a packet
holds `Mps` units. The n-th flux interval of a capture is called n, so the
checksum END carries is `n(n+1)/2`, and losing or repeating an interval shows in
the sum and the count as it does in the code. Time is counted in ticks in
which the timers keep their order; ages saturate at the limit they are compared
with. Reset clears what the code leaves behind but never looks at again.
`log` and `rx` are histories: what was encoded, and what the host got, since
arming.

The read command of the Greaseweazle protocol goes through the same engine with
index and deadline limits. Nothing in the host sends it and it is left out, with
its branches (`floppy.c:938-966`). One command is outstanding at a time.

### PassHealth and IndexLine

`PassHealth` is the arithmetic of those functions in integers: gaps, the upper
median, Python's rounding of halves to even, the thresholds as ratios.
`IndexLine` builds, pulse by pulse, each list of INDEX ticks a pass can produce
and compares what the code counts with what was missed.

### TrackDump

One host step is one command of the drive layer; the drive has a status with a
latched error and new-cartridge flag which only a ready drive lets go of, a tape
position, a motion and a head. A drive takes a command only when it is ready and
nothing is latched, and otherwise latches an error. `Settled` is the end of a pass:
wait for Ready, analyse, write the line, judge. `LinkFails` and `GivesUp` are the
exceptions out of the loop.

The host knows the end of a stream only by its read timeout. While it reads, `Waits`
counts time: the pump of a running capture writes a token for flux, which the drive may
give or not, or filler once there was none for `LongGap` (`Encodes`), and a packet goes to
the host when it is full. `Drained` looks at nothing but that a whole timeout went by
without a byte, and the capture may still run as far as its guard is concerned; that
it does not is `NothingIntoCapture`. END and an overflow send what is left in the ring, a
torn capture does not.

### LinkExchange and DriveSession

`LinkExchange` is `send_frame()` and `recv_frame()` with the board's command loop:
requests in order, answers that carry an opcode and nothing else. A read that
times out leaves its answer in the queue, and a mismatching one leaves its
payload, which is then read as headers. `DriveSession` is one `_drive_session()`:
identify, clear, wake by name or by trying every profile, latch the status, jog,
stop, settle, release. `Ok`, `Fail` and `Unwind` say where an answer, a
`LinkError` and a Ctrl-C lead from each exchange, including the `finally` blocks. A Ctrl-C
strikes in a read (`CtrlC`), or between two exchanges (`CtrlCBetween`), where in a `finally`
block it keeps the clean-up from being asked for: `cut` remembers which.
The Colorado wake is one command here instead of two, `SELECT` stands for
`SET_BUS_TYPE` and `SELECT`, the Mountain wake (a command as well) is left out, a
jog polls at least once, and the cable stays in.

### TapeAssembly

A tape is a line of marks: per segment an index mark and `Width` pairs of an ID
and a data field. `ReadIndex`, `ReadId`, `ReadData` and `LoseMark` are the turns of
`recover_sectors_from_bytes()`, each with `union()` behind it; `EndPass` starts the
next pass anywhere. `SearchRaw`, `SearchSkips`, `SearchCorrects` are the turns of
`_find_header()`, which first looks at the raw first sector and then at a trial
correction without a map, writing what it solved into the sectors that the
merge holds. `BuildImage` is `build_image()` with that map.

Sectors hold values (the one that was recorded, junk, zeros, a wrong solution) and
not bytes. Reed-Solomon is a contract: up to `Redundancy` erasures are solved, and
solved right exactly when the other rows are right and the rows are those of the
codeword that was written. Coordinates are segment and slot: the geometry a
header carries and the arithmetic from head, track and sector to a segment are
left out. A CRC never passes by chance, but the CRC of an ID is recorded and
looked at by nobody (`mfm.py`), so an ID can be misread.

### TapeIdentity

The header and the volume table say what a tape is, and `identify()` answers whatever
became of them. `IdentifySectors` is `from_sectors()`: the first copy of the header that
was read or mended, the table at the segment the header names, or the first segment
that looks like one. `IdentifyImage` is `from_image()`, which has no search for the
table. Both end in `Assembled` (`_assemble()`): `GuessedCartridges` is `cartridge.guess()`,
`VolumesOf` the walk over the table, `BestProfile` the scores of every layout, and the
notes are a set with one name for each sentence the code may append.

A record of the table is its signature, its volume, its hints of the writer, and for each
layout the set of fields that look right when they are read where that layout has them:
what was written in one layout may look like anything in another. Lengths are in tenths of
a foot and the 10% and 3% of `cartridge.py` in integers. What the map of a damaged
header does to sectors is `TapeAssembly`'s. A header that names no first data segment
(0) makes the code search for a table, and a file may begin with a table's letters, so
`NotesAreTrue` says of it only what the note says (`identify.py:207`).

### USB: PacketPipe, the endpoint drivers, UsbControl

`PacketPipe` is a bounded queue of numbered packets. Five modules implement it: the
double buffer of the AT32 in both directions (`At32Tx`, `At32Rx`), that of the STM32
(`Stm32Tx`, `Stm32Rx`), and the receive ring of the DWC core (`DwcRx`). In each,
`MainLoop` steps are the code's calls between two points at which the interrupt may
come (`Write` and then `TestKick` and `Kick` of the AT32), `Irq` is the handler, and
the rest is the controller, which is external: it toggles DTOG, compares it with SW_BUF,
and sends, accepts or refuses packets on its own. `ImplementsPipe` maps what lies in
the ring and in the two buffers, in the order of the toggles, to the queue.

`UsbControl` is endpoint 0: `RxTransfer` and `TxTransfer` are `handle_rx_transfer()` and
`handle_tx_transfer()` of `core.c`, with the class requests of `cdc_acm.c` and the
address of `hw_usbd.c`. The host follows the standard: it goes through SETUP, data and
status, assigns an address in the first transfer after a bus reset, and never gives
a transfer up half way.

### UpdateLoader

Two programs in flash and their two updates. `dev.mode` says which runs; `Erase`,
`Receive`, `Complete`, `Collect`, `CommitErase` and `CommitWrite` are the states of
`fw_update.c` and of the `ST_update_bootloader` of `floppy.c`, packets carry bytes of an
image and end wherever the host ends them, the odd byte between two words included.
`PowerLoss`, `Watchdog` and `GiveUp` (the host stops, and a clear-comms follows) may
come between any two steps. A CRC is right exactly for the bytes of one good image.

### StreamCommands, DriveBus and Clock

`StreamCommands` is what goes on after its acknowledgement: write (prefetch, DMA, index,
underflow, drain), erase, sink and source. Flux is a sequence of tokens, each with
its number of bytes; `Decoded` is `rdata_decode_flux()` with its carry of short pulses, long
spaces and astable regions. `seen` remembers where in time each flux change was put, and
how much of the stream was read. `DriveBus` has three drives on a bus: select, motor, the
search for track 0 with its two ways to fail (`Initialised`), seeks to any cylinder, the
NoClick step with its way back (`Unclicked`), drive info, reset and the quieting of all of
them by the watchdog. The drives are external, of five kinds: one that ignores steps beyond
track 0, one that takes one, a flippy one, one whose sensor is stuck and one that is
not there; all have a last cylinder, of which the firmware does not know. `Clock` is the extension of a downward counter to a time
stamp, the queue of timers over one hardware timer, and its users in `floppy.c`:
`op_delay` with its merging of deadlines, and the INDEX filter. They share no state.

### QicVerbs

One call of the host (`Open` ... `Conclude`) with what the board does for it: a train of
pulses, `COMMAND_TXN` with its acknowledgement, a report sampled bit by bit with the
three ways to leave early (`ReportAck`, `ReportBit`, `ReportClose`), `WAIT_READY` over INDEX
cues, `SCOPE` with a pulse inside. The drive is external; it knows three subcontexts
(none, an argument, a report) and takes a train for what it is in that subcontext.
Faults: a late answer, a reset, a lost transaction, or a report left open. `seen.lost` is
set by one and cleared when the host accepts a report: only then can the host know that
the drive listens for commands again (`qic.c:223-226`).

### FluxStream

`BeginPump` and `EndPump` are the two halves of `rdata_encode_flux()`, between which
transitions and edges go on; `N28`, `Interval`, `Marker` are the encoder, `Parsed` is
`parse_body()`, with SPACE put before the interval it belongs to, stop bits skipped,
and END's account taken by the code's own rules. A byte runs up to `Esc` = 7 and an
interval takes two bytes from `TwoBytes` = 5: the grammar and its corners (a second
byte that looks like an opcode, an interval next to the limit, filler, the
counter's wrap) are those of 255 and 250.

### SparseVolume, ArchiveFiles, Qic122 and BackupVolume

`SparseVolume` is `twvl.py`: overlapping chunks while a volume is built, holes as
ranges afterwards, and the counting of missing bytes in either. Its loops are recursive
functions, one step of each an operator (`PaintOver`, `HolesBefore`, `CountIn`), so that
what they compute can be proved.
`ArchiveFiles` writes each format in the writes of its code, sparse images by blocks and
compressed ones by frames, stops after any of them or cuts the file at any cell, and
loads what is there. `Qic122` builds segments of frames token by token and decodes them,
whole and cut at every bit.

`BackupVolume` starts with a tree of files. The backup software, external, lays it out
in Basic or extended QIC-113, directory first or last, compressed or not; some segments
are lost, short, mapped out, or do not decode. `Select` and `LaySegment` are `extract.py`,
turn by turn; `Save` is the TWVL; `List` finds the directory (by size, or by search),
rebuilds the paths, walks the data entries and joins the two; `WriteTar` reports and
writes. The properties compare the last of these with the tree.

## Runs, bounds and fairness

| run | states | what it shows |
|---|---|---|
| `capture_safety` | 1.5 M | With a host that mixes passes and captures up to a budget (with a motion of their own or of a command before them) and reads late or never, and every teardown at any point: a stream that verifies is complete (`VerifiedIsComplete`); no END means overflow and nothing else does (`StatusTellsTheTruth`); a tape that a capture set moving is under an armed capture until Stop Tape has reached a selected drive (`CaptureOwnsTape`); the watchdog beats the no-start rule (`NoStartNeverSeals`); only END goes past the ring (`BuffersFit`). |
| `capture_live` | 226 k | The engine implements `CaptureSession` (`ImplementsSession`); every capture ends and the device takes commands again (`DeviceComesBack`). |
| `dump_tracks` | 1.2 M | A silent read means that the capture is over, however little flux the drive gives, so that no command goes into a running one (`NothingIntoCapture`); no weak pass is accepted, in whatever order passes come (`NoWeakPassAccepted`); a dump that ends in order leaves the tape at rest (`OrderlyEndIsStill`); Logical Forward starts at its track's own end (`ReadsFromTrackStart`); the dump ends (`DumpEnds`). |
| `drive_session` | 387 k | With any number of late answers and a Ctrl-C anywhere: a status that `jog()` returns is true, past its first command the tape is stopped on every way out, and no motor stays on, unless the Ctrl-C struck in that clean-up before it was written (`JogEndsStill`); no profile is credited with another's answer (`WinnerAnswered`); a session ends (`SessionEnds`). |
| `find_left_running` | 13 k | A disagreement, [below](#where-the-code-and-its-documents-disagree). |
| `tape_assembly` | 472 k | What was read well stays good (`GoodIsKept`); only a misread ID or a burst misplaces data (`OnlyBurstsMisplace`); erasures are counted exactly (`ErasuresAreExact`); under the tape's map what is called clean or corrected is right (`TrustworthyUnderMap`); a tape is refused only if neither header could be read or solved (`HeaderIsFound`). |
| `usb_device` | 28 k | Each bulk endpoint is a queue, whatever the order of main loop, interrupt, line and bus reset (`ImplementsPipe`); a full endpoint opens again, and a control transfer ends with host and device at one address (`NeverWedged`); a transfer that succeeds moved what was asked for, and nothing left over from an earlier one (`TransferIsExact`). |
| `firmware_update` | 15 k | A status of 0 means that the image is in flash, through power failures, restarts and refused updates (`AckMeansImage`); a torn program runs only after an update was cut short past its first byte, a bootloader is torn only while it is written, and an image is not run as commands (`RunsWhole`); an update ends (`UpdateEnds`). |
| `floppy_commands` | 1.4 M | No time is lost between a stream and its pulses, a status of 0 means that the stream was read to its end and each flux change of it written at its time, and every byte of a source comes (`StreamIsWritten`); however a write ends, nothing of its stream is run as a command (`NothingLeftToRun`), and it does end (`StreamEnds`); heads are where the firmware believes, found track 0 or not, quieted drives are quiet, and a NoClick step ends at cylinder 0 (`DrivesAreKnown`); the time stamp, the timers, the delays and the INDEX filter are right across the wrap (`TimeIsTold`). |
| `report_engine` | 705 k | An accepted report is the drive's own whatever fault came before it or between its bits, and ready means ready (`AnswersAreTrue`); from the start or the last accepted report to the next fault, a command or argument arrives as it was sent, and none is a Soft Reset (`CommandsArrive`); four tries find a drive that was late once (`LateOnceIsFound`). |
| `capture_stream` | 267 k | A sealed stream reads back as what happened (`StreamIsExact`), a cut one as its beginning (`CutIsPrefix`); and over whole passes, `missing_segments()` is exact and the stop rules are neither blind nor jumpy (`PassIsJudged`). |
| `backup_volume` | 56 k | What the damage report does not name is whole, what it names is damaged by as much as it says, and a refused volume leaves no file (`ReportsAreTrue`); reads, holes and counts of a sparse volume are exact (`HolesAreTrue`); a cut frame, image or volume is refused and a whole one is read back (`CutsAreRefused`). Of the tape itself, as a part of `ReportsAreTrue`: what its report leaves out is noted (`NotesAreTrue`), its volume table is read in its writer's layout (`LayoutIsTheWriters`), and it is called the cartridge it is (`CartridgeIsNamed`). |

Every property of these runs is also broken by a mutant: a small change to one
modelled definition, of the kind a plausible bug would make, listed in
`PROJECT.json`.

**Bounds.** *Captures*: a ring of two units and two transitions in a capture are
enough to fill the ring, to overflow it by one, and to have END land on flux not
sent. Packets of two units in `capture_safety` make a last packet that fills one
exactly, and one that does not; `capture_live` uses packets of one, with which the
state graph is small enough for liveness. Timers 1, 1, 2 and 3 keep the order and
the one inequality the code relies on (`Watchdog + Holdoff <= NoStart`; the real
values are 50 ms, 1 s, 10 s and 15 s). The theorems hold without these bounds.
*Health*: ten segments are the fewest at which nine tenths is a whole number and
one miss in ten is above five percent; misses, any number of them but no more than
three in a row, reach both sides of each limit; 25 ticks a segment and one of jitter is four percent, each pulse at one of
the two extremes, where rounding is at its worst. With four misses in a row
the count can be one too high: a gap of 127 ticks over a median of 23 is 5.5
segments. Three is where it is exact.
*Dump*: three tracks pass through both directions and give a pass two earlier ones
to be compared with; three segments are two gaps, at which `missing_segments()`
gives no count, so what stops a weak pass is the comparison; two misses and two
troubles (fault, cartridge change, broken capture) combine. A long gap of 2, packets
of 2 and a read timeout of 5 stand for 400 microseconds, at most 64 tokens and 2 s: a packet of
filler is on the wire just before the timeout, where the source leaves a factor of 78.
*Session*: eight late answers are more than a session has room for (with 10 or 12
there is no further state), so they may fall anywhere. The four tries are the code's
`_STATUS_TRIES`, and they matter: with five, `JogEndsStill` fails. Five probes whose
answers are all late put enough status reports of the drive at rest between the host and
the answers it waits for that `jog()` takes one of them for the end of its motion.
*Assembly*: a segment of three sectors, one of them parity, has one sector of data
besides the one that carries the signature; the map is in the second. Two passes
and two damages reach a header without its map, a segment past its redundancy,
and a burst over a data mark and the next ID. The theorems hold without these
bounds.
*USB*: rings of two packets to send and four to receive, counters that wrap at eight
and six packet numbers make every ring and counter wrap; control packets of two
units, three units of data and lengths to four reach a full last packet, a clipped
length and an empty one.
*Update*: pages of four bytes in a flash of eight, a bootloader of six, images of six,
two, four and no bytes, packets of one to three: words and pages are divided by
packets, an image ends inside a page and at its edge.
*Floppy commands*: six streams with every token, a DMA ring of four entries and a byte
ring of eight, so that a stream needs more than one turn and either ring runs dry or
full; three drives, one of them of any kind, over two cylinders, two beyond zero, and seeks to one
past each end; a clock of five
bits of which hardware counts three, so that the INDEX timer's period is longer than the
stamp's, as in the code; a timer that reaches four ticks, and service late by one.
*Reports*: bytes of one bit and reports of up to two bytes, nibbles of two values with
arguments up to three nibbles and up to trains that are report commands, and the four tries
of the code; one fault, which is what `LateOnceIsFound` is about.
*Streams*: two transitions, an INDEX edge, five pumps, with intervals below, at and above
each limit of the encoding and 4 ticks past one, two and three fillers.
*Volumes*: segments of six cells divide every structure; six uncompressed or four
compressed ones hold the trees; up to two are lost, next to each other or apart, one
is short, one mapped out. Trees are two directories deep, with an empty file, and
with signature and link letters among a file's bytes. Three chunks of a volume of
five are enough for every order of two overlaps. Files are cut at every cell.
*Identities*: five segments (six, with a defect before the header) in every fate that
matters to the header, its duplicate, the table and its continuation; tables of one and
two records by four writers, with every choice of fields that happen to look right in the
layouts that are not theirs; of each catalogued cartridge kept here the counts of segments at the edges
of its tolerance, with and without a drive that names the standard.

**Deadlock** is checked for the captures, the updates and the floppy commands, where
time, the host or the power can always go on. It is switched off where the program stops:
a finished dump, session, call, image, pass or volume, and an endpoint that no one uses.

**Fairness.** `capture_live` assumes only that `main()` polls for ever
(`main.c:48-52`) and that time passes; host, bus and drive may fall silent at any
point. `dump_tracks` assumes that the host's loop runs, that a poll for Ready
ends one way or the other (`wait_ready` has a deadline), that a capture whose tape
stands still is ended by the device (shown by `DeviceComesBack`), and that a tape
under Logical Forward has an end. A wind or a seek may last for ever. Nothing is
assumed about faults or about the cartridge. `drive_session` assumes that host
and board run; polling ends by Ready or by its deadline, which is strong fairness
on the answer that leaves the place (each poll is a new exchange, so weak
fairness would allow it to go on for ever).
`usb_device` assumes that the main loop polls, that a pending interrupt is served, and
that the line moves what may be moved: bus resets are free, and how long a host waits is
too. `firmware_update` assumes the main loop and a host that goes on with what it has
begun, unless it gives up; `floppy_commands` the same, and that DMA runs while it is
armed, but not that an index comes (the watchdog ends a wait for it, `floppy.c:1892`). In
`report_engine` fairness plays no part: its properties are invariants.

## What is proved

All proofs are for every value of the constants that the named assumptions allow,
and are checked by `tlapm` to the last leaf.

**TapeCapture** (`SizesAssumption`: positive capacities; `TimersAssumption`:
`Holdoff <= IdleEnd < Watchdog` and `Watchdog + Holdoff <= NoStart`, which the
factory values satisfy; `CommandsAssumption`).

- `TypesAndBounds`: `[](TypeOK /\ BuffersFit)`, by the invariant `Typed`, which is
  the two together: the ring's bound depends on the state, and the length of a
  packet on the ring it is cut from. Lemmas about `Put`, `Encoded` and `SendFrom`
  carry the sequences.
- `CaptureOwnsTapeAlways`: `[]CaptureOwnsTape`. It is not inductive alone: a pump
  stops the tape on behalf of a capture only if there is one, so `Owns` adds
  `ReadIsCapture` (the read state is never entered without a capture).
- `NoStartNeverSealsAlways`: `[]NoStartNeverSeals`, that the 15 s no-start rule can
  never be what ends a run. `KickedEarly` is the strengthening: an INDEX edge
  kicks the watchdog, and an edge after the cue holdoff is a segment, so without
  a segment the watchdog is at most a holdoff younger than the capture.
- `VerifiedIsCompleteAlways`: `[]VerifiedIsComplete`, by `StreamInv`: every END on its way
  counts the transitions that were encoded (`log`), those that are received, staged or in the
  ring cover a subsequence of them, and while the capture is armed they are all there and
  no END is. A stream that holds as many transitions as its END says has then lost none.
- `StatusTellsTheTruthAlways`: `[]StatusTellsTheTruth`, by `StatusInv`: the NUL comes last and
  behind END, unless the capture overflowed, and then there is no END. It is about streams without
  END and stale statuses. Flux that END itself overwrites in an exactly full ring ends
  with status okay; that is for END's count and checksum to tell (`VerifiedIsCompleteAlways`).
- `ImplementsSessionAlways`: `Spec => ImplementsSession`, the refinement of `CaptureSession`: each
  step of the board, the bus and the host is a step of the session or a stutter. Besides
  the two invariants it needs `PrefixInv`, that what comes before the first END is a
  prefix of what was encoded: an overflow and an abort cut the stream at its end only.

`SelectSeq`, `FoldSeq` and the search for END run over the stream, so the lemmas about them
are inductions over data. The library's induction theorem has an operator for parameter; they
go by `NatSetInduction`, which is the same for a set of naturals, and by the recursive
functions the library's definitions are made of.

**TapeAssembly** (`TapeAssumption`: a codeword has at least two more rows than
parity rows; `HeadersAssumption`: the header and its duplicate are on segments without
defects, as the format asks (`identify.py:6`); everything else about the tape, the damage
and the number of passes is free).

- `TapeTypes`: `[]TypeOK`, on the way that every erasure count is within a segment.
- `GoodIsKeptAlways`: `[]GoodIsKept`, inductive with the types.
- `OnlyBurstsMisplaceAlways`: `[]OnlyBurstsMisplace`. The invariant is
  `WaitsForItsOwn`: unless an ID was misread or a burst swallowed one, an ID that
  waits at a data mark belongs to that mark, and elsewhere an ID waits only behind
  a data mark that was lost. `MarksAlternate` is the shape of a segment.
- `TrustworthyAlways`: `[]TrustworthyUnderMap`. `TrueUnlessTried` says where a good
  sector's bytes come from (the tape, unless the header search corrected its
  segment as a codeword that was never written), `SolvedTrue` that a written
  codeword of true rows gives true rows, and `ImageIsBuilt` that the image is the
  table of the sectors it was built from.
- `ErasuresAreExactAlways`: `[]ErasuresAreExact`. `OkFromCopy` traces each good sector back to a
  data field of the tape with its deleted mark, so that a segment all deleted is one that the
  recorder gave up.
- `HeaderIsFoundAlways`: `[]HeaderIsFound`, by `HeaderPassed`: the search goes past a header
  only if neither its first sector was read nor enough of the others to correct it.
  This needs `HeadersAssumption`, since what a bad-sector map leaves out of its own segment
  is in no codeword.

**TapeIdentity** (`CatalogueAssumption`: two cartridges of one standard and width differ by
more than a fifth of a length, and the counts of a width are all fixed and distinct or all
free, as in the catalogue (`cartridge.py:77-79`, `cartridge.py:93`), which TLC checks for the cartridges of the run;
`SubjectsAssumption`: a tape has two headers, the table it was given lists its volumes
or continues elsewhere, and nothing is assumed of what became of any segment).

- `NotesAreTrueAlways`: `[]NotesAreTrue`. `HeaderHolds`: the header that is read is the first
  copy if that was recovered, from sectors and from an image; `NotesOfTable` and `NotesOfNone` go
  through the ways a table can be found, damaged or missing.
- `CartridgeIsNamedAlways`: `[]CartridgeIsNamed`, by `GuessIsReported`. `TenthIsNearest` is why
  the tolerance is safe: within a tenth of one cartridge's length no other of its standard and
  width is as near, however the tenths and the gaps between segments round.
  So the cartridge of a known standard is the only one, and it is among those of an unknown one.

**SparseVolume** (`SparseAssumption`: a size, lengths of chunks, and lists of pairs of
integers as the holes a header may claim (`twvl.py:203-206`); any number of chunks of any length in any order).

- `HolesAreTrueAlways`: `[]HolesAreTrue`. The invariant itself is short (`SparseInvariant`:
  chunks are sorted by where they start, `AddedIs`); the work is in what the loops compute.
  `CountIsExact`: over ranges sorted by their starts, counting each past what was counted
  gives the size of their union, because a number that a range leaves behind was in an
  earlier one. `Volume.missing` is this sweep over the sorted holes (`InOrderIs`: sorting keeps the
  ranges, `MissingIs`), a read is it over the chunks (`ReadIs`, with `ReadStep` for which chunk
  wins), and so is the sum of the holes (`CoverageIs`). `HolesAre` carries through the loop of
  `find_holes` that up to its position the holes are what the chunks leave.
  `UpToInduction` and `RecursionExists` are the induction the provers can use: over a set of
  numbers and a function given as values.

**TrackDump** (`DumpAssumption`; any number of tracks, segments, misses and troubles).

- `DumpTypes`: `[]TypeOK`. `Typed` adds that there is a track to do wherever the code takes
  the first.
- `NothingIntoCaptureAlways`: `[]NothingIntoCapture`, if a packet of filler takes less time than
  the host's timeout (`SilenceAssumption`). `Audible`: while a capture runs the silence so far is no
  longer than the tokens that wait for their packet took to write, and those are fewer
  than a packet.
- `OrderlyEndIsStillAlways`: `[]OrderlyEndIsStill`, by `Resting`: a drive that is ready stands
  still, and the loop was told so before each command and before each end of its own.
- `ReadsFromTrackStartAlways`: the action property, by `AtStart`: from the wind to the
  capture the position stays at the track's own end, unless the cartridge was changed.
- `NoWeakPassAcceptedAlways`: `[]NoWeakPassAccepted`. A pass is compared with the best of
  `results`, and that there is a best of any number of passes would be an induction over
  the list; as part of the invariant (`HasBest` in `Judged`) it needs one step only.

**IndexLine** (`PulseAssumption`: any number of segments, any period, leader and set of
jitters up to a bound, and a cue holdoff that ends before the first segment).

- `PassIsJudgedAlways`: `[]PassIsJudged` if `2 * Jitter * (2 * MaxHidden + 5) < Period`, where
  `MaxHidden` is how many segments in a row the drive may miss, of any number in all. The
  hypothesis says that the error of the longest gap, which grows with the median's error
  times the number of segments in it, stays below half a median; beyond it `round()` gives
  the wrong number. It is sharp at the bounds of the run: with 25 ticks a segment and one of
  jitter it allows three in a row, and four are counted wrong. Where two pulses together are
  4 percent of a period off, as the code's comment says of the bench (`dump.py:126-127`), it
  allows nine. The invariant is `PassKnown`: some list of the segments found, in order, has the
  pulses that `segment_pulses()` keeps, and no longer run is missed. From the list: most
  gaps are whole, so the upper median exists (`MedianExists`) and is one period up to the jitter
  (`MedianIs`); a gap of k periods then hides k - 1 segments (`HiddenIs`, `RoundedIs`); and the
  sum telescopes to what lies between the first and the last found (`CountIs`, `InteriorCount`).

**FluxStream** (in `TrackDumpProofs`; `RateAssumption`: the pumps come often enough for the filler
to keep more than a long interval and less than the counter's range behind the clock; any transitions
and INDEX edges, any number of pumps, bytes and limits that fit each other as 255, 250 and 65536 do).

- `StreamIsExactAlways`, `CutIsPrefixAlways`: `[]StreamIsExact` and `[]CutIsPrefix` of `StreamSpec`, both
  from `FluxInv`. `StreamIs` says of the bytes so far that the parser, reading them from the start, has
  the intervals, edges, markers and sums of what happened so far, and cut anywhere the beginning
  of it. Everything that is put behind keeps that: an interval in any of its three forms
  (`IntervalRead`, `IntervalCutsWell`), an edge, dead time, a marker (`MarkerHeld`), and at last END
  and its NUL (`StreamEnds`). A SPACE before an interval of 249 would read as a long one
  (`Apart`); `Timely` is why there is none: what follows dead time is at least a long interval away.
  The walks of the parser, of the sum and of the account are recursive functions, and what they
  compute is carried over a concatenation by `UpToInduction`, as in `SparseVolume`.

**DriveSession** (`TriesAssumption`, `StallAssumption`: any number of tries and of late
answers).

- `JoggedIsStoppedAlways`: `[]JoggedIsStopped`, which is about every session but those in which a
  Ctrl-C struck in `jog()`'s own `finally` before Stop Tape was written. The proof trusts no answer: `Turn` says where
  the host may go from each place, whatever it read. `Stopping` is about the requests on
  their way to the board: until the jog asks for its stop nothing in them takes the
  drive from a running tape, and from then on that stop is among them, before anything
  that would, with no motion command behind it; or it was executed.
- `MotorIsOffAlways`: `[]MotorIsOff`, but for a Ctrl-C before the motor's end was written. A motor that is on, or will be, is noted by the session
  or has its end on the way (`MotorKnown`), and who leaves has given back what was noted
  (`MotorNoted`).
- `WinnerAnsweredAlways`: the action property `WinnerAnswered`. What tells a late answer
  from one in time is the order in which exchanges differ. `OwnLast`: the answer to an
  exchange that is made once under each profile comes behind all others. `WayAt` says for
  each place which answers may be on their way there, and while a profile is probed how many:
  only answers to its own probes, and at most one for each try, because a probe's answer
  that came late to the profile before is found out by the timing exchange or the wake
  step in between, whose opcode differs.
- `JogEndsStillAlways`: for at most four tries, `[]JogEndsStill`. The status that a jog returns may be
  the answer to an earlier exchange. `Lag` bounds how much earlier: after at most three
  answers left over from the latch, the one to the motion command is among those that are
  read before the stop is acknowledged. `ReportsTrue` and `NoFault` say what a report
  then tells of the tape. The bound is sharp and the source's own (`_STATUS_TRIES = 4`):
  with five tries and five late answers TLC finds a status of before the motion returned as
  that of its end.

**Endpoints** (`RingAssumption`, `NumbersAssumption`: a ring of any size, and counters that wrap
at a multiple of it).

- `At32TxIsAQueue`, `At32RxIsAQueue`: the first and every later step of the driver maps to
  one of `PacketPipe` or leaves what is under way. The invariant of the transmitter is that
  its buffers are at rest, to be sent, or sent and not yet seen by the interrupt, and
  that the kick is asked for only at rest: so the main loop's kick and the interrupt's
  chain never work on the same buffer. Of the receiver, that a packet that waits is owed
  to the interrupt or to the kick, never to both.
- `Stm32TxIsAQueue`, `Stm32RxIsAQueue`: the same of the drivers without a ring. `StInv` and `SrInv` say what
  one flag and one completion bit mean by how many of the two buffers are the controller's
  (`StHeld`, `SrFull`): with `tx_ready` set a completion is pending only while both buffers are free, and then
  `usbd_write()` clears it; without `tx_ready` a pending completion between copy and toggle is that of
  a buffer freed in between. The receiver is the mirror image.
- `DwcRxIsAQueue`: what is posted, what is in the FIFO and what the ring holds never exceed the
  ring, and the end of a transfer is the last entry of its FIFO (`DwTransfer`). So the ring has room
  for each packet, `rx_active` is set for each packet and each end, neither ASSERT fails, and
  `DwWrap`, `DwApart` carry the counters over their wrap.
- `TransferIsExactAlways`: endpoint 0 (`ControlAssumption`: packets of a positive size), the host
  gets the answer to its own request, cut to the length it asked for. The invariant: one packet
  at a time, packets and the request in work belong to the host's own transfer (`OwnTransfer`),
  what came, what is on its way and what is left to send add up to what was asked for and
  only the last packet is short (`AddsUp`), and nothing is sent for a request nobody
  handles.

**UpdateLoader** (`SizeAssumption`: images, pages and packets of any size, but a page
holds the two words of the vector table that a start looks at, and the bootloader is
smaller than the rest of the flash; which images are good is free, except that none of
them is empty, since the CRC of nothing is not right).

- `AckMeansImageAlways`, `RunsWholeAlways`: `[]AckMeansImage` and `[]RunsWhole`, both from `Inv`
  (`UpdateInvariant`). `HostKnows`, `LineKnown`: what is on the line is what both sides are
  at, unless the watchdog ended the update behind the host's back. `UpdateKnown`: what
  was sent is in flash, in the buffer or on its way, in order, so that the last byte of the
  image is the last that comes. `FlashKnown`: the first byte in flash is the announced image's
  or none, so the image the CRC is right for is that one; and no byte is written while an
  older image counts as installed. `StartKnown`: a flash that is not whole has no stack
  pointer, or was exposed to a cut. `CommitKnown`: the bootloader is written only from an
  image that is in RAM and verified.

**DriveBus** (in `FloppyCommandsProofs`; `BusAssumption`: any set of units with a unit 0, drives of any of
the kinds, at most 255 cylinders beyond 0, so that track 0 is in reach of the search, and fewer below
it than the ten steps inwards that look for cylinder 1; seeks to any cylinder).

- `DrivesAreKnownAlways`: `[]DrivesAreKnown`, by `BusInv`. `UnitsAgree` (`Agree`): a unit that is
  initialised knows whether its drive is flippy, and only a flippy drive has cylinders below
  zero; its head is where it believes, or further out once it was sought past the
  last cylinder, where only a drive that ignores steps at track 0 finds back by a seek. A search that
  fails leaves the unit uninitialised (`InitialisedAgrees`), and so is not believed. `LinesAgree`: a drive is selected exactly when its unit is the current one,
  and a motor that runs has a unit that turned it on and is wired to it.

**StreamCommands** (in `FloppyCommandsProofs`; `StreamsAssumption`: every stream ends in its only NUL, each token has at
least one byte, the ring has an entry; streams, limits of a pulse, ring, buffer and packet
sizes are free).

- `StreamIsWrittenAlways`: `[]StreamIsWritten`, by `StreamInv`. `Flows`: the tokens that are left
  and the bytes that are gone make up the stream, and what the firmware has, holds or has
  unread is what the host has sent. `Pulsed`: the ticks decoded are in pulses or carried, and the
  pulses are written or in the ring. Both are kept by a turn of the decoder (`TurnKeeps`), so
  by any number of them (`DecodedKeeps`), and by what takes a packet and fills the ring
  (`FillHolds`). A second invariant, `StreamTold`, is about the stream itself: the time that was
  read and the tokens that are left make up its whole time, and every flux change that is due is
  made, or is of a token that is left, or is the one being split (`Told`; `TokenTells`,
  `TurnTells`). With a status of 0 the NUL was decoded and the ring is empty, so no token and no
  pulse is left (`ToldAll`). `SourceKnown`: the packets of a source that are on their way, of which only the last
  is short, and what is left to send make up what was asked for.
- `NothingLeftToRunAlways`: `[]NothingLeftToRun`, by the same invariant: a drain waits for the NUL, so that all
  bytes of the stream have been sent and taken (`Flows`, `SentKnown`) when its status goes out, and
  behind an answer nothing is on its way to the board (`Finished`).

The time of a stream is a sum over its tokens, which is a recursive function; that it adds up
over a concatenation (`TotalConcat`) goes by `NatSetInduction` again.

**Clock** (in `FloppyCommandsProofs`; `ClockAssumption`: the stamp's period, the latency twice and the slack
fit into the low counter, no deadline is half the range away, a coarse wait ends before a
fine one is due. `MaxLate` is how late an interrupt or the main loop may be. With `time.c`'s and
`timer.c`'s values (2^32, 2^24, 2^23 and 12 ticks, five seconds) this is
above 0.1 s at every clock of the boards, 0.4 s at 9 MHz. That
the ranges are even, and one a multiple of the other, is assumed, since exponentiation is an
uninterpreted symbol to the provers.)

- `TimeIsToldAlways`: `[]TimeIsTold`, by `ClockInv`. `QueueIsKept`: the queue is in the order of what
  is left of each timer, and always holds the stamp's and the INDEX timer. `FiresInTime`: the hardware fires by the first of them. So the stamp's
  age and what is left of its timer add up to its period (`StampIsYoung`), and a stamp that the main
  loop read before an interrupt is older only by the loop's latency and by what the
  interrupt spun (`ReadIsYoung`, `Spun`): no older than the low counter can tell. `MergedIsKept`,
  `DelayIsKept`: a deadline that is set, or about to be, is no earlier than what any
  operation is owed. `PulseIsKnown`: a trigger is as old as it says, up to the INDEX timer's cap.
- The lemmas it rests on: what `Diff` and `TimeNow` are modulo the range (`DiffOf`, `DiffFrom`, `DiffTick`,
  `TimeNowIs`), and what `TimerSet` makes of a queue (`CancelledIs`, `InsertedIs`, `TimerSetIs`).

**QicVerbs** (`VerbsAssumption`: a byte and a report have bits, a nibble has values and a
report is asked for at least once; widths, values, tries, edges and the number of faults are free).

- `AnswersAreTrueAlways`: `[]AnswersAreTrue`, for any number of late answers, resets and lost
  transactions before a report and between its bits. `Known` (types; `StepOfVerb`: which step a verb can be at, with which lines;
  `VerbOfCall`: which verb serves which call) is inductive by itself. On it rests
  `ReportInv`: TRK0 after a report command is the ACK of the report it opened (`AckIsOpen`), and what
  the firmware has clocked in is what the drive has given up to its own position
  (`Reading`, by `BitsAgree`), so that a reply with its final bit is the drive's report whatever
  came before (`Delivered`). A drive that was reset in between leaves TRK0 alone, so that the
  report that it cut has no final bit (`Cut`). From the start, or from an accepted report, to the
  next fault the drive is also in step with the call (`InStep`): no subcontext and no cue of
  an earlier call is open when a call begins (`Clear`), which is what makes Ready mean ready.
- `CommandsArriveAlways`: `[]CommandsArrive`, by `Arriving`, a part of `InStep`: of the trains the
  call encoded, the drive holds the first ones (`Collecting`), the host the last
  (`Left`), one may be on its way, and a command that was executed had them all (`Did`).
  `DecodedIs` shows that the trains of one, two and three nibbles decode to the value.
- `LateOnceIsFoundAlways`: `[]LateOnceIsFound` if `Tries >= 4` and `MaxFaults <= 1`. The source has
  four tries (`drive.py:488`), and the bound is sharp: a command that lost its link may leave
  `segments` waiting for three arguments, which three tries of a detection fill before one
  is heard as a question; with three tries and arguments large enough for three nibbles TLC
  finds the detection that fails. `Spare`: the tries left exceed the trains the drive still
  takes for something else.

What is only model-checked, and why:

- Liveness under fairness (`DeviceComesBack`, `DumpEnds`, `SessionEnds` and the like) is out
  of the prover's reach.
- `LayoutIsTheWriters`: a score is a sum over the records of a table, and comparing two of
  them an induction over it.
- What most computations over data give: `Qic122` computes by RECURSIVE
  operators, which the provers cannot see into, and `ArchiveFiles`, the listings of
  `BackupVolume` by folds, where what is computed would be an induction at every level. So
  `ReportsAreTrue` is proved only for its two parts above, and `CutsAreRefused` not at all.
  (`SparseVolume`, `PassHealth` and `FluxStream` recur by functions, one loop at a time, and are proved.)
- That every packet does come out of an endpoint, and that a full one opens again (liveness).
- Detection over more than one fault in a call (`LateOnceIsFound` says what one costs).

## Where the code and its documents disagree

`find_left_running` shows one of these: `jog()` sends its motion command before the `try`
whose `finally` stops the tape (`drive.py:198`). If the answer is late, or Ctrl-C lands
in that read, the tape is left running, which `drive.py:180-181` excludes. The run checks it of
sessions in which no Ctrl-C disturbed the clean-up itself; one that strikes in the `finally` block
before Stop Tape is written (`drive.py:211-213`) leaves the tape running too.
`PROJECT.json` quotes both sides.

Seen while reading, without a run of their own. Where a module has the behaviour in it,
its properties say what holds in spite of it.

Captures and dumps:

- A drive that refuses Logical Forward stays ready and goes on pulsing cues. The first
  one past the 50 ms holdoff counts as a segment, so the run is sealed END(EOT)
  as if it were a pass (`qic.c:541`); `qic.c:355-369` expects the no-start rule here.
- A ring that is exactly full passes the overflow test, and END is then written over the
  oldest flux (`qic.c:376`). The count and the checksum tell, but flux is lost, which
  `qic.c:313-316` excludes.
- `dump_tracks()` drops the status after the head seek, and reading it has cleared the
  error (`dump.py:366`). A failed seek is followed by a capture of another track than
  the header names (`twrf.md:207`).
- A second dump into the same directory opens each track's file for writing before its
  pass has produced anything (`dump.py:389`): a good capture of an earlier day is gone.
- A drive slow to become Ready after a pass leaves a capture without a line in
  `dump.jsonl` (`twrf.md:847,873` against `dump.py:400`).
- The no-start limit (15 s) never runs because the watchdog (10 s) is earlier
  (`DESIGN.md:211,230`, `twrf.md:527` against `floppy.c:54,776,1892`). The theorem
  `NoStartNeverSealsAlways` is this fact: no file ever carries END(WATCHDOG).
- An overflow writes no END (`DESIGN.md:211` against `floppy.c:912`).
- A teardown leaves a tape running that a plain motion command moved; only a
  capture's own tape is stopped (`qic.c:896` against `DESIGN.md:206,211`).
- `ErrorCode.fatal` is looked at nowhere (`status.py:63,135`, `drive.py:282`,
  `dump.py:366`): broken tape is treated like any other error.
- A main loop that is away for 512 samples does not notice that DMA lapped it
  (`floppy.c:757`).

Drive and link:

- A link that fails between a command and its argument leaves the drive waiting for the
  argument, and takes the next command for it (`drive.py:112-118`). The early returns of a
  report, and a `SCOPE` with a report command, leave the drive's report open; an argument
  train into an open report is taken as a command. The host's next report closes it.
- `WAIT_READY` blocks the board for as long as the host asks, and the host reads the
  answer with its 2 s timeout (`device.py:459`).
- A session that is quiet for 10 s has its drive deselected and its motor off by the
  watchdog, and its soft select is not sent again (`floppy.c:1892`).
- An exception out of auto-detection leaves the motor line on until the watchdog:
  there is no drive object to release it (`drive.py:390`, `session.py:70`). So does a Ctrl-C
  in `release_lines()` before the motor command (`session.py:83-86`).
- `LinkTimeout` is never raised by a transaction (`device.py:300`), so
  auto-detection retries what `drive.py:555-556` means to give up on.
- `open()` never sends clear-comms: what an aborted session left in the buffers of the
  board is the next session's.

Firmware:

- SET_ADDRESS is applied by whichever transmission ends next (`hw_usbd.c:336`): early, if a
  SETUP is handled while an earlier status is under way. A control transfer that
  the host gives up leaves endpoint 0 waiting for an IN until a bus reset.
- A power failure or clear-comms after the first data of an update leaves a torn image
  that the next start boots; only the strap or DFU recovers. A CRC that fails is answered
  before the image is erased. The watchdog, in an update, makes the rest of the image commands.
- `floppy_erase()` writes its status without asking whether the endpoint is ready. The
  watchdog is not kicked by writes, sinks and sources longer than 10 s.
  `GETINFO_DRIVE` with a unit number answers for the selected one.
- `CMD_SEEK` has no upper limit (`floppy.c:490`): a drive sought past its last cylinder is further
  out than the firmware believes. `floppy_noclick_step()` is then not "always at cylinder 0"
  for a flippy drive, and `quiesce_drives()` may leave one beyond cylinder 0.

Archive:

- Two CRC-good sectors under one coordinate may differ: a misread ID is placed like any
  other, and an ID waits for the next data mark over a dropout (`mfm.py:307`). The
  first one seen wins (`merge.py:9-10`).
- A header is taken from its raw sectors if the signature is intact (`volume.py:314`). If
  the map's sector was not read it is zeros, an empty map, and segments with excluded
  sectors are corrected as codewords that were never written, and recorded CORRECTED
  (`twti.md:454`).
- A header rebuilt during the search is recorded CLEAN with no erasures
  (`twti.md:444` against `rs.py:378`), and an uncorrectable segment keeps the bytes
  that failed their CRC where `twti.md:446` says zeros.
- A file with the letters `LTLT` in the last 1024 bytes that were read of a volume is
  cut there and reported whole (`_strip_link_subsection`; also just before a lost tail).
  A file of unknown size is cut at signature bytes of its own, and the last
  one runs on into the padding, undamaged. An entry that a file contains, with its
  signature, is listed if the file's own header was lost.
- A lost path entry lists its file in the root (as damaged). An extended directory that a
  hole cuts inside an entry lists that file as an empty one, undamaged; a Basic one
  lists a nameless lost entry. A volume with its directory last and no sizes in the table
  may list an invented empty entry, and with short segments its directory is not found.
- A compressed volume without section sizes gives an empty TWVL with no holes in it.
- An offset of zero in the long form, first in a frame, raises `IndexError` where
  callers expect `Qic122Error`.
- A name outside the basic plane shifts an extended entry's offset by two
  (`_entry_size`).
- TWRF, TWTI and TWVL are written in place, without a temporary name or a checksum.

## What is not modelled

Exclusions inside a module:

- *TapeCapture*: reads with index or deadline limits, more than one outstanding command,
  a DMA ring that laps between two pumps. The checksum adds interval numbers where the
  code adds sample counts.
- *TrackDump*: `--check`, the header's factory reports and provenance, and a second
  dump into the same directory. `ReadsFromTrackStart` leaves out a cartridge changed
  between the wind and Logical Forward, which nothing could notice.
- *DriveSession*: the board's watchdog, a fault while jogging, the Mountain wake.
  `JogEndsStill` says nothing of the status of a session in which error codes were read:
  three late answers can make one of them pass for a status with its Ready bit.
- *TapeAssembly*: geometry, volume table. `TrustworthyUnderMap`
  leaves out segments with excluded sectors that the search corrected before it had
  the map: the solved rows are wrong and called good. A tape has its header first
  and the search stops there, so this takes a segment before the header.
- *TapeIdentity*: dates and names of the header, the extent of each volume, how profiles are
  loaded from their files, and printing. Which notes a report has is modelled, not their words.
- *USB*: a host that gives a control transfer up (above); an endpoint that is configured
  while a transfer completes; a DWC receive FIFO that is not empty at a bus reset. The
  DWC transmit FIFO is one packet and needs no queue.
- *UpdateLoader*: an image that is torn and runs all the same does nothing but hang.
- *DriveBus*: pin mappings, levels, and delays, which are `Clock`'s. A drive whose sensor is stuck
  asserted is a flippy one: of another the search would end at once, wherever its head is, and
  nothing in the code could tell.
- *Clock*: a delay of more than a second, which `op_delay_async()` waits out on the spot.
- *QicVerbs*: a detection that meets more than one fault (the other two theorems hold for any number).
- *FluxStream*: a ring that overflows, which is `TapeCapture`'s.
- *ArchiveFiles*: the members of JSON headers, and zstd itself.
- *BackupVolume*: multi-cartridge volumes, attributes, dates, and the framing-only walk
  of `qic113.py` over extended volumes, which nothing calls. `WholeIsWhole` names in its
  comment the entries it leaves out; the list above says what becomes of them.

Whole parts:

- *Board support* (`board.c`, `cortex.c`, `string.c`, `testmode.c`): straight-line register
  code and a library.
- *The PLL* (`codec/gwpll.py`) is floating-point signal processing, and *the flux probe*
  (`fluxprobe.py`) a measurement and its statistics; neither keeps a state that another
  part relies on.
- *The command line, `inspect.py`, and the tables of `qicsilver`* format what the libraries
  return.
- *Geometry* (`geometry.py`): tables of standards and arithmetic without state.

## Plan

Done: the capture with its abstract session and theorems; the dump; the session; assembly
with its theorems; the endpoints; both updates; write, erase, select, seek and clock;
the verbs; the stream; files, volumes and listings; identification. Runs stay one per question: a module
that grows keeps its run.

Next, in this order:

1. An aborted capture and the session after it over one link: unread command bytes, drain,
   late answers, and both watchdogs.
2. Geometry: coordinates to segments over every cartridge.
3. The header's members (a count that is not a number, a list that is missing) as outcomes of
   `ArchiveFiles`, and a second dump into one directory.
