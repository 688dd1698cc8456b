# TLA+ models of dabRadio

dabRadio is a DAB/DAB+ receiver: a device handler delivers samples, the
`dabProcessor` thread synchronises on the DAB frame and splits it into OFDM
blocks, the FIC blocks fill a database of services, the MSC blocks go to the
`mscHandler` thread that assembles CIFs, and every selected service has a
`Backend` thread that de-interleaves, decodes and hands sound and data to the
GUI thread. The modules in this directory follow the samples from the device to the sound:
the threads and what they share, the signals and what is kept across restarts,
the synchronisation, the database of services, the decoders and their tables,
the data services, the devices and the sound output. Paths below are relative to
the root of the repository.

## 1. The system

| component | state | operations | talks to |
|---|---|---|---|
| device handlers (`devices/`) | ring buffer of samples, driver thread, gain, frequency | `restartReader`, `stopReader`, `getSamples`, `Samples`, `resetBuffer`, callback | library callback puts, `sampleReader` gets |
| `sampleReader` | `running`, `bufferContent`, oscillator phase, level | `setRunning`, `getSample`, `getSamples` (both end with an exception when not running) | device, `dabProcessor` |
| `dabProcessor` (thread) | sync state (program counter of `run`), `coarseOffset`, `fineOffset`, `startFailures`, `attempts`, `scanMode` | `start`, `stop`, `reset`, `run`, pass-through to FIC and MSC | everything |
| `timeSyncer`, `phaseReference`, `ofdmDecoder` | reference block, tables | `sync`, `findIndex`, `estimate_CarrierOffset`, `decode` | called by `run` |
| `ficHandler`, `fib_processor` | ensemble, services, components, subchannels; `fibLocker` | `process_ficBlock`, `process_FIB`, `clearEnsemble`, `dataforAudioService`, `kindofService` | written by the dabProcessor thread, read and cleared by the GUI thread; signals `addtoEnsemble`, `changeinConfiguration` |
| `mscHandler` (thread) | `command` slots, `bufferSpace`, `amount`, `currentBlock`, `phaseReference`, `cifVector`, `theBackends`, `work_to_be_done`, `running`; `locker`, `helper` | `process_Msc`, `run`, `process_mscBlock`, `set_Channel`, `reset`, `stop`, destructor | fed by the dabProcessor thread, reset by that thread and by the GUI thread |
| `Backend` (a thread per service) | `theData` (20 slots), `freeSlots`, `usedSlots`, `nextIn`, `nextOut`, interleaver | `process`, `run`, `processSegment`, `stopRunning` | fed by the mscHandler thread |
| frame processors (MP4, MP2, data) | superframe of five frames, fire code, RS, AAC; data groups | `addtoFrame` | called by the backend's driver; signals to the GUI |
| PAD, MOT | dynamic label, X-PAD segments, MOT objects and directory | `processPAD`, `add_mscDatagroup` | signals to the GUI |
| `audioSink` | PortAudio stream, ring buffer | `audioOut`, `restart`, `stop`, callback | GUI thread puts, PortAudio callback gets |
| `RadioInterface` (GUI thread) | `channelNumber`, `scanning`, `serviceMap`, `selectedChannel`, `currentService`, timers, connections, `dabSettings` (persistent) | the slots of `radio.cpp` | starts and stops `dabProcessor`, receives queued signals |
| `RingBuffer` | `writeIndex`, `readIndex`, elements | put, get, flush | one writer thread and one reader thread |

What is hard here:

- **Threads without a common lock**: the MSC slots, the ring buffers and the
  backend's queue are kept apart only by counters.
- **Flags that start and stop threads**: each `run` sets its own flag, others
  clear it and wait for the thread to end.
- **Signals across threads** are queued: they arrive after the state they
  report has changed, and after the connection was cut.
- **Timers** race the signals they are to replace.
- **Persistence**: the list of channels is changed before the result it is to
  record is known.
- **Drift and accumulation**: errors that need dozens of frames to show.
- **Damage and loss**: FIBs, packets, X-PAD fields, frames and symbols are lost
  or wrong, and what was half collected must neither be handed on nor stay in
  the way.
- **Tables with limits** (64 services and components, 15 MOT objects), and
  tables of constants that no test looks at.

`PROJECT.json` lists every component and every hazard at its line.

## 2. Modules

| module | models | state ↔ code |
|---|---|---|
| `MscPipeline` | `mscHandler` between two resets | `pc`: where the dabProcessor thread is in `process_Msc`; `mpc`: where the mscHandler thread is in `run`; `bufferSpace`, `amount`, `command`, `currentBlock`, `fft_buffer`, `phaseReference`, `cifVector`, `work_to_be_done` as in the code. A block's content is the number of its frame. Histories: `handedOver`, `lap`, `first`, the block it begins with, and `backlog`, the most blocks that were posted at once |
| `RingBuffer` | `includes/support/ringbuffer.h` | `writeIndex`, `readIndex`, `buffer`; `wpc`, `rpc`: where the two threads are; an element is its number in the stream |
| `Backend` | `src/backend/backend.cpp` built threaded | the semaphores, slots and indices by their names; `ppc`, `cpc`: where the mscHandler thread and the backend's thread are; a fragment is the number of its CIF, a logical frame is a function from bit position modulo 16 to CIF |
| `BoundedStream` | nothing of its own: the abstract bounded first-in first-out stream that `RingBuffer` and `Backend` implement | `accepted`, `delivered`, `got` |
| `DabThreads` | life cycles of the two receiver threads, driven by the GUI thread | `pc[t]`: where each thread is; `readerRunning` is `sampleReader::running`, `mscRunning` is `mscHandler::running`; `bufferSpace`, `amount`, `backends`; `room` is the argument of `release` in `reset`. Histories: `leftover`, and `lost`, the threads that set their flag after they had been told to stop. Its names differ from those of `RadioInterface`, so that one module can extend both |
| `RadioInterface` | `radio.cpp`: scan, services, selection, settings, leaving and starting the program | the members by their names; `posted` is the GUI thread's event queue; `nextConnected`, `selectable`, `resettable` are the connections; `procOn`, `tuned`, `scanMode`, `ensemble`, `playing` are what `dabProcessor` is reduced to; `heard` is a history |
| `DabSync` | `dabProcessor::run` with `timeSyncer`, `sampleReader` and the RTL-SDR handler | `pc`: where `run` is; `counter`, `low`: `timeSyncer::sync`, whether the level is that of a dip; `attempts`, `startFailures`, `ofdmBuffer`, `ofdmBufferIndex`, `ofdmSymbolCount`, `running`, `bufferContent` as in the code, `polling`: a wait of `getSample` has begun; `driver` is `workerHandle`, `ring` its buffer, `tuned` its frequency, `asked` the argument of `start`. A sample is its position in the frame. Histories: `last`, `intact`, `tracking`, `gapped`, `reported` |
| `FibProcessor` | `ficHandler` (collecting the FIC) and `fib_processor` with its queries, and the slots of `radio.cpp` that ask them | `db` is the database: `ensemble`, `subChannels`, `ServiceComps`, `listofServices` by the names of their fields; `index`, `blkno` as in `ficHandler`; `posted` is the GUI thread's event queue, `found` its `serviceMap`, `playing` what was given to `mscHandler`, `comp` the loop of `set_audioChannel`. Histories: `held`, `torn`, `heard`. A FIB is a sequence of FIGs, a FIG a record of its fields; `FibProcessorMC` has two small ensembles |
| `Protection` | `uep-protection.cpp`, `eep-protection.cpp`, `protTables.cpp` and the length and rate that `fib_processor` works out (FIG 0/1) | the tables as they are; no state |
| `Mp4Processor` | `mp4processor.cpp`, `faad-decoder.cpp`: the window of five frames | `frameBytes` (for each of the five: which frame of which superframe it is, and in what state), `blockFillIndex`, `blocksInBuffer`, `quality`, `aacInitialized`. What fire code and Reed-Solomon find follows from the state of the frames, and may be chance for a bad one. History: `fine` |
| `Mp2Processor` | `mp2processor.cpp`: the search for headers, bit by bit | `MP2Header_OK`, `MP2headerCount`, `MP2bitCount`, `baudRate` as in the code; bits are bits, a frame is 9 of them. Histories: `first`, `decoded`, `locked` |
| `MotObject` | `mot-object.cpp`: segments to an object | a record of what an object has; no state of its own, used by the two below |
| `DataProcessor` | `data-processor.cpp`, `mot-handler.cpp`, `mot-dir.cpp`: packets to data groups, objects, directory | `expectedIndex`, `packetState`, `series`, `motTable` (in order of `orderNumber`), `theDirectory`; `sender` is the ensemble's carousel; `pictures` what was handed on |
| `PadHandler` | `pad-handler.cpp`: short and variable X-PAD, labels, slides | `label` (the static variables among them), `short`, `msc`, `currentSlide`; `script`, `at`: what is sent; `shown`, `pictures`: what was handed on |
| `FrameProcessors` | `backend-driver.cpp`, `frame-processor.cpp`: one of the processors above | the variables of the processor that was made; the others are `None`. `FrameProcessorsMC` has what is sent |
| `Devices` | `setDevice` of `radio.cpp` and the handlers of RTL-SDR, Airspy, SDRplay and HackRF | `theDevice`, `openDevs`; `gui` and `dab`: where the threads are; `running`, `worker` (`workerHandle`), `streaming` (the library calls back), `buffer`, `convBuffer`. Histories: `stale`, `uneven`, `missed` |
| `AudioSink` | `audiosink.cpp`, `audio-base.cpp`, `newconverter.cpp` and the slots of `radio.cpp` for sound | `ostream`, `device`, `paCallbackReturn`, `audioBuffer`, `_O_Buffer`, `inBuffer` of the converter; `taking`: the callback. Histories: `heard`, `late`, `spoilt` |
| `Peripherals` | a receiver's two ends, `Devices` and `AudioSink` | `part`: which is looked at |
| `ReedSolomon` | `galois.cpp`, `reed-solomon.cpp` | a symbol is the set of the bits that are one, so that addition in the field is symmetric difference; no state |
| `Viterbi` | `viterbi-handler.cpp` | costs and predecessors of a column as functions of the state; no state |
| `Codecs` | the decoders above, the puncturing and `freq-interleaver.cpp`, at work on one block | `sent`, `received`, `damaged`; `round`, `carried`, `table`: the loops of the code; `CodecsMC` has what is sent |
| `Loops` | nothing: how a loop over a range of numbers is written | |
| `ProofLemmas` | lemmas about remainders (indices that run round a buffer, places in a cyclic stream) and about loops (the least element of a set, what a loop ends with when each round keeps a set) | |
| `...Proofs` | the theorems about the module of that name; `ControlProofs` those about `RadioInterface` and `DabThreads`, the GUI thread's side and the receiver threads it drives; `ServiceProofs` those about `Backend` and `FrameProcessors`, what becomes of the bits of a service | |

How they fit together: `MscPipeline` is the data path between two resets, from any block on, and
`DabThreads` is everything around it: the same `bufferSpace` and `amount`,
counted only. `MscPipeline` gives a CIF to the backends in one step,
`DabThreads` holds `locker` meanwhile; `Backend` is the detail of that step for
one backend (`WaitsEnd` is what justifies taking it as a step that ends).
`DabSync` is what happens before a block
gets to `MscPipeline` (`ReadData` is one `NextBlock` there), and the detail of
the one step `Read` of `DabThreads`; that `process_Msc` may wait is left to those.
`Devices` is the detail of the device of `DabSync`, with `start` and `stop` of
`DabThreads` reduced to a flag. `FibProcessor` is the database that
`RadioInterface` has as the set `ensemble`, with the queries that
`RadioInterface` has as choices; `Protection` is shared by it and by `Codecs`.
`FrameProcessors` is `addtoFrame`, which `Backend` calls, and the sound it makes
goes to `AudioSink`. `Codecs` is what `MscPipeline`, `FibProcessor` and
`Mp4Processor` take for granted: that what is damaged within limits comes out
right.
`RadioInterface` treats `start`, `stop` and `reset` of the processor as steps
that return; `DabThreads` says when they do.

Granularity. A step of a thread is what it does between two points where
another thread can observe or disturb it: an access to a shared variable, a
semaphore, a mutex. A copy into or out of a shared slot takes two steps, so
that overlapping copies are visible as a state. Handlers of the GUI thread are
one step in `RadioInterface`, because they do not run concurrently with each
other, and are split in `DabThreads`, where other threads run meanwhile.

In `DabSync` numbers are taken out of the signal exactly. The level is that of one
sample in place of 50, and low in the null period, or where a sample that was
never received left zeros; `findIndex` finds the first data sample of block 0
if it is among the samples it is given, and nothing otherwise. So the model
says what the accounting of samples does, and nothing of noise. `getSample` and
`getSamples` are one step each, and one for every look at `Samples ()`, since the
only state they share with other threads is the flag and the device's buffer.
The buffer is a sequence (`RingBuffer` has its indices); a flush while the
callback is storing its index leaves the content of before, reduced to one
sample.

In `FibProcessor` a step is one FIB or one query, because each is done with
`fibLocker` held; a block of the FIC is a step of `ficHandler`, which reaches at most
`MaxFibs` FIBs that come through the CRC. In the frame processors a step is one
call of `addtoFrame`, one packet or one X-PAD field: they run in one thread.
`FrameProcessors` and `Peripherals` look at one of their parts in each
behaviour, since these share no variable. In `Codecs` a step is a round of a loop.

Taken from Qt and not modelled in detail: `QSemaphore` (acquire blocks while
the count is too small), `QMutex`, `QThread` (`start` does nothing when the
thread runs, `isRunning` holds from `start` until `run` has returned), queued
connections (the event is posted when the signal is emitted and delivered in
order, also after `disconnect`), single-shot timers (they do not fire after
`stop`). `QWaitCondition::wait` has a time limit of 100 ms, so a missed wake-up
only delays, and needs no variable.

Definitions named like an action with a suffix (`TakeUnchecked`,
`ScanUntimed`, ...) stand before the action they vary. They are not part of any
specification; each is the bug that a property of the module is there to catch.

## 3. Runs

The modules are small enough to be given to TLC as they are; a configuration
file names the values of the constants, and `None`, `s1` are model values.

| run | bounds | shows |
|---|---|---|
| `MscPipeline` | L = 6, first MSC block 4, two blocks per CIF, 6 frames, begun with any block, full backlog | `CoherentAtFirst`: every CIF is of one frame as long as the frames written, the largest backlog so far and the blocks that went before the first come to less than a frame of blocks (with one more it is violated). `IInv` has the account of slots (`amount` reaches L + 1, because `release` comes before `amount -= 1`), the drift law and, with it, that there are no two copies in one slot before the drift has used up a frame. `BothProceed` under fairness: the writer gets a slot, the queue is emptied |
| `MscPipelineDrift` | the same, without fairness | finding 1 |
| `RingBuffer` | 4 elements, chunks up to 5, 14 elements in all, flushes while the writer is idle | `IInv`, and that the buffer implements `BoundedStream` (`StreamSpec`) |
| `Backend` | 3 slots, 20 CIFs | the queue (`IInv`, `StreamSpec`), the de-interleaver (`Deinterleaved`), progress (`WaitsEnd`: `process` and `stopRunning` return) |
| `DabThreads` | 3 slots, 4 calls of the GUI | `ThreadsInv`, for every order: with `CreditLaw`, the account of `bufferSpace`, and that no two resets meet and nothing runs after the deletion. `WaitsEnd`: every call of the GUI thread returns unless a stop was lost, and the dabProcessor thread always gets a slot |
| `RadioInterface` | 3 channels, 1 service, 2 events queued, 2 clicks, 1 quit | `RightChannel`, `PlaysTuned`, `IInv` (with it, that recorded channels are on the list); `ScanEnds` under fairness |
| `DabSync` | a null period of 2 samples and two blocks of 1 + 2, a buffer of 3, chunks of 2, one sample lost, one stop or reset | `BlocksAligned`: each block is the one of its number, from its first sample; `StaysLocked`: a frame that was read whole leads to the next; `NoFalseAlarm`: `No_Signal_Found` comes for a live channel only if samples were missed; `ScanAnswered`: a frame is found, and a scan is told of a dead channel; `ThreadEnds`: the thread ends when told to; and `IInv`, with it that nothing is read of an earlier channel |
| `FibProcessor` | 3 services, 3 components, 3 sub-channels; 2 channels of 6 and 4 FIBs, 1 FIB of each block through the CRC, 2 events queued, 1 change of channel | `DatabaseOfTuned`: what is in the database is what this channel says; `NoOverrun`: with as many entries as the ensemble has components none is written outside the table; `QueriesRight`: what is put on the list, and what is started, has the data of its own channel, also for signals that were queued on another; `FicWhole`: no FIC of two frames; `IInv`, from which these follow; `AllFound`: a scan that stays lists all audio services, whatever the order of the FIBs |
| `FrameProcessors` | MP2 frames of 9 bits with a header of 3 ones, both rates; superframes of which each frame may be good, correctable or bad; a carousel of two slides and one file in a table of one, 3 packets damaged or strange; labels and a slide in X-PADs, 2 lost | `AudioFrames`: a frame or superframe that came in right is decoded, whole, once; `ObjectsWhole`, `LabelsWhole`: what is handed on was sent; `AllArrive`: what is repeated gets through in the end; `ProcessorsInv`: the inductive invariant of each processor, from which the first two follow |
| `Peripherals` | all four handlers, 3 device samples for 2, 2 starts, 3 samples of buffer; 3 sound devices, 5 frames | `OnlyTuned`: what is read is of the channel asked for; `EvenlyResampled`; `HaltedByThen`: nothing runs when the handler is deleted, both while the libraries stop when asked to; `HeardRight`: sound once, in order, not from before a flush; `IInv`, from which these follow; `CloseEnds` |
| `Codecs` | a code of GF(16) with 4 parity symbols, shortened by 3, up to 2 errors; blocks of 8 bits with up to 2 soft bits turned; all four modes; all short forms of a sub-channel and the long ones to 48 units | `Corrected`, `TablesExact` |
| `CodecsProfile` | the same | finding 2 |

Why the bounds are enough to see the interesting cases. `MscPipeline`: L = 6
has two CIF blocks after four others, frames wrap several times and 6 frames
pass the point (frame + amount + first >= L) where the writer laps the reader.
`RingBuffer`: the indices run modulo 8, so 14 elements take them past both
wrap-arounds, and a chunk of 5 is larger than the buffer. `Backend`: 20 CIFs
are 16 of warm-up and four frames, with a queue that fills and wraps.
`DabThreads`: "start, select, select, terminate" takes four calls, and two resets
in a row are among them; with three slots the queue can be empty, partly full
and full. `RadioInterface`: three
channels are the least in which one is skipped between two others; one event
queued behind another is what makes a signal stale.

`DabSync`: the frame has every part the code reads separately (dip, its end,
block 0, a data block, null period) and the buffer is as small as a block, so
that every wait is met; two blocks are the least a frame can have, block 0 and
one other. A stop in any state and a new start on the other channel follow each
other. Counting to five failures takes five times round the frame of eight
samples.

`FibProcessor`: each table of 64 is one of 3, which the first ensemble fills
exactly; the FIGs are those that write the database in every way the code
knows, and each may come before or after every other. A FIC is decoded three
times a frame, each with one FIB that comes through, or none. One change of
channel is enough for a signal of before to meet the database of after.
`FrameProcessors`: the audio of an MP2 frame may have the ones of a header in
it, and noise may begin or end with them; a table of one object is full with
the first, so that all slides push each other out; the lost and damaged
packets are placed anywhere, three of them are more than continuity index and
CRC need to be fooled once. `Peripherals`: the resampling is 3 to 2 in place of
(rate / 1000) to 2048; one stop and two starts have every order of the two
threads. `Codecs`: the loops are the code's own and the same for 8 bits as for
thousands; the tables are checked in full, but for long sub-channels, whose
lengths are linear in the size.

`CHECK_DEADLOCK FALSE` is in every configuration but those of `DabSync`,
`FibProcessor` and `FrameProcessors`: the other runs end at a bound (frames,
calls, clicks, a decoded block) and the program may be left.

### Fairness

Weak fairness for whole threads: the operating system schedules them. Nothing
is assumed about the user, the transmitter or the order of threads. In
`Backend` it includes that the driver's `addtoFrame` returns. In
`RadioInterface` it is that the event loop delivers posted events and timers.
`DabThreads` has strong fairness for one step, the `locker. lock ()` of `reset`:
`mscHandler` takes `locker` again and again, but holds it only for the
time it needs to copy the fragments of a CIF, so a waiting thread finds it free
in the end. In `DabSync` it is weak fairness for the device, the waiting GUI
thread and `run`; a device whose `restartReader` failed has no driver thread and
delivers nothing, and `ScanAnswered` excepts it.

In `FibProcessor` the ensemble repeats its FIBs (`Repeats`: each FIB that carries a
sub-channel, a service or a label comes through again and again; ensembles have to
repeat their FIGs) and does not announce changes for ever (`Settles`: from some
time on no FIG 0/0 is received), the GUI thread goes on with what it began and
comes to its event queue again and again. In `FrameProcessors` the sender
goes on (and the number of losses is bounded by the constants). In `Peripherals`
the GUI thread, the dabProcessor thread and librtlsdr's thread are
scheduled; nothing is assumed of the user and the callbacks. `Codecs` has none.

### What the runs show of the code's weak points

Findings, each the counterexample of a run:

1. `MscPipelineDrift`: `dabProcessor::run` posts blocks 1 .. L - 1, the reader
   counts slots 0 .. L - 1. Every frame the reader falls back one block, until
   the writer laps it and a CIF mixes two frames: in mode I about every 75
   frames. A selection in mid-frame (`reset_msc`) starts it behind by the blocks that
   have gone, so the first mixed CIF may come after a few frames.
2. `CodecsProfile`: row {80, 1, ...} of `profileTable` (`uep-protection.cpp:69`)
   has 7 as the index of its second puncturing vector. With it 404 of the 5376 bits
   of such a sub-channel are not used, and the ones that follow are taken for
   others; with 17 the count is right, as it is in all other rows.

Three statements are false as well, each refuted by TLC when it is named in a
configuration of its module. They are kept there as definitions:

- `RefillLegal` (`DabThreads`, 2 slots and 3 calls): `mscHandler::reset` refills
  `bufferSpace` and leaves `amount`, although the comment of
  `msc-handler.cpp:144-146` says that it "might be called several times"; the
  next reset releases a negative number.
- `ListMaintained` (`RadioInterface`): `README.md:70-76` says that all channels are
  listened to. A queued `No_Signal_Found` skips a channel, which is off the list
  from then on; leaving the program during a scan takes the channel being
  scanned off the list.
- `SelectionTunes` (`RadioInterface`): `selectedChannel` survives a reset and a scan, so a
  service of that channel is looked up in the wrong database (`radio.cpp:584`).

Other behaviours the models have because the code has them, and which the
properties therefore take into account:

- Lost stops (`DabThreads`). `run` of both threads sets its own flag. A stop
  that clears the flag between `start` and that store, or, for the mscHandler
  thread, before `dabProcessor::run` starts it, is undone and the wait
  for the thread never ends. `lost` records it and `WaitsEnd` says that it is
  the only way a call of the GUI thread does not return.
- `mscHandler::stop` is `reset`, which ends with `start ()`: the thread it stops
  runs again, until the destructor. `NothingRunsWhenGone` (part of `ThreadsInv`) says
  that the destructor copes.
- `FlushRingBuffer` writes the writer's index too. The run has
  `FlushWhileWriting = FALSE`, as in `restartReader`, where the driver thread does
  not exist yet; `resetBuffer` after `dabProcessor::reset`, which leaves the device
  running, is the other case, and with `TRUE` TLC finds `StreamSpec` violated.
- `bufferContent` outlives a flush of the device's buffer (`DabSync`): the first
  samples after a restart may be ones that were never received, which look like
  a dip. `ScanAnswered` and `NoFalseAlarm` say that they only cost time.
- `attempts` is counted over the whole run and not reset by a success, so over a
  long time missed samples can add up to a `No_Signal_Found` for a live channel;
  hence `gapped` in `NoFalseAlarm`.
- A `restartReader` that fails is not noticed: the thread waits until it is
  stopped.
- `channelTimer` survives a reset, so a service may start playing during the
  scan; `PlaysTuned` says that at least it is one of the channel being scanned.

- `FibProcessor`. The loop of FIG 0/14 leaves its last entry out and compares a
  field that is always 0; FIG 0/13 compares SCIdS with SCId. A change of
  ensemble (FIG 0/0) is only noticed when a counter equals an 8-bit field and
  the alarm flag is off. An audio component has SCId 0, so a packet component
  with SCId 0 is never bound after one. A data service may be started before
  FIG 0/3 has told its sub-channel, in spite of the comment
  `fib-processor.cpp:1151-1153`; the properties speak of audio services. A full
  table of components is written at index -1: `NoOverrun` has as many entries as
  the ensemble has components, and fails with one less.
- `DataProcessor`. `motTable` is global, shared by all `motHandler`s; the
  destructor leaves entry 0 (`orderNumber > 0`). The directory is looked at with
  every segment while the number of its segments is not known, and never if it
  has only one. The continuity index is compared before the address and before
  the CRC; a packet out of sequence keeps the series, and a single packet
  within a series is dropped.
- `PadHandler`. The static variables of the label are shared by all services.
  `xpadLength` is only updated when a data group was under way before. That
  `LabelsWhole` holds nevertheless is because the first segment sets all of them.
- `Mp2Processor`. `lf` is stale within the call in which the rate changes; a
  header is taken from any twelve ones, so a frame found within damaged data may
  be one or two bits off. A bit rate index of 0 is accepted.
- `Mp4Processor`. A superframe that Reed-Solomon cannot correct is counted twice,
  so that the quality shown may be negative.
- `Devices`. `rtlsdr_cancel_async` before `rtlsdr_read_async` has begun is without
  effect, and `stopReader` waits forever (`missed`); likewise `setRunning (true)`
  undoes a stop before it. A setting of 100 for the gain of an RTL-SDR reads one
  past `gains`. Airspy: devices stay open when the choice of a rate fails,
  `running` is not initialised, and up to one millisecond of the old channel
  stays in `convBuffer` (hence `Out` in `OnlyTuned`). SDRplay: the library stays
  loaded when `SetDeviceIdx` fails. HackRF: nothing is undone when the
  constructor throws, and the buffer is deleted before the device is closed.
  When the call that stops a stream fails, the stream goes on: `stopReader` of HackRF
  returns with `running` still set, the next `stopReader` calls again and a start is
  refused by the library; the others clear `running` all the same, and are not
  asked to stop again but by the destructor of the airspy. `unhalted` records that this
  has happened, and from then on `OnlyTuned` and `HaltedByThen` say nothing of
  streams: they would not hold.
- `AudioSink`. `selectDefaultDevice` passes an index of PortAudio where one of the
  combobox is meant. `ostream` dangles when opening failed after closing. One frame
  stays in `audioBuffer` and is played with the next rate; converters keep their
  rest over a restart (hence `Limit` in `HeardRight`); rates other than those
  with a converter are played as 48000.
- `Codecs`. The soft bits are positive for 1, although `viterbi-handler.cpp:104-105`
  says that -255 stands for 1; the signs agree with `ofdm-decoder.cpp:175`.
  The counters of `uep-protection.cpp:147, 228` and `eep-protection.cpp:38, 152`
  are `int16_t` and wrap around for a sub-channel of 384 kbit/s, whose table has
  36888 bits. The model has the wrapped values (`Wrapped`), and `TablesExact`
  claims nothing of these sub-channels. `syn_error` of
  `reed-solomon.cpp:255` is not initialised: the model has both values.
  `dec` may correct symbols within the padding, which a right word does not have.

## 4. Proofs

All theorems hold for every value of the constants under the assumptions the
modules name; most are only the types of the parameters (`NrBlocks >= 2`,
`FirstMscBlock \in 2 .. NrBlocks - 1`, and so on). `FibProcessor` assumes more of
what is sent: that FIGs have their fields (`BroadcastAssumption`); that the services
and components of one ensemble fit the tables (`CapacityAssumption`: the code has 64
of each and does not check; this is the least that is needed, with one more
`NoOverrun` is violated); that no label is the beginning of another
(`LabelsAssumption`: labels are filled up with blanks to 16 characters,
`fib-processor.cpp` compares as many as the name asked for has). It takes the carriers
of modes I, II and IV (`CarriersAssumption`); mode III, whose FIC has other blocks,
cannot be selected (`radio.cpp:85-87`).

`FrameProcessors` assumes of what is sent what the standard has it be. MPEG frames:
bits, all of one length, behind a header of `Ones` ones and three bits
(`BodiesAssumption`, `OnesAssumption`); what comes in for a damaged one is any
sequence of bits of that length (`NoiseAssumption`). Data groups and X-PADs have
their fields (`CarouselAssumption`, `ScriptsAssumption`). In an X-PAD a data group
begins behind an indicator, which gives a length that is not 0 (`Indicated`;
`pad-handler.cpp:355-356` relies on it: with a length of 0 `build_MSC_segment`
would check the CRC of -2 bytes). The data group of a body
segment has a CRC and a number of its own within the object, and the one that is
marked as the last has the largest number (`SegmentsAssumption`,
`PadGroupsAssumption`): without the CRC nothing tells a group of which a packet is
missing, since `data-processor.cpp:107` waits for the next index 0 and goes on
collecting; without the numbers `addBodySegment`, which counts to the last number,
would hand on less. Of headers and directories no such thing is needed. Which packets,
frames and fields are damaged, and what is then taken for them, is not restricted.

- `MscPipelineProofs`. `TypesAndCredits`: types, the account of slots, and
  `GuardsHold` (what a thread saw at its guard is still true when it acts)
  are inductive together. `Drift`: the law on positions follows step by step
  from them. `SlotsDisjoint`: two copies in one slot give
  two equations for the same slot, which the drift law resolves to
  `Drifted`. `Coherence`: `IInv` adds `SlotTags` (slot i holds the current
  frame's block once it is copied) and `LapTags` (in the early frames, lap n of
  the reader works on frame n); neither follows from the other, since the
  reader's frame is only known through the position the drift law gives.
- `RingBufferProofs`, with `QuietFlush` as hypothesis. The invariant is
  re-stated without remainders (`Linear`), since the provers know nothing of
  `%` with a variable modulus; the lemmas of `ProofLemmas` lead there.
  `NeverTorn` and `ImplementsStream` follow: a stored index is an `Accept` or a
  `Deliver`, the second half of a flush is a `Flush`, all else stutters.
- `ServiceProofs`, about `Backend`. The invariant describes queue (`QueueContents`),
  interleaver (`Rows`) and warm-up (`WarmUp`); `DeinterleaverCorrect` rests on the
  lemma that `interleaveMap` is the reversal of the four bits of the lane.
- `ServiceProofs`, about `FrameProcessors`. Only one processor is there, so
  `ProcessorsInv`, the four invariants `IInv` side by side, is inductive if each is
  (`Mp2Step`, `Mp4Step`, `DataStep`, `PadStep`); `AudioFramesHold` and
  `ObjectsWholeHold` read the properties off it.

  *mp4Processor*: `InStep`. As long as the superframe is fine its frames
  are the last ones in `frameBytes` and `blocksInBuffer` is at least their number. So
  the five frames looked at next end with its last frame or before: a fire code
  that was right by chance cannot take the processor past it. `Superframe` and
  `FrameInStep` carry that round the window of five, `Counted` bounds
  the qualities that are shown.

  *mp2Processor*: `addtoFrame` is a fold over the bits of a DAB frame, and each
  part of the invariant is a fact every bit keeps, by `AfterRounds` of `ProofLemmas`.
  `Placed`: what is collected began at the position `first`, counted from the frame
  that is sent. `Aligned`: between two DAB frames a processor that is locked is
  before a frame or in the middle of one it found where it begins. `SureStep` says
  that the bits of the header then come where they are looked for, `Locks` that a
  frame decoded as a whole ends with the DAB frame; `CountingStep` that what ends
  before is not whole. The audio may be any bits: it may hold the ones of a header.

  *dataProcessor*: `series` begins with a first part (`TypeOK`), and what the table and
  the directory hold are parts of objects that are sent (`AllSound`, `PartOf`). A body
  is only added if it passes its CRC, so it is all packets of its group; the number of
  segments is only set by the last one. `Result`: a complete object that is a part
  of one sent is that one, in order. The directory that is read up to memory
  that was never written makes objects that are empty, for which this holds too.

  *padHandler*: the same for the slide (`SlideSound`), with the same lemmas about
  `motObject`. The subfields of an X-PAD are a fold again (`SubfieldsDone`); what a
  lost field leaves in the buffer is not part of the invariant, since the CRC
  decides (`pad-handler.cpp:421-429`).
- `ControlProofs`. In `DabThreads`, `Waiting` is the strengthening: the dabProcessor
  thread loses its flag only to a GUI thread that waits for it, so it is never in
  `reset` when the GUI thread is. In `RadioInterface` it is `ScanTuned`: during a
  scan the processor is on the channel of the scan, and the database is that of the
  channel it is on. That is why a late `addtoEnsemble` does no harm: the handler
  asks the database again.

- `DabSyncProofs`. `InvariantHolds`: the types and the ranges of the counts, and
  the chain that makes `OnlyAsked` hold: the loop ends only while the GUI thread
  waits for it (`FlagKept`), so between two starts the driver thread is stopped
  (`IdleOff`), so a channel can only change when there is none, and
  `restartReader` begins with an empty buffer (`DriverTuned`, `RingOwn`). Three
  lemmas (`StepWithSample`, `StepWithBlock`, `StepWithout`) carry the steps of the
  loop. `NeverStale` is the result.

  `AlignedAlways`, `LockKept` and `ReportsAreTrue` need to know where the thread
  is in the frame as well. `FrameWhole`: as long as no sample was missed since
  the frame was found, `ofdmBuffer` holds a run of positions without a gap, and
  `last` is the end of the block that was read; so the next block is the one of
  its number, and behind the last one comes the null period. `NothingMissed`: if
  none was missed since the start of the thread, the search for the dip is
  before the dip, in it, or one sample behind it, so a count of samples
  without a dip ends before a frame has gone by, and `findIndex` is given
  the first data sample. Positions move modulo the frame, whose remainders the
  lemmas of `ProofLemmas` resolve.

- `PeripheralsProofs`. Each end has what does not depend on the samples proved
  apart from what does, first for every step by itself.
  *Device*: `Control` says which
  thread of the library runs when, as long as the libraries stop when asked to, and
  that the dabProcessor thread's end is waited for before anything is closed;
  `HaltedAlways` is one of its conjuncts.
  `Flow` is about the samples: `FewStale`, those of the old channel come first in
  the buffer, and the airspy's `convBuffer` holds some only as long as nothing
  was made of them, so at most one block of `Out` is ever read
  (`OnlyTunedAlways`; with `unhalted`, nothing is counted any more); `Spaced`, the samples in `convBuffer` are the last ones of the
  stream and the buffer ends where they begin, as positions modulo
  `Wrap * Out`, so one block joins the next at the same distance
  (`EvenlyResampledAlways`). That `convBuffer` keeps its last sample
  as the first of the next block is what makes this inductive.
  *Sink*: `HeardRightAlways` needs the order of the frames through
  three buffers (`LastMade`, `InOrder`), that the callback runs only while its
  stream is active (`CallbackActive`), hence never during a flush, and
  `FewLate`: what was made before a flush and was heard or may yet be heard is
  less than a block of the converter. That set only shrinks from flush to flush;
  at a flush it is what lies in `inBuffer`.

- `FibProcessorProofs`. The invariant is that the database is at every moment one
  of `DatabaseOf (tuned)`: every entry in use is a trace of a FIG that this channel
  sends, whichever came through the CRC and in whatever order. By itself
  that is not inductive. The strengthening is that no service (`ServicesApart`) and no
  component (`ComponentsApart`) is in its table twice, which is what the searches before
  every insertion are for. From these `ServiceRoom` and `ComponentRoom` follow by
  counting: the entries in use are as many as the services or components they stand for,
  so while one of the ensemble is still missing an entry is free, the search for a free
  one does not end with -1, and `TablesHold` is a corollary of
  `InvariantHolds`.

  There is one lemma for each FIG. The loops over the components of an entry, the
  entries of a FIG, the FIGs of a FIB and the FIBs of a block are folds; each is
  brought to `Rounds` and `AfterRounds` of `ProofLemmas`, which say of a function on
  `0 .. n` that it stays within a set if each round does. They take the least round
  that does not, so no induction with an operator as parameter is needed.
  `DatabaseRight` is the invariant read as the property. `AnswersRight`: `Queried` says which
  entries a query joins, `DataTyped` and `AudioQuery` that they are of one service, and
  `KindRight`, by `LabelsAssumption`, that `kindofService`, which compares less than
  the whole label, speaks of the same service as the query that follows.
  `FicsWhole` is apart from the database: `FicPlace` relates `index` and `blkno` to
  what is collected, for 3 blocks of each mode's number of bits.

Only model-checked:

- `LabelsWhole` of `FrameProcessors`. A label has no CRC that is checked: that what is
  shown is as sent depends on the order and the lengths of the fields of a whole
  script, which the provers would have to follow field by field, an induction over
  the data.
- The properties of `Codecs`, for the same reason: `ReedSolomon` and `Viterbi` have
  loops whose result is not a set every round stays in but a value that takes
  induction over the data to name, and field arithmetic the provers do not have.
- Everything with fairness (`BothProceed`, `WaitsEnd`, `ScanEnds`, `ScanAnswered`,
  `ThreadEnds`, `AllFound`, `AllArrive`, `CloseEnds`), which it does not reach
  either.
- The findings, which are counterexamples.

## 5. Not modelled

- `skipDataInBuffer` and `processBlock_0` have no caller. Memory order weaker
  than program order is not modelled: the barriers in `ringbuffer.h` are there
  for it.
- Floating point: FFT, correlation, demodulation, the arithmetic of rate
  conversion and filters, MP2 and AAC synthesis.
- Libraries of the devices, PortAudio, libfaad, Qt: used as described above. The
  calls by which PortAudio stops a stream are assumed to succeed, and the samples'
  buffer not to be full (`MaxRing` bounds it). A library whose stream goes on
  begins no second one.
- `FibProcessor`: date and time (0/10), FIGs that are only printed, the labels of
  components (1/4) and queries by index, which have no caller.
- Handlers for IP and TDC data only print a line; of the MOT header's extensions
  only the name counts.
- Fire code and CRC as polynomials: whether they hold is part of what is sent.
- `rscodec.cpp` and the files of the alternative outputs are not used by the
  program as it is built; `tii_detector.cpp` is not called by `run`.
- In `DabSync`: `coarseOffset` and `fineOffset`, `setSynced`, the dump file and
  the spectrum.
- Display, i18n, device selection dialogs.
- `MscPipeline` begins with all blocks of before worked off and its vectors empty;
  blocks left in `amount` over a reset are in `DabThreads` only.

## 6. Plan

Done: every module of section 2, those of the data path, the threads, the
synchronisation, the database, the frame processors and the two ends of the receiver with proofs. Next, in this order:

| what | aim |
|---|---|
| proofs about `PadHandler` | `LabelsWhole`: an account of how much of a script the label in `dynamicLabelText` is, for scripts of one label each |
| `DabSync` | the offsets (`coarseOffset` stays within 35 kHz) |
| `MscPipeline` | a start with blocks left in `amount`, as `DabThreads` has it |
| `RadioInterface` | counts of connections in place of flags (`radio.cpp:265`), and the label that is shown (`radio.cpp:609`) |
