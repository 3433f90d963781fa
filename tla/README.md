# TLA+ models and proofs of OpenJOC

OpenJOC decodes E-AC-3 streams with joint object coding (JOC) and renders them to
loudspeakers or binaurally. It is a Rust workspace (`src/crates/`) with a C ABI, an FFmpeg
packet bridge, a GStreamer element, a WASM build and a command-line tool. Most of its volume is
signal arithmetic and bitstream parsing; what is hard to test is the bookkeeping around it:
samples that come out later than they went in, packets that do not end where access units do,
refusals half way through a call, drains, resets, and a host that changes the listener's
orientation while audio is rendered. These modules model that bookkeeping.

Paths below are relative to `src/crates/` unless they say otherwise.

## 1. The system

```
container / packets                                     host: CLI, C ABI, GStreamer, WASM
      |  bytes of any size, timestamps                          ^  PCM frames
      v                                                         |
 FfmpegDecoder (openjoc-ffmpeg)   staging, access units, admission, timestamps, output queue
      |  one access unit + pts                                  ^
      v                                                         |
 OpenJocSession (openjoc-api)     configuration, segment clock, drain, three output stores
      |  decoded Base PCM + JOC metadata                        ^
      v                                                         |
 SpeakerRenderer -> ReconstructionOutputTimeline (openjoc-joc) -> spatial bridge -> linked gain
                                                                |
                                         BinauralState / DynamicBinauralRenderer (openjoc-render)
```

| Component | State | Operations | What makes it correct |
| --- | --- | --- | --- |
| `DynamicBinauralRenderer` (`openjoc-render/src/dynamic_binaural.rs`) | three kernel slots with sequence numbers, fade progress, receipts, epoch, lifecycle, sample index, tail | apply an update, render a block, render the reconstruction tail, begin drain, drain, reset | the newest pose is heard and reported, no fade is cut, nothing is freed while rendering, the drain is long enough and ends |
| `ReconstructionOutputTimeline` (`openjoc-joc/src/timeline.rs`) | pending Base frames, QMF output rows, a saturating u64 clock | push a frame, finish, reset | every frame leaves with the outputs of its own programme samples, once, in order |
| `OpenJocSession` (`openjoc-api/src/session.rs`, `lib.rs`, `speaker.rs`, `binaural.rs`) | stream configuration, segment origin, the unit held in the timeline and its metadata, owned PCM, deferred blocks, current pull block, tail, `drained`, terminal error | push, receive, pull, drain, flush, reset | timestamps return, output has no hole, completion means everything and is final |
| `FfmpegDecoder` (`openjoc-ffmpeg/src/lib.rs`) | staged bytes with packet boundaries, classification, timeline, session, pose waiting for a session, output queue, poison | send, receive, drain, flush, apply orientation | no byte is lost or taken twice, stamps belong to their units, resets leave nothing behind |
| GStreamer element (`gst-plugin-openjoc/src/plugin.rs`) | session, `pending_input_samples`, frames owed to the base class | handle_frame, drain, flush, event | the base class is told of exactly the frames it gave |
| C ABI (`openjoc-capi/src/lib.rs`) | handle: session or bridge, last frame, last error, poison | one function for each operation above | poison and errors are kept, the last frame outlives the call |
| WASM decoder (`openjoc-wasm/src/lib.rs`) | framer, PCM queue, terminal failure, handle table | push, drain, take, reset | queue bound, no use after failure |
| File output and ADM pair (`openjoc-cli/src/joc_output.rs`, `main.rs`) | staging files, backups | stage, finish, commit a pair, restore | a destination is the old file or the new one, never a loss of both |
| Final linked gain (`openjoc-render`, `openjoc-api/src/speaker.rs`) | delayed block, smoothed gain | render, reconfigure, drain | every block is put out, one block late |
| Fixed binaural filters (`BinauralRenderer`, `partitioned.rs`, `sample_delay.rs`) and their drivers (session, `joc_render.rs`, `openjoc-render-scene`) | history of each source, or queue of partitions; partial partition; tail left; LFE delay | render a block, finish the input, drain, reset | every input sample is weighted with every tap once, at its own place, however the input and the tail are cut |
| Spatial bridge (`openjoc-scene`) | binding per object, Q32 gain ramps | bind, advance, retarget | a ramp ends at its target and sample |
| Bridge control (`openjoc-scene/src/bridge_control.rs`) | records of every coordinate, topology epoch | assemble a frame | it agrees with the bridge its updates are applied to |
| Framing and readers (`openjoc-eac3/src/lib.rs`, `openjoc-container/src/lib.rs`) | staged bytes; one frame of look-ahead | find the end of a unit, group frames, read a unit | every reader finds the same units |
| Audio blocks (`openjoc-eac3/src/audio_block.rs`) | what the blocks of a frame have sent: coordinates, structures, exponents, offsets, leak | decode one block of a frame | what a block leaves out is what was sent last for the same channel and region |
| Access-unit PCM (`openjoc-eac3/src/access_unit.rs`) | a synthesizer with its delay and a configuration for each substream | decode a unit, reset | every frame overlaps the one before it of its substream, whatever fails or drops out |
| Object payload (`openjoc-scene/src/payload_decoder.rs`, `assembly.rs`; `openjoc-joc/src/decoder.rs`) | sequence count and dimensions, memories of analysis, matrix and synthesis, the scene and two accounts of the binding | decode a frame on a copy, commit or drop it, flush the tail | what follows continues, what does not starts from nothing, and a frame that failed leaves no trace |
| Other parsers: emdf, oamd, joc syntax, bitio, sofa; writers: wave, adm | cursors | parse, write | total functions of their input |
| CLI workflows, inspection, integrations, scripts | drivers of the above | | |

How they interact: everything below the host is called synchronously through exclusive
borrows. Concurrency enters at three places: the host hands prepared orientation updates to the
renderer between any two rendering calls; the GStreamer element releases its lock around
calls into the base class; files are seen by other processes. Everything else that is hard is
order and partial failure: a call may fail after it has changed something, and the host may go on.

`PROJECT.json` lists every component with its status, and 40 hazards, each at the line at
which it bites, with the properties that would catch it.

## 2. Modules

| Module | Models |
| --- | --- |
| `PoseMailbox` | what the orientation renderer promises: a one-place mailbox in which the newest pose wins |
| `DynamicBinaural` | `DynamicBinauralRenderer`, sample by sample |
| `DynamicBinauralProofs` | inductive invariant and theorems about it |
| `ReconstructionTimeline` | `ReconstructionOutputTimeline`, one action for every frame that `drain_ready` returns |
| `ReconstructionTimelineProofs` | inductive invariant and theorems about it |
| `OpenJocSession` | the session with its speaker renderer and binaural engine, one action for each result of a call |
| `OpenJocSessionProofs` | inductive invariant and theorems about it |
| `FfmpegBridge` | the packet bridge, one action for each iteration of `pump`; the session below it is what `OpenJocSession` promises |
| `FfmpegBridgeProofs` | inductive invariant and theorems about it, and what the rescaling of timestamps returns |
| `GainScheduler` | one gain ramp of the spatial bridge, as pure operators |
| `SpeakerRenderer` | the control assembler, the spatial bridge with its ramps, and the final linked gain, as `render_aligned_block` drives them |
| `BinauralFilters` | the direct and the partitioned convolution with fixed filters, the LFE delay, and the three programs that drive them |
| `RendererProofs` | inductive invariants and theorems about `SpeakerRenderer` and `BinauralFilters` |
| `GstElement` | the GStreamer element over a session, with the part of `GstAudioDecoder` it relies on (external) |
| `CapiDecoder` | the decoder handle of the C ABI and the handles of prepared orientation updates |
| `WasmDecoder` | the browser's decoder: framer, PCM queue, terminal failure |
| `HostProofs` | inductive invariants and theorems about `CapiDecoder`, `WasmDecoder` and `GstElement` |
| `AccessUnits` | where an access unit ends: `parse_access_unit_bounds` and `group_access_units`, as pure operators |
| `UnitReaders` | the framer of the live hosts and the file reader of the command line over one stream |
| `AudioBlocks` | what a block of an AC-3 or E-AC-3 frame inherits from earlier blocks, one action for a block |
| `JocAccessUnitPcm` | the synthesis of access units from several substreams, one action for a frame, a set and the commit |
| `PayloadDecoder` | the object payload: `JocDecoderState` below `PayloadDecoder` and `SceneBuilder`, one action for the decoding on a copy and one for each way it ends |
| `DecodingProofs` | inductive invariants and theorems about `PayloadDecoder`, `JocAccessUnitPcm` and `AudioBlocks` |
| `FilePublication` | how the command-line tool puts a finished file, or an ADM pair, in place: one action for each file operation |
| `FilePublicationProofs` | inductive invariant and theorems about it |
| `MC_*` | small instances for TLC |

The models form a chain of abstractions. `DynamicBinaural`, `ReconstructionTimeline` and `SpeakerRenderer` look
inside objects of which `OpenJocSession` keeps only a number each (the length of the tail, the unit held).
`OpenJocSession` in turn appears in `FfmpegBridge` as a record with the fields a push, a drain and a reset
depend on, and in `GstElement`, `CapiDecoder` and `WasmDecoder` as what they see of it: units held, frames
ready, how it ended. The three adapters, the two readers and the publication of files share no state; `MC_Hosts`
runs them as alternatives of one specification, `MC_Renderers` the loudspeaker and the binaural renderer, and
`MC_Decoding` the audio blocks, the access units, the object payload and the timeline. Operators whose comment begins with "mutant"
are not part of the models: each is a plausible fault of the operator that follows it, kept to show that a
property notices.

### 2.1 DynamicBinaural

A kernel set is its epoch, its sequence number and the pose it was prepared for; `slots` holds
`current`, `target` and `pending` with their sequences and the fade's progress, as the struct
does. `Apply` is `apply_prepared` (checks of epoch, sequence and lifecycle, the queueing, the
superseded sequence, the kernels handed back). `StartBlock`, `StartReconstruction` and
`StartDrain` enter `render_block`, `render_reconstruction_tail_block` and `drain_tail_block`;
`RenderSample` is one iteration of `render_samples` and may begin or end a fade; `FailSample` is
`numeric_failure`; `EndCall` is what follows the loop. `BeginDrain`, `Reset` and `ExhaustEpochs` are
`begin_drain` and the two ends of `reset_to`. Rendering holds the renderer exclusively, so other
operations happen only while `call` is `None`; but they happen between any two calls, of any lengths.

Abstracted: filter coefficients and samples (a non-finite sample is the choice `FailSample`), and
all sources into the longest tail, which is what `remaining_tail_samples` returns.

### 2.2 ReconstructionTimeline

A row is the sequence of the identities of its samples: epoch, QMF position, and whether it came
from the flushed tail. So "the frame got its own samples" can be stated at all. `PushFrame`,
`Finish`, `DrainReady`, `Return` and `Reset` follow `push_frame`, `finish`, `drain_ready` and `reset`;
the discontinuity flag of a frame resets first, as in the code. Positions are capped at
`MaxSample` and added with saturation, as `u64::saturating_add` does. The Base PCM and the LFE
travel inside the pending frame and need no state of their own.

### 2.3 OpenJocSession

An access unit is its number in the segment. `stream` is what `reset_stream_state` clears;
`queue`, `deferred` and `current` are the three output stores that
`docs/site/concepts/architecture.md` names; `mode` is the renderer the session was opened with.
A push is one call and therefore one action, but it may end at many places, and what the code has
stored by then stays stored: `RefusePacket` (timestamp, framing, configuration, profile,
payload), `RefuseUnit` (the renderer's frame index or the timeline), `RefuseTopology` (the Base
channels, compared only after the unit was queued), `HoldUnit` (nothing ready yet),
`RefuseRender`, `RefuseEmit`, `EmitUnit` and `DeferUnit`. `Drain`, `Receive`, `PullInput`,
`PullTail`, `FailPull` and `Flush` are the other public operations. Which refusal a packet meets is
a choice of the environment: the bytes are not modelled. A render or a drain that fails may have made the linked gain
(`gain`) first. The blocks of at most 1024 samples in which the engine hands out its tail are one frame of the same length.

The unit held stands for `ReconstructionTimeline`: with a latency shorter than a unit,
`HeldNoLonger` there says that exactly one unit is held.

### 2.4 FfmpegBridge

A byte is its position in the programme, so that dropped, repeated or torn bytes are visible;
time is counted in units. `Send`, `SendDiscontinuity`, `Receive`, `ReceiveQueued`, `Drain`,
`Flush` and `ApplyPose` are the entries of the public calls; `Pump` collects the iterations of
`pump`; `ReturnStatus` and `ReturnFrame` are the returns. `Panic` is a panic anywhere inside a
call, caught by `guard`; `OuterPanic` is one caught by the ABI around it. A unit is `joc`, `other`
(E-AC-3 without JOC), `invalid` or `broken`. The session is a record; it refuses a unit before
it decodes it (`PushRefused`), after it but before the renderer has queued it (`PushMissed`), or
after that (`PushLate`), and what it keeps differs in the three cases.

A host means a time and writes the nearest tick of its time base (`Tick`, external); the bridge reads it
with `Rescaled`, which is `rescale_q_checked`. `base` is the ratio of a tick to the model's unit of time. The
bases of the run are no longer than that unit, as those of 48 and 90 kHz are no longer than a sample: a longer tick
cannot name every sample, and what the bridge then reads is the host's rounding. The range checks of the conversion
(i128 on the way, i64 at the end) are the refusals of `RefusePacket` and `SendDiscontinuity`. The packet boundaries are
a set: the code keeps them in order of their offsets, and no two are at one offset, for no packet is empty (a part of the
invariant of section 4.4).

### 2.5 FilePublication

The directory maps paths to contents, and a content is who wrote it and whether it is whole. `pc` names the
next file operation and the file of the pair it is for. `Check` to `PutBack` are `StagedOutput::finish` and
`replace_existing_file`; `Link` to `Tidy` are `commit_adm_pair` without permission to replace, with
`publish_adm_no_replace`; `BackUp` to `Drop` are `commit_adm_pair` with it, and `restore_adm_backups`;
`Clean` is `abort`, or what `export_adm` removes after an error. The test for an existing destination and the
rename that follows are separate steps, as they are for the operating system. Every operation may fail; where
the code ignores the result (`let _ =`), so does the model (`Tries`). `Stop` is a crash between two operations,
`Appear` another program. The staging name of a single file is the same in every run, so a crash leaves a file that
the next run refuses (`MayStart`); the siblings of an ADM pair carry the process and the time, the backup of a
single file the process alone, and all are taken to be fresh. So `SetAside` never finds its backup in place, which
would need a process number used again after a crash.

Writing the staged file is one step, or two when it fails in between: nobody but the run looks at a hidden sibling.

### 2.6 SpeakerRenderer and GainScheduler

Three objects keep records of the same objects, and a call changes them at three points: the assembler while it
reads the metadata, the bridge window by window, the linked gain at the end. Each may refuse, and what the
others have stored by then stays. `BeginBlock`, `ApplyBlock` and `Assembled` are `assemble_frame`, with one
`ApplyBlock` for each OAMD block, and an event for each quantum in which something changes; the window actions are `render_coordinates`
between two events; `EndBlock` is the linked gain, which holds one block back, and `Reset`, `StateReset` and `Finish` are the other operations.
`GainScheduler` computes `set_target` and `next_sample` with integer gains: the step is a rounded
quotient, as in floating point, so the last quantum has a remainder to make up.

A descriptor is a place, its projection a level, and one output channel stands for all: every route of an object is
scheduled alike. The anchors of a stream are constant, as `SceneBuilder` demands. A gain that cannot be
represented is refused after its descriptor was replaced, but the decoder of the metadata never yields one, and a place
that is refused leaves its descriptor as it was. Blocks are of one length, so the linked gain never meets another one, which
the code would pass by it unchanged.

### 2.7 BinauralFilters

A sample is the sequence of its terms: which input sample of which source, times which tap. So a convolution is
checked for what it is, a sum over all taps, without arithmetic. `DirectBlock` and `DirectTail` are the engine that
keeps a history; `Candidate` is the one that multiplies spectra, a cyclic convolution of twice the partition.
`RenderDirect`, `TakeBlock` with `StageSamples`, and `RenderScene` are the session, the command line and the scene
renderer feeding one of them; `EndInput` and `DrainTail` end a stream, `FailFilter` is `numeric_failure`, and also the command
line's refusal of an LFE sample that is not finite, after which it does not use the engine again. The
partial partition that the command line stages, and flushes when the stream ends, is `staged`.

### 2.8 The hosts

*GstElement.* A buffer is its number; the base class's queue of frames and the offset within its front frame are
external state. `HandleFrame`, `EndOfStream`, `Discont`, `FlushStop`, `SetFormat` and `Restart` are the calls of the
base class; `PushFragment` and `PushTail` are the iterations of `push_frames`, each of which downstream may refuse.
`RefuseFrame`, `FailDrain`, `RefusePcm` and `RefuseFormat` are the errors. After one the application stops or flushes
the pipeline. A frame refused without a posted error (it is not independent substream zero, it is shorter than its
header says, or output is still pending) could be followed by an end of stream, and so by a drain; that is not modelled.

*CapiDecoder.* `RequireReset` is the poison check at the head of every call; `SendPanics`, `DrainPanics` and
`ReceivePanics` are panics caught in each. A frame whose timestamp is `OPENJOC_NO_PTS` is consumed and poisons
the handle. A prepared update is moved between the caller's handle, the session and the retired kernels of that handle.
Pointers are valid; the streaming handles of the ABI are those of `FfmpegBridge`.

*WasmDecoder.* Push, finish, take and reset against the bounds of the framer and of the PCM queue, and the traps the
glue code turns into a terminal failure. A unit makes at most one PCM frame: the session queues one for each
block it renders, and outside pull mode a push renders at most one. Handle numbers and allocations are left out.

### 2.9 AccessUnits and UnitReaders

A frame is its type, substream number, block count and convsync mark; its bytes come as a header and the
rest. `Bounds` is the incremental parser, which decides with what has been staged; `Groups` is
`group_access_units`, which sees whole frames; `Span` is the look-ahead of the file reader. `UnitsOf` states what a unit
is without reference to a reader. Frames have one size, and `UnitBlocks` is the six blocks of a unit.

### 2.10 AudioBlocks

`AudioBlockState` is what a frame's blocks hand down. What was sent is kept as the block that sent it and its number
of bands, so that "the latest, and for this region" can be stated; code words are left out. `AudioBlock` is one block:
`ReadSpx`, `ReadCoupling`, `ReadRematrix`, `ReadExponents` and `ReadAllocation` are the parsers in the order
of the code, for both codecs and for the first and the following blocks: three parsers, of which the
entries of `PROJECT.json` each point at one and name the others. `sent` is which optional fields the
block has. The guards are the refusals, of the parsers and of the reconstruction that uses what they read.
Subbands are those of the tables. `RefuseBlock` ends the frame, as any error does.

Worth knowing, and in the model as in the code: the reuse of coordinates after a new strategy compares numbers of bands,
not structures; phase flags outlive a strategy that does not use them; a block that starts coupling late, with
SNR offsets coded for the frame, is refused for want of a coupling code; so is one in which a channel leaves enhanced
coupling while the region stays, whose amplitudes are kept.

### 2.11 JocAccessUnitPcm

A delay is the unit and set whose last transform it holds. `StartUnit` makes the copies
`decode_pcm_planes_with_policy` works on and silences the dependents the unit lacks; `DecodeFrame` is
`decode_frame` with the synthesizer, for one substream; `EndSet` appends a set with its calibration;
`ReturnUnit` commits. `FailUnit` may happen between any two of them, and only the copies are lost. A
configuration is a number, with the number of channels and the LFE as its shape.

### 2.12 PayloadDecoder

A filter's memory is named by the call that left it, so that continuing from the wrong frame, or from nothing, shows.
One coefficient, of one object, channel and subband, stands for the matrix: all are interpolated alike, and
`Smooth`, `Steep` and `CarriedForward` are `interpolate_matrix` for one of them, with integers where
interpolation is exact. `DecodeJoc` is `decode_pcm_frame` on the copy `next_joc`. `AppendFrame` is the rest of a
call that succeeds, with the binding as the decoder (`NextBinding`) and as the scene (`Appended`) compute it; `FailFrame` is one that
fails after the copy was made. `FinishPayload` is the flush of the reconstruction tail, `NewPayloadDecoder` the fresh
decoder of a drain or a reset. Calls refused before the copy is made change nothing and are left out, and so are metadata.

Worth knowing: `SceneBuilder` stores the profile of its first frame before it has looked at the metadata, although its
comment calls the append atomic. Under `PayloadDecoder` this cannot be seen, as `BindingAgrees` shows; a program that
appends to a `SceneBuilder` of its own, and goes on after a failure, could see it.

## 3. Runs

Every run finishes within four minutes with two workers.

| Run | Checks | Bounds, and why they are enough |
| --- | --- | --- |
| `dynamic_binaural` (1.6 M states) | `TypeOK`, `AudibleIdentity`, `LatestWins`, `OneFate`, `TailCoversFilters`, `PoseStartsInTime`, `FadeIsContinuous`, `ImplementsMailbox`, `DrainEnds` | two poses with 2 and 4 taps (equal filters, longer and shorter tails), three updates (heard, waiting behind a fade, superseding), fade of 3 samples over blocks of at most 2 (a fade spans calls, a call spans a fade's end), two epochs, 7 samples (the index is used up) |
| `decoding` (783 k) | `DecodingTypeOK`, `InheritsLatest`, `HistoriesContinue`, `OwnSamples`, `HeldNoLonger` | audio blocks: frames of three blocks (sent, inherited, inherited again or changed), two channels, of a stereo frame or of another, regions that begin at the first subbands and in the middle, and one of five groups of fields that a frame may vary. Units: three, of one set and of three, two dependents, three configurations of two shapes. Payload: four calls (one continues, one fails or leaves its object out, one continues again, and the first of a stream), counts up to 2 (they wrap), two widths and two object counts (the one that can be bound and another), frames of 1 and 3 timeslots (the first half empty, and shorter than the second), steep points inside and behind the frame, two profiles. Timeline: latency 2, frames of 0, 1 and 3 samples (empty, shorter and longer than the latency), four frames, starts at 0 and 4, clock of 10 (it saturates), one reset, two rates and topologies |
| `decoding_end` | `ChannelsEndAtCoupling`, violated | the same |
| `session` (128 k) | `TypeOK`, `NoStaleOutput`, `OneUnitHeld`, `TimestampsReturn`, `CompleteMeansAll`, `CompletionIsFinal`, `DrainCompletes` | all three modes; units of 3 samples pulled by 2 (a unit ends with a short block), tail 3, two rates, profiles and Base topologies, timestamps 0 and 4 with a range of -2 to 8 (origins that underflow, sums that overflow), three units (one out, one held, one refused), one reset and a second that fails |
| `session_empty` | `EmptyDrains`, violated | one reset, two units |
| `session_paired` | `Paired`, violated | two Base topologies, five units |
| `bridge` (707 k) | `TypeOK`, `UnitsInOrder`, `StampsHonoured`, `PoseKept`, `EofMeansAll`, `DrainEnds` | owned and pull bridges; units of 2 bytes in packets of 1 to 3 (a packet is part of a unit, a unit and a header, the middle of two), staging of 3 bytes, stamps on time, late or missing, in ticks of 1 and of 3/4 (one that is a fraction off), all four kinds of unit, two poses, two stream epochs and a third reset that fails |
| `bridge_nonjoc` | `NonJocDecodesNothing`, violated | two units, JOC and not JOC |
| `bridge_retime` | `UnitKeepsItsTime`, violated | three JOC units |
| `publication_late` | `KeepsLateFiles`, violated | the publication of `hosts` |
| `renderers` (436 k) | `RenderersTypeOK`, `ControlAgrees`, `RampsEndOnTime`, `OneBlockLate`, `EveryTapOnce` | loudspeakers: stereo without and other layouts with the linked gain; a bed and an object in two places whose levels a quantum count does not divide; two blocks of two quanta of 2 samples; events at samples 1 and 3, ramps of 1 and 5 samples (none at all, and one that ends in the next block); two blocks in an event; one reset or gap, and one block after it (`OneBlockAfterReset`: what a reset leaves behind shows in the first). Filters: of 5 taps and of 1 (three partitions of 2 samples, and less than one), delays 0 and 2, blocks and tail chunks of 1 and 3 samples, three scenes (sources that overlap, one inside the other, none), streams of 6 samples, one reset |
| `hosts` (1.8 M) | `HostsTypeOK`, `PcmKeepsItsTime`, `PoisonFailsClosed`, `KernelsHaveOwner`, `EndMeansAll`, `ReadersAgree`, `NothingLost`, `FailureRestores` | units of 3 samples that come as one block or as two, tail 2 (longer than a fragment), four buffers and two resets; two updates and three frames of the C session; a browser queue of 2 blocks and a framer of 5 bytes, chunks of 0, 1 and 3; every stream of up to five frames, of all types and of sets of 2, 3 and 6 blocks, with one dependent; one file or two to publish, each destination there or not, with and without `--overwrite`, two runs (a crash is followed by another run), three failures in a run (an operation, its compensation and the compensation of that) |

Deadlock is not checked: in every model the host may simply stop calling, and the bounds (last
epoch, last sample, last unit) end every behaviour.

What the passing runs show, apart from types:

- *Orientation.* `AudibleIdentity`: the sequence numbers and the receipt the host reads name the
  filters that are heard. `LatestWins`: the newest accepted pose waits or is heard, never lost.
  `OneFate`: begun, superseded and waiting updates partition the accepted ones.
  No set is freed on the render path or used once handed back.
  `TailCoversFilters`: the announced tail covers both filters of an unfinished fade.
  `PoseStartsInTime`: superseding cannot starve the listener beyond one fade.
  `FadeIsContinuous`: a fade runs to its end.
  `ImplementsMailbox`: the renderer refines `PoseMailbox`; in particular no pose starts in a drain.
- *Audio blocks.* `InheritsLatest`: coordinates, leak and coupling exponents that a block leaves out are those
  sent last for the channel since the tool is in use, for as many bands as the region has, and a standard region that
  sends no structure has, subband by subband, the one sent last, or the default.
- *Access units and object payloads.* `HistoriesContinue` has three parts. `TdacContinuous`: every frame of a unit overlaps the frame of its substream that precedes it in the PCM
  the caller has, or silence, and the calibration of every block is that of its own set. `JocContinuous`: a frame
  whose count and dimensions follow those of the last frame returned goes on from it in analysis, matrix and synthesis, whatever
  failed or was left out in between, any other starts all three from nothing, a smooth slope has no jump, and the
  tail is that of the last frame. `BindingAgrees`: objects are bound exactly while all frames returned had one
  profile, and decoder and scene agree on it.
- *Timeline.* `OwnSamples`: each frame once, in order, with the outputs
  at `start + Latency` onwards, of its own segment, and marked if they reach into the tail. `HeldNoLonger`:
  nothing is held longer, and no more rows are kept, than the latency needs; after `finish`
  nothing is pending, but for frames within the latency of the end of the u64 clock.
- *Session.* `TimestampsReturn`: a stamped unit comes back with its stamp, a unit late and in whatever blocks,
  and what is received has no hole unless the host was told or a splice dropped a unit. `CompleteMeansAll` and
  `CompletionIsFinal`: a completion reported without errors means that every sample and the whole tail was
  received, and stays. `NoStaleOutput`: nothing rendered before a reset is received after it. `OneUnitHeld`:
  metadata and PCM of the unit held stay together through every refusal but one (finding 2).
- *Bridge.* `UnitsInOrder`: units taken and bytes staged are the bytes sent, whatever was
  refused and retried, and a reset leaves nothing behind, also after a caught panic.
  `StampsHonoured`: a stamped packet gives its time to the unit it begins in, and times run on
  without a jump while nothing fails, whatever the time bases. `PoseKept`: a pose
  accepted before the session exists reaches it, and bridge and session agree on the epoch.
  `EofMeansAll`: the end is reported when all that was
  sent was received, or an error was reported.
- *Publication.* `NothingLost`: until all that is new is in place, the old content is in some file, whatever
  fails and wherever the run stops; without permission a pair never replaces or removes what appeared after the
  preflight; a partial file is visible only while it is copied for want of hard links, and success means whole
  files in place. `FailureRestores`: a run that reports an error after one failed operation has left every
  destination as it was, and no backup beside it: a pair is never half replaced.
- *Speaker rendering.* `ControlAgrees`: while blocks are taken, the assembler's records are those of the bridge,
  and once one of them has run ahead every later block is refused until a reset. `RampsEndOnTime`: every route
  is at the level of its record by the quantum nearest to the sample the last event asked for, but for the
  rounding of the steps, whatever ramp it replaced and wherever windows were cut. `OneBlockLate`: the linked
  gain puts every block out once, one block late, in order.
- *Binaural filters.* `EveryTapOnce`: whichever engine, whatever the lengths of blocks and chunks, a sample put out is the
  convolution of the stream so far with all taps, plus the LFE of its own delay, and a drained stream has as many samples
  as it took in and its longest filter adds.
- *Hosts.* `PcmKeepsItsTime`: every PCM sample that GStreamer hands on carries the frame and offset it came from, and
  the tail follows the last unit, through seeks, format changes and refused fragments. `PoisonFailsClosed`: after a
  panic or an unrepresentable timestamp nothing more is handed over before a reset, so no hole goes unnoticed.
  `KernelsHaveOwner`: a prepared kernel set is in exactly one place at any time, and no allocation has two pointers.
  `EndMeansAll`: the browser gets every frame in order, and the end of the stream is told only when nothing is left.
  `ReadersAgree`: a live host and the command line find the same units in the same stream, whatever pieces it comes
  in: those it consists of. In any other stream no reader finds a unit that the grouping splits in two.

### Fairness

- `DynamicBinaural!FairSpec`: a rendering call that was entered runs to its end (it is a loop), and
  a host that has begun to drain keeps draining, as `drain_tail` and the session's drain do.
- `OpenJocSession!FairSpec`: a host keeps receiving (`receive_frame`, `receive_binaural_frame`), the
  loop every caller in the repository runs after `drain`.
- `FfmpegBridge!FairSpec`: a call runs to its end, and the host keeps receiving.
- the decoding stages, `SpeakerRenderer`, `BinauralFilters`, the hosts and `FilePublication` assume none: only
  their safety is checked.

All are weak fairness of actions that stay enabled until they are taken. Nothing obliges a host to
push, drain, reset or send poses. The escapes of the liveness properties are the ones the code has:
an error, a reset, the sample index used up.

### Findings

1. `session_empty`: a first packet that sets the sample rate and is then refused makes `drain` fail
   closed with `EmptyStream`, while `architecture.md:407` says an empty session reaches `EndOfStream`.
2. `session_paired`: `render_frame_aligned` queues a unit and its metadata before it compares the Base
   topology. When that push is refused, the unit that became ready has left the timeline and its
   metadata have not left their queue; when the old topology returns, every later unit is rendered
   with the metadata of the unit before it, and push reports success. `rust-api.md:268-269` says format
   changes are not silently converted into mismatched PCM. The queue also grows with every
   such refusal, although `session.rs:462` speaks of bounded state.
3. `bridge_nonjoc`: after an admitted stream loses JOC, the first call reports invalid data; the next one
   inspects the same unit again and answers `NotJoc`, which `FFMPEG.md:193` reserves for streams of which
   nothing was decoded.
4. `bridge_retime`: a timestamp is resolved, and the timeline moved on, before the session may refuse the unit.
   The unit stays staged and is retried with the time of the unit after it, although `FFMPEG.md:212-215`
   promises the exact sample count.
5. `publication_late`: without `--overwrite`, `StagedOutput::finish` looks for the destination and then calls
   `rename`, which replaces a file that appeared in between, although `speaker-rendering.md:231-232` says that existing
   destinations require confirmation or `--overwrite`. `commit_adm_pair` avoids this with hard links and `create_new`.
6. `decoding_end`: `coupling_end_mantissa` ends a channel in enhanced coupling, in every block but the first,
   where the coupled region ends; the first block ends it where the region begins, and so does
   `docs/PROVENANCE.md:763-766`, for any block. A frame in which such a channel gets new exponents in a later
   block is read out of step from there on.

## 4. Proofs

A proof module EXTENDS the module it is about. Its invariant was checked by TLC before it was proved; the step proof has
one lemma or step for each action. What the theorems state of a run's property holds for all values of
the constants that satisfy the module's named assumption, which asks for no more than that numbers are natural (sizes positive) and that
the value standing for "none" is different from every other.

### 4.1 DynamicBinauralProofs

For all sets of poses, tap counts, fade and block lengths, sequence, sample and epoch bounds that satisfy
`ConstantsAssumption`: `TypeCorrect`, `AudibleIdentityHolds`, `LatestWinsHolds`, `FadeIsContinuousHolds`, `OneFateHolds`,
`TailCoversFiltersHolds`, `PoseStartsInTimeHolds` and `RendererImplementsMailbox`. These are all properties of the run
`dynamic_binaural` but the liveness property `DrainEnds`.

None of the invariants is inductive. That the kernel set heard carries the sequence the host reads, for
example, survives the end of a fade only if the target slot holds the set `targetSeq` names, and
`target` was filled by an update, or by a swap, many steps before. The inductive invariant `IInv` is
the conjunction of `TypeOK` and

- `SlotsInv(slots, epoch, lastAccepted)`: each sequence number beside a slot is that of the set
  in it and of this epoch; a set waits as `pending` only during a fade; the newest accepted sequence is
  the one waiting or, if none waits, the current one;
- `CallFits`: a call in progress fits in the sample index that is left;
- `ReceiptInv`: the last receipt names the sequence being heard.

`SlotsInv` takes the slots as an argument because one sample of rendering is a composition of
functions on them: the lemmas `QueueInv`, `BeginTargetInv` and `AdvanceInv` show that each preserves
it, and the step proof for `RenderSample` cites two of them. What is said of the past of an update, and not only of the
slots, is a second invariant, `HInv`, proved on top of the first: `ModeInv` (which calls each lifecycle allows), `TailInv`
(the tail left, within a call, covers the filters), `WaitInv` (how long a pose has waited is bounded by how far the fade before it
has come) and `FateInv` (accepted updates are begun, superseded or waiting, and slots, retired and host hold every set once).

`RendererImplementsMailbox` maps the slots to the mailbox's one place. A sample may end one fade and begin the
waiting one, and so take the place's content away; an update may supersede it; all else is a stutter. The step
proof has one case for each action.

### 4.2 ReconstructionTimelineProofs

For every latency, frame length, clock and number of segments: `TypeCorrect`, `OwnSamplesHold` and `HeldNoLongerHolds`.
That a frame gets its own outputs depends on where the row of outputs begins. So the invariant says that pending
frames follow one another up to `nextSample` (`PendingInv`); that the row begins where the front
frame's outputs do once anything was returned, and ends at the input clock, or the latency later after the flush
(`ClockInv`, `HeldInv`); that its entries are consecutive, of this segment, and flagged exactly from `tailStart` on
(`RowInv`); that frames taken are those returned and those held (`TakenInv`); and that what was returned was
right (`ReturnedInv`). Saturation makes this delicate: past the end of the clock the row is longer than the clock says, and the
invariant says exactly by how much.

### 4.3 FilePublicationProofs

For any number of runs one after another, of failures in each and of stops: `TypeCorrect`, `NothingLostHolds` and
`FailureRestoresHolds`. `Phase` is the heart of the invariant: where the old and the new content of each file
are, at every value of `pc`, for a single file, for a pair that may replace and for one that may not. A content is
`Untouched` (at the destination), `Aside` (in the backup), `Held` (in one of the two) or `Placed`. What a run may
assume of itself depends on how many operations have failed in it: after one, every compensation has succeeded;
after two, a backup may be all that is left, which is what `NothingLost` allows and `FailureRestores` excludes.
`OwedInv` carries what is owed from a run that stopped to the next one, `FreshInv` says that no
later run's names are in use, `WholeInv` that partial files come from copies only.

The proof has one lemma for each operation, over lemmas about what the primitives (move, link, remove) do to the files.

### 4.4 FfmpegBridgeProofs

The rescaling comes first; `StampsHonoured` rests on it. `RescaledIsNearest`: for every
integer timestamp and every time base, `Rescaled` is off by at most half a sample, and at exactly half it is the sample
farther from zero, on both sides of zero (the sign is taken off before the division and put back after it).
`TimestampsSurvive`: a time written as the nearest tick of a base with ticks no longer than a sample is read back
exactly; both roundings together stay below one sample, and two multiples of a sample closer than that are equal. The
width of the integers is not part of it: in the code a value that does not fit is an error.

The invariant `IInv` has eight parts, one for each thing that a call hands from one place to another. With them
`Invariant` gives five of the six properties of the run, for every size of units, packets and staging, every programme and both
modes (the sixth, `DrainEnds`, is a liveness property):

- `TypeInv`, the types, those of the history included (`TypeCorrect`). What holds the staging within its bound is a guard;
  what holds the epochs is that the reset past the last one poisons the bridge and changes none.
- `BytesInv` and `SegmentInv` (`UnitsInOrderHolds`). `First` is the byte at which the next unit must begin:
  the start of the segment and one `UnitBytes` for each unit pushed. The staging is the bytes from `First` to what the host has sent.
  Only a successful push moves `First`, and it removes exactly the bytes of that unit; every refusal leaves both alone, which
  is why the retry of a refused unit neither loses nor repeats it. `UnitsInOrder` alone is not inductive: that the unit at the front
  is whole and aligned needs that the segment starts on a unit once something has been pushed.
- `StampInv` and `RunInv` (`StampsHonouredHolds`). A stamp is either with a boundary of the staging at the offset of its byte,
  or its unit has been taken, with that time. The offsets are counted from `First`, so a push moves all of them and drops those
  of the unit that leaves. `StampInv` is claimed for time bases with ticks no longer than the unit of
  time (`FineBases`, the hypothesis of the theorem): the theorem rests on `TimestampsSurvive`, and without the hypothesis the host's
  own rounding moves units. The run of times holds until a call reports an error: the timeline then follows the last unit pushed.
  That it holds no longer is the finding of the run `bridge_retime`.
- `PoseInv` (`PoseKeptHolds`): `PoseKept`, and that a bridge without orientation never accepts a pose, without which a reset of such a
  bridge would break it.
- `QueueInv` and `EofInv` (`EofMeansAllHolds`). `FlowInv` follows a unit on its way out: pushed, held by the session,
  cut into pieces that wait in the session or in the output queue, received. All units pushed but the one held have been received
  (`AllOut`), or the last piece of exactly one more is under way (`OneOut`): a push happens only with both queues empty, which
  `QueueInv` says. At the end of the stream nothing is held and nothing waits, so everything has been received.
  It is claimed until a call has failed or the bridge has been poisoned; a reset forgets both.

### 4.5 HostProofs

The C decoder. For any number of prepared updates and of frames between two resets (`MaxFrames` may be any natural number):
`CapiInvariant`, `PoisonFailsClosedHolds` and `KernelsHaveOwnerHolds`. The two need different strengthenings.

`PoisonFailsClosed` speaks of what the host has; what it gets next depends on what is ready. `FramesInv` therefore adds
that, until something is spoilt, the frames handed over and the frames ready are together the frames made, in their order.
A frame that is lost (to the reserved timestamp, to a panic of the receiving call, to a refused packet) leaves that
relation and marks its cause, and the two causes the session does not report itself leave the decoder poisoned. Only a
flush that succeeds clears the causes, and it restarts the count with them.

`KernelsHaveOwner` finds a kernel set through the handle that holds it; `KernelsInv` has it as a case split,
in an update, in the engine, freed, or retired in exactly one handle. An update is applied into a handle that may have been used:
that its list of retired sets can be overwritten without losing one is the lemma `RetiredReturned`, by which
only a handle that has come back to the host has any, and an update handle has not. A panic while an update is applied leaves the set in the engine or
freed, never in both.

The browser's decoder. For any bound of the PCM queue and of the pending bytes, any sizes of chunks, of tails and of what one
call may produce: `WasmInvariant` and `EndMeansAllHolds`. `PcmInv` says that the frames the host consumed, the one it looks at and those queued
are consecutive, and that nothing else was made unless an error is recorded. `CallInv` is why that
survives the calls that clear the queue: a call works only while there is no PCM, neither exposed nor queued, and the decoder has not ended; what
ends it is an error, or a drain that left no byte and no unit behind.

The GStreamer element. For any length of a unit and of the tail, every way of cutting them into blocks, any number of buffers and of
resets: `GstInvariant`, `GstTypeCorrect` and `PcmKeepsItsTimeHolds`. Of the constants they need `GstAssumption`: a unit and the
tail have samples, the blocks of a split are not empty and add up to a unit, and `None` is no session and no step.
`PcmKeepsItsTime` says what was stamped; what the next sample is stamped with depends on three counts that move in
different methods. `CountInv` ties the two on the element's side together: the frames of the base class are the last `Len(pending)` units
given, and the front one lacks as many samples as are not yet stamped from it. `AnswerInv` is about the session, a unit late: the
blocks that wait add up (`Total`) to what is missing of the units it has answered, or, once it is drained, of all units and the
tail. So no block is left over when the last unit is complete unless the session is drained, and only the tail is handed on
without a frame; and what a drain gives is never nothing, which is why the base class has put out PCM, and calls flush,
before a flagged buffer begins a segment. Nothing of this is claimed after a failure, where a fragment may be counted twice, until
a flush or a restart has cleared both sides.

### 4.6 OpenJocSessionProofs

For all modes, sizes of units, pulls, tails and linked gain, ranges of timestamps, sets of rates, profiles,
cores and topologies, and any number of units in a segment and of resets: `Invariant`, `TypeCorrect`, `NoStaleOutputHolds`,
`OneUnitHeldHolds`, `TimestampsReturnHolds`, `CompleteMeansAllHolds` and `CompletionIsFinalHolds`, every property of
the run `session` but the liveness property `DrainCompletes`. Beside `ConstantsAssumption` they use `NoneAssumption`: the value that stands for
"none" is neither a frame nor a block being pulled.

The properties speak of what the host has received; what it receives next is spread over the timeline, its metadata
queue and three output stores. `IInv` says where each sample is and what position it has there:

- `StreamInv` and `HeldInv`: the units decoded are as many as `next` counts, each is stamped with the origin of the segment and its place
  in it, and the metadata queued are those of the unit held. A push refused for its Base topology ends the second part for good (the
  finding of `session_paired`), which is why `HeldInv` and `OneUnitHeld` exclude it.
- `StoreInv`: which stores may hold something in which mode. Owned PCM holds one frame before the drain and at most
  two after it; a block is deferred only when none is being pulled; a session becomes terminal only when nothing is pending and an error has been reported.
- `EpochInv` and `StampInv`: whatever waits was rendered in this epoch, and lies where its unit does.
- `OrderInv` and `ChainInv`: until a unit is lost, the unit held, the block expected next, the end of the output, the frames
  that wait and the last frame received follow one another without a gap. This is what `TimestampsReturn` needs. It is not
  inductive alone: four counters (`next`, `expected`, `end`, `frame`) move in different statements, and
  every refusal leaves a different part of them behind. `Excused` names the refusals after which it is claimed no longer;
  a failed render is not among them, for the session then refuses every later unit rather than give one out of place.
- `OpenAccount` and `AccountInv`: received, waiting, lost and held samples add up to those pushed; after the drain, with the
  tail of the engine or the block of the linked gain added. `EndInv` bounds the end of the output, so that the last positions are numbers of the model.

A push resets, pins, decodes, queues and renders in one step. The proof follows it through the same stages:
`Resting` is the invariant between two packets, before a discontinuity clears the segment or after it; `Behind` is what
holds when the packet is decoded; `Rest` is what any stage must leave when it refuses. There is
one lemma for each way a push ends and one for each other action.

### 4.7 RendererProofs

The loudspeaker renderer. For any coordinates, objects, places, scalars and event times, any length of an access unit and any number of blocks and
resets: `Invariant`, `ControlAgreesHolds` and `OneBlockLateHolds`, which use `NoneAssumption` as in 4.6, and `RampsEndOnTimeHolds` from an
invariant of its own on top, `RoutesInvariant`. The assumptions for the last are that a quantum is even, as the code's 32 samples are, and that no ramp
is longer than `MaxQuanta`, which bounds the rounding that `RampsEndOnTime` allows (`RampsAssumption`); TLC evaluates both.

- `ControlInv`, for `ControlAgrees`. While a frame is assembled the records of the assembler run ahead of the
  binding by all events of the frame; while it is rendered the binding follows window by window, through patches that hold only what
  changed, with the events that changed nothing left out. The two copies agree again only at the end. What they
  share in between is a course of records `H`, one for each quantum: an event takes `H[q]` to `H[q + 1]`, without one they are the same,
  the last is what the assembler has, and the binding has the one of the window that comes next. `ApplyCourse`
  extends the course by a block, `AssembledControl` drops the empty events from it, `WindowControl` moves the binding along. `PatchRestores` is the lemma
  behind that: a patch applied to the record it was made from gives the record it was made for.
- A refusal leaves the two copies apart. It also leaves `clock` beyond `expected` (`FailControl`), so that nothing is rendered until a reset
  clears both; this is the part of the argument that needs `InOrder`.
- `OutputInv`, for `OneBlockLate`. The quanta rendered end where the next is expected, the linked gain holds the last of
  them or silence, and what is put out is one behind. It holds no longer once a refusal may have replaced the engine, and then `InOrder` is false.

- `RoutesInv`, for `RampsEndOnTime`. A route is on its course (`OnCourse`) when the quanta that remain take it to the sample `due` and its steps to the
  target, but for the rounding of less than one unit a step. A target sets a route on its course whatever it did before (`Steered`), rendering any
  number of quanta keeps it there (`Walks`), and a window that refreshes nothing finds that the binding asks for what it asked for (`SameRecords`,
  by the course of records above). That windows only begin between quanta is why `phase` is 0. When the ramp ends is said by `due` in terms of the
  nearest quantum, which `NearestIs` shows the code's offsets and shifts to compute; `EventsInv` says that an event is kept at the quantum of its start.
- `Advance` is a recursive function of the number of samples. `AdvanceIs` shows that it is the closed form `After` for any number of them, `AdvanceQuanta` what that is after whole quanta.

That a function is constant over a stretch (`Constant`) or that a recursive one has a closed form (`AdvanceIs`) is an induction, done by the least
counterexample: `LeastNat` derives from the library's theorems on well-founded relations that every set of natural numbers with an element has a least one.

The binaural filters. For any number of sources, any lengths of their filters, any partition, sizes of blocks and chunks, scenes and number of
resets: `FilterInvariant` and `EveryTapOnceHolds`. Of the constants they need `FilterAssumption`: every source has a tap, partitions and blocks
have a sample, the spans of a scene are numbers, and the LFE is delayed by less than the longest filter: its delay is that of the resampling,
which is in the taps. The last is what makes the tail of the filters also that of the LFE.

`EveryTapOnce` says what was put out, so the invariant has to say what is still to come. With `n` samples taken and `m` put out:

- the direct engine (`DirectIs`) remembers the last inputs of every source before position `m`, as many as it has taps after the first, and how
  much of each source's tail is left;
- the partitioned engine (`PartitionedIs`) has in its queue, for each of the next `QueueLength` samples of the output, every term of the first `n`
  inputs and nothing else (`Filters`). Where it reads the queue in the tail is less than a partition ahead of the tail, and
  the queue is that much longer than the longest filter (`QueueLengthIs`), so that `PartitionedTail` never fails;
- the delay (`DelayIs`) holds the LFE from position `m - d` on;
- what the command line has staged (`InputInOrder`) is the input between the two, less than a partition. In a scene every block but the last is
  whole, so the engine is told of the end exactly once: with the last block if that is shorter, and else without a sample (`Ending`, `WholeBlocks`).

Every operation then moves `(m, n)` to `(m + c, n + c)` or to `(m + c, n)`, and there is one lemma for each: `DirectTakes`, `DirectDrains`,
`PartitionedTakes`, `PartitionedFinishes`, `PartitionedDrains`, `DelayTakes`, `DelayDrains`. They rest on two facts about sums.

- *A sum lists its terms.* A sample is a sequence, folded over sources, partitions and taps; `Lists(x, S)` says that it enumerates the set `S`
  without repetition. `ListsSum` gives the terms of a fold as the union of those of its parts if these share none: the fold is a
  recursive function, and the argument is again the least counterexample. That different taps and sources never share a term is `WeightedApart`.
- *Partitions add up.* `ProductIs`: the spectrum's cyclic convolution does not fold a tap back onto another sample, for a block and a partition of
  at most `Partition` samples. `SourceBlock`: every tap is in exactly one partition (`OnePartition`, `SomePartition`). `BlocksAdd`: what a
  block adds to a later sample is what the sample lacked (`CandidateIs`).

After a failure what was put out before it stays exact; nothing is claimed of the engine that failed.

### 4.8 DecodingProofs

The three stages of decoding that inherit state, each for its own specification and for the run's, where they are
alternatives: `InheritsLatestHolds` and `HistoriesContinueHold`, and the parts of the latter, `TdacContinuousHolds`,
`JocContinuousHolds` and `BindingAgreesHolds`. The assumptions say of the constants what the code's types say:
coefficients and codes are integers, a group has at least one set (`PayloadAssumption`, `UnitAssumption`, `CodeAssumption`).
`PayloadAssumption` also wants the differences of coefficients to be divisible by the lengths of a slope, so that the model's integers stand
for values the code interpolates without rounding; the constants are then multiples, and any number of them.

- *Object payload.* `JocContinuous` looks at one call and at the last frame returned; between the two lie calls
  that failed. `JocInv` says that the decoder's whole state is a function of that last frame (`Carried`), and that what a
  running call works on is a function of its input and of that state (`Decoded`). A call that fails then leaves nothing because it
  never touched the decoder, and a splice, a change of width and a change of the objects each reset exactly what the code's
  three conditions say. That a smooth frame moves in equal steps (`SmoothSteps`) is arithmetic on both halves of the frame.
- *The binding.* `BindingInv` ties the two accounts of it, the decoder's and the scene's, to the profiles that every frame
  returned admits, and says that nothing else than no frame at all leaves a decoder without a scene.
- *Access units.* `TdacContinuous` compares each frame decoded with what precedes it, in the unit or in the last one the caller got.
  `UnitInv` says what the working copies are at each point of the loop over sets and substreams (`Copies`): the caller's for a
  substream not yet reached, nothing for a dependent that is absent, the frame just decoded otherwise. `Committed` says that at rest
  the delays are those of the caller's history, so that a unit that fails in its second set is as if it had never begun.
  `Calibrated` follows the list of dialnorm segments: a new entry is made only where the value changes, and yet the value in force at each block
  is that of its set (`ChangePutDown`, `SetEnds`).
- *Audio blocks.* `InheritsLatest` speaks only of tools in use. A field outlives its tool, and a block that switches the tool on again, moves it or
  gives it to other channels must not find it. `AudioInv` adds what decides that: the channels whose coordinates
  must be sent are those outside the tool (`firstSpx`, `firstCoupling`), AC-3 forgets the coordinates of a channel that leaves, and the
  boundaries stored are, for every subband, those of the last region sent that covers it or the default (`StructureInherits`). The last is why a
  region that moves over what an earlier one has overwritten is still right.

### 4.9 What stays with TLC

- Liveness (`DrainEnds` of the renderer and of the bridge, `DrainCompletes`) and anything with `ENABLED`.
- `ReadersAgree`, which compares recursive readers of a stream.
- The type invariants of the compositions, `RenderersTypeOK`, `HostsTypeOK` and `DecodingTypeOK`. What they say beyond the invariants proved are
  bounds of the instance: that `clock` stops at `MaxQuanta`, say, holds where that is a multiple of `FrameQuanta`.

## 5. Plan

Order: the renderer that a host thread drives while audio runs, the timeline below the session, the session, the
bridge above it, the publication of files, the spatial rendering, the hosts and the readers, the state of the
audio decoder and of the object decoder. All of these are done.

## 6. Not modelled

Signal arithmetic (mantissas and bit allocation, the product of JOC matrices and subbands, QMF, transforms, gains,
HRTF interpolation, projection geometry) is floating-point computation without interleavings; its state enters
only as lengths and positions. Stateless parsers and writers are left to unit tests, with the pure functions
of the plan excepted. Inspection and diagnostics observe and never feed back. Patches to other programs,
user interfaces, packaging and release scripts are no part of the decoder. `PROJECT.json` gives the reason for each.
