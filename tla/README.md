# MV-Tractus: a TLA+ model of the motion vector extractors

MV-Tractus extracts motion vectors (and optionally frames) from video files
with a bundled FFmpeg. This directory holds TLA+ modules translated from its
source, TLC configurations that check them on small instances, and TLAPS proofs
of the most important properties for every value of the parameters.
`PROJECT.json` lists components, runs, mutants, hazards and theorems, and maps
every definition to the lines it models.

## 1. Inventory of the program

| part | state it keeps | operations | what makes it correct |
|---|---|---|---|
| `src/c/extract_mvs.c` | static `video_dec_ctx`, `video_stream`, `video_frame_count`, `frame`; the files `./output/mv/<n>.json`, which outlive the process | `extract_motion_vectors` (open, read loop, flush, end label), `decode_packet`, `open_codec_context`, `main` | one well-formed file per decoded picture, numbered without gaps in display order; only an interrupted file is cut; a call returns |
| libavcodec's decoding interface (`include/libavcodec/decode.c`, `bsf.c`) | codec context: the packet in the filter, the picture decoded ahead, draining flags, error counter; inside the codec, pictures held back for reordering | `avcodec_send_packet`, `avcodec_receive_frame` | no picture lost, end of stream only after the last one, no endless drain |
| `include/custom/queue.c` (demonstrated by `experiments/queue-2.c`) | circular buffer, `front`, `rear`, `itemCount` | `enqueueFrameData`, `dequeueFrameData`, `peek`, `isEmpty`, `isFull`, `size` | first in, first out; a full queue drops the new item and nothing else |
| the record of a vector (`extract_mvs.c`, copied into every extractor) and its arrow (`mvtpy/mv_tractus/overlay.py`) | none | write the JSON object, draw the arrow | an object points forward in time and the arrow ends where it should |
| `src/c/extract_mvs_with_frames.c` | as `extract_mvs.c`, plus RGB buffers and `./output/frames/frame<n>.ppm` | as above plus `SaveFrame`, which gives up silently | every JSON file has its frame or none, never another one; nothing is left open; a call reads its own video |
| `src/c/e_json.c` | context, counter, a JSON array per packet, a global record `fmv` that points to one | `createConnection`, `extract_motion_vectors`, `decode_packet` | the array handed out ends with the vectors of the frame handed out |
| `src/cpp/efmvs.cpp`, `efmvs_2.cpp` (`FMV` class) | per object: context, `gotFrame`, `buffer`, `cv_mat`, `mv_json_array`, a counter that wraps | `connect`, `extract_motion_vectors` (one packet per call), `flush_cached_frames`, `getMAT`, `getMVJSON`, setters, `freeStuff` | the vectors handed out are those of the newest frame; an extraction leaves nothing behind for the next and uses nothing that is gone; the loops stop at the end and only there. The picture handed out is gone: finding 4 |
| `mvtpy/mv_tractus/wrapper.py` | two loaded libraries, cached per process | constructors create directories, `get_motion_vectors...` call into C and release the interpreter lock | a library finds its directories; threads with an object of each class damage no file of one of them alone |
| `mvtpy/mv_tractus/overlay.py` | output files | `overlay_motion_vectors` | vectors are drawn on the frame they belong to |
| `experiments/extract_mvs_with_frames_in_DS_with_Q.c` | the queue above plus the extractor | enqueues once per packet, stops reading when the queue is full | no frame is left out before the flush, no entry is dropped or changes later |
| scripts, build files, vendored FFmpeg/OpenCV | - | - | not part of the model; codecs, demuxers and I/O are nondeterministic results |

The parts interact through function calls (extractor to libavcodec, Python to
the shared library), through statics that survive from call to call of the
shared library, and through the output directories, which survive from process
to process and are read by the overlay. There are no threads in the C code. What is hard
is the order of packets, delayed pictures, errors and the end of the stream; the
order of calls, kills and restarts; an overlay that reads directories somebody is
writing; and two Python threads, each in a library of its own, over one directory.

Behaviours that are hard: the order of packets, delayed pictures, errors and the
end of the stream in libavcodec's two-sided interface; statics and pointers that
outlive the call they were set in; failures of one step among several
(`open_codec_context`, `fopen`, the flush); processes killed in the middle of a
file, and directories that mix the files of several runs; counters and indices
that wrap. `PROJECT.json` lists them as hazards, each at its line.

## 2. Modules

| module | models |
|---|---|
| `Decoder` | a codec context as a record; `SendPacket` and `ReceiveFrame` return the set of outcomes (return code, new context). What a packet contains and whether decoding fails is nondeterministic. |
| `DecoderClient` | a client that sends and receives in any order: the contract of the interface on its own |
| `FrameLog` | the abstract promise of an extractor: an append-only log of whole frames per process, in order |
| `ExtractMvs` | `extract_mvs.c` over `Decoder`, as a command and as a library called repeatedly, with kills and restarts over one directory; it implements `FrameLog` |
| `FMV` | the methods of the class of `efmvs.cpp` and `efmvs_2.cpp` over `Decoder`, called in any order |
| `MainLoop` | the clients: one that calls in any order, `main` of both, and the loop of the Boost.Python client |
| `BoundedFifo`, `FrameQueue` | the abstract bounded queue and the circular buffer that implements it |
| `MvRecord`, `MCMvRecord` | one vector from the motion of a block to the drawn arrow, and its instance |
| `ExtractMvsWithFrames` | `extract_mvs_with_frames.c` over `Decoder`: two directories, calls, kills and restarts; its vectors implement `FrameLog` |
| `Overlay` | `overlay_motion_vectors` reading those directories while `ExtractMvsWithFrames` runs |
| `EJson` | `e_json.c` over `Decoder`, with a heap of JSON arrays |
| `QueueExtractor` | the experiment with the queue: `EJson` composed with an instance of `FrameQueue` |
| `Wrapper` | the two Python classes, their directories and two threads; of the libraries only what the directories see |
| `DecoderLemmas` and the modules `*_proofs` | the proofs; `Package_proofs` has those of the Python package (`Wrapper`, `MvRecord`), `FMV_proofs` those of `MainLoop` too, `QueueExtractor_proofs` those of `EJson`, `Overlay_proofs` those of `ExtractMvsWithFrames` |

Operators whose comment begins with "Mutant:" are not part of any specification.
Each is a mapped definition with a plausible bug; `PROJECT.json` names, for every
property, the mutant under which it fails.

### How state and actions correspond to the code

**`Decoder`.** The fields of the record are the flags of `AVCodecInternal` and of
the null bitstream filter that decide what a call does. `input` condenses them:
`none`/`data` is the filter without or with a packet, `eof` the filter's end of
stream (tested in `bsf.c` before its packet, hence `eof` hides a packet),
`draining` and `done` the two flags of the codec side. `out` is `buffer_frame`,
the picture `avcodec_send_packet` decodes ahead; `held` the pictures the codec
keeps for reordering; `errors` is `nb_draining_errors`. `taken` and
`frame_number` count pictures decoded and received. `DecodePacket` and
`DrainCodec` are the two uses of `codec->decode` in `decode_simple_internal`; a
packet yields at most one picture, as one access unit does.

**`ExtractMvs`.** One action per statement that can return, fail or be
interrupted: `OpenInput`, `OpenCodec` (assigns the statics on success only),
`CheckStream`, `Read`, `Send`, `Receive` with `OpenJson` (counter, `fopen`, the
opening bracket), `WriteVector`, `CloseJson`, `End` (the end label, which leaves
`video_stream` dangling). `mv` is the directory `./output/mv`, a function from
numbers to files; a file is its list of tokens with ghosts that say which
process, call and frame wrote it. `Call` models both `main` (one call) and the
Python wrapper (many calls, one process). `Kill` leaves of the open file what had
been flushed; `Restart` is a new process over the same directory.

**`FMV` and `MainLoop`.** `Connect`, `Extract`, `flush_cached_frames`, `getMAT`,
`freeStuff` are the methods, `Set` is `setFrameFlag` or
`increase_current_frame_number` called by a client; `Read`, `Send`, `Receive` are the statements inside
`extract_motion_vectors` and `decode_packet`; `AfterPacket` is the `if` at
efmvs.cpp:351 with its early return. `buffer` follows the pixels `pFrameRGB` refers
to through allocation and `av_freep`; `cv_mat` the pixels the Mat wraps, which are the
same and not a copy (211), so `FreePixels` leaves it dangling. `jarray` is the local array that is cleared
after it has been handed over, `mv_json_array` the one handed out: the number of the frame
whose vectors it ends with, `Null`, or `Garbage`. `gotFrame` starts with either value and `mv_json_array` with `Garbage`, since `new`
initialises neither. A client that copies a freed picture may crash or not.
`MainLoop` adds `client`, which of the clients runs, `frame_num`, and the place of a loop. `main` and
`process` of `efmvs_2.cpp` call `getMAT` and drop what they get, which touches no pixel, so they are
`"main"`; the loop of `extract_mvs_with_frames.py` is `"python"`, where the binding copies the
pixels into an array (`toNDArray` of `python-boost/opencv-ndarray-conversion-master/conversion.cpp`).
The class of `efmvs_2.cpp` is the instance `Wrap = 2500`, `SideData = {"none"}`.

**`FrameQueue`.** The globals of `queue.c` under their names; `dequeueFrameData` and
`peek` do not test for an empty queue, the client of `queue-2.c` does.

**`ExtractMvsWithFrames`.** The places of one call are as in `ExtractMvs`, with
`AllocRGB` for the second `av_frame_alloc` and its `return -1` (327-329) and
`SaveFrame`, `CloseFrame` for the frame file. `input` is the call whose video
`pFormatCtx` reads: when it is not NULL, `avformat_open_input` keeps the input it
finds (`libavformat/utils.c:416-430`). A file records the picture it is about
(process, call, video, frame) and whether it was closed. `skipped`, `lost` and `unopened` are ghosts:
the calls that skipped the end label, the number of contexts nothing points to any more, and how
many of those were allocated and could not be opened (`open_codec_context` returns at 248
and 256 without freeing them).

**`Overlay`.** One action for each time the loop looks at a directory: `List` (glob),
`FindFrame` (the frame is looked up and decoded, 71-82), `DrawAndSave` (the vectors are
loaded and the PNG saved, 84-102). Between two of them, `ExtractorStep` is any step
of the extractor. A cut file raises.

**`EJson` and `QueueExtractor`.** `arrays` is the heap of JSON arrays, each the list of
frames whose vectors it has; `fmv.mv` is a pointer into it. `HandOut` is the body of the
receive loop: the frame is replaced always, the pointer only when there are vectors
(257). `Return(enough)` is the loop around `decode_packet`: e_json never has enough,
the queue extractor has when `isFull()` (448). `Enqueue` is the call at line 293, part of the step in
which `decode_packet` ends without an error.

**`Wrapper`.** `Construct` makes the directories, `Call` loads and enters a library;
`Receive`, `SaveFrame`, `OpenJson`, `CloseJson` are the steps of a call that touch
a directory. A file both libraries have open may end as either text or a mixture.

**`MvRecord`.** `Export` is what `add_mb` of `mpegutils.c` records of a motion,
`Object` the arithmetic of the JSON object with the truncating division of C,
`Draw` the arrow of `overlay.py`.

## 3. Runs: what is checked and what it shows

| run | instance | shows |
|---|---|---|
| `decoder_client` | delay 2, 1 drain error, 5 packets | no order of calls loses a picture; the end of the stream means that all were received |
| `decoder_eagain` (violation) | delay 1, 4 packets | both calls may answer EAGAIN in a row, against avcodec.h:145-147 |
| `extract_mvs` | 2 processes, 2 calls each, 2 packets, 2 vectors, delay 2, with fairness (702 841 states) | files are numbered, ordered, complete and well formed, through decoding errors, failing `fopen`, faults and kills; `FrameLog` is implemented; every call returns or ends its process |
| `extract_mvs_no_stream` (violation) | 1 process, 2 calls | the second call of a process on an input without video does not abort |
| `overlay` | 2 processes, 2 calls each, 2 packets per process, delay 1 (2 452 075 states) | frames and vectors of one number are one picture; only the last file of a killed process is cut; a call extracts its own video and leaves nothing open, unless the end label was skipped, and a context lost is due to that or could not be opened; an overlay never shows two pictures of one process, is complete in quiet directories, and raises only over what a kill left; the vectors implement `FrameLog` |
| `queue_extractor` | 4 slots, 6 packets, delay 2 (17 872 states) | an array has the vectors of one frame, the record the newest; up to the flush every frame is queued in order, no entry is dropped, and none changes later |
| `wrapper` | two output directories, 3 pictures for each library (145 524 states) | directories exist where their files are opened, unless an object was made for another one; a frame has its own vectors unless the other library has come to its number; only files both had open are damaged |
| `main_loop` | wrap 2, 4 packets, 1 failed allocation, delay 2, with fairness (99 559 states) | in any order of calls: the array of the newest frame, nothing left behind, no fault in an extraction; `main` never faults, the Python loop only in `getMAT`; both stop only at the end, and after a frame the end of the input does end them |
| `main_loop_picture` (violation) | the same, no side data as in `efmvs_2.cpp` | the picture the Python loop takes has been freed |
| `main_loop_no_stream` (violation) | the same, with fairness | without a video stream `main` never ends |
| `frame_queue` | 3 slots, 3 items | the circular buffer is a bounded first-in first-out queue |
| `mv_record` | positions -7..7, references -3..1 | objects run forward in time; the arrow ends at `dst`, or one pixel beside it when rounding differs |

`overlay` checks the invariants of `ExtractMvsWithFrames` too, since every behaviour
of the extractor is one of `OverlaySpec` in which the overlay does nothing; and
`queue_extractor` those of `EJson`, since both programs have the same `decode_packet`
and with room in the queue the same loop. `main_loop` checks the invariants of `FMV`, since
`AnyMethod` is the whole next-state relation of the class.

Bounds, and why they are enough. `Delay = 2` lets a flush return several frames
and a packet reorder before another; more only repeats that. `MaxDrainErrors = 1`
stands for 21: the code compares the counter with the limit once, so the cases
are below, at and beyond it. `MaxRuns = MaxCalls = 2` are the least that show a static surviving a call
and a file surviving a process. `MaxPackets` must exceed the delay
by enough for a frame to come out before the end; with 2 packets one
picture may be held while another is written, with 4 the class delivers more frames
than `Wrap = 2`, so its counter wraps. In `Overlay` the bound is on the packets of a
process, so that two calls may share them: two pictures in one call, delayed to
its flush, or one in each. Six packets with four slots let the queue fill before, in and
after the flush. Three pictures let the two libraries of `Wrapper` overtake each other
in both directions. `MaxMvs = 2` has the empty array, the single
vector and the comma. `MAX_FRAMES = 3` stands for 250: three slots distinguish
first, middle and last. Positions on both sides of zero exercise both directions
of truncation. The theorems below remove most of these bounds.

Deadlock is not checked where the program really stops: after its last bounded
run (`ExtractMvs`, `Overlay`), after `freeStuff` or `exit` (`MainLoop`), at the
end of `main` (`QueueExtractor`), when the interpreter has ended (`Wrapper`), and when an
arrow is drawn (`MvRecord`).

Fairness. `FairSpec` is weak fairness of `Step`, the statements inside a call: a
process that is not killed continues. It says nothing about `Call`, `Kill` or
`Restart`, and chooses no outcome of a call. `FairMainSpec` is weak fairness
of `LoopNext`, as each loop is one sequential program; a client of any order may stop. Neither makes the input end:
the bound on packets does, so liveness is about finite inputs.

### Findings

1. *EAGAIN at both ends* (`NeverBothEagain`). avcodec.h:145-147 promises that
   EAGAIN on one end means the other end will not answer EAGAIN. With one picture
   decoded ahead and one packet waiting in the filter it can. The extractors are
   not affected: they send only to a drained context (`SentOnlyWhenDrained`).
2. *No abort without a video stream, second call* (`AbortsWithoutVideoStream`). The test at extract_mvs.c:243
   looks at a static pointer that the end label does not reset.
3. *`main` of efmvs never ends without a video stream* (`AbortsWithoutVideo`). The
   method returns `ret < 0`, 0 for the error value 1, and 0 equals the counter.
4. *The picture is freed before it is handed out* (`PictureIsThere`). `decode_packet` puts a Mat around
   the pixel buffer without a copy (efmvs_2.cpp:235), the extraction frees the buffer (411)
   before it returns, and `getMAT` gives the Mat to the Python loop, which copies and shows
   those pixels. efmvs_2.cpp:336 calls the tool "Compatible with Python".
   `PicturesAreGone` proves that no order of calls gives a client a picture that is there.

Three more disagreements with a doc string were met; the properties above say exactly
how far they reach, so they have no run of their own.

- *A call may extract an earlier video.* wrapper.py:66 says "Extract motion vectors and
  frames for the configured video path." After a call that returned at
  extract_mvs_with_frames.c:329 the next one reads on in the old input. `OwnVideo` and
  `NothingLeftOpen` show that this is the only way.
- *Another `output_dir` is made but not used.* wrapper.py:52 says "Ensure the expected
  output directory exists on disk." The library is not told about it and ends the
  interpreter when `./output/mv` is missing: the second disjunct of `ExpectedDirectoryExists`.
- *The colours of the overlay.* overlay.py:51 says "color_p: RGB color for P-frames
  (source >= 0)." `add_mb` (mpegutils.c:36-49) exports a vector into the past, the only
  kind a P frame has, with source -1, so line 96 draws all of them in `color_b`. Colours are not modelled.

## 4. Proofs

All theorems hold for every value of the constants under the named assumptions of
the modules: delay, error limit and bounds are naturals; a queue has a slot; a wrap
is positive.

*The decoding interface.* `DecoderLemmas` states, once, what an outcome of each
call can be. `Consistent` is the invariant: decoded pictures are those received,
held, or decoded ahead, and a context is done only if it holds none or a drain
step failed. `DecoderClient_proofs` derives the three properties of the client.

*The extractor.* `ExtractMvs_proofs` proves types, `OwnFiles`, `InOrder`,
`SentOnlyWhenDrained`, `EveryPictureWritten`, `TornOnlyWhereInterrupted` and the
refinement of `FrameLog`. None of them is inductive alone. `CodecPhase` says what the
context looks like at each place of the program (drained before a send, draining
during a flush, error counter zero until a failure); `Numbers` ties the static counter, the
context's own count and the call that wrote a file; `Texts` says that the open file
is the prefix of a JSON array that the loop variable names. The
refinement maps the closed files of the process to the log: `CloseJson` publishes
the file of the current number, `Restart` starts the log over, every other step
leaves the closed files as they are.

*The FMV class.* `FMV_proofs` proves the four invariants for any client, then that the
loops are such clients (`MainIsAClient`), and from both that `main` never faults, the Python
loop only where it takes the picture, and that both stop only at the end. The invariant says for
each place what is open, live and
drained; its core is that a packet sent to a drained context yields at most one
frame before EAGAIN (`OneFramePerCall`), so the second frame that would find the array handed over
and put NULL in the place of the first one's vectors
cannot come; in a flush it does, but only after a fault, since `Pixels` says that a flush
finds no pixels that are live. The same conjunct gives `PicturesAreGone`.

*The queue.* `Indices` relates `rear`, `front` and `itemCount`. It has three cases:
not wrapped, wrapped, and the empty queue with `rear` at the end and `front` at 0,
which satisfies neither of the others and is reached whenever the item of the last
slot is removed last. `QueueIsFifo` shows that two waiting places never share a slot
and that each operation is one of `BoundedFifo`.

*Frames, vectors and the overlay.* `Overlay_proofs` proves the five invariants of the
extractor under `Spec` and the three of the overlay under `OverlaySpec`. `Vectors`,
`Counted` and `Frames` say whose file a number has; `AtHand` that the file being written is
about the picture being worked on; `Video` and `Contexts` follow the input and the
context through calls that skip the end label. `Contexts` bounds the contexts lost by the number of
skips and of contexts that could not be opened, for which an open context the call is about to
overwrite has to be counted with those lost already. For the overlay, `OInv` says what the frame in its hand is worth: the vectors of its
process, if they still exist, are about the same picture. It needs `Paired` of the
moment the frame was read and the fact that a process never replaces a file of its own.

*Records and their queue.* `QueueExtractor_proofs` proves the six properties of the run for
every delay and size of the queue. `Phase` says when the context is drained; from it,
`EmptyContextAsks` gives that a packet yields one frame, so an array never gets the
vectors of two before the flush. `UpToDate` says that before the flush the queue lacks
at most the frame in hand and has room for it; `Closed` that entries do not point to
the array being filled.

*Vectors.* `Package_proofs` proves, for every position and reference, the direction of an
object and that two truncated quotients differ from the truncated quotient of the
difference by at most one.

*The wrapper.* The same module proves the three properties of `Wrapper` for every number of
pictures and every set of output directories. Their invariant `WrapperInv` adds to them
`Made` (behind an object are the directories its constructor made, and only an object
calls) and `Written`: a file that a library is writing is its own or shared, and neither a
shared file nor a frame has a number its writers have not come to. `Written` is what
keeps a library that opens the next number away from a file that is whole already.

*The vectors as a log.* `VectorsAreALog` shows that the vectors of the extractor with
frames implement `FrameLog`, as those of `extract_mvs.c` do. Beyond that proof it needs
`Order`. The return that skips the end label leaves a context open, so a call may begin
over one, but always with a context that has not decoded anything; the number of a file and the
context's own count then differ by `Base`, the counter at that moment, and the files of
the call are exactly those above `Base`. `Unfinished` says that the one file not yet in the log is the one
being written.

*Clients of a component.* A theorem about a component holds inside a program that uses
it only if the program is one of the clients the theorem quantifies over. Three theorems
show that: `MainIsAClient` (above), `RecordsAreFifo` (the queue extractor uses the circular
buffer by its own operations only, so `QueueIsFifo` holds of its records), and
`IsTheWrappersLibrary`. The last maps the extractor with frames to `Wrapper`: the
places of its call to the places of the library there, its directories and counter to
those of `emv_frames`, the other library idle, the bound on pictures to the number
of packets. A process begins as an interpreter with its object made (`Constructed`), and
while it lives each of its steps is a step of the library there or leaves the wrapper
unchanged. So what `Wrapper` lets a library do to the directories covers what this
one does, and its properties are not due to a model of the library that is too
small. A kill, and the file it cuts, has no counterpart in `Wrapper`, and a restart is a new
interpreter: neither is part of the claim. `extract_mvs.c` is not shown this way, since
`ExtractMvs` counts a picture and opens its file in one action where `Wrapper` has two.

*Termination.* `CallReturns` and `EndsAfterAFrame` are liveness under fairness and stay
with TLC. What carries them is proved for every bound: a variant in `Nat \X Nat \X Nat`
that each statement lowers lexicographically, whatever the codec answers (`CallsRunOut` for both
extractors, `MethodsRunOut` and `MainRunsOut` for the class and its loops, `RecordsRunOut`
and `QueueRunsOut` for e_json and the queue extractor). That nothing goes
down in this order for ever is the lemma `NoEndlessDescent`, a fact about numbers and not about this program. The first count is the packets that can still be read, the
second the pictures the context can still hand out (`Deliverable`), the third the
way to the next read or receive. Sending adds to the second only what a packet brings
(`DeliverableSent`) and receiving takes one off (`DeliverableReceived`); an endless drain would need a
receive that returns a frame and takes none. `MainRunsOut` needs the frame that has come
out: without one a loop does go on for ever, which is finding 3. What is left
to TLC is the step from the variant to the end of a call, which needs
fairness and that a statement is always enabled.

*No frame without a packet.* From the same count follows that the pictures handed out and those that
can still be handed out together never exceed the packets read (`FromPackets`), hence
`NoFileWithoutPacket` for both extractors, per process and over calls that take over an
open context, and `NoFrameWithoutPacket` for the class under any client and for e_json. The
proof of `IsTheWrappersLibrary` takes its bound on pictures from there.

Only model-checked: liveness (`CallReturns`, `EndsAfterAFrame`), which needs ENABLED and
is out of the prover's reach, and the four violations. Only proved: the types of `MainLoop`
(`MainTypes`), that no picture handed out is there (`PicturesAreGone`), the termination variants, the bounds by packets, and that one model is a
client of another.

## 5. What is left out

Inside the modelled parts: running out of memory inside libavcodec; frame threads
(no extractor asks for them); the output directory argument of the command; text
printed to the terminal; a packet that holds several pictures (field pairs and
raw streams without a parser); pixel contents.

In the extractors, errors of `fprintf`, `fwrite` and `fclose`, which none of them checks: a full disk cuts a
file without a kill, so `TornOnlyWhereInterrupted`, `CutOnlyAtTheEnd`,
`RaisesOnlyOverTheKilled` and `FrameLog` hold for a file system that takes what it is
given. The pixel buffers, whose `av_malloc` is not checked either (extract_mvs_with_frames.c:334), are assumed to be
there. Contexts lost are counted in `ExtractMvsWithFrames` only; other memory that is only leaked is not.

In `FMV`, the scaler and the pixel allocation are assumed to succeed as the code assumes, and
calls after `freeStuff` are not made. Two exported methods are modelled only as the other methods
call them: `open_codec_context` called by a client alone would open a second context over the first, and
`decode_packet` called alone uses `this->pkt`, which points to a local variable of an
extraction that has ended (344), unless a flush has set it to NULL. Frames without side data leave
`mv_json_array` as it was, so `getMVJSON` then gives the vectors of an earlier frame: `VectorsOfTheFrame`
speaks of frames with side data only. Getters that change nothing have no action, but for `getMAT`,
whose result may be gone.

In `EJson`, what `SaveFrameInDS` writes (it appends to memory it has not initialised and
prints row addresses instead of pixels) is abstracted to the number of the frame. In
`Overlay`, `stride` and `max_vectors_per_frame` (they choose arrows and keep no state)
and files that do not have a number for a name. In `Wrapper`, two threads inside
one library: every static of the C code is then written without a lock, and no
property survives. The first loading of a library by two threads is left out as
harmless, since `CDLL` of one path gives one library.

Whole parts, each with its reason in `PROJECT.json`:

- `getQueue` and `main` of the queue experiment do not compile (`i.frame_data` of an int, a
  struct returned as a pointer), so they have no behaviour to model.
- The scripts are command lines around the modelled libraries and the build files run
  compilers: no state of their own at run time.
- Vendored FFmpeg and OpenCV, more than a million lines, are the tools of this program and not its
  logic. What the extractors see of them is modelled (the decoding interface, the
  export of a vector, the reuse of an open input); codecs, demuxers and image processing
  enter as nondeterministic results. This is why the map covers nearly all of the
  program's own C, C++ and Python and a small part of the tree.

## 6. Plan

Everything planned is done: the decoding interface, the extractors over their
directories, the class and its main loops, the records and their queue, the wrapper and
the overlay, each with its proofs. What could follow: showing `ExtractMvs` to be the other library
of `Wrapper`, with its counting and opening in two actions; a log of the frames directory next
to the log of vectors, which has to allow for the frames `SaveFrame` gives up silently.
