# Formal models of the Armino AVDK media and audio core

The repository is Beken's AVDK, the audio and video development kit of the
three-processor BK7258. Its own logic sits in `components/multimedia`,
`components/bk_audio`, `components/media_utils` and a few small components
around them; the drivers, the operating system and the channel between the
processors are outside the repository (prebuilt or in another tree). This
directory holds TLA+ models of that logic, the TLC configurations that check
them on small instances, and proofs for TLAPS of what matters most for every
instance.

The sections: [the system](#the-system), [the plan](#the-plan),
[the four modelled components](#ringbuf-the-audio-ring-buffer),
[findings](#what-the-models-found), [what is proved](#what-is-proved),
[what is only model-checked](#what-is-only-model-checked),
[what is not modelled](#what-is-not-modelled), [how to run](#how-to-run).

## The system

The data flow is: a camera (DVP, UVC or net camera) fills *frames* taken from a
*shared frame list*; pushed frames are read in place by *modules* (decoder,
transfer, storage, capture); the *image pipelines* decode, scale and rotate
them line buffer by line buffer for the LCD. Audio flows through *pipelines* of
*elements*, each a task, joined by *ring buffers*. Requests from the application
processor to the others, and notices back, travel over the *media mailbox*.

| Component | State it keeps | Operations | Interacts with | Hard behaviour | What makes it correct |
|---|---|---|---|---|---|
| Ring buffer (`bk_audio/audio_pipeline/ringbuf.c`) | memory, `p_r`, `p_w`, `fill_cnt`, mutex, two binary semaphores, done/abort/unblock flags | `rb_read`, `rb_write`, `rb_done_write`, `rb_abort`, `rb_unblock_reader`, `rb_reset` | elements' tasks on both ends, application task | flags set outside the mutex; give and take of semaphores interleaved; wrap at the end; whole-word reads | FIFO; no byte lost; no lost wake-up; abort and done end every wait |
| Shared frame lists (`multimedia/comm/frame_buffer.c`) | free and ready list, per-frame read and free masks, per-module enable/plugin bit-fields, register mask, event bits | `fb_init/deinit/clear/malloc/dual_malloc/push/pop/read/free/direct_free/register/deregister` | camera drivers (producer), decoder, transfer, storage tasks (modules) | three masks decide reuse; `plugin` race; registration at any moment; psram exhaustion | a frame being read is never reused; every frame comes back; a reader is never left asleep |
| Media mailbox (`multimedia/mailbox`) | per processor: req list, rsp list, queue from interrupts, two semaphores; messages in callers' stack frames | sync call, notify, respond, send back, rx/tx-complete interrupts | mb_chnl (external), service tasks on the three processors | a message is shared by two processors and several tasks; retries; time-outs; both sides call each other | at-most-once service; no dangling message; every call returns; the last notice arrives |
| Audio element (`bk_audio/audio_pipeline/audio_element.c`) | state, `is_open/is_running/task_run/stopping`, command queue of 5, event bits | run, resume, pause, stop, wait_for_stop, terminate, deinit; its task's loop | ring buffers, event interface, pipeline | application calls race with the task's loop; commands that find the queue full; event bits cleared by one side and awaited by the other | every `wait_for_*` ends; stop is final; no command is applied in a state it is not meant for |
| Audio pipeline and event interface (`audio_pipeline.c`, `audio_event_iface.c`) | linked elements, shared ring buffers, listener queue sets | link, run, stop, wait_for_stop, change_state, report | elements | finish events from several elements; state computed from reports | finished only when the last element is; ring buffers shared by exactly two |
| Image pipelines (`multimedia/pipeline`) | line buffers with status, events between decode, scale, rotate, encode; open/close locks | open, close, buffer ready, buffer done | frame lists, mailbox (cpu2 decode) | hand-over of two buffers between three tasks; close while a buffer is out | no buffer is written while it is read; close terminates |
| Media event loops (`multimedia/core`, `multimedia/app/media_app.c`) | a message queue per processor; reference counts of opened modules | one handler per event | mailbox, all media services | non-blocking sends into a queue of 20 whose failure is ignored | every request is answered exactly once |
| CPU1 power (`media_app_mailbox.c:298-391`) | request count, one-shot timer, boot event | startup/shutdown request, check state, timer | mailbox initialisation | timer firing while a request comes in | cpu1 is on while somebody needs it |
| Camera and LCD control (`multimedia/camera`, `multimedia/lcd`) | device handles, states | open/close/rotate/scale | drivers outside the repository | mostly configuration | - |
| Storage and transfer (`multimedia/storage`, `multimedia/transfer`) | a task and a queue each | open, close, capture, save | frame lists | consumers of frames; start and stop | a stopped consumer holds no frame |
| Voice transfer (`multimedia/aud`, `app/aud_*`) | ring buffers, device state | open, close, set, data paths | mailbox notices | long sequential configuration | - |
| Psram slab and media IPC (`media_utils`) | allocation bitmap; IPC channel list | malloc/free; sync calls | all media services | concurrent free and alloc; sync call over a callback | blocks never overlap; calls return |
| Wifi transfer (`wifi_transfer`) | packet list, frame being assembled | send frame, receive fragment | network (external), frame lists | fragments lost, repeated, reordered | only complete frames are pushed |
| Utility ring buffer (`avdk_utils/src/ring_buffer.c`) | address, capacity, rp, wp | read, write, fill and free size | voice paths | full versus empty | FIFO |

Left aside: `lvgl`, `bk_thirdparty`, prebuilt `avdk_libs`, fonts, images, the
demos under `projects/`, and the older copies `components/media` and
`components/codec/legacy`. The lines of each hazard these components are exposed to
are listed under `hazards` in `PROJECT.json`, each with the properties that would
catch it going wrong or the reason why none does yet.

## The plan

| # | Module | Composes | Abstract specification | Status |
|---|---|---|---|---|
| 1 | `RingBuf` | - | `ByteFifo` | modelled, checked, safety and refinement proved |
| 2 | `FrameBuffer` | - | `FrameOwner` | modelled, checked, safety and refinement proved |
| 3 | `Mailbox` | - | `MailboxCall` | modelled, checked, safety and refinement proved |
| 4 | `AudioElement`, `AudioPipeline` | the elements' tasks, the application's calls, and the ring buffers as `RingBuf` shows them: data first, then done, then abort | `ElementLife` | modelled, checked, safety and refinement proved |
| 5 | Image pipeline hand-over of line buffers | - | single owner per buffer | next |
| 6 | CPU1 power | mailbox's start | cpu1 on while requested | after 5 |
| 7 | pure algorithms: psram slab, utility ring buffer, fragments of wifi transfer | - | reference definitions over bounded inputs | last |

The runs are kept few, one per question, so each checks several properties at
once: three of each component. Where two variants of a component are to be checked,
one run takes both: a variable of the MC module that never changes says which variant
the behaviour is of, and the other one is an INSTANCE with other constants.
Every safety property of the passing runs is proved. What the proofs rest on and could do
without is next: `QueuesFit` for links that lose notices.

Conventions of all modules: parameters are CONSTANTS with a named ASSUME;
one action per critical section or per point where another task can get in; the
definitions carry the names of the source; a comment `mutant` marks a definition
that is not the code but a plausible mistake in it, which a property is shown to
catch. Bounds of the model that the code does not have are named as bounds where
the constants are declared.

## RingBuf: the audio ring buffer

`RingBuf.tla` models `ringbuf.c` step by step. `rpc`, `wpc` and `cpc` are the
program counters of the reading task, the writing task and the task that calls
`rb_abort` or `rb_unblock_reader`; `rlen/rsize/rtotal/rret` and
`wlen/wtotal/wret` are the locals of `rb_read` and `rb_write`. A task switch can
happen wherever a program counter changes. The bytes of one critical section move
in one step because the mutex is held around them (`RdCopy`, `WrCopy`); `RdSize`
and the copy are two steps because the mutex does not stop `rb_reset`; the flags are
written outside the mutex at any time. Offsets keep the code's `>` wrap test, so
`Size` itself is a legal offset. `fill_cnt` is unsigned: a subtraction wraps at
`UMod`, as `rb_bytes_available` would. Returned byte counts are abstracted to
`RB_OK`; that the right bytes were moved is what `FifoSpec` says.

| Run | Instance | Question |
|---|---|---|
| `ringbuf_safe` | 2 byte values, size 3, words of 2, requests of 1 and 4 | types and no wrap below zero (`TypeOK`), pointers and count agree, no lost wake-up in either direction, never both asleep, `RB_DONE` leaves at most an incomplete word (`DoneLosesNoWord`), and the buffer is a FIFO (`FifoSpec`, against `ByteFifo`) |
| `ringbuf_live` | size 2, words of 2, requests of 3 | abort, done and unblock end every call; two elements that keep calling exchange everything |
| `ringbuf_reset` | size 6, words of 4, request of 5 | see [findings](#what-the-models-found) |

Why these bounds: requests both shorter than, and longer than, the buffer make every
wait happen; size 3 against words of 2 makes every read wrap at a different offset
and leaves incomplete words; two byte values tell order, and loss shows as a wrong
prefix. `Word` is 4 in the code: nothing depends on it but `WholeWords`.

Fairness (`FairSpec`): every ready task runs (weak fairness of the steps of the
reader, the writer and the control task), and the mutex is handed to each task
that waits for it (strong fairness of taking it; FreeRTOS queues waiters). No
time-out ever has to come. `Exchange` additionally assumes that both sides keep
calling (`KeepCalling`): weak fairness of `RdCall`, and strong fairness of `WrCall`,
which is not continuously enabled once a writer can be told to stop. It needs a
buffer of at least one word; a smaller one could never hand out a word.

`ResetWhileReading` says whether a writer may call `rb_reset` under a running
`rb_read`. `audio_element.c` resets an output ring buffer in its own task while the
next element may be reading, so TRUE is the code; with FALSE the theorems and the
other runs show that this is the only thing that can go wrong.

A subtlety the model covers: `rb_read` tests `is_done_write` twice (`ringbuf.c:167`
and `:177`), and `rb_done_write` does not take the mutex. When it falls between the two,
the first test has rounded the size down to zero whole words and the second answers
`RB_DONE`: the bytes of an incomplete last word, which the first test exists to hand out,
stay behind. `DoneLosesNoWord` says that this is all that can be left.

## FrameBuffer: the shared frame lists

`FrameBuffer.tla` models one list of mode `FB_MEM_SHARED` (JPEG, H264, H265), its
nodes, one producer and the modules registered for it. `free` and `ready` are the two
linked lists as sequences; `read_mask` and `free_mask` are sets of modules;
`enable` and `plugin` the two bit-fields of `fb_mod_t`; `handle` the
`FRAME_BUFFER_READ_COMPLETE` bit of each module; `frame` the local pointer of
`fb_read`, which survives its loop. A node deleted by `fb_deinit` is a node of
`Node` on no list, which a later `fb_init` may allocate again.

A critical section under `mem_list->lock` is one action, except
`frame_buffer_fb_push`, which walks the modules with the lock held but interrupts
on: `plugin = true` is a read-modify-write of a byte that also holds `enable`, so it
is a load and a store (`PushLoad`, `PushStore`), between which `fb_deregister`, which
takes another lock, may clear `enable`. The test of `plugin` and the setting of the
event bit are one action (`PushNotify`): nothing else sets the bit under that lock,
and the two orders with a concurrent reader lead to the same states.

| Switch | Meaning | Why it exists |
|---|---|---|
| `Evicts` | `dual_malloc` or `fb_malloc` of a type other than H264 | H264 frames are not evicted |
| `PsramFails` | the psram heap may run out | the node is marked `error` for good |
| `UseDisabled` | the list is used after a half-failed `fb_init` or after `fb_deinit` | `media_ui.c:177` ignores the result |
| `Clears`, `Deregisters` | `fb_clear`, `fb_deregister` are called | the two together are the refree finding |

| Run | Question |
|---|---|
| `framebuffer_safe` | two lists. One is deregistered from at any moment and used while it is half initialised; the other is cleared, and its frames are refused by psram. Of both: no node in two places (`OnePlace`), a frame in use is marked as such (`HeldMarked`), each module sees the frames in order (`ReadInOrder`), a sleeping module is armed (`SleeperIsArmed`), and only published frames are read, none recycled or refilled meanwhile (`OwnerSpec`, against `FrameOwner`). Of the second: no read bit is left behind (`ClearedNothingStranded`) and `fb_malloc` gives up only when each ready frame is being read (`ClearedNullMeansBusy`) |
| `framebuffer_live` | two lists. JPEG: with eviction every registered module goes on reading, in spite of the race between `plugin = false` and `fb_push` (`JpegKeepsReading`). H264: without eviction that race can starve a module; `H264StarvedByExhaustion` says it is the only way: no frame is left to push |
| `framebuffer_refree` | see [findings](#what-the-models-found) |

Bounds: two nodes, two modules, one frame in the producer's hands. Two modules are
the least that can disagree about a frame, two frames the least that can be in the
wrong order; with `Count` of 2 the producer meets both an empty free list and a ready
list that it may or may not evict from. A second frame in the producer's hands
changes nothing that a module can see.

Fairness (`FairSpec`): each ready task runs; the list's mutex is handed to whoever keeps
asking (strong fairness of the sections it guards); the producer keeps producing
(weak fairness of allocation and of the push's walk, strong of the push itself, which
competes for the mutex). None for time-outs, registration, `fb_clear` or the
owner's `fb_deinit`; `KeepsReading` speaks only of modules that stay registered on a
list that stays open.

The guards that are promises of callers outside the repository: `FbDeinit` waits until
no module holds a frame; without `UseDisabled` also until the producer gave its frames
back.

## Mailbox: calls between the processors

`Mailbox.tla` models the three mailbox threads (`media_app_mailbox.c`,
`media_major_mailbox.c`, `media_minor_mailbox.c`), which are the same code three times
but for the differences the model keeps: MAJOR's send-back is compiled out, MINOR's
handler ignores responses, each side has its own neighbours. A message is one
record shared by everybody who has its address (`type`, `dest`, `count`, `ack_flag`,
`result`, `sem`); `req`, `rsp` and `queue` are the lists and the queue of each side,
`pc` and `cur` its thread. The address travels on `wire`; the peer's `rx_isr` is
`Receive`, the sender's `tx_cmpl_isr` is `Complete`. The thread's decisions read the
message again after its wait, when the peer may already be answering: `Completed`
reads the fields as they are then, and `Acked` queues the message one step later.

The channel `mb_chnl` is external. What is taken of it is what the code relies on: one
command per direction, `mb_chnl_write` fails until the last one is completed,
`tx_cmpl_isr` follows the peer's acknowledgement. On the links of `Lossy` a command can
be completed without reaching `rx_isr`, or be lost and block the link (`Fault`, at most
`FaultMax` of them).

| Run | Instance | Question |
|---|---|---|
| `mailbox_crossed` | APP calls MAJOR and MAJOR calls APP at once; commands from MAJOR to APP are refused or lost, 3 faults | nobody keeps the address of a message whose call has returned (`NoDanglingMessage`), queues of `QueueSized` entries drop nothing (`QueueRoom`), a call is served at most once (`CallSpec`, against `MailboxCall`), without losses crossing calls return (`CrossedCallsReturn`). Commands from APP are not lost here, so no call fails |
| `mailbox_retry` | APP calls MAJOR over a link that refuses or loses commands, 3 faults, while MAJOR sends a notice again before the last copy was handled (2 copies) | types, the notice's last content arrives (`NoticeKept`, `NoticesSeen`), every call returns (`CallsReturn`), and it was served once, or its caller was told that it failed and then it was not served (`CallSpec`) |
| `mailbox_spin` | MAJOR calls MINOR over a link that loses commands | see [findings](#what-the-models-found) |

Three faults are what it takes to use up the retries (`count > 2`). A queue of the code has
15 to 20 entries, which no instance small enough to check fills. So the runs take the shortest
queues that drop nothing. `Entries` lists what a queue may hold at a time: a request once from
its sender's peer or its own `rx_isr`, once more from the thread that notes it for its answer,
and a notice once for each copy. `QueueSized`, which TLC evaluates on each instance, says that
there is an entry for each: 3 in `mailbox_crossed`, 4 in `mailbox_retry`, and with one less TLC
finds `QueueRoom` violated in both. With a queue of 2 a notice that `rx_isr` has acknowledged
is dropped for good, and `NoticeKept` fails. Nothing in the code limits the callers or the
notices to the length of its queues; `NoticeMax` is a bound of the model. Deadlock is not checked where
responses can be lost: their callers then wait for ever, and the system may stop.

Fairness (`FairSpec`): every thread that is ready runs or times out, every interrupt
comes, every service task answers and every caller whose semaphore was given returns.
Nothing makes a caller call, a notice be sent or a command be lost.

`Late` = FALSE is an assumption about the channel: a command is completed within the
2000 ms the thread waits for it, or never. With TRUE the protocol does not hold: the
retry finds the channel still busy, the call is reported failed, its caller's stack
frame is gone, and then the peer serves the command that was on its way all the
time. `NoDanglingMessage` and `CallSpec` fail at once. The hazard list names the line.

## AudioElement and AudioPipeline: a pipeline of tasks

`AudioElement.tla` models `audio_element.c`: one task per element, which takes commands
from its queue (`Receive`) and calls `process()` between two commands (`Run`, `Read`,
`Write`). `AudioPipeline.tla` extends it with the thread of the application, which calls
the functions of `audio_pipeline.c` one after the other. A function of the pipeline makes
the same call for each linked element: `call` is the function, `cur` the element, `apc` the
point within that call, `tpc` the point each task is at. Nothing of what the application
and the tasks share (`state`, `is_running`, `task_run`, `stopping`, the queue's wait time
`poll`, the event bits `bits`) is guarded by a lock, so a switch can happen wherever a
program counter changes; a handler is split where it has set the state and not yet
`is_running` and its event bit ("stopped", "ended", "paused", "refused"), and around
`open()`.

| Code | Model |
|---|---|
| `audio_element_run` | `CreateNot`, `Create`, `CreateFail`, `Created` |
| `audio_element_resume`, `_pause` | `ResumeNot`, `Resume`, `Resumed`; `PauseNot`, `Pause`, `PauseReturn` |
| `audio_element_stop`, `wait_for_stop_ms`, `reset_state` | `StopNot`, `StopAtRest`, `Stop`, `ClearStopped`, `SendStop`; `WaitStop`; `ResetState` |
| `audio_element_terminate`, `_deinit` | `TerminateNot`, `Terminate`, `Terminated`, with `TermReturn`; `WaitForStop`, `Free` |
| `audio_pipeline_run/resume/pause/stop/wait_for_stop/terminate/deinit` | `Call`, `Return`, `Finish`: which function, the next element, what follows |
| the task: `on_cmd_*`, `process_init`, `process_running` | `OnCmdStop`, ..., `Stopped`, ...; `Open`, `Opened`, `OpenAborted`, `OpenFailed`; `Read`, `Write`, `Done`, `Abort`, `Fail` |
| the task before and after its loop | `Start`, `Begin`, `NoBuffer`, `Exit`, `Left`, `Gone` |

A ring buffer is a count of units with `done` and `abort`. `process()` is the one all
elements of the repository have: read, then write, and return what was not data.
A wait of 2000 ms ends in a time-out only if the element's task is blocked in a ring buffer
(`TimedOut`): a task that can run gets to its command first. What the time-out leaves
behind, a command that is executed later, is part of the model, and so is a queue that such
commands have filled: `Send` then drops the next one. `gave_up` remembers the elements whose
last `audio_element_terminate` returned `BK_FAIL`, because DESTROY found no place or the wait
timed out. The code drops that result; the model keeps it to say what goes wrong only then.

| Run | Instance | Question |
|---|---|---|
| `pipeline_life` | 2 elements; every function of the pipeline, in three kinds of behaviour (below): pauses at any time, ends of data and `open()` that fails or is aborted, no memory for tasks and buffers | types and no overflow; `LifeSpec` (against `ElementLife`): open, process and close alternate, no task is left without the close; no STOPPED bit of an earlier stop while an element processes (`NoStaleStop`); when a wait for an element returns it is closed (`WaitMeansStopped`) and no element is open until the next run (`StoppedForGood`); nobody is in a ring buffer that may be reset, nor in a destroyed one unless terminate gave up on the element (`RingsQuiet`); an element on which it did not give up is freed only when its task has closed it and left its loop (`FreedPastLoop`), which is less than one would wish: see [findings](#what-the-models-found) |
| `pipeline_live` | 3 elements; run, stop, wait, reset, deinit, ends of data and failures | a stop reaches elements that are blocked (`StopReaches`), every call returns but for one named interleaving (`CallsReturn`), the end of the data travels (`DataEnds`) |
| `pipeline_hasty` | 2 elements, not `Patient` | see [findings](#what-the-models-found) |

Bounds. Two elements share a ring buffer, of which each end blocks; three are the least
with an element that is blocked on both sides. One unit per ring buffer (`RbSize`)
makes it full and empty in turn. The queue of the code has 5 places (`CmdMax`), and so has the one
of `pipeline_live` and `pipeline_hasty`. In `pipeline_life` it has 3, so that the pauses which
time out fill it within a run small enough to check: all of RESUME, PAUSE, STOP and DESTROY
find it full at some time.

The application may pause and resume at any time while the pipeline plays, in any order and any
number of times (`May`); nothing asks whether the last PAUSE was executed. To keep the run short
`MCAudioPipelineLife` splits what can happen to a pipeline over three kinds of behaviour,
chosen at the start (`trouble`): "pauses" with any pauses and resumes, but every `open()` succeeds,
data does not end and the application does not call `reset_ringbuffer`; "ends" with ends of
data and `open()` that fails or is aborted, but one pause at most after each run and one resume
after it; "memory" with refused memory as well, but without pause and resume. `process()` fails in
`pipeline_live`. The theorems on this component have none of these bounds: what they assume is
named with each.

`Patient` says that the application calls stop when every element has opened. It is what
the functions' callers do (they stop a pipeline that plays), and it is what
`pipeline_hasty` gives up. Promises of the application without which nothing holds:
it waits after each stop, stops before it terminates, and calls from one thread.

Fairness (`FairSpec`): each task runs when it can, and the application goes on in a call
that it has begun. Not fair: that it calls anything, that data ends or that `open()` fails.

## What the models found

- **A reset under a running read** (`ringbuf_reset`, `FillWithinSize`). `rb_read` uses
  the size it computed from `fill_cnt` although `rb_reset`, which takes no lock, may have
  cleared it meanwhile; the subtraction wraps and `fill_cnt` is huge, where
  `ringbuf.h:89` promises the number of bytes in the buffer.
- **A frame freed twice** (`framebuffer_refree`, `NoRefree`). `fb_read` frees a frame
  that `fb_clear` marked bad and continues with the pointer still in its local; when
  `fb_deregister` ends the loop it returns that frame, and the module frees it again.
  The log of `fb_free` calls that an error ("refree"). By then the frame may be
  with the producer. The proofs assume `OneOfThem`, that not both of `fb_clear` and
  `fb_deregister` are used, and show that it is the only way to this.
- **A request given up for ever** (`mailbox_spin`, `GivenUpReturns`). MAJOR hands a
  request that was sent three times in vain to a function whose body is compiled out
  ("maybe need send again"); it is put back, popped, logged and put back, without
  end, and its caller never returns. In the counterexample the last step changes
  nothing any more: it is that endless loop.
- **A wait that returns on an earlier stop** (`pipeline_hasty`, `WaitMeansStopped`). The
  STOPPED bit of the last stop (or of a failed `open()`) is cleared only after `open()`, but
  RESUMED, which lets `audio_pipeline_run` return, is set before it. `audio_element_stop`
  clears STOPPED only in the state RUNNING. A stop during `open()` finds INITIALIZING, and
  `wait_for_stop` returns at once while the element opens, where `audio_pipeline.h:179`
  promises that it waits until all elements "actually stop".
- **A wait that never returns** (`Forgotten`, the exception of `CallsReturn`). Between the
  test of RUNNING (`audio_element.c:1280`) and the clearing of STOPPED the element, whose
  ring buffers were aborted two lines before, may stop and set the bit. It is then cleared,
  the STOP command finds the element stopped and sets nothing, and
  `audio_pipeline_wait_for_stop` waits `portMAX_DELAY`.
- **An element freed under its task** (`pipeline_life`, `FreedPastLoop`). `audio_element_deinit`
  frees the element (`audio_element.c:1089`) while its task may still use it, in three ways:
  1. The task sets DESTROYED (`:512`), on which terminate returns, and then writes
     `el->audio_thread = NULL` (`:514`), into memory that may be free by then. This can happen
     to any pipeline that is deinitialised; the task needs only lose the processor between the two.
  2. The task clears `task_run` (`:507`) before it sets its last bits (`:510-512`), and terminate
     returns `BK_OK` at once for an element whose `task_run` is false (`:1158`).
  3. terminate gives up, when DESTROY finds the queue full (`:1141`) or the wait times out
     (`:1145`). Pauses that timed out fill the queue, also of a pipeline that never failed; after a
     run that failed, the task of an element blocked in its ring buffer never gets to DESTROY.
     `audio_pipeline_terminate` (`audio_pipeline.c:374`), `unlink` and `deinit`
     (`audio_element.c:1063`) go on all the same, and destroy the ring buffers and free the elements.

  `FreedPastLoop` and `RingsQuiet` name just these cases: `gave_up` is the third; of the points
  that `PastLoop` admits, `tail` is the first and `left` the second, and at `exit`, which comes
  just before it, the task has closed the element. TLC finds `FreedPastLoop` violated when any one of
  the four is dropped, `RingsQuiet` when `gave_up` is.
- Met on the way, without a run of their own: `audio_pipeline_pause` ignores that an element
  blocked in its ring buffer did not pause in time; resume finds it RUNNING, and the PAUSE in the
  queue stops it later, against `audio_pipeline.h:142`. Pausing an element that is finished,
  stopped or failed makes it PAUSED (`audio_element.c:1190`), so that a resume opens it again.
  A run after a stop keeps the abort flags unless `reset_ringbuffer` is called, and the
  elements stop at once (`audio_pipeline.h:166` speaks of a restart without it).

## What is proved

All theorems hold for every value of the constants that satisfies the modules' ASSUMEs.

`RingBufProofs`, assuming `~ResetWhileReading`:
- `Invariance`: the inductive invariant is `TypeOK`, `PointersAgree`, the mutex
  is held exactly in the critical sections (`LockInv`), inside its section the reader's size is
  covered by `fill_cnt` and zero only if there is nothing to take (`ReaderInv`),
  `WriterInv`, and the three wake-up invariants. `ReaderInv` is where a reset under a
  running read would break the proof, and why `fill_cnt` cannot wrap without one.
- `TypeCorrect`, `PointersCorrect`, `ReaderWoken`, `WriterWoken`, `OneAwake` follow from it.
- `NoWordLost`: a step that makes `rb_read` return `RB_DONE` leaves less than a word. The reader
  comes to that test with a size of zero, and by `ReaderInv` it is zero only if less than a
  word was there, whichever of the two tests of `is_done_write` the flag falls between.
- `Refinement`: `Spec => FifoSpec`. Its two lemmas say what the memory holds after a copy:
  `ReadIsPrefix` (taking n bytes leaves the rest of the queue) and
  `WriteAppends` (storing a chunk that fits appends it), both around the wrap.

`FrameBufferProofs`, assuming `OneOfThem`:
- `Invariance`: besides `TypeOK`, `OnePlace` and `HeldMarked` the invariant says what
  `fb_read`'s local pointer means at each of its points (`LocalFrame`), what
  cannot happen unless `fb_clear` or `fb_deregister` is used (`FlagsStay`), that only a
  module that read a frame has freed it (`BitsNested`), and for `SleeperIsArmed`, that a
  module with `plugin` set has its bit or is about to look at the list, also while
  a push is between its load and its store (`Armed`).
- `TypeCorrect`, `NoDoubleLink`, `HeldFramesKept`, `NoSilentSleep` follow.
- `Ownership`: `Spec => OwnerSpec` under the same assumption, one
  lemma per kind of step; it uses the invariant for "the frame a module holds is on the
  ready list" and for "a frame whose masks agree has no reader".

`FrameBufferOrder`, on top of that invariant:
- `FramesInOrder`, assuming `OneOfThem`: the invariant behind `ReadInOrder` is that a module
  which has its read bit on a frame has it on every earlier frame of the ready list. A new
  frame joins at the end with no bit set, and taking a frame off leaves the others in order.
- `BitsSettle` and `NullOnlyWhenBusy`, assuming also `~UseDisabled` (and `Evicts` for the
  second): each bit of `read_mask` without its bit of `free_mask` belongs to a module that
  holds the frame now. A frame freed on a closed list breaks this, which the hazard list names.

`FrameBufferCleared` carries the two over to `framebuffer_safe`, whose behaviours are of either
of two lists: its second list is `FrameBufferOrder` with other constants (`C`). `SameSteps` shows
definition by definition that the two instances take the same steps; from there
`NothingLeftBehind` and `NullOnlyWhenAllBusy` are `ClearedNothingStranded` and
`ClearedNullMeansBusy` for any number of nodes, modules and frames.

`AudioPipelineProofs`:
- `ElementInvariance`, for any application: each element and the point of its task agree
  (`LocalInv`): it runs only while it is open and its stop bit is clear, and it is closed
  at the end of each handler. `TypeCorrect` and `StaleStopCleared` follow. One lemma,
  `TaskMoves`, says what each step of a task does to an element, and one, `AppMoves`, what the
  application does; later lemmas cite only these.
- `ControlInvariance`, for any application: where it is in each of its functions (`CallInv`), that a new
  task finds an empty queue (`StartInv`), that DESTROYED, once terminate waits for it, is the sign
  of a task past its loop (`GoneInv`), and that the elements which a function has passed
  have ended or terminate gave up on them (`EndedInv`). `FreedAfterLoop`, which is `FreedPastLoop`,
  follows, with no assumption on the calls or the length of the queue.
- `Invariance`, assuming `Patient`: besides these, that nothing is about to open
  between a stop and the next run (`CalmInv`), and that what was waited for is closed
  (`ClosedInv`). Without `Patient` it is `CalmInv` that fails: that is the finding.
  `WaitedForStop`, `StopIsFinal` and `RingsUnused` follow.
- `LifeKept`, assuming `Patient`: `Spec => LifeSpec`. Without it the "re-open if reset_state
  function called" of `process_running` opens an element twice.

`AudioPipelineFreed`, assuming `Patient`, `NoPause` (the application itself calls neither
`audio_pipeline_pause` nor `audio_pipeline_resume`, and no file of the repository does) and `CmdMax >= 2`:
- `QueueInvariance`: its invariant, on top of the one above, counts commands. An element that
  rests between a stop and the next resume is closed and in a state that a resume does not take
  for "resumed already" (`RestInv`). A queue holds one command at most, and two when `terminate`
  has sent DESTROY to an element that left its STOP unread; until the stop a RESUME is the only
  command in it, so no second one comes before it is served (`QueueInv`). A task starts or ends only
  while the application waits for it (`SettledInv`), and terminate does not give up
  (`NoGiveUpInv`).
- `NoCommandLost`: `audio_element_cmd_send` always finds a place, but for the elements of a run
  that failed, which are terminated without being stopped. `TerminateSucceeds`: until a run
  fails terminate never gives up, and `deinit` frees an element when its task has at most its last
  write left to run.

  All three assumptions are needed. With one place DESTROY can be dropped, as TLC shows; with pauses any
  queue can be filled, since each one that times out leaves its PAUSE behind; without
  `Patient` see `Invariance`.

`MailboxProofs`, assuming `Punctual`: completions come in time (`~Late`), and no link
that carries answers of APP or MINOR is lossy.
- `Invariance`: a message has no owner but the place where its address is, so the invariant
  says that a request is at one *stage* of its way ("called", "sent", "refused", "asked",
  "taken", "serving", "answered", "returned", "queued", "back", "done", or "lost"), and for
  each stage in which list, queue or command it is, and in no other (`Place`), what
  its fields say (`Fields`), and what the two threads that may still be waiting with it know
  (`Noted`). `ChannelInv` and `ThreadInv` say that a side has one command under way and
  waits for it. The step that needs all of this is `Completed`: the thread decides by fields
  that the peer may have changed meanwhile, and `Fields` shows that it asks again only in
  stage "refused". One lemma per action; `Same` and `Others` dispose of the requests the
  action is not about.
- `TypeCorrect` (with `CountBound`: no fourth sending), `NothingDangles` and `CallsImplemented`
  (`Spec => CallSpec`) follow. Without `~Late` it is "refused" that fails: a request
  counted as refused may still be on its way.
- `NoticesKept`, assuming also that no link of a notice is lossy (`NoticeLinksKept`) and that
  no notice meets a full queue (`NoticeRoom`, which the theorem takes as a temporal hypothesis):
  a notice whose last content nobody has handled is on its sender's list, on the wire, or in its
  peer's queue or list (`NInv`). It stays a first sending all the time: that is why no thread
  takes it off for good, and why the copies do not disturb each other by sharing a record.
- `QueuesFit` replaces that hypothesis by the length of the queues, assuming `QueueSized`:
  whenever `rx_isr` or the thread puts something in, there is room. `CopiesInv` says that no
  step multiplies the copies of a notice, the stages of the first invariant that an entry of
  a request is in a queue once. So each place of a queue can be given an entry of `Entries` of its
  own, numbered by how often the same message occurs before it (`SlotsIn`), and what comes next
  is an entry none of them has (`FreeSlot`); a set that is finite and larger than the queue is
  the end of it (`Counted`). `SizedKeepNotices` puts the two together.

`ListFacts` has the lemmas on `Append`, `Tail`, `RemoveAt` and `RemoveFirst` that the
proofs of the frame lists and of the mailbox rest on.

## What is only model-checked

Liveness everywhere: `RingBuf`'s ends of calls and `Exchange`, `KeepsReading`, the returns of
calls and the arrival of notices, `StopReaches` and `DataEnds`. Fairness and ENABLED are
beyond the prover.

## What is not modelled

- Ring buffer: byte counts returned, `rb_destroy`, failing creation.
- Frame lists: the display list (`FB_MEM_ALONE`), `direct_free_without_lock` and calls from
  interrupts, which take no lock, and `frame_buffer_deinit`. The hazards list the two
  races of `frame_buffer_fb_display_malloc_wait`.
- Mailbox: initialisation, the EXIT event, `media_mailbox_list_clear` at a power cycle of
  cpu1, and list nodes that cannot be allocated. A response of APP whose write fails ends
  in a semaphore of another operating system: no run loses commands on such a link.
- Elements and pipelines: elements without a task, `open()` that is NULL or returns
  `AEL_IO_DONE`, `AEL_IO_TIMEOUT` from a ring buffer, the multiple ring buffers, reports and
  listeners, relink and breakup, and the calls with ticks.
- The components listed as `not_modelled` in `PROJECT.json`, each with its reason.

## How to run

    tlc -workers 2 -config RingBufSafe.cfg MCRingBuf.tla
    tlapm RingBufProofs.tla

The table of runs, the definition of every mutant and the source lines behind every
definition are in `PROJECT.json`. The MC modules are
`MCRingBuf`, `MCFrameBuffer` (with `MCFrameBufferSafe` and `MCFrameBufferLive`), `MCMailbox`
and `MCAudioPipeline` (with `MCAudioPipelineLife`). Symmetry is used for node and byte values in safety
runs only: no action tells one from another.
