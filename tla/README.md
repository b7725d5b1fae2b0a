# A verification project for the AGL CES 2024 demo layers

The repository is a set of Yocto layers (`src/meta-agl-demo-ces2024*`) that build the AGL demo of
CES 2024: an instrument-cluster host that runs a cluster and an IVI guest in containers and shares
its sound devices with them, and the cluster, momi and IVI user interfaces.  Most of it is recipes
and configuration.  This project models the code of its own that keeps state.

In what follows *driver* is `loopback_driver0.c`
(`src/meta-agl-demo-ces2024-ic/recipes-kernel/kernel-module-virtio-sound/kernel-module-virtio-sound-0/`).
`kernel-module-virtio-sound-1/loopback_driver1.c` is byte for byte the same text, built as a second
module (`-DMULTDEV`): every statement here about the first is about the second.  The map names one
file per definition: `LoopbackDevice`, which puts the parts together, is mapped to the second driver,
the modules of the parts to the first, and `DriverLife`, which runs both modules in one kernel, to both.

## 1. Inventory

### What the parts are and how they interact

```
  virtio-snd (kernel)          virtio-loopback driver            adapter (user space, external)
  ------------------           -----------------------           ------------------------------
  vm_get/vm_set/... ---------> read_adapter/write_adapter
                               page virtio_neg_t, eventfd -----> poll, read the page, emulate the
                                                                 register, ioctl WAKEUP
  vm_notify --> notify_list -> async_work_handler --(write)----> QUEUE_NOTIFY
  vq callbacks <-------------- vm_interrupt <------------------- ioctl IRQ
  vm_find_vqs --(writes)-----> vq_pfns <--- SHARE_VQS, mmap ---- maps rings and RAM of the guest

  a player --> sink of module-attenuate --> IO thread --outq--> main thread --> source muted or not

  buttons --> PlayController --+--> MpdClient ----commands----> music player daemon --events--+
                               +--> RadioClient --requests----> radio service ------statuses--+--> screen
```

| component | state | operations | hard behaviours |
|---|---|---|---|
| **request channel** (driver, `read_adapter`, `write_adapter`, open, release, EFD_INIT, WAKEUP, START_LOOPBACK) | one shared page (request, answer, `done`), `read_write_lock`, `wq`, eventfd, `valid_eventfd`, `IN_USE_BIT` | call and wait; answer; open; close | no sequence number: an answer belongs to a caller only by time; one-second timeouts; adapter death; re-open under callers |
| **queue notifications** (`vm_notify`, `async_work_handler`) | `notify_list`, `notify_q_lock`, `wq_notify` | append and wake; take and forward | lock dropped around sleep and call; the end of the session |
| **interrupts** (`vm_interrupt`, ioctl IRQ) | `interrupt_lock`, the device's interrupt status, `vm_dev->lock` and its list | status, acknowledge, call back | runs in a thread of the very process that has to answer its two calls; signals |
| **virtqueues** (`vm_find_vqs`, `vm_setup_vq`, `vm_del_vqs`, SHARE_VQS) | the device's queue registers, `vdev->vqs`, `vm_dev->virtqueues`, `vq_pfns`, `vq_index`, `vq_pfn` | set up one by one, take back, remember frames | error paths in the middle; registers shared through QUEUE_SEL; globals that outlive a bind |
| **mappings** (`op_mmap`, `share_mmap_list`, faults, closes, sessions) | `share_mmap_list`, `mmap_index`, `cur_ram_idx`, `vq_pfn`, the flag of SHARE_COM_STRUCT | map a page, RAM or a frame; unmap; fault; look up | a table that is searched by address and by frame; counters at their limit |
| **configuration space** (`vm_get_features`, `vm_finalize_features`, `vm_get`, `vm_set`, `vm_get_shm_region`, status, generation) | feature bits in two halves, the status, the fields, the generation, the device's interrupt | negotiate, read, write, announce a change | one value in several accesses; a device that changes it meanwhile |
| **module lifecycle** (`loopback_init`, `loopback_exit`, fops, START_LOOPBACK's thread, platform driver and device; both modules) | the kernel's majors, classes, nodes, drivers and devices; `IN_USE_BIT`, `info` | load, open, start, probe, release, unload | calls whose failure nobody checks; two modules in one kernel; an exit that waits for nobody |
| **one device as a whole** | all of the above, from the first open to the unload | probe, bind, kick, forward, serve, interrupt, unbind | kicks and interrupts of one bind that arrive in the next; probes that fail; an adapter that exits anywhere |
| **volume attenuator** (`0001-Add-module-attenuate.patch`) | `g_silent_count`, `g_last_time`, `g_attenuate_on`, the message queue, the source's volume | measure a block, post, dispatch; suspend, resume; load, unload | decision and effect in different threads; time passing unrendered; globals shared by instances |
| **IVI media player** (`0002-Initial-mediaplayer-implementation.patch`, Dart) | play queue, player state, art state, two connections, the source of `PlayController` | events, commands, fetching of song art, the buttons | state read before an `await` and used after it; buttons that act by what is shown |
| **IVI radio** (`0001-Initial-radio-implementation.patch`, Dart) | frequency, band limits, play state; the service's tuner, scan and play state | start-up, tune, scan, slider, presets, status stream | answers and status events out of order; requests that nobody waits for |
| **momikey** (`momikey.sh`) | `current_guest` | keys to guest switches and CAN frames | remembered state against the container manager's |
| **vxcan** (`vxcan-setup.sh`, `vxcan-activate.sh`) | the link | create; activate, trying up to 100 times | giving up before the link is there |
| everything else | none of its own | | recipes, JSON for the container manager, units, sound configuration, splash images, kernel files |

What makes each correct: the channel has to give a caller the answer to its own request and to come
back when the adapter is gone; notifications must reach the adapter once and in order; no completion
may be missed and no deleted queue called back; driver and device must agree about every queue
through every error path, and the adapter must map the ring it was told about; the table must hold
exactly the live mappings; features, regions and fields must arrive whole and no announced change be
lost; the two modules must not get at each other's nodes, sessions or devices; a request must get
through all the parts and back; the source must be muted exactly while the sound lasts and half a
second longer; the screen must end up showing what the daemon and the tuner do, and the buttons must
not make two sources sound.

### The hazards

`PROJECT.json` lists forty, each at its line, with the properties aimed at it; a note says where a
property stops short of the hazard, and section 3 collects what happens there.  Five of them have no
property, because the code does nothing against them and the models run into them: an adapter whose
only thread is in the IRQ ioctl, more mappings than the table holds, a picture whose read fails, what
the user interface never asks for and the exception that ends its loop, and the frequencies shown that
are none of the tuner's.  Hazards outside the list, which the models do not reach or no property tells
apart:

- munmap of a part of a mapping (driver, 782): the kernel splits the mapping, and the close of the
  part at its start removes the whole entry.  In `MmapTable` a munmap covers a whole mapping.
- SHARE_COM_STRUCT's flag falls also when mapping the page fails (1019), so that a retried mmap maps
  `vq_pfn` instead; the model has the step, and no property forbids it.
- the size announced for the device file, `10 * val_1gb`, is computed in 32 bits (1263).  Nothing in
  the model depends on the file's size.
- the attenuator's globals belong to the file, while the module may be loaded several times at once,
  and an unload while the source is muted leaves it muted; `NotLate` and `FollowsDecision` say which
  promises need one instance or the first load.
- a virtqueue callback that kicks its queue enters `vm_notify`, which sleeps, under `vm_dev->lock` (407).
- `momikey.sh` remembers a guest as current also when `cmcontrol` fails, and ignores the key from then on.

## 2. Modules

| module | models | about the state and the actions |
|---|---|---|
| `AdapterCall` | the abstract channel: a procedure call that an adapter, if there is one, answers | `st[t]` is idle, posted, taken, served, answered; an unanswered call may return only once the adapter is gone, and a read then yields zero |
| `AdapterChannel` | the channel in detail | `pc[t]` walks `read_adapter`/`write_adapter` statement by statement (`Store`, `Arm`, `Signal`, `Wait`, `Timeout`, `Leave`, `Collect`, `Unlock`); `apc` walks the adapter; `Open`, `Close`, `ReleaseFinish` are the file operations |
| `NotifyQueue` | notifications | `EXTENDS AdapterCall`: the worker's write is the abstract call; `dpc` walks `vm_notify`, `wpc` the work item |
| `InterruptPath` | interrupts | `EXTENDS AdapterCall`; `ipc[i]` walks the ioctl and `vm_interrupt` in a thread of the adapter; `Server` is the thread that serves the calls, and may be one of these |
| `VirtQueues` | virtqueues | a register access is one step, which is what `AdapterCall` promises; `pc` walks `vm_find_vqs` and the setup and deletion of a queue with its error paths |
| `MmapTable` | mappings | one action per file operation, ioctl, fault and close; `AddrOf` and `FrameAt` are the two lookups |
| `ConfigSpace` | features, status, memory regions, fields, generation, configuration interrupt | `pc` is the binding, `op` and `k` the access of a field under way: `vm_get` and `vm_set` are one action per register access, as many as the device's version and the field's width ask for; the device may change the space at any of them |
| `DriverLife` | both modules' `loopback_init`, `loopback_exit`, open, START_LOOPBACK's thread, platform driver and device | `stage[m]` walks init and exit, `thread[m]` walks `start_loopback`; the kernel's tables are shared by the modules; `"oops"` is the state after a crash |
| `LoopbackDevice` | the parts together, over the life of one device | `adapter`, `pc`, `wpc` and `irq` are the four threads (adapter, probe and binding, worker, interrupt); register accesses, a queue's accesses and the sections under `notify_q_lock` are one step, which the modules of the parts justify |
| `Attenuate` | the attenuator | one action per block measured, message dispatched, change of the sink's state, load and unload; `Tick` is time |
| `RadioClient` | the radio's client, its state and the radio page, with the service | `requests` are the unary calls under way, which arrive in any order, `statuses` the stream, which keeps its order; `fetch` walks `getBandParameters` |
| `MediaPlayer` | the media player with its daemon, and the buttons that choose between it and the radio | `EXTENDS RadioClient`; `pc` walks `MpdClient.run` and its handlers from `await` to `await`; `readers` are the calls of `readSongArt` under way; `PressFm`, `PressMedia` and `PressVolumeBar` act on both |
| `MC*` | | instances for TLC |
| `AdapterChannelProofs`, `NotifyQueueProofs`, `InterruptPathProofs`, `VirtQueuesProofs`, `ConfigSpaceProofs`, `LoopbackDeviceProofs` | | theorems about the module of that name |
| `DriverProofs` | | theorems about `DriverLife` and `MmapTable` |
| `SoundProofs` | | theorems about `Attenuate`, `RadioClient` and `MediaPlayer` |

**How they compose.**  `AdapterChannel` is shown, by refinement, to implement `AdapterCall` for the
first session of the device (`ImplementsCall`); `NotifyQueue` and `InterruptPath` are written over
`AdapterCall` and take over its actions, so that the waiting, the time-outs and the eventfd need not
be explored again under them.  `VirtQueues`, `ConfigSpace` and `LoopbackDevice` use what the
refinement gives: requests are served one at a time, each answered before the caller goes on, and
reads of a dead adapter return zero.  `LoopbackDevice` uses the parts in turn: the setup of a queue is
one step there because `VirtQueues` shows that it leaves either a queue both sides agree on or
nothing, and what is stranded between list, worker, register, ring, mapping and interrupt is its
question alone.  `MediaPlayer` and `RadioClient` have disjoint state and meet in the buttons, which
read both players' state and send to both.

**What stands for code outside the repository.**  The adapter: it answers requests in the order poll,
read the page, serve, WAKEUP, as the driver's protocol asks, and selects and maps rings only
while it handles the register write that activates a queue or sets DRIVER_OK.  The device behind the
registers follows the virtio-mmio semantics the driver writes for.  Virtio core probes, negotiates,
reads the configuration under the generation and resets as the driver's operations are called for.
PulseAudio delivers messages in order, stops the IO thread and dispatches what it left before the
module's data go.  The music player daemon answers the commands of one connection in order, reports
every change since the last `idle`, and stops when its queue is cleared; the radio service opens the
status stream before it answers `getFrequency`, handles calls in any order, reports each change of
frequency and play state on the stream, and stops a scan when it is tuned, stopped or told to.  Both
services ran before the user interface did: the daemon begins with any queue, at any place in it, playing,
paused or stopped, the radio playing or not and possibly in a scan.  From then on they do what this user
interface, a song that ends, a scan or a change of the database makes them do; other clients of theirs are not
modelled.  These definitions are marked external in the map, or say so in their comment.

**What the user interface's model leaves out.**  The position timer and seeking, the layout, and the
end of the status stream, after which the radio's screen never changes again.  Songs have pictures or
none; a chunked read is one read that ends or throws.  The source starts at media, the page's default.
The exception of an awaited request is modelled for `run` and its handlers (`LoopThrows`: nobody catches it, and
the loop is over for good), for `readSongArt` (`ReadThrows`) and for the radio's calls (`RequestFails`,
`FetchFails`); a user's command to the daemon always reaches it.

Definitions called *mutants* in the comments are plausible bugs of the definition they precede
(a dropped guard, a missing reset).  No specification uses them; each is there to show that a property
can tell the code from it.

## 3. Runs

| run | question | bounds |
|---|---|---|
| `channel_safety` | In one session with two callers, is a call one transaction, does the adapter serve the caller that waits, does a caller only go on with an answer or without an adapter, does the channel implement the procedure call? | two callers, two registers, two words: a torn request differs from both its halves, a stale answer from a fresh one; callers are symmetric |
| `channel_live` | Does every call end, also when the adapter dies; who is lost when the device is opened again under callers? | one register and word: the question is not about values; two opens |
| `channel_second_adapter` | *finding* | two opens |
| `notify` | Is the list a FIFO up to the adapter, does the worker stop after the close, do notifications arrive? | two drivers, two queues, three notifications: enough for two in the list with one in hand |
| `interrupt` | Is a completion ever missed, a dead queue ever called back; do completions arrive if the adapter has a thread to serve? | two interrupting threads, one driver thread, one queue; the status register has both its bits |
| `vq_lifecycle` | Do driver and device agree through setups, errors, deletions and a second bind? Is the mapped ring the right one in the first? | two entries, three frames of which one is too high for the register, both device versions, two binds; `vq_pfns` with four slots, just enough for both |
| `mmap_sessions` | Does the table hold exactly the live mappings, does a fault find its frame, are the two lookups inverse? | a table of three, four addresses, sizes on either side of the RAM threshold, so mappings are adjacent; two sessions with up to four mappings each, one more than the table is long, so that sessions before, at and past its end all occur, and a session after one that went past it |
| `config_space` | Do features, regions and fields arrive whole, is no announced change missed? | devices of either version with a field of one or two items of one, two or eight bytes, which covers every branch of `vm_get` and `vm_set` that takes more than one access; two feature bits, one in each half; two changes, so that one falls into the read another caused; two binds |
| `driver_life` | Do the two modules stay apart, is the open exclusive, is an orderly exit safe? | both modules, two majors, two processes, two loads of each, two STARTs per load, and of either three in all; every call whose result is ignored may fail, `kthread_run`, `platform_driver_register` and `platform_device_register` among them |
| `loopback_device` | Is anything stranded between the parts, do interrupts find the device, do requests complete? | seven devices (either version, old and modern, an empty slot, two that are no virtio), two queues of depth two, three requests, so two in one ring and one in the other or in the next bind, two binds; the IRQ ioctl at any moment |
| `attenuate` | Is the source muted and let through as decided, never early, never late? | silence of three ticks, a block at least every two; two loads |
| `media_player` | Does the screen end up right, are pictures those of their songs, is the radio asked for its own frequencies, do media and radio ever sound together? | three databases (empty, one song, the same songs at other places), two updates, three presses outside the radio page and two on it, one song that ends, five in all where an update or a press on the radio page counts for two, and so does what there was at the start: a queue for an update, a player or a radio that is on for a press each, a scan for a press on the radio page; a band of three steps, one preset on a step and one between two, one station |

The real sizes differ only in scale: 16 slots for 4 queues (`FramesAreKept` says what is enough), 200
records (`MmapLimit`), 0x40000 frames per RAM mapping (`Stride`), 500 ms (`Threshold`).
`Attenuate` counts time up to `Enough` only; the code keeps adding to an `int`, but compares it only
with 500 while `g_attenuate_on` is 1, and a loud block has reset it when that becomes 1.
`media_player` has its own limits, five events of which what was there at the start is part: a start
with a queue that plays leaves room for one update or two presses, an empty one for all five.

Deadlock checking is off where the system really may stop: no caller has anything to ask, the
bound on notifications, binds, opens, loads or presses is used up, or the adapter is gone.

### The disagreement

`channel_second_adapter`: nothing sets `valid_eventfd` back to true (line 1322; the comment at
159-164 describes it as "wait the adapter").  After the first close no call waits for an answer,
also while a second adapter serves.

### What the models contain and the properties leave out

Behaviours of the code that the models have, and from which the properties keep away by a condition:

- **Notifications.**  When the close finds `notify_list` empty, `async_work_handler` takes the head of
  an empty list (338-344) and dies of it: `EmptyTakeOnlyAfterClose` and `NotifyReturns` say *after the
  close* and *before the worker dies*.
- **Interrupts.**  An adapter whose only thread is inside the IRQ ioctl waits for itself, and one killed
  there can never leave, because the release that would free it comes after it (1067, 1220):
  `CompletionsSeen` supposes a thread that serves and so never meets that wait, `NothingMissed` that no
  thread was killed.
- **The ioctl before the device.**  IRQ takes `vm_dev_irq` as it is (1210-1220), which is null before the
  probe has allocated a `vm_dev` and dangles after one that failed (664).  `LoopbackDevice` takes the ioctl at
  any time, and announces an interrupt only for a request it served (the device's part of virtio; a device
  that reports a status before it has a driver would have it walk whatever `vm_dev_irq` is).  A thread that
  finds no status to handle never looks at its copy, and one that does finds that the `vm_dev` there is at
  that moment is alive (`IrqOnLiveDevice`); but a thread whose ioctl began before the probe and reads a
  status after the bind follows its null pointer (`WalkNull`) and dies with `interrupt_lock`.  `NothingStranded` and `RequestsComplete` say *unless the interrupt thread dies*; its
  file is then not released either.
- **Virtqueues.**  `vq_index` goes on counting over binds while SHARE_VQS reads at the queue's index
  (503, 1227), and the version 2 branch records no frame: in a second bind, and with version 2, the
  adapter maps another frame, so `FramesKept` and `RequestsComplete` are about the first bind and
  version 1.
- **Mappings.**  `mmap_index` only grows (769), so `MMAP_LIMIT` bounds all mappings of a session, not the
  live ones.  Nothing compares the two: one more is written behind the array (765-769), into whatever the
  build has put there.  `Overruns` is this step.  It leaves the index, the number of RAM mappings, the flag and
  `vq_pfn` at any value, and `overrun` remembers it; from then on, in later sessions too, `Registered` and
  `LookupsRight` claim nothing, since nothing can be said of such a driver.
- **Configuration.**  Version 1 reads a field byte by byte and has no generation (`vm_generation`
  returns 0), so `NoTornRead` is about version 2; a change is noticed by both.
- **Lifecycle.**  `loopback_exit` waits for nobody (1379-1404).  The kernel crashes when the module goes
  before `start_loopback` or the worker has ended, when START_LOOPBACK was called twice and the device
  registered twice, and when the exit deletes a device that was never registered (1386): because there was no
  START at all, because `kthread_run` made no thread for it (1208), or because `platform_device_register`
  failed (1167), which all look like success to the adapter.  `OrderlyExit` is about one START whose thread was
  made and whose device was registered, and an exit after its end; `platform_driver_register` may have
  failed (1166), which is harmless.  No use of the module is orderly whatever the kernel answers.
- **Attenuator.**  A module loaded again starts as unmuted, whatever the source is; several instances
  share the count.
- **The screen at the start.**  `run` awaits the first event before it asks for anything (357-386), so a
  daemon that already has a queue, or plays, is shown as empty and stopped until it changes; the radio's
  client asks for the band and the frequency and never whether the radio plays (433-450).  `unseen` and
  `untold` are what no event has told of yet, and `ShowsTheDaemon` and `ShowsTheTuner` speak of what one has.
- **The end of the loop.**  An exception of a request that `run` or a handler awaits (366, 417, 475, 517) ends `run`,
  and the screen never follows the daemon again.  `LoopThrows` may happen at every one of them; what the properties
  say of moments in which every event is handled (`Settled`) is about a loop that goes on.
- **Pictures.**  A read that outlives its queue leaves a wrong picture if a new entry was made in the
  same place (`outlived`); one that throws leaves its entry saying "reading" for ever (`failed`).
- **Radio.**  The answer to the first `getFrequency` may be older than a status that came before it; a
  frequency is shown before it is asked for, and stays if the request is refused or fails
  (`astray`); the slider's value may miss its step by `toInt` (`rounded`); tuning before the start-up
  is over starts from 8790000, a tenth of a frequency (`rushed`).
- **Buttons.**  A user faster than the screen can start radio and media together, and so can one who presses
  before the screen was told what plays already (`hasty`).

### Fairness

- A kernel thread that can run runs (WF of its step), and a mutex is handed to its waiters in turn
  (SF of the acquisition): both are what the kernel's scheduler and its mutexes do.  Timers fire (the timeouts
  are steps of the waiting thread).  In `LoopbackDevice` and `ConfigSpace` this is WF of the worker, of
  the accesses of a binding and of the interrupt thread.
- An adapter that holds the device serves: it loops over poll and WAKEUP.  It need not open the
  device, stay, or map anything; in `InterruptPath` it serves only when its serving thread is not
  itself inside the ioctl.  In `LoopbackDevice` its device serves a queue it was notified of and raises
  an interrupt it announced (it may raise others, and is not bound to), and in `ConfigSpace` the announced
  change is an interrupt it raises.
- A release that has begun ends.  A killed process releases the file once none of its threads is
  inside the kernel.
- PulseAudio's main loop dispatches what is in a queue.  No liveness property depends on a sink
  playing, on a driver notifying or posting, or on a device changing its configuration.
- `DriverLife`, `VirtQueues`, `MmapTable`, `MediaPlayer` and `RadioClient` have no liveness property and
  no fairness: nothing makes an administrator, a user or the daemon act, and what the screen shows is
  stated for the moments in which nothing is under way.

## 4. Proofs

TLAPS checks these for every value of the constants that the modules' assumptions admit: any callers,
registers, words, drivers, queues, modules, processes, instances, tables, mappings, bands, stations
and libraries, and any bounds.  Where a theorem supposes more, the table says so.

| theorem | says | argument |
|---|---|---|
| `TypeCorrect` | `AdapterChannel` keeps its types | one lemma for the steps of the callers, one for all of `Next` |
| `Inductive` | `[]IInv` | see below |
| `Exclusive`, `Serves` | `OneTransaction`, `ServesItsCaller` | from `IInv` |
| `Waits` | `WaitsForAdapter`, if the device is opened at most once (`MaxOpens <= 1`) | from `IInv` and the step |
| `Refines` | `ImplementsCall`, under the same assumption: the channel implements `AdapterCall` | initial states map to initial states; one case per action: each is a step of `AdapterCall` or a stutter |
| `NotifyTypes` | `NotifyQueue` keeps its types | by actor |
| `EmptyTake` | `EmptyTakeOnlyAfterClose` | `Locked` |
| `FifoOrder` | `Fifo` | `InCall`, and two lemmas about heads and tails |
| `WorkerStops` | `StopsAfterClose` | `Last` |
| `InterruptTypes` | `InterruptPath` keeps its types | |
| `CallbacksOnLiveQueues` | `CallbackOnLiveQueue` | `Locks` |
| `NothingIsMissed` | `NothingMissed` | `Locks`, `Calls`, `Seen` |
| `QueueTypes`, `QueuesInvariant` | `VirtQueues` keeps its types and `Walk`, `Owned`, `Told` | |
| `QueuesMatch`, `NoRingDangles` | `RegistersMatch`, `NoDanglingRing` | from `Told` |
| `SetsUpAllOrNothing` | `AllOrNothing` | with `Counted` |
| `FramesAreKept` | `FramesKept`, if `MaxBinds * Entries <= Slots` | with `Room`, `Kept` |
| `MmapTypes` | `MmapTable` keeps its types | |
| `RegisteredHolds` | `Registered`, which is about the time before an overrun, if no mapping is of 4 GB or more (`Whole`) | `Table`, an injection from mappings to entries |
| `LookupsRightHolds` | `LookupsRight`, if no mapping is of 4 GB or more, or larger than a chunk of RAM (`InChunks`) | with `Chunks`, `Faulted` |
| `ConfigTypes` | `ConfigSpace` keeps its types | `Shapes`, `Within` |
| `FeaturesAgreed`, `WordsArriveWhole` | `NegotiatedBeforeUse`, `ArrivesWhole` | `Shapes`, `Negotiated`, `Region`, `Halves` |
| `LifeTypes`, `Session`, `Apart`, `OrderlyUse` | `DriverLife`'s types, `OneSession`, and, for modules built under different names (`Distinct`), `ModulesApart` and `OrderlyExit`, whatever of the ignored calls fails | `Sessions`, `Tables`, `Fresh`, `BoundOwn`, `Orderly` |
| `IrqFindsDevice`, `NothingIsStranded` | `IrqOnLiveDevice`, `NothingStranded` | `Shapes`, `Alive`, `Built` |
| `DeviceTypes` | `LoopbackDevice` keeps its types | with `Points`, `Recorded`, `Outstanding` |
| `AttenuateTypes`, `NeverEarly`, `FollowsDecision` | `Attenuate`'s types, `NoEarlyUnmute`, `MutedFollows` | `Counted`, `Follows` |
| `NotLate` | `UnmutesInTime`, for one instance | `Soon` |
| `RadioTypes`, `PlayerTypes` | `RadioClient` and `MediaPlayer` keep their types | for the player with `Shaped` |
| `TunesInBandHolds` | `TunesInBand`, if the band ends on one of its steps (`Band.max \in Grid`) | `BandKnown`, `AllInBand` |
| `ShowsTheTunerHolds` | `ShowsTheTuner`, for any play state of the service at the start | `PlayingHeard`, `FrequencyHeard` |
| `ShowsTheDaemonHolds` | `ShowsTheDaemon`, for any queue and player the daemon starts with, and a loop that may end at every await | `Shaped`, `Followed` |
| `ArtRightHolds` | `ArtRight` | `Shows`: with `Pictures` |
| `ArtOnItsWayHolds` | `ArtOnItsWay` | `Shows`, `Reading`, `Watching` |
| `OneSourceHolds` | `OneSource` | `Shows`, `OneAtATime` |

**The channel.**  None of the three properties is inductive: that the adapter works for the waiting
owner depends on where the request is.  `IInv` adds that (`OneToken`): a request not yet answered is in
exactly one place - about to be signalled, in the eventfd, in the adapter's hands - and while it is in
the last two the owner of the lock waits, `done` is 0 and the page is its request.  `Owner` ties the
program counters to the lock, `Session` says which states of the file the first session has, and
`HoldersPage` says what the owner knows of the page.  All of it is
about the first session: after a second open the mutex is re-initialised under its holders and
`OneTransaction` no longer holds, which is why it is conditional on `opens <= 1`; the run
`channel_second_adapter` shows that `WaitsForAdapter` needs `MaxOpens <= 1`.

**The notifications.**  `Locked` says that the worker at `take` holds `notify_q_lock` and either the
list is not empty or the adapter is gone: only the worker removes, so an append cannot disturb it.
`InCall` ties the call in progress to the index the worker took, which is what makes the history of
answered writes line up with the list, and says that a write returns unanswered only when the adapter
is gone.  `Last` says that such a write is the worker's last.

**The interrupts.**  `Locks` says that the thread inside `vm_interrupt` holds `interrupt_lock`, the one in
the loop holds `vm_dev->lock`, and that what it has yet to call is a subset of the queues there are.
`NothingMissed` is about quiet moments only; `Seen` is what holds in between: every completion and every
change is in the device's status with a thread still to read it, or in a status that was read and not
yet walked.  `Calls` says whose request the channel carries, so that the word a thread gets is its own.

**The virtqueues.**  `Walk` says where `vm_find_vqs` is and that the selected queue is the one at hand,
`Owned` that the rings at each point are those of the first queues, one each, and `Told` what the device
holds of them, also in the middle of a setup.  `Counted` counts the named entries by a cardinality.
`Room` bounds `vq_index`, and `Kept` ties slots to indices until the second bind.

**The mappings.**  That a fault finds its frame is not inductive: a look-up depends on every entry before
the one it finds.  `Table` says what the entries are: each in use is of a mapping that is registered, no
two are of the same, all lie before `mmap_index`, and no mapping is without one.  All of it holds
until an entry is written behind the table and is claimed of nothing later, which is why `overrun` guards the invariants too.  As mappings are
apart, the address of a fault lies in exactly one entry, so the order of
the search does not matter (`FrameRight`), and counting entries is counting mappings: the map
from the ones to the others is injective both ways.  The way back, from a frame to an address, needs the
frames to be apart as well: `Chunks` says that each mapping of RAM starts a chunk of its own of
those `cur_ram_idx` has given out, and `Faulted` that the frames inserted so far are right, which a
later mapping must not make wrong.  Both hypotheses are limits of the code and not of the proof.  A size is
kept in bytes in a `uint32_t` (172, 767), so the entry of a mapping of 4 GB has size zero and is never found;
and a mapping of more than the 0x40000 frames (1 GB) that `pf_mmap_vm_page` sets aside for it reaches
into the next one's.  The run's sizes satisfy both, its larger one exactly.

**The configuration.**  `Halves` says which bytes the read or write under way has reached (`Reached`) and that
they are of one moment unless the generation has moved; lemma `Covered` shows that the accesses reach
every byte, for each width and count.  `Negotiated` and `Region` say what is known after each half or word.

**The lifecycle.**  `Tables` keeps majors apart by the class each module has in its name, which holds
even with a major that was never allocated, because `class_create`'s failure is checked.  `Orderly`
ties an exit to the stage of the one START before it: once its thread is past the registration the device
is registered, or the use is no longer orderly.

**The whole device.**  `Alive` says that an interrupt is announced, and a status read, only while a
driver is bound and `vm_dev_irq` is live, whenever the thread began,
`Built` which rings, registers and mappings there are at each point of a binding; `NothingStranded` is
then inductive itself.  `Recorded` is what the types need besides: SHARE_VQS reads `vq_pfns` at the queue's
number, and the record has been written that far in every bind to a version 1 device.

**The attenuator.**  `Counted`: what the code counted, with what it would add now, never exceeds the silence
of any sink.  `Soon` bounds the time since the last loud block by the count, the part not yet added and
one block.  `Follows`: the messages alternate, start off the source's state and end at `g_attenuate_on`.

**The radio.**  What is shown and what plays differ while statuses are under way, so the invariants speak of
the last status of each kind: it says what the tuner does (`LastIs`), or there is none and the
screen already shows it (`PlayingHeard`, `FrequencyHeard`), or it played before and no status has said so.  A scan, a tuning or a stop
appends the new last
status, and taking the first of several leaves the last.  `AllInBand` carries the band through everything that holds
a frequency: the tuner, the first answer, the statuses, the screen, the slider and the requests, since each is
computed from one of the others; `BandKnown` says from when on the limits are there.  The hypothesis is
there because `tuneForward` from the last step, and a scan downwards from the first, go to the band's
`max` as it is.

**The media player.**  `Shaped` is the protocol of the two connections: what `run` still has to handle is in
the order of `Ordered`, an answer under way was computed from the queue there is, since only `clear` and `add` change
it and the loop awaits no answer while they are sent, and between `clear` and `add` the daemon is
stopped and empty.  `Followed` is then by parts: the screen shows the daemon's queue unless a playlist
event is on its way, in the list at hand or being handled, or none was handled yet and there was a queue before,
and its player with the same exceptions; an answer
older than the state is followed by an event (`AnswerFresh`), and a playlist event, whose handler
stops the player on the screen, is followed by a player event (`PlaylistFirst`), which is what puts it
right again.  `Pictures` says that what is read, shown or about to be read for a place is of the song in it,
unless a new queue is on its way; a read carries the epoch of the queue it was begun for.  `Reading` ties
the marks of `artState` to the reads under way, one per place and epoch, and `Watching` says that what plays is
marked as soon as its event is handled.

**One source.**  `OneAtATime` supposes a user who waits (`~hasty`): while the page's source is media, nothing asks the
radio to start, and if it plays a stop is on its way, or it played before and was not told to be;
while it is the radio, the daemon has at most the one
pause to obey, and has it if it plays.  The buttons look at what is *shown*, so a press needs `Followed`: for
a user who waits, the screen shows the daemon's player, and the pause is sent exactly when it plays.

**Only model-checked.**  Liveness: `CallReturns`, `OnlyBlockedAreLost`, `Delivered`, `NotifyReturns`,
`CompletionsSeen`, `MuteEnds`, `ChangeNoticed` and `RequestsComplete`, which is out of the prover's reach.
Every safety property of a passing run is proved, and the type invariant of every module except the abstract
`AdapterCall`, also of those whose types no run lists.

## 5. Not modelled

- **Recipes, images, container manager's configuration, systemd units, sound configuration, splash
  images, kernel files, small patches to other programs**: they keep no state, or configure programs
  that are not in the repository.  `psplash-poky-img.h` is an image.
- **momikey, vxcan, mominjection**: shell scripts of one loop or one command.  The only state is
  `momikey`'s `current_guest`, and whether it is right is up to the container manager, which the
  repository does not contain.
- **In the driver**: the functions on the vring (859-918) and the debug output, which nothing calls;
  splitting of mappings by the kernel; the size of the device file.
- **In the attenuator**: rewinding, latency and formats, which change nothing the mute depends on.
- **In the user interface**: what section 2 lists, and the code generated from `radio.proto`.
