# Verification of the Temporal Replay 26 badge firmware

TLA+ models of the badge firmware (`firmware/src`), TLC configurations that check
them on small instances, and TLAPS proofs for every instance of what matters most.
The badge is an ESP32-S3 with two cores. Two attendees "boop" by pointing their
badges at each other: the badges find each other over infrared, agree on who leads,
swap contact fields over a link that loses frames, and write the contact to a journal
on flash. That path, from the button to the file, is the core of the program. Around it
the badge keeps itself up to date: it installs firmware over the air, changes its own
partition table in place, and installs community apps from a catalogue. And it lets apps
written in MicroPython share the LED matrix with what is drawn there when nobody else does.
Those are the three parts of the project.

## 1. The system

### Components

| component | source | state it keeps | operations | talks to |
|---|---|---|---|---|
| boop state machine | `boops/BoopsProtocol.cpp` | `boopStatus` (phase, peer, type, beacon counters), `s_boop_recorded`, `s_peer_done`, `s_confirm_tx_remaining`, `boopEngaged`, `pairingCancelRequested` | `smTick`: cancel, idle, beaconing, exchange, terminal; `smReset`, `smShutdown` | IR transport, handlers, journal; the boop screen through shared flags |
| field exchange | `boops/BoopsHandlers.cpp` | `s_xchg` (role, cursor, sent / received marks, DONE flags, timers) | `processPpFrame`, `peer_tickPostConfirm` | IR transport |
| boop journal | `boops/BoopsJournal.cpp` | `s_doc` in RAM, `/boops.json` on flash | `begin`, `recordBoop`, `recordBoopEx`, `saveToDisk` | filesystem |
| atomic file | `infra/Filesystem.cpp` | the path, its `.tmp`, the recursive `IOLock` | `writeFileAtomic` | FAT driver, every component that saves |
| IR transport | `ir/BadgeIR.cpp`, `micropython/badge_mp_api/mp_api_ir.cpp` | frame queue (4 deep), MicroPython's ring and words queue, its transmit queue, playground modes and their queues, whether the hardware is up | `irTask`, `irHwInit`, `irHwDeinit`, `sendFrame`, `recvFrame`, `on_frame_rx`, `feedPythonQueue`, `irDrainPythonRx`, `ir_start` ... `ir_flush`, `irSetMode` | NEC codecs; state machine; MicroPython |
| IR transmitter | `hw/ir/nec_tx.c` | the channel and its carrier, `is_transmitting`, the ring of payload slots, one notification of `irTask` | init, deinit, send, send symbols, wait, set carrier frequency and duty, the interrupt at the end of a transmission | RMT driver; `irTask`'s three senders; MicroPython's `irSetTxPower` on core 1 |
| boop screen | `screens/BoopScreen.cpp` | what it draws | the buttons | state machine, from the other core |
| NEC codecs | the rest of `hw/ir` | RMT receive channel | words to symbols and back, CRC | hardware |
| WiFi, TLS gate | `api/` | connection, `asyncConnectInFlight_`, the gate's mutex | connect, connect to slot, scan; wait until ready, session | updater, registry, screens |
| layout migration | `ota/BadgeOTA.cpp`, `screens/UpdateFirmwareScreen.cpp` | the partition table's sector, `otadata` and the images, `pref_layout` and `last_layout` in NVS, `sMigrationBootMagic` in RTC memory, the latches of `begin()` | `migrateToExpandedLayout`, `begin` with `maybeAutoRestorePreferredLayout` and `recordCurrentLayout`, install, mark valid, the update screen | boot loader, flash driver, OTAService |
| asset registry | `ota/AssetRegistry.cpp`, `ota/OTAService.cpp`, `screens/AssetLibraryScreen.cpp` | the catalogue in RAM (`sAssets`, `sFiles`), `sRefreshing`, `sInstalling`, `sCheckRunning`, `sPostConnectPhase`, the files on flash, a version per asset in NVS | `refresh` and its worker, `install`, `installAll`, `remove`, the service after a connection, two screens | WiFi, HTTP, filesystem, the updater's worker |
| release check and transport | the rest of `ota/` | the cached tag and URL | check, redirect, stream | WiFi, TLS gate |
| scheduler | `infra/Scheduler.cpp` | services by priority, dividers | tick | every service |
| LED runtime | `led/LEDAppRuntime.cpp`, `micropython/MicroPythonMatrixService.cpp`, `screens/LEDScreen.cpp` | the ambient mode in RAM and in its file, the preview, `runningValid_`, `overrideDepth_`, a queued script | `service`, begin / end override, previews, commit, `restoreAmbient`, the LED screen | matrix driver, matrix app host, settings, Doom |
| matrix app host | `modtemporalbadge.c` (the second half), `badge_mp_api/mp_api_led.cpp` | the registered callback, whether it is overridden, the foreground session; `mpy_led_hold` | start, stop, draw, override, tick, foreground begin / end | LED runtime, matrix driver, MicroPython programs |
| settings, identity, apps, BLE, drivers, GUI, MicroPython, Doom | the rest of `firmware/src` | settings, registers, screens | | |
| outside the firmware | `ignition/`, `data/`, `scripts/`, `registry/`, `community/` | | flashing workflow, generators, documents | |

`PROJECT.json` lists every component with its status.

### What is hard here

- **A lossy half-duplex link.** Any frame may be lost; a badge's receive queue holds four
  frames and drops the newest. All the recovery there is, is retrying, and only one side
  retries.
- **Two state machines that never share a state.** Each badge decides alone that the
  other has seen it, which of the two leads, which field is next, and that the exchange is over.
- **Leftovers.** Starting over from the result screen does not empty the frame queue, so
  a session may begin with frames of the last one.
- **Two cores.** Buttons set flags on core 1 that `irTask` reads on core 0.
- **Hardware that comes and goes.** The infrared hardware is brought up and torn down on
  core 0 because of flags that the boop screen and MicroPython set on core 1, neither of
  which is told when; it may fail at each of four steps, and frames are in flight between
  three threads.
- **Wrap-around.** Beacon counters are `uint8_t`, and a session may last minutes.
- **Power.** The battery runs out, or the user switches the badge off, in the middle of a save.
- **A window in which the badge cannot boot.** Between the erase of the partition table and
  the end of the write a power cut leaves nothing to boot, and every failure must be
  rolled back; what the new table makes of the images depends on where the badge runs from.
- **A preference that replays itself.** A migration is repeated at boot when the table is not
  the one the badge was told to keep, and announced by a flag in memory that only some
  resets clear.
- **Two tasks and one table.** A background refresh rewrites the catalogue that screens and
  installs read, kept apart by two flags that each side tests and sets in separate steps.
- **What is recorded and what is there.** Files land one by one, and a version is recorded
  in NVS, by an install or by finding the files on flash.
- **One matrix and many who draw.** The ambient mode, a callback, an app in the foreground, the
  LED screen, the brightness setting and Doom hand the LED matrix to each other through four
  things that nobody updates together: a counter, two flags and a mode of the driver. Scripts
  are queued in one pass of the loop and run in another.
- **A room full of badges and installations.** Everybody hears everybody.

Section 7 lists what the models found in these places, `PROJECT.json` the hazards one by one.

### What makes the components correct

| component | must hold |
|---|---|
| exchange | nobody finishes before both have everything; a jump skips nothing that is missing; retrying gets every field across |
| state machine | one boop per session; one leader; a boop finished on one side exists on the other; the whole card arrives; no exchange lasts for ever; no exchange with an installation |
| IR transmitter | a slot and a channel are idle when they are used; what is on the air is waited for; badge frames go out at 38 kHz; it never falls silent for good |
| IR transport | it comes up while wanted and goes down when not; nothing is held asleep; MicroPython gets frames in order, none twice, none of a boop, (nearly) none from before a drain |
| journal | nothing saved is blanked or forgotten; the limit holds; a successful save makes up for those that failed |
| atomic file | never a partial file; the old contents until the unlink; true means written |
| layout migration | a whole table always finds an image; one failure is rolled back; a migration is announced only if it happened; a boot ends |
| asset registry | nothing an install reads is rewritten; what is recorded as installed is on flash; what is shown as installed is the version offered; the two workers exclude each other; every wait ends |
| LED runtime and matrix app host | only the selected app's callback and script live on; a built-in mode is never locked out; what is selected comes to be shown; a selection survives a restart; one owner at a time |

## 2. The modules

```
FieldSwap          Exchange                    AtomicFile
 (what a swap       (operators on s_xchg)       (writeFileAtomic)
  promises)          /        \                     |   \
    ^               /          \                    |    AtomicFile_proofs
    |         PingPong        BoopProtocol       Journal
    +--refines-- |  ^            |  |               |
                 |  +--refines---+  |       (instance of AtomicFile)
          PingPong_proofs           |               |
                 ^      BoopProtocol_proofs         Journal_proofs
                 +--instance--+

BadgeIR  (irTask, the decode task and core 1)      NecTx  (irTask, an interrupt and core 1)
        \                                           /
         +------------ Infrared_proofs ------------+

LayoutMigration (the badge over its resets)        AssetRegistry (the loop and two workers)
   \                                                  \
    LayoutMigration_proofs                             AssetRegistry_proofs

LedRuntime (the loop, programs and the user)
   \
    LedRuntime_proofs
```

`MCPingPong`, `MCBoopProtocol`, `MCAtomicFile`, `MCJournal`, `MCBadgeIR`, `MCNecTx`,
`MCLayoutMigration`, `MCAssetRegistry` and `MCLedRuntime` only give constants values.

**Exchange** is the bookkeeping of one badge in an exchange: the record `s_xchg` (the
fields the v3 code uses) and what the code does to it. `AfterField` and `AfterDone`
are the two branches of `processPpFrame`; `CanAdvance`, `CanSendField`, `CanSkip`,
`CanSendDone` and `Completed` are the conditions of `peer_tickPostConfirm`, section by
section, each with the state it leaves. A tag is its index in `kPpTagOrder`.

**PingPong** is one exchange between two badges and the two queues. Per badge:
`x[b]` is `s_xchg`, `stage[b]` says whether it is at its beacons, in EXCHANGE, through
with it, or out of it by a cancel or the two minute limit; `q[b]` is `s_frame_queue`.
`HandleField` and `HandleDone` are `processPpFrame`, with the reply it sends while
handling; `Advance`, `SendField`, `Skip`, `SendDone` and `Complete` are the ends a tick
can have, each with the `done` test that every tick ends with (`Become`). `heard` says
whether the frame a step sends arrives. `Drop` and `TearDown` are what happens to frames
nobody uses any more.

**BoopProtocol** is the whole session, for any number of badges and installations in one
room. One action per path through `smTick`: `HandleCancel`, `Start` and `IdleDrain`
(`handleIdle`), `BeaconTx` and `BeaconNotDue` (the first half of `handleBeaconing`),
`ListenTimeout`, `HearBeacon` and `HearExchangeFrame` (its second half), the exchange
actions of PingPong with the journal and the phase change, `ExchangeTimeout`,
`TerminalExpires`; and the four buttons of core 1, which interleave with all of them.
`pc` is where irTask stands between two of these: at the tick, waiting for a beacon, or
draining. `row` is the journal as far as the protocol writes it, `card` the fields on the
contact card, `session` and `ended` are history. At its end stands how a room of two looks to
PingPong: the frames of a queue that come behind its beacons (`Behind`), and of a badge whose
exchange has not begun the exchange it will begin with (`PairX`).

**AtomicFile** is `writeFileAtomic`, one action per FAT operation, each of which may
fail, for tasks that share a path under the `IOLock`. `PowerCut` may come between any two.

**Journal** puts the rows in RAM on top: `RecordBoop` and `MergeCard` are `recordBoop`
and `recordBoopEx`, each ending in `saveToDisk` (`Save`, which may be skipped), whose file
operations are those of an instance of AtomicFile. `Boot` is `begin()`.

**BadgeIR** is the layer below: `irTask`, the decode task and core 1, which
interleave. `pc` is where `irTask` stands: asleep, in `irHwInit` (`Acquire`, one per thing
it acquires, and `CannotAcquire` with what that failure path gives back), between two attempts
(`Retry`), in a round of its loop (`Boop` or `NoBoop`, `Feed` and the steps of the drain, `Transmit`), or
in the tear-down (`Shut`, `StopRadio`, `DeleteQueues`, `GoDown`). `Arrive` and `FrameIn`
are the decode task, `call` is where core 1 stands in `ir_start` or a drain. A frame is the number of the burst it came in. In a boop, a tick may take any
number of frames and leave the phase as it likes: what it really does is BoopProtocol.
`mark` is history.

**NecTx** is the transmitter below that. `irTask` takes a request (`Begin`: a badge frame, a
consumer NEC frame with repeats, or raw symbols with or without a carrier of their own),
sets the carrier (`Prepare`), takes the notification (`Take`, `TakeTimeout`), offers the
transmission to the driver (`Transmit`, `TransmitFails`) and waits (`WaitDone`,
`WaitTimeout`); `Finish` restores the carrier. `OnTransDone` is the interrupt, `SetTxPower`
and `ApplyTxPower` the two steps of `irSetTxPower` on core 1. `credit` is the task
notification, `air` what the driver is sending; `abandoned` and `stuck` are history.

**LayoutMigration** follows one badge over its resets. `sector` is the table in flash,
`table` what the running boot loaded; `image0` and `slot1` say where a whole image is found
(the address of app0 is the same in both layouts, that of app1 is not), `otadata` and `trial`
which slot the boot loader takes and whether its image is on trial. `pc` is where the badge
stands: `BootLoader`; `Begin`, `Restore` and `Record`, the parts of `ota::begin`; `Erase` to
`UndoWrite`, the operations of `migrateToExpandedLayout` after its early returns (`Enter`),
each of which may fail having done all, part or none of its work; `WritePreferredLayout`
and `ArmAndRestart`; or up, where the update screen (`OnEnter`, `Dismiss`, `Close`,
`RunLayoutMigration`, `RunInstall`) and OTAService (`MarkValid`) act. `Panic`, `PowerCut`
and `UsbFlash` are what happens to it. `faults` and `owed` are history.

**AssetRegistry** has two tasks, the Arduino loop and `registry_refresh`, with `at[t]` where
each stands. `Start`, `Get`, `Fill`, `Adopt` and `End` are `refresh()` in either of them:
the wait for the install flag, the request that empties the table, one entry at a time,
`adoptInstalledFromDisk`. `Service` is OTAService, `NoInput` to `DownloadAll` the two
screens, `Waited` and `Hold` to `InstallDone` the batch and `install()`; a single install
and a batch share the actions, `batch` telling them apart as the nested hold does. `slots`
and `pool` keep what is past the counts, because the code does and the detail screen's
pointer (`cur`) goes into it. `disk` and `marker` survive a `PowerCut`.

**LedRuntime** is one pass of the main loop after another: `NothingPending` or
`SourceScript`, then `ServiceTick` (MicroPythonMatrixService), `Native` or `NotItsTurn`
(`LEDAppRuntime::service`, which runs in one pass of four), then what the user does. `at` says
where the loop is, or that a program runs: `matrix.py` out of the service, or an app out of the
menu, which may then make any of its calls (`Start`, `Stop`, `Draw`, `OverrideBegin`,
`OverrideEnd`), sleep (`Sleep`, which ticks the callback) and end (`Return`). `led` is the state
of LEDAppRuntime, `host` that of the matrix app host, `matrix` the driver's mode, `mpy_led_hold`
and who has drawn the picture; `file` survives a `Reset`. `RestoreAmbient`, `Commit`, `Requeued`
and the others with a state as parameter are the methods of the same names.

**FieldSwap** is the promise: fields are learned in lockstep, the secondary just before
the primary; a badge is done only when both know everything; anybody may give up.

### How far the models abstract

- Time: a retry timer, a beacon period, a hold or a limit may have run out at any tick or
  not. Every order of events the real periods allow is included, and others.
- A field is its tag and whose it is. Texts, TLV framing and CRC are left out; a frame that
  arrives is intact (`on_frame_rx` drops the others).
- UIDs are numbers; the comparison of `memcmp` is `<`.
- Beacon counters are 0 or not: every threshold in the code is 1. With `Wraps` an increment
  may bring a counter back to 0, as 256 of them do.
- The drain budget of 16 frames is a choice of at least one: the steps after the drain do
  not look at the queue.
- `smReset` is one step. BoopProtocol takes the tear-down of the IR hardware together with
  leaving the screen; a start while it is down, and its failures, are in BadgeIR.
- BadgeIR takes the test of a queue handle and its use as one step, and the two
  conditions at the top of `feedPythonQueue` as one look. A use of a queue while it is
  being deleted is therefore not in it (`PROJECT.json` lists the hazard). The playground
  modes and their queues, and Doom's saving and restoring of the two
  flags are left out. An `IrSend` that waits for room is one that happens later or never.
- NecTx has a time limit for every wait, so a wait may give up whenever it has not been
  answered; the words, the ring slots' contents and the duty cycle are left out. The wait
  and the reset of `is_transmitting` after it are one step.
- In BoopProtocol the journal always has room; that limit is in Journal.
- LayoutMigration has the battery, the embedded table and the allocation before the window
  as a choice; a write over a sector that is not erased tears it. A power cut, a panic and a
  USB flash count against one bound; a USB flash comes with app0 and may run over app1. An
  install whose power goes, or that fails, leaves no image in its slot.
- AssetRegistry fills an entry in one step (the `memset` and the overwriting of a slot that
  is dropped are inside it) and adopts in one step; a download is one step that lands, fails
  before the unlink, or fails after it, leaving nothing at the path (the results of `f_sync`
  and `f_close` are dropped there as well: see section 7). What the server serves
  for a file is what the catalogue's hash says. Two versions of a file are told apart
  by their size if the file is in `Sized`. The cooldown is left out, as every caller passes
  `ignoreCooldown`, and so is `tick()`, which has no caller. Every failure in `install()`
  before the first file is one choice. The error panel is
  part of leaving the screen. `kRefreshKickMinIntervalMs` is `MaxKicks`. `cur` is 0 when no screen and
  no batch uses it. The time limit of `waitForInstallIdle` is left out, as nobody ever has to
  wait there: that is `ReadsStandStill`'s invariant.
- LedRuntime names a picture by who drew it, and a mode's frames are one picture; brightness,
  delays and intervals are left out, so a callback may be ticked in any pass, and `NotItsTurn`
  may come any number of times. The built-in modes differ only in whether `service` draws them
  once or in every round, so the runs have one that is redrawn. From one entry of the LED screen the
  user may go to any other, and its editors and presets end as `Confirm` does or change the
  preview. A callback that is ticked draws, or ends its registration. Apps are not added or removed while
  the badge is up. Left out are a script run from the editor, what is typed at the
  REPL (so the draws that come from there), and the hold on the OLED that a
  `matrix.py` takes if it draws there. A file that cannot be read leaves the state as it is, as one
  that does not parse.
- The v2 exchange (`primaryTick`, `secondaryTick`, `s_earlyFrame`) has no callers left and is left out.

## 3. The runs

| run | asks | bounds | states |
|---|---|---|---|
| `pingpong` | lockstep, completion, jumps, refinement of FieldSwap, whether retries get every field across | the real 7 tags and queue of 4; tags that both, one or neither share | 22,357 |
| `boop_once` | whole card, refinement of PingPong, does every exchange end; deadlock | 2 badges, 1 session each, 3 tags, queue of 4 | 74,520 |
| `boop_restarts` | roles, mutual boops, one boop per session, what a misread peer costs | 2 badges, 2 sessions each, 2 tags, queue of 1, wrapping counters | 1,940,495 |
| `boop_kiosk` | roles with an installation about: nobody leads it, or is led by it | 2 badges, 1 installation, 1 tag, queue of 1 | 158,940 |
| `boop_wedge` | is the peer pulled into the exchange (violated) | 2 badges, 1 tag | |
| `atomicfile_safety` | unsynced files, old contents, what true means | 2 tasks, 2 contents; any operation fails, `f_sync` and `f_close` too | 4,793 |
| `ir_lifecycle` | up when wanted, down when not, nothing held asleep, order, leftovers, boop frames | frame queue and ring of 2, words and transmit queues of 1, 3 bursts; every failure of `irHwInit`, any number of times | 136,341 |
| `ir_transmit` | idle slots, the carrier, does it ever fall silent; deadlock | no carrier of one's own, the default one, and two others; any number of requests, refusals and time-outs | 812 |
| `journal_safety` | saves that make up, the limit, nothing forgotten | 3 UIDs of which one our own, room for 1 row, 2 boops each; the file fails as in `atomicfile_safety` | 30,500 |
| `layout_migration` | images for every table, the rollback, the announcement, does a boot end | 3 panics, power cuts and USB flashes together; any number of migrations, installs and failures of flash | 90,403 |
| `registry` | the two workers, the table under an install, what is recorded, the sequence after a connection, the waits; deadlock | an app of 2 files, of which one has the same size in both versions, and a single file already on flash; 2 versions, 2 catalogues; 1 manual refresh; 1 publication, power cut or failure of NVS; WiFi at will, any number of installs, removals and batches | 644,978 |
| `led_control` | whose callback and script live on, is a built-in mode ever locked out, does the matrix come to show what is selected; deadlock | 3 modes, 2 apps, any calls but that an override is closed by who opened it, callbacks that raise, saves that fail, depth up to 3 | 19,918 |

Why the bounds are enough. The exchange has a state per tag position, and its two
cursors never differ by more than one, so all its interesting situations happen around
one tag; PingPong still runs with the real numbers. A session interacts only with what
the one before left in queues and flags, so two of them show every leftover; a queue
of one already loses frames and still hands one stale frame to the next session. Two
tasks are all that can meet at a lock and a third only waits. Three bursts overflow every queue of
BadgeIR and leave one more to come after; its flags and calls are unbounded. NecTx has no
bound but the set of carriers: its state is finite as the code's is. Three resets are a
migration or an install, something that undoes part of it, and something that happens on the
way back. Two assets are the least that can change places in the table, and two files the
least of which one can land and the other fail; one publication gives every asset an old and
a new version. A journal one row smaller
than the number of peers meets its limit. In LedRuntime an app can be replaced by a mode or by one other
app, so two are enough; three overrides are Doom's, the brightness setting's and a program's, and all the rest has the
bounds of the code.

`CHECK_DEADLOCK FALSE` stands where the system may really stop: exchanges that are over,
badges whose users have used up their sessions, an `irTask` that sleeps, a badge with
nothing to boot. `boop_once`, `ir_transmit`, `registry` and `led_control` check for
deadlock: an idle badge can always leave its screen, `irTask` can always give up a wait,
WiFi can always change (what could really be stuck there is `LoopComesBack`), and a badge can
always be reset (what could be stuck there is `Settles`).

Every property of a passing run has a mutant in `PROJECT.json`: a small change of one
mapped definition (a dropped guard, a swapped order, a missing retry), written next to the
definition it replaces, with which TLC finds the property violated.

## 4. The properties worth explaining

- **Lockstep** (PingPong) is the reason the exchange works. `PrimaryWalk`: the primary has
  heard the tags behind its cursor and at most the one at it, and each only after the
  secondary had. `SecondaryWalk`: the secondary is ahead of nobody, and what it has not
  said it has not heard, which is why it may be silent until asked. `FieldsInFlight`: a
  queued FIELD is never of a tag the primary has not reached. `DoneChain`: behind every
  DONE there is a badge at the end of its walk.
- **CompleteTogether** speaks of both badges although only one changes state: a badge
  that finishes early would leave the other without a field it will never be sent again.
- **SwapSpec** and **PairSpec** are refinements: PingPong implements FieldSwap, and a room
  of two badges that boop once implements PingPong.
- **MutualBoop**, **OneBoopPerSession**, **OneLeader** are checked where they are hardest,
  with a second session that starts amid the frames of the first and counters that wrap.
- **NothingForgotten** states the repeat-boop policy as an action property.
- **MisreadHasBooped** takes the place of what `BadgeBoops.h:47` says of the boop type, which
  the code does not keep (section 7): a frame of an exchange may be the first that a session
  hears, and its sequence number is then read as an installation's type. `boop_restarts` has
  such sessions, after leftovers and after wraps. A FIELD or a FIN says of its sender that it
  has a row, so the badge that is misread has the boop, and so has the one that misreads it.
- **TrueUnlessSyncFailed** is about the step that returns true, with other tasks and earlier
  power cuts before it. `Filesystem.h:50-51` promises more: the results of `f_sync` and
  `f_close` are only logged or dropped (`Filesystem.cpp:106-109`), so when one of them fails
  `writeFileAtomic` still returns true, with whatever reached the flash (`Lost`) at the path.
  Both fail at will in the runs, `syncFailed` remembers it, and the property says that this is
  the only way to be told true wrongly. `LiveIsWhole` and `SavedIsAll` make the same exception.
- **FewStale** (BadgeIR) counts what can reach MicroPython from before a drain. `irDrainPythonRx`
  empties the frame queue first and the queues it feeds afterwards; `feedPythonQueue` may
  hold one frame meanwhile, and that is all that gets past. Any other order would let a
  whole queue through. "never returns stale data" (`mp_api_ir.cpp:40-41`) is off by that one frame.
- **InOrder** speaks of the ring and of the words queue with everything on its way to
  them, in the hands of two threads, each queue dropping by itself.
- **NothingHeldAsleep** is about four failure paths that give back different things.
- **SlotIdle** (NecTx) is what the comment at the ring promises, after any history of waits that gave up
  and notifications that came late: the late one is the only one there is, so the next send
  waits for it. **NeverMute** is the other side: it is never lost either.
- **BadgeCarrier** relates the channel to who is on the air, against core 1. `stuck`
  excludes the one case where it fails (section 7).
- **NeverStranded** (LayoutMigration) is about boots to come: whatever puts a table, an image
  or a slot where it is, they must fit. It is why a migration from app1 is refused, and it must
  hold over installs that make app1 the running slot, trials that fail, USB flashes that bring
  back the old table, and the replay of the preference at boot.
- **RollsBack** counts failures: a call with one failed operation after the erase gives back
  the table it found, whichever operation and however much of it was done. With two it may
  not, as the code says.
- **ClaimIsOwed** relates a flag that survives warm resets to what really happened: `owed` is
  set by the restart of a migration and cleared by whoever has told the user, and by a cold start.
- **BootEnds**: a replay at boot either ends in the same boot or restarts it with the new
  table; no chain of failures makes it start over for ever.
- **ReadsStandStill** (AssetRegistry) is what `sInstalling` and `sRefreshing` are for. Neither
  is taken with the other one tested in the same step; it holds because whoever refreshes in
  the loop is not installing, and the worker is only started from the loop.
- **OldOnlyBySize** is about the steps that record a version, in a single install, a batch or
  the adoption, over refreshes in between, files that fail, removals and power cuts. What is
  recorded is not always what is there (section 7): an update that fails between two files
  leaves an old one, and if its size is the same the next install adopts it. The run reaches
  that, with the second file of the app; the property says that nothing but the size excuses an
  old file, that the file is there at least, and that a download leaves none. A single install
  of an entry that a refresh has dropped from the table is excluded, as its part of the pool
  is by then other entries' (section 7, the detail screen's pointer): for that it fails.
  The reader's side, that what is shown as installed is the version offered, does not hold either.
- **SettlesAfterConnect** and **LoopComesBack**: the workers may be started elsewhere, fail to
  start, or fail to connect, and neither the sequence nor the screens may wait for ever.
- **OnlySelected** (LedRuntime) is about what is left of an app once another mode is selected: a callback,
  a script in the queue, a script that runs. The queue is filled from a dozen places and the
  selection changes in one of them, so it rests on the order of a pass: the queue is drained
  before the user is heard. A `matrix.py` that opens overrides fills the queue while it runs, and
  then it does not hold (section 7).
- **HoldReleased** relates the driver's mode, the hold and the callback after any program,
  however it ended; a mode left on would make `service()` return at once for ever.
- **Settles** is the user's view: overrides, previews, Doom and programs come to an end, and from
  some moment on the matrix shows the mode that is selected. It needs `Careful` programs: one
  that ends inside an override leaves the depth at one (section 7). It speaks of the
  modes that are drawn in every round: one that is drawn once stays dark after somebody has
  cleared the matrix without telling the runtime (section 7), so for these it fails.

## 5. Fairness

`irTask` is pinned to core 0 and loops for ever (`ir/BadgeIR.cpp:781-825`), so in
PingPong and BoopProtocol each badge's own steps are weakly fair. Frames can be lost, but
one that is sent over and over is heard eventually: strong fairness of the sending
actions with everybody hearing (`FairLink`, `KeepsSending`). Without that no retry is
worth anything. The two minute limit is compared at the top of every tick, and once it
has passed it stays passed; as the model keeps no clock this is strong fairness of
`ExchangeTimeout` alone. `boop_once` uses only the first and the last of these
(`TickingSpec`): an exchange must end even if every frame is lost. Users are
never obliged to do anything.

In BadgeIR `irTask`, a decode task that has a burst, and a call on core 1 that has begun
go on (weak fairness). `irHwInit` fails for want of memory or of RMT channels; that each
step succeeds if it is tried over and over (strong fairness of `Acquire`) says that they
are free again some time. `GoesDown` assumes that MicroPython stops sending, because
`servicePythonTx` sends until its queue is empty and `irTask` does not look at the flags
before: an app that fills the queue as fast as the air takes frames keeps it there.

In NecTx `irTask` goes on, the interrupt at the end of a transmission comes (weak
fairness), and the driver does not refuse for ever a transmission that it is offered over and
over (strong fairness of `Transmit`). Nothing says that a wait outlasts its transmission.

In LayoutMigration the badge runs (weak fairness of `Program`); users, power and flash owe
nothing. In AssetRegistry the loop and the two workers go on: FreeRTOS runs all three on core
1, the loop yields in every round (`delay(20)`, `yield()`), and every request has a time
limit. `HoldTimeout` is not fair, so the waits end without it. A connection that is always lost before `kWifiOtaDeferMs` is up
keeps the phase at 1 only while it lasts; one that stays outlasts the delay (strong fairness of that one step of
`Service`).

In LedRuntime the loop runs (weak fairness of its steps), `matrix.py` returns, and
`LEDAppRuntime` gets its turn again and again (strong fairness of `Native`: every fourth
pass, `Power.cpp:35`). Neither users nor apps are obliged to do anything; `Settles` speaks of badges that
are back in the menu.

## 6. What is proved

TLAPS checks `PingPong_proofs`, `BoopProtocol_proofs`, `Infrared_proofs` (BadgeIR and NecTx),
`AtomicFile_proofs`, `Journal_proofs`, `LayoutMigration_proofs`, `AssetRegistry_proofs` and
`LedRuntime_proofs` to the last leaf, for every value of the constants that satisfies the named
assumptions.

| theorem | says | rests on |
|---|---|---|
| `PingPong_proofs!TypeCorrect` | `Spec => []TypeOK` | inductive by itself |
| `WalksInLockstep` | `Spec => []Lockstep` | `TypeOK /\ Lockstep` is inductive |
| `BothHaveAll` | `Spec => []CompleteTogether` | `DoneChain` and `PrimaryWalk` |
| `JumpsAreSafe` | `Spec => []JumpIsSafe` | `FieldsInFlight` and `PrimaryWalk` |
| `ImplementsFieldSwap` | `Spec => SwapSpec` | one step per action, under the invariant |
| `BoopProtocol_proofs!TypeCorrect` | `Spec => []TypeOK` | `IInv`: which phases go with which counters, who a peer can be, what a queue can hold |
| `Leads` | `Spec => []OneLeader` | `IInv`: in an exchange `primary` is the comparison of the UIDs |
| `CountsOnce` | `Steady` implies `Spec => []OneBoopPerSession` | `Single`: the boops of all rows together, and the row of the peer that was recorded |
| `BothHaveABoop` | `Duo` implies `Spec => []MutualBoop` | `Mutual`: a FIELD or a FIN says that its sender has a row, and so does a FIN that was seen |
| `MisreadKeepsBoop` | `Duo` implies `Spec => []MisreadHasBooped` | `Mutual`, for the sender of the frame that was misread, and `Single`, for who misread it |
| `TypesArePeers` | `Meeting` without `Wraps`: nobody's type is misread | `Paired`: whoever sends a frame of an exchange has heard the other's DONE |
| `Implements` | `Meeting` implies `Spec => PairSpec` | `Paired`: beacons come first in every queue, so what follows them is PingPong's queue |
| `CardsAreWhole` | `Meeting` implies `Spec => []WholeCard` | `Implements`, `BothHaveAll` of PingPong_proofs, and `Whole`: what was received is on the card |
| `AtomicFile_proofs!TypeCorrect` | `Spec => []TypeOK` | with who holds the lock in it |
| `OldKept` | `Spec => []OldUntilUnlink` | the lock: nobody else is past `Call` |
| `NeverTorn` | `Spec => []LiveIsWhole` | `TmpIsWritten`: past the sync, the `.tmp` is what the holder wants, or what a failed sync got out |
| `TrueExceptSync` | `Spec => TrueUnlessSyncFailed` | the same |
| `Journal_proofs!TypeCorrect` | `Spec => []TypeOK` | `TypeInv`: what waits to be merged is of a peer |
| `SavesMakeUp` | `Spec => []SavedIsAll` | `SaveInv`: what the call under way writes is what RAM holds, and past the sync the `.tmp` has it, or the sync has failed |
| `LimitHolds` | `Spec => []WithinLimit` | `LimitInv`: the `.tmp` and what a save writes fit too |
| `NothingIsForgotten` | `Spec => NothingForgotten` | what a boop and a merge do to a row |
| `Infrared_proofs!TypeCorrect` | `Spec => []TypeOK` | `Holdings` for the frame in hand |
| `SleepsEmptyHanded` | `Spec => []NothingHeldAsleep` | `Holdings`: what is held at each step of `irTask` |
| `BoopFramesStay` | `Spec => BoopKeepsItsFrames` | the phase leaves IDLE only in `irTask`'s own steps, and not while it feeds |
| `OrderKept` | `Spec => []InOrder` | `InLine`: the ring, the words, the frame in hand, the queue and the decode task in one increasing line |
| `FewAreStale` | `Spec => []FewStale` | `Drained`: what is old at each step of a drain, at most one frame past it |
| `TxTypeCorrect` | `TxSpec => []TxTypeOK` | `OneToken`: the notification is in one place |
| `SlotIsIdle` | `TxSpec => []SlotIdle` | `OneToken` |
| `Awaited` | `TxSpec => []OnAirIsAwaited` | the same |
| `CarrierRestored` | `TxSpec => []BadgeCarrier` | `CarrierOwned` and `AirBusy`: a carrier that is not the default belongs to the request in hand |
| `LayoutMigration_proofs!TypeCorrect` | `Spec => []TypeOK` | inductive by itself |
| `BadgeBoots` | `Spec => []NeverStranded` | `RunsFromWhole`: a badge that is up runs from an image that a boot under the table in flash, and under the new one if it runs from app0, would find |
| `OneFailureRollsBack` | `Spec => RollsBack` | `WindowInv`: what the sector holds at each step of the window, given the failures so far |
| `GuardIsBack`, `PinnedIsThere` | `Spec => []GuardedOutsideWindow`, `Spec => PinnedWhenThere` | by itself, and `WindowInv` |
| `ClaimsAreOwed` | `Spec => []ClaimIsOwed` | the magic is only set while a migration is owed |
| `AssetRegistry_proofs!TypeCorrect` | `Spec => []TypeOK` | `TableInv`: every entry's files lie inside the pool, and those of a counted entry are its own; `InstallInv` |
| `OneWorker` | `Spec => []NeverBoth` | `TurnInv`: where each task stands when a flag is set, and that the flags exclude each other |
| `TableStandsStill` | `Spec => ReadsStandStill` | `TurnInv`: a refresh in either task is over, or still at its wait, while an install holds |
| `RecordsAreTrue` | `Spec => OldOnlyBySize` | `InstallInv`: of an entry in hand that is still in the table, each file is still to come or on flash in that version; `TableInv`: its files are its own |
| `LedRuntime_proofs!TypeCorrect` | `Spec => []TypeOK` | `Names`: a running program has a name, an entry is selected on the LED screen, an app's mode has a slug |
| `SelectionHolds` | `Reliable` implies `Spec => []OnlySelected` | `Order`: what waits in the queue, what the file says and what is held off at each point of a pass |
| `NativeIsFree` | `Reliable` implies `Spec => []HoldReleased` | `Held`: MicroPython mode is on only with the hold, and `Order` |

Assumptions: `Rounds` is a natural number, `QueueDepth` a positive one, `Card` a set of
tags per badge; the badges and installations of BoopProtocol are finitely many positive numbers; the markers of AtomicFile are not contents,
and those of Journal are not journals; the peers of Journal are finitely many; the depths of
BadgeIR are positive; the carriers of NecTx are those `irRawSend` lets through; the resets of
LayoutMigration are a natural number; a catalogue of AssetRegistry is a sequence of assets
and versions that names no asset twice; `temporal` is one of LedRuntime's modes, and no app is
one. `Reliable` says that a `matrix.py` calls nothing but `matrix_app_start` and
`matrix_app_stop`, and that the state file can be read: section 7 says why the first is needed.
CompleteTogether alone is not
inductive: that a badge with `doneSent` and `finSeen` may complete is only safe because
each of the two flags, and each DONE still in a queue, has a finished walk behind it, and
that a finished primary has heard everything, and the secondary before it, is only so
because no FIELD in flight runs ahead of the primary. That is what the parts of Lockstep
add. The lemmas of PingPong_proofs say once what each operator of Exchange does to each
field of the record, and what sending and taking does to the frames that wait.

Three conditions on the room stand before theorems of BoopProtocol, and for each TLC finds a
room in which the property fails without it.

- `Steady`: if a beacon counter can wrap, nobody has more than one other party in the room. A
  wrapped counter makes the next frame the first again, which with two others in the room may
  be the other one's (section 7).
- `Duo`: every badge has one other party at most. A frame does not say to whom it is sent, so
  with three badges the DONE and the FIN of a peer that swaps with the third complete an exchange
  the peer knows nothing of: it counts the third one's boop only. Any number of sessions and
  wraps are allowed.
- `Meeting`: two badges and no installation, one session each, which is the room `boop_once`
  checks, with any UIDs, tags, cards, queue depth and losses. A second session may hear the
  frames of the first: WholeCard and PairSpec fail with two, as PingPong starts with empty
  queues, and so does what `TypesArePeers` says. `TypesArePeers` also excludes a wrap, after which the type is read again
  from the next frame, whatever it is.

The invariants are in layers, because the facts are of different kinds. `IInv` speaks of one
badge and its own queue, and is inductive in every room. `Single` adds up rows. `Mutual` and
`Paired` relate what stands in a queue to what its sender has done since; what they rest on is
that nothing a badge has done is undone while a frame that tells of it is about (`RowsGrow`,
`KnownStays`), and that a step adds at most one frame to the queues of the others, whose
contents are known (`InboxStep`). `Implements` then needs one lemma per kind of step:
a FIELD or a FIN handled, each of the five ends of a tick, the entry, a departure, and frames that are
dropped. `WholeCard` is the only theorem that goes down and up again: the session
implements the exchange, the exchange completes together, and so the card is whole.

`InOrder` and `FewStale` are about four queues in three threads. `InLine` reads them as one
sequence, from MicroPython's end to the decode task's, and says that it increases; a queue that
drops keeps it so. `Drained` follows the drain of the queues from core 1 step by step, against a
frame that `irTask` may be holding.

Only model-checked: the liveness properties, under fairness (`ExchangeEnds`, `FieldsGetAcross`,
`NeverMute`, `Settles` and the like: out of the prover's reach). FollowsIntoExchange, of
`boop_wedge`, does not hold.

## 7. Where code and documents disagree

| run | quoted | what happens |
|---|---|---|
| `boop_wedge` | `BoopsProtocol.cpp:678-682` | the short circuit that pulls a late badge out of its beacons needs a frame, and a secondary in EXCHANGE transmits nothing until the primary does; a lost last confirm leaves the primary beaconing until the secondary's limit |

TLC shows a behaviour. The property is temporal, and the behaviour cannot be blamed on a badge
that simply stops: the specification is fair.

More was met while modelling, and has no run of its own.

- "re-install over the top" as the way to update an asset (`firmware/docs/OTA-MAINTAINER.md:275-276`):
  `install()` adopts files that are there with the declared size (`AssetRegistry.cpp:1006,
  1180`). After an update that failed between two files, or when no size has changed, the next
  install records the new version and fetches nothing, so an asset may be shown as
  installed with an old file. The run `registry` has this case: see OldOnlyBySize above.
- "Persist a Python-driven ambient matrix app" (`LEDAppRuntime.h:46`), whose script is sourced
  "when the persisted state names a slug" at boot (`MicroPythonMatrixService.cpp:14-18`):
  `loadState` recognises the modes up to `modeCount()`, which leaves `PythonApp` out
  (`LEDAppRuntime.cpp:138, 544-548`), so a saved app is not selected.
- "Unregister the callback and restore the default ambient LED mode"
  (`API_REFERENCE.md:876`): `matrix_app_stop` clears the matrix but leaves `runningValid_`, so a
  mode that is drawn once stays dark (`LEDAppRuntime.cpp:336`).
- "the single long-lived ambient LED owner" (`firmware/src/README.md:60`): closing an override turns
  MicroPython mode off under a registered callback, and both draw (`LEDAppRuntime.cpp:301`).
- `commitMode` leaves the queue alone (`LEDAppRuntime.cpp:232-240`): a `matrix.py` that has
  queued itself again, by closing an override while it runs, registers after the change of mode.
- Overrides are a counter in LEDAppRuntime and a flag in the host
  (`modtemporalbadge.c:1655`), and one left open by an app that is forced out is nobody's to
  close: the depth stays above zero and the ambient mode off until a restart.
- "the first `ir_send*()` after `ir_start()` will not race" (`API_REFERENCE.md:1055-1057`):
  `ir_start` waits for `s_hw_up`, which the tear-down clears last (`BadgeIR.cpp:419-432`); an
  `ir_start` during it returns at once, and the send finds no queue.
- "bit N = tag N received from peer" (`BadgeBoops.h:74`): `processPpFrame` looks at nobody's
  UID, so with a third badge in range its fields land on the card of the second.
- "Saves go through Filesystem::writeFileAtomic for power-cut safety" (`EditorScreen.h:14`):
  unlink, then rename (`Filesystem.cpp:118-119`); in between there is no file.
- "roll back on any failure short of a literal power cut" (`BadgeOTA.cpp:975-976`): an erase
  that fails returns without writing the snapshot back (1026-1033), so RollsBack starts
  after the erase.
- "GUI auto-pushes this screen at boot" (`UpdateFirmwareScreen.cpp:182-184`): the GUI looks
  for the flag (`ui/GUI.cpp:847`, called from `main.cpp:382`) before `ota::begin` sets it
  (`main.cpp:394`), so the announcement waits until the user opens the screen.
- "the bad flash was transparent" (`BadgeOTA.cpp:288-292`): a replay at boot arms the magic as
  any migration does, and is announced.
- "on failure the live file is left untouched" (`AssetRegistry.h:46-47`): a rename that fails
  comes after the unlink (`AssetRegistry.cpp:921-930`), and so does a power cut between them.
  `f_sync` and `f_close` are not looked at (889-890).
- The detail screen keeps a pointer into `sAssets` (`AssetLibraryScreen.cpp:351, 359`). A
  background refresh that brings another order makes Confirm install or remove another
  asset; and `remove()` takes no hold, so it reads `sFiles` while they are rewritten.
- "so TLS + writeToStream bursts do not overlap" (`OTAService.cpp:85-88`): the
  synchronous check of the update screen looks at neither flag. `service()` does not look at
  whether `beginCheckAsync` or `beginRefreshAsync` started anything: one that cannot get its
  task is not tried again during that connection.
- "Idempotent: re-send even if we've already sent once, because primary retxing means
  primary hasn't seen our reply" (`BoopsHandlers.cpp:399-401`): the secondary's first answer
  to DONE is followed in the same tick by its leaving EXCHANGE (313-316), so no retry is ever
  answered, and if the one answer is lost the primary retries until its limit.
- "Returns true iff the file is on disk with the requested contents" (`Filesystem.h:50-51`):
  it returns true as well when `f_sync` or `f_close` has failed (`Filesystem.cpp:106-107`), whatever
  they got out; TrueUnlessSyncFailed says that it is the only case.
- "On `ir_stop()` the mode resets to "badge"" (`API_REFERENCE.md:1177`): it is the tear-down
  that resets it, which does not come while the boop screen is open, or when an `ir_start`
  follows soon.
- `boopType` is "captured from beacon word0 byte1" (`BadgeBoops.h:47`): `unpackPeerUID` is
  also called for exchange frames (`BoopsProtocol.cpp:701-703`), whose byte 1 is a sequence
  number. A badge restarted from its result screen, with a FIELD of the last exchange still
  queued, takes its peer for an installation and finishes without an exchange. The run
  that has this case is `boop_restarts`; MisreadHasBooped says that both have counted the boop.
- With counters that wrap and an installation in the room, a badge can end a session with a
  peer other than the one it recorded: OneBoopPerSession fails if `boop_kiosk` runs with
  `Wraps = TRUE`.
- "Restore the default 38 kHz carrier so any subsequent badge-mode traffic is unaffected"
  (`BadgeIR.cpp:705-706`): raw symbols may take longer on the air than the 3 s their wait
  lasts. `is_transmitting` is then still set, `nec_tx_set_carrier_freq` returns without a
  change (`nec_tx.c:358`), the result is dropped, and later frames go out at the carrier of the
  raw symbols. Without `~stuck` BadgeCarrier fails. The buffer on `irTask`'s stack goes out of use
  while it is still being sent, too ("valid until nec_tx_wait() returns", `nec_tx.h:121`).
- "Tear down TX resources. Safe only when no transmission is in progress" (`nec_tx.h`):
  after such a wait `irHwDeinit` may come while the transmission goes on.
- A time-out of 0 means "default NEC_TX_SEM_TIMEOUT_MS" (`nec_tx.h`), which is 3000; the code
  takes 7000 (`nec_tx.c:240`). No caller passes 0.
- `irSetTxPower` returns -1 while a transmission is on the air, after it has stored the
  percentage (`BadgeIR.cpp:757-768`).

## 8. Not modelled, and the plan

Out of reach or not worth it: drawing, drivers, settings tables, HTTP and flash writes,
the vendored interpreter and game, workflow scripts, generators (see `PROJECT.json`).

Left out of the updater: the release check with its cache and the synchronous check of the update
screen, which takes no flag; redirects, retries and the resume of a
download (a download is a step that lands or fails); hashes and paths. The TLS gate polls
for memory and promises nothing to the caller after it returns; WiFiService's `connect()`
does not look at `asyncConnectInFlight_` (a hazard in `PROJECT.json`). `irSetMode` tests the boop phase on one
core and sets the mode afterwards with no lock; it belongs to the playground modes.

What would come next, in this order:

1. **Journal**: the merging of duplicate rows in `begin()`.
2. **BadgeIR**: the playground modes with their queues and `irSetMode` as a layer
   on top, and the test and the use of a queue handle as two steps; `smReset` split into
   its assignments, composed with the buttons.
3. **BoopProtocol**: `PairSpec` for a second session that starts with empty queues; the card
   between a badge and whichever peer it recorded, in a larger room.
4. **WiFiService** and **TlsGate**: who may connect and who may hold the gate, under the
   actions of AssetRegistry that assume a connection; a download that resumes.
5. **LedRuntime**: scripts run from the editor and the hold on the OLED; programs whose
   override is closed for them. **Scheduler**: registration and dividers.
6. The **NEC codec** and the **MessagePack reader** as functions against a reference.
