# A formal model of profiler-rs

profiler-rs is a sampling profiler that lives inside the program it profiles.
The program's threads register with it and add markers; a sampler thread
suspends each registered thread in turn and records its stack; a buffer thread
stores what arrives and turns it into a profile for the Firefox Profiler.

This directory holds TLA+ modules that model the profiler, configurations that
check them with TLC, and proofs that TLAPS checks. Every definition follows the
Rust source; `PROJECT.json` names the lines each one stands for.

    tlc -workers 4 -config profiler_core.cfg MCProfiler
    tlapm ProfilerProofs.tla

Every run is listed below with its module; the configuration has the run's name.

## Inventory

| Part | Source | State | Operations | Interacts through |
|---|---|---|---|---|
| MainThreadCore | `src/core.rs` | the senders of two channels, the receiver of the responses, one `Arc<Mutex<Option<ThreadInfo>>>` slot per registrar | `new`, `get_thread_registrar`, `start_sampling`, `get_sample_count`, `wait_for_one_sample`, `serialize`, drop | messages to both threads, one shared response channel, the slots |
| ThreadRegistrar, `add_marker` | `src/core.rs` | two `Option<Sender>`s, the slot, the thread local `PER_THREAD_INSTRUMENTATION` | `register`, `add_marker`, drop | messages to both threads, the slot |
| SamplerThread | `src/sampler_thread.rs` | `is_paused`, `samplers`, the list its round goes through | the five messages, a round of samples, three ways to end | receives from the core and every thread, sends to the buffer thread |
| BufferThread | `src/buffer_thread.rs` | markers, samples, `is_waiting_for_one_sample` | the six messages, the end | receives from everyone, responds to the core |
| TimeExpiringBuffer | `src/time_expiring_buffer.rs` | a `VecDeque` of entries in arrival order, a lifetime | `push_back`, `remove_expired`, `iter_thread`, `len` | owned by the buffer thread |
| Stack table | `src/sampler.rs`, `SamplesSerializer` | the table, the running indices of its search, an index per sample | `new`, `serialize_*` | called by the buffer thread |
| StringTable, markers | `src/sampler.rs`, `src/markers.rs` | a map and a vector | `take_string`, `get_index`, `serialize` | called by the buffer thread |
| MacOsSampler: critical section | `src/sampler_mac.rs` | the process's panic hook, whether the thread is suspended | `suspend_and_sample_thread` | the sampled thread, every panic of the process |
| MacOsSampler: stack walk | `src/sampler_mac.rs`, `NativeStack` | the frame pointer, up to 1024 frames | `critical_frame_pointer_stack_walk` | the sampled thread's memory |
| Startup | `src/startup.rs` | two processes and a one-shot server | `launch_app`, `launch_profiler_service` | IPC; not connected to the rest yet |
| lib.rs, examples | `src/lib.rs`, `examples/` | none | | clients of the above |

### What is hard here, and what makes each part correct

* **Everything is asynchronous.** The core, any number of application threads
  and the two profiler threads share three unbounded FIFO channels. A channel
  orders one sender's messages; nothing orders two senders' but what happens
  between them. `serialize` is right only because the markers it must contain
  are already in the channel that its request travels on (`ProfileComplete`,
  `MarkersInOrder`, `NoMarkerLost`).
* **One response channel for three requests.** A response that is left over, or
  sent twice, is taken for the answer to the next call, which then panics:
  "Received an out of order serialization message" (`Lockstep`).
  `wait_for_one_sample` is answered by a message that is not its request
  (`WaitSeesSample`).
* **Registration takes three steps** (slot, message, thread local), and
  unregistration is a message that lags behind: the sampler thread goes on to
  sample threads that have left (`SamplersConverge`, `Attributable`,
  `UnregisterTakesEffect`).
* **Termination is implicit.** No message ends the threads. They end when the
  last sender of their channel is dropped, so every clone counts (`Endpoints`,
  `ShutdownCompletes`).
* **A failed send panics the sender** (`expect`, `unwrap`); a panic in a
  destructor that runs during a panic aborts the process (`ThreadsNeverPanic`,
  `PanicOnlyAfterStop`).
* **Waiting.** The core blocks inside its calls (`RequestsAnswered`,
  `WaitReturns`).
* **All of it together** has to look like one log to the program that is
  profiled: `add_marker` has happened when it returns, and a profile is what the
  log was at one instant (`ImplementsProfileLog`).
* **A registrar acts on the thread it is dropped on**, not on the one it was
  registered on, and panics where there is nothing to unregister
  (`InstrumentedIsSampled`, `WellUsedNeverPanics`, `WellUsedIsTracked`).
* **The stack table** is built by one mutable search index that crosses frames
  and samples (`LeafResolved`, `WellOrdered`, `Deduplicated`,
  `SameStackSameEntry`, `ChainsKept`, `OwnEntry`).
* **The JSON** refers to strings that are written after the rows that use them,
  and to stacks by position (`ReadsBack`, `StringTableExact`); expiry relies on
  the order of the entries (`RemovesExactlyExpired`).
* **Sampling changes the process it runs in**: the panic hook and the lock of
  stderr are everyone's, and each kernel call can fail with a thread suspended
  (`HookRestored`, `HookAlwaysRestored`, `SuspensionEnds`).
* **The stack walk reads memory it knows nothing of** (`FaultsOnlyOutside`,
  `CallChainRecorded`).
* **Startup** is a handshake of two processes that can be killed
  (`ServiceOfItsApp`, `StartupEnds`).

`PROJECT.json` lists every hazard with its line, also those that no property
covers. Three are outside of what the properties speak of: both buffers grow without bound,
an entry's time is that of its handling and not of its making, and a thread that registers
twice is listed twice. Four the models reach, and the properties except or take as
the code means them: a panic elsewhere while a thread is sampled aborts the
process, the sampler thread can hang at `eprintln!`, the app can hang at `accept`, and a
registrar that was moved unregisters the thread it is dropped on.

## Modules

    Channels            the three channels, their ends, the messages
      BufferThread        the "Profiler Buffer" thread
      SamplerThread       the "Profiler Sampler" thread
      ThreadRegistrar     the application threads
        MainThreadCore      the core, which hands out registrars
          Profiler            all of them composed: Spec, Fairness, properties
            ProfilerProofs      theorems about Profiler: types, channel ends, panics,
                                registrations, markers and samples
            ProfilerLog         Profiler implements ProfileLog
              ProfilerLogProofs   what serialize returns, and the refinement, proved
                                  (with ProfilerProofs)
              MCProfiler          instances for TLC
    ProfileLog          what the profiler promises: one log
    Registrar           a registrar in the hands of any application
      RegistrarProofs       theorems about Registrar
    StackTable          SamplesSerializer::new
      StackTableProofs    theorems about StackTable
    TimeExpiringBuffer  the queue of entries with their times
    StringTable         the interned strings of a thread's JSON
      ThreadSerialization   the buffer thread's data, its clock and its JSON
        ThreadSerializationProofs theorems about ThreadSerialization
    CriticalSection     panic hook, suspend, resume
      CriticalSectionProofs theorems about CriticalSection
    StackWalk           the frame pointer walk
      StackWalkProofs     theorems about StackWalk
    Startup             the app and the profiler service
      StartupProofs         theorems about Startup

Each specification has an MC module of its own (`MCRegistrar`, `MCStackTable` and
so on) that adds what TLC needs, the symmetry sets. ThreadSerialization uses
both TimeExpiringBuffer and StringTable.

An operator named for what a plausible bug would do, marked "a faulty variant",
is used by no action. `PROJECT.json` pairs each with the definition it could
replace and with the property that then fails.

**Channels.** A channel is its queue, the set of the parties that own a sender,
and whether its receiver lives. `recv` and `try_recv` report a disconnection
only for a queue that is empty; a send fails exactly when the receiver is gone.
This is how `std::sync::mpsc` behaves as the code uses it (its operators are
marked external in the map).

**BufferThread.** One action per arm of the `match` in `start`. `markers` and
`samples` are sequences in arrival order. The variables outlive the thread: what
`BufferExits` leaves in them is history, so that properties can speak of what
was stored. `ClearExpiredMarkers` removes some prefix of the markers: entries
arrive in clock order and `remove_expired` pops from the front until it meets
one that is fresh, so which prefix depends on the clock alone.

**SamplerThread.** While `samplerThread = "receiving"` it is at the top of its
loop; while `"sampling"` it is in the `for` loop, and `round` holds the samplers
that are still to come. Each sample is a step of its own, so all other parties
move in between. `TakeSample` is `Ok`, `SkipSample` is `Err`, and which one it
is, is a free choice: the thread may be gone, or the kernel refuse. The `Vec` of samplers is a
set, because a thread registers once in this model. A message that is handled
leads straight back to the top of the loop, paused or not (`should_sample`,
`continue`). The sleep at the end of a round is not a state: nothing but time
separates `EndRound` from the next message.

**ThreadRegistrar.** `register` is two steps, because another thread can lock
the slot in between; setting the thread local is not observable by others and
goes with the send. `add_marker` on a thread that is not instrumented does
nothing and is no step. The unwinding that a failed `expect` causes is part of
the action: it drops the registrar, whose `drop` sends (or panics again, which
aborts: `aborted` stops the whole system). The two senders of a registrar are
`pub`, and the only way to get at the messages nothing in `src/` sends;
`Controls` is the set of those the application uses.

**MainThreadCore.** The owner makes one call at a time. A call is one action up
to the point where it blocks or locks: `serialize` locks one slot per step, all
requests end in `"awaiting"`. A panic of the core is taken to drop it. The order
in which the fields of a dropped core go is merged into one step.

**Profiler.** Each step is one of one party, with the others' variables
unchanged. `atCall` remembers what the profiler had been given when `serialize`
was called, for `ProfileComplete`.

**ProfileLog, ProfilerLog.** `ProfileLog` has no threads and no channels: a
marker or a sample is in the log at once; `serialize` is called, lists the
threads and reads the log in one step, answers with what it has read less what
has expired meanwhile, and returns. `ProfilerLog` maps `Profiler` to it. A
marker is in the log when it is sent, so the log is what the buffer thread has
stored and what is in its channel. `serialize` reads the log when
`SendSerialize` puts its request into the channel: what is in front of it will
be in the profile, what is behind it came too late. That the buffer thread
stores the one and not the other is what the refinement checks.
The threads listed are looser than a snapshot, because the slots are locked one by
one: `Read` allows every list without repetition that has those who were named
at the call and nobody who is not named at the end.

**Registrar.** The registrars in the hands of any application: `Move` gives one
to another thread, `Register` and `DropRegistrar` happen at any time, also twice or
never. An unwinding thread drops all registrars it has, in any order; only whether
it is instrumented and how many there are matters to the outcome, hence
`UnwindThrough`. `misused` records that a registrar was not used as the doc comment
of `ThreadRegistrar` shows, for the properties that promise something only then.
The steps within `register` are in ThreadRegistrar and merged here.

**StackTable.** One action per step of the innermost loop. Positions are counted
from 1 and 0 is `None`. Only the order of comparisons and of index updates
matters, so an address is a model value. Samples are drawn when the loop comes
to them, which gives every sequence of samples. Any frame can be null, the leaf too:
`critical_frame_pointer_stack_walk` records the rip register and the return
addresses as it finds them. `UnwrapNone` is the panic of `stack_index.unwrap()`, which
ends the buffer thread; `panicked` says so and nothing follows.

**TimeExpiringBuffer, StringTable.** Operators on a sequence of entries, and on
a table that is a sequence and a map; `GetIndex` returns the new table with the
index, because `get_index` mutates.

**ThreadSerialization.** The buffer thread of one process with a clock: markers
and samples come in, markers expire, and `SerializeBuffer` starts the JSON of a
list of threads. Its steps follow `serialize_buffer`: per thread the markers one
by one, the samples, the frames one by one, and the strings last; the thread then
goes to `threads` and the next one gets a new table. The rows are kept, the wording of
the JSON is not. A sample has one frame here that is not null, other stacks are StackTable's
matter. `cleared` is history: the last step was `ClearExpiredMarkers`. With it
`RemovesExactlyExpired` can speak of an expiry that takes nothing. A thread may be listed twice. Times are ticks since the profiler's start,
`Millis` rounds down.

**CriticalSection.** The sampler threads of several cores, each of which goes
through `suspend_and_sample_thread` again and again, and the application's
threads, which print (the lock of stderr), panic and catch it, and end. Each
kernel call succeeds or fails. `suspended` is the kernel's count with the names
of those who counted. A target is any thread, also one that has ended, as the
sampler thread's list lags behind. The walk is inside `GetRegisters`. The
variable `overlapped` is history.

**StackWalk.** The memory is a few mapped words with every content, the registers
hold anything, the bounds are anything that the two pthread calls might return.
An address counts units of two bytes, so that one can be aligned to four
bytes and not to eight, or to neither. A read that straddles two words returns any value. Reading
an unmapped word ends the walk in `"fault"`.

**Startup.** Processes that find out from their arguments what they are. The
token is the process that has it. A message that was sent is in `inbox`, and
goes with the process it was for. A send fails if the receiver's process has
ended, `accept` waits whatever has happened.

## Runs

| Run | Instance | Shows |
|---|---|---|
| `profiler_core` | 2 threads, 2 calls, 1 marker per thread, samples | `TypeOK`, `PanicOnlyAfterStop`, `SamplersConverge`, `Attributable`, `ProfileComplete`, `ImplementsProfileLog` |
| `profiler_calls` | 1 thread, 4 calls, 2 markers, sampling paused once or not | `Lockstep`, `WaitSeesSample`, `MarkersInOrder` |
| `profiler_controls` | 2 threads, 2 calls, one Stop or Clear | `Endpoints`, `ThreadsNeverPanic`, `NoMarkerLost`, `ImplementsProfileLog` |
| `profiler_liveness` | 2 threads, 2 calls, no markers, `FairSpec` | `RequestsAnswered`, `WaitReturns`, `UnregisterTakesEffect`, `ShutdownCompletes` |
| `registrar` | 3 threads, 3 registrars | `TypeOK`, `InstrumentedIsSampled`, `WellUsedNeverPanics`, `WellUsedIsTracked` |
| `stack_table` | 3 samples of up to 3 frames over 3 addresses and null | `TypeOK`, `WellOrdered`, `Deduplicated`, `LeafResolved`, `SameStackSameEntry`, `ChainsKept` |
| `stack_table_own_entry` | 2 such samples | `OwnEntry` is violated |
| `thread_serialization` | 2 threads, 2 markers, 2 samples, 4 ticks | `TypeOK`, `RemovesExactlyExpired`, `ReadsBack`, `StringTableExact` |
| `critical_section` | 2 cores, 2 threads | `TypeOK`, `HookRestored`, `SuspensionEnds` |
| `critical_section_hook` | the same | `HookAlwaysRestored` is violated |
| `stack_walk` | 5 words, room for 2 frames | `TypeOK`, `FaultsOnlyOutside`, `CallChainRecorded` |
| `startup` | up to 3 arguments, 3 processes | `TypeOK`, `ServiceOfItsApp`, `StartupEnds` |

**Bounds.** `MaxCalls` counts `start_sampling` and the three requests; dropping
the core, taking registrars, and messages between threads are not bounded. Two
calls are enough for a request to meet the leftovers of another and for
sampling to be on while it is handled; four let every pair of requests follow
`start_sampling` (they are for `profiler_calls`, which can afford them because
it has one thread). Two threads let one register while the other's slot is
locked, sampled or unregistered; they are interchangeable, hence the symmetry
set, which the run with liveness properties does not use. A second marker is
needed for order. `MaxSamples` bounds the samples beyond one per
`wait_for_one_sample`: with a fixed bound a wait could starve for reasons the
code does not have. One control message suffices to end the sampler thread at any
point of a run. PauseSampling ends nothing, and is in `profiler_calls`, where it
can fall between any two calls. Three samples of three frames are the least with which a
stack can match the entries of two others.

* `registrar`: with three registrars a thread can hold two of its own and one of
  another's, with three threads a registrar can move on from where it was moved
  to. Nothing else is bounded.
* `thread_serialization`: four ticks at two to the millisecond, with a lifetime of
  one: an entry is fresh, exactly as old as the lifetime, or older, two entries may
  share a millisecond or not. A marker is named like an address, so that
  markers and frames share a string. Two threads, each of which may be listed
  twice.
* `critical_section`: two sections are enough to overlap, and with two threads one
  core's target differs from the other's or does not. The process is not bounded.
* `stack_walk`: five words hold a frame of three and the start of another, or two
  frames of two; the values let a frame pointer be null, below, in between, and
  misaligned by half a word or less. With room for two frames the walk
  gets full within the memory. For more see the theorems.
* `startup`: three arguments let the flag come first, last, twice, and with or
  without a token. There is one process more than should be spawned, so that
  `ServiceOfItsApp` could fail.

**Fairness.** The buffer thread and the sampler thread run loops that only an
empty channel blocks, and a core that is inside a call goes on with it: weak
fairness of each. Samples need more: a failed suspension skips the thread, so
weak fairness would let every one of them fail. That the suspension of a running,
instrumented thread does not fail for ever is asked of the kernel as strong
fairness of `TakeSample`. Nothing is asked of the application: its threads need
not register, add markers, end, or call.

In CriticalSection, each sampler thread is scheduled (weak fairness of its
steps), and a thread that holds stderr lets go of it some time although it is
suspended again and again (strong fairness of `UnlockStderr`), since between two
suspensions of it the sampler thread sleeps. The lock, being free again and
again, is not kept from the thread that reports (strong fairness of
`ReportAndAbort`). Which kernel call fails is anyone's choice. In
Startup, each process is scheduled, and nobody has to be killed.

**Deadlock** is checked only in `thread_serialization`. Everything else
ends: the profiler with its last sender, a walk, a process; and
`wait_for_one_sample` may block for ever by design when sampling is not on.

**What the violated claims show.** `OwnEntry` is the comment of the test
`can_create_a_stack_table`: "Each stack should point to its unique entry". The
search compares instruction pointers without the prefix, and a match does not
advance the index. A recursion `[a, a]` and a plain call `[a]` share the entry
`a`; after `[A, B, C]` a sample `[A, C]` is shown as `A, B, C`. `ChainsKept`
states what is left: as long as every function is reached along one path only,
as in the tests, every sample keeps its call chain.

`HookAlwaysRestored` is the comment "Restore panic now that we are done with the
unsafe block". The hook is the process's, and each `MainThreadCore` has a
sampler thread: if the sections of two overlap, the one that came second saves std's
hook, or the one that aborts, and sets it when the first has long restored the
application's. `HookRestored` is what is left, and holds with one core.

**Where comments and code disagree otherwise.** Seen while modelling; none is a
property that a run could check, or each follows from one that holds.

* `core.rs:243` calls unregistering "a noop if it's already None". The
  `expect` in line 236 has panicked by then. `WellUsedNeverPanics` is what holds.
* `sampler_mac.rs:39` warns of what may not be done while a thread is
  suspended; `eprintln!` in line 71 takes a lock that the suspended thread may
  hold. `SuspensionEnds` excepts this case by name (`StuckOnStderr`).
* `sampler.rs:236` says that a null in the native stack means that the loop "has not yet
  gotten to the root-most stack". A null can be recorded anywhere. If it is all that the
  first sample of a thread has, `stack_index` is still `None` at the `unwrap` in line
  270, and the buffer thread panics; a later sample without frames is given the
  first root as its stack. `LeafResolved` says that this is the only way to panic.
* `time_expiring_buffer.rs:11` says that "older data gets cycled out". Nothing in
  `src/` sends `ClearExpiredMarkers`, and nothing can expire samples.
* `sampler_mac.rs:145`: the bounds are of the sampler thread's stack and not of the
  walked one's, on macOS `pthread_get_stackaddr_np` returns the upper end, and a
  size in bytes is multiplied by 8. So `CallChainRecorded` speaks only of frames
  that are within the bounds, and `FaultsOnlyOutside` of any bounds.

## Theorems

For any set of threads, any controls and any bounds (the assumptions are the
named ASSUMEs of the modules: the bounds are naturals, a thread is none of the
profiler's own parties, `Controls` are the control messages):

* `TypeCorrect`: `Spec => []TypeOK`. Inductive with one addition that the code
  provides: outside a round no samplers are left to visit.
* `PanicInvariant`: `Spec => []PanicInv`, from which `EndpointsHold`,
  `LockstepHolds`, `ThreadsNeverPanicHolds` and `PanicOnlyAfterStopHolds`
  follow. None of the four is inductive alone. A send panics if the receiver is
  gone, which `Endpoints` ties to where the receiver's owner stands. That the
  buffer thread still lives when the sampler thread sends rests on the sampler
  thread's sender being counted; that the core still lives when the buffer
  thread responds rests on `Lockstep`: a request or a pending wait exists only
  while the core awaits it. `Lockstep` in turn needs that a core that awaits
  cannot be dropped. `StopIsControl` says where a `StopSampling` can come from.
  There is one lemma per party, with one step per action.

The theorems about the data rest on `PanicInv` (no sender finds its receiver
gone, so a step does what it is meant to). `BufferData`, `SamplerData`, `CoreData`
and `ThreadData` say once per party what its steps do to the queues and to what
is stored; the proofs behind them need no action any more. Each theorem has a
strengthening of its own:

* `AttributableHolds`, from `Named`: the thread of each `RegisterSampler` on its way
  has a name too, and so has each thread that is past the first half of `register`.
* `NoMarkerLostHolds`, from `AllRecorded`: a marker is one of the first `added[t]` of
  its thread exactly if it is stored, expired or on its way. Handling a message
  moves its marker from the one to the other.
* `MarkersInOrderHolds`, from `AllRecorded` and the order itself: the next marker of a
  thread is behind all of them in the channel and has a higher number than any.
* `WaitSeesSampleHolds`, from `Paid`: while the response to a wait is on its way there
  is one sample more than waits that returned. By `Lockstep` no other request is
  answered while the core is in a wait.
* `SamplersConvergeHolds`, from `Converges`: there is at most one `RegisterSampler` of
  a thread in the channel, not behind an `UnregisterSampler` of it, and not while the
  thread is listed. What the two messages then leave in the list is what the
  thread's stand calls for.
* `ProfileCompleteHolds`, from `CompleteInv`, which follows a request through the
  system: the slots that the core has locked so far (`Collected`), the request with
  every marker of the call before it in the channel or stored (`Requested`), the
  response (`Responded`), the profile (`Returned`). Registrations, markers and
  samples that come in between only add to what is there (`SinceCall`, `Listed`).
* `ImplementsProfileLogHolds`: `Spec => ImplementsProfileLog`, the refinement, with
  one lemma per party (`LogThread`, `LogSampler`, `LogBuffer`, `LogCore`). It rests on
  the invariants above and two more: `Separate`, what has expired is neither stored nor
  under way, and `InfosNamed`, what a call has collected so far has registered. The
  heart is `LogBuffer`: when the buffer thread comes to the request,
  nothing is in front of it, so what it has stored is what was read, less what has
  expired since (`StoredIsRead`, `SamplesAreRead`). `SampledAfter` is a recursive
  function over the channel; `SampledSend` and `SampledReceive` say that a send adds
  to it at the end and a receive leaves it as it is.

For any number of threads and registrars in `Registrar`:

* `RegistrarTypeCorrect`: `Spec => []TypeOK`, for a finite number of registrars. That
  no thread is listed more often than there are registrars is not inductive; `Counted`
  is: the samplers of a thread, with the registrations of it under way, are no more
  than the registrars that are used.
* `InstrumentedIsSampledHolds`: inductive on top of the types. The last message
  about a thread decides whether it is sampled, and `SendDecides` and
  `HandlingKeeps` say what sends and the sampler thread make of it.
* `WellUsedNeverPanicsHolds`, from `UsedWell`: while no registrar is misused, whoever
  holds one that it has registered is instrumented, and holds no other such.
* `WellUsedIsTrackedHolds`, from `Tracked`: the messages about a thread alternate, the
  first in the channel turns around what the list says, and the last says what
  holds of the thread.

For any number of processes and any arguments in `Startup`:

* `ServiceOfItsAppHolds`, from `Spawned`: a child was started with the executable, the
  flag and the token of its parent's server, which is what `ChildArguments` finds in
  them, and has ended when its parent has exited.
* `StartupTypeCorrect`, from `Handshake`: a message finds its place only where its
  receiver stands. Besides `Spawned` that takes `Tokens`, only an app tells a process a
  token, its own, and `Met`, an app that accepts has a service, which waits for the
  Hello or has ended once its own message has come.

For any addresses, frames and number of samples:

* `StackTableInvariant`, and from it `StackTableTypeCorrect`,
  `WellOrderedHolds` and `DeduplicatedHolds`. The
  strengthening is `Searching`: every entry between the prefix and the search
  index is of another function than the frame at hand. An equal stack would have
  to lie there, as its prefix lies before it; so what is pushed is new.
  `NoneAtFirst` says when `stack_index` is `None`: only in the first sample, as long as
  the frames so far are null.
* `LeafResolvedHolds`, `SameStackSameEntryHolds` and `ChainsKeptHolds`, from `Walked`. None
  is inductive, since they speak of searches that are over. `Walked` says that there is a way for
  each of them: which entry each frame came to, each next one called from the one
  before. Entries are only added, so a way that was gone can still be gone, and two equal
  stacks go the same way, by induction over their frames.

For any number of cores and threads (`None` is neither a thread nor a hook):

* `CriticalSectionProofs!TypeCorrect`: the types, and that a thread is suspended
  by exactly the cores that are between `thread_suspend` and `thread_resume` of it.
* `HookRestoredHolds`: `Spec => []HookRestored`, inductive on top of the types. A
  core that enters while no other is inside finds the application's hook and
  saves it; every way out puts back what was saved.

For any memory of words, any registers and any bounds:

* `StackWalkProofs!TypeCorrect`: what a read returns is a value, and no more
  frames are recorded than fit.
* `FaultsOnlyOutsideHolds`: `Spec => []FaultsOnlyOutside`, from `FrameWords`: the
  three reads of a frame whose pointer is within the bounds touch words from the
  lower bound's up to less than three words above the upper bound.
* `CallChainRecordedHolds`: `Spec => []CallChainRecorded`, for a stack of any depth
  and any room, from `OnChain`: the walk has come to a frame of the chain, and has
  recorded the return addresses of all before it. The mapped words are finitely many,
  and only the frames of a chain count that lie within the bounds.

For any threads, markers, samples, lifetimes and lists of threads in
`ThreadSerialization`:

* `SerializationInvHolds`, and from it `SerializationTypeCorrect`, `ReadsBackHolds`,
  `StringTableExactHolds` and `RemovesExactlyExpiredHolds`. The types have every row
  hold indices into its tables; `SerializationInv` adds to them that the markers are in the order of their times (`InOrder`), that the
  string table is in sync with its map (`Tables`) and what `FromJson` makes of its
  strings, and what of the JSON at hand is written: the rows so far read back as the
  first of the thread's own entries, and every string belongs to one of them
  (`PartlyWritten`). The rows stay right because `get_index` only adds at the end
  (`GetIndexIs`, `MoreStrings`), and what is finished stays right because the buffers
  change only while no profile is written (`BufferStep`).
* `RemoveExpiredIs` and `RemovedIsExpired`: `remove_expired` stops at the first entry
  that is fresh; in a buffer that is in order, this leaves all that are fresh. Either
  way what is left is the end of the buffer, which is all that `BufferThread`, having
  no clock, takes expiry to be.

Where a definition recurs over a sequence (`SampledAfter`, `IterThread`,
`Recorded`, `StackTable`, `FromJson`) it is a recursive function. That it exists
(`IterationExists`, `GrowsExists`) and what it has for each index are
proved by induction over the numbers, of which `WellFoundedInduction` gives the
least element of a set (`LeastNumber`, `NumberInduction`).

**Only model-checked:** the liveness properties, which are outside the prover's
reach (`RequestsAnswered`, `WaitReturns`, `UnregisterTakesEffect` and
`ShutdownCompletes` of `profiler_liveness`, `SuspensionEnds`, `StartupEnds`). Every
invariant, every action property and the refinement that a passing run checks
is a theorem as well. `OwnEntry` and `HookAlwaysRestored` do not hold.

## Not modelled

* The wording of the JSON, its constant parts, and how it is given a thread's
  pid, name and times: a profile is its rows. Markers of other types than
  `StaticStringMarker`, of which `src/` has none.
* When a marker was added: its time is that of its handling, in the code as here.
* That nothing allocates in the critical section: memory allocation is no part of
  the state. Its danger, a lock that the suspended thread holds, is the one that is
  modelled for stderr.
* What the kernel does beyond success or failure of a call, other ways to fault than
  an unmapped word, and what a stack looks like on a platform but macOS.
* The panic of the buffer thread within `serialize_buffer` in the composed system: `StackTable`
  has it, and `Profiler` takes a request to be serialized. There the channels are
  what `ThreadsNeverPanic` and `PanicOnlyAfterStop` speak of.
* The logger and the environment of `launch`, and those of its calls to the
  system whose failure ends the process as that of `SpawnService` does; who else could connect to a
  one-shot server.
* `MainThreadCore`'s `JoinHandle`s, which the code never joins.
* `lib.rs` and the examples, which have no state of their own. The calls of
  `examples/output-json.rs` are among those the core's owner can make,
  `examples/launch-process.rs` is `launch`.

## Plan

All modules that were planned are written, in this order: `Profiler` with its
parts, `StackTable`, the proofs that nothing panics, `ProfileLog`, `Registrar`,
`TimeExpiringBuffer` with `StringTable` and `ThreadSerialization`,
`CriticalSection`, `StackWalk`, `Startup`.

The safety properties of all of them are proved, and so is the refinement. What
is left are the hazards without a property (see `PROJECT.json`).
