# Verification of the systems in IST_PROJECTS

The repository holds course projects of several years: two replicated services, a
file system, a game server, a warehouse, a bank, and an experiment that runs in the
browser. This directory models them in TLA+, checks the models with TLC on small
instances and proves the central properties with TLAPS for all instances.

The experiment comes with a copy of p5.sound.js, a sound library that others wrote
(its page loads the library from a server, so the copy is there for reference). It is by
far the largest JavaScript of the repository and full of timers, events and answers
that come late, so it is modelled too, class by class; the findings of section 5 are
about the repository's own programs, but for the last.

Paths below are relative to these roots:

| short | directory |
|-------|-----------|
| DADTKV | `src/MEIC_IST_PROJECTS/Distributed Systems/DAD/DADTKV/` |
| A67 | `src/LEIC_IST_PROJECTS/3ºANO/SD/A67-DistLedger/` |
| SO | `src/LEIC_IST_PROJECTS/2ºANO/SO/PROJETO/fs/` |
| RC | `src/LEIC_IST_PROJECTS/3ºANO/RC/PROJETO/PROJETO_RC/PROJETO_VERSAO_FINAL/` |
| IPM | `src/LEIC_IST_PROJECTS/2ºANO/IPM/bake-off-2/` (the library: `p5/addons/p5.sound.js`) |

## 1. Inventory

### DADTKV: a transactional key-value store with leases (C#, gRPC)

Clients submit transactions (keys to read, keys to write) to a transaction
manager (TM). The TM asks the lease managers (LMs) for a lease on every key; once
per timeslot the LMs run a Paxos-like round to fix the order in which TMs hold
each lease, and are to send the order to the TMs. A TM that heads the queue of
every key of its transaction propagates the writes to the other TMs, executes the
transaction on its own copy and releases the leases. The configuration file says
which processes are crashed, and which suspect which, in each timeslot.

| component | state | operations | talks to |
|---|---|---|---|
| lease manager (`LeaseManager/`) | timeslot, leader index, highest proposal, lease table, last consensus, last call per TM | timer event, prepare, accept, lease request, sending a decision | other LMs (gRPC, awaited one after the other, 5 s deadline); TMs |
| transaction manager (`TransactionServer/`) | timeslot, lease table, values, exclusion list | submission, lease check, lease request, propagation, assignment of leases | LMs (3 s deadline), other TMs (blocking), clients |
| client (`Client/`) | the transaction it is at | submission to a random TM, again after 2 s | TMs |
| status, manager | none that lasts | launching, printing | all |

What is hard: a round is an async method, so everything else runs between its
awaits, at the same LM too; locks protect parts of a handler; a reply may be an
empty refusal; calls time out after the callee has acted, or before; the client
resubmits what is still running; a TM that crashes does so inside a handler.
What makes it correct: only requested leases are ever decided, one leader per
timeslot, rounds end, a decision has a majority and reaches the TMs; what commits
is applied everywhere, no lease loses its owner, two TMs never hold the same
lease, submissions end.

### DistLedger (A67): a replicated ledger of accounts (Java, gRPC)

Users create accounts, transfer money and read balances at any replica. A replica
executes a write at once when it knows every update the user knows of; else the
write waits in the ledger. Replicas exchange their ledgers when the administrator
says so (gossip). Vector timestamps tell users and replicas what they know.

| component | state | operations | talks to |
|---|---|---|---|
| replica (`DistLedgerServer/`) | ledger, accounts, active flag, two vector clocks | createAccount, transferTo, balance, activate, deactivate, gossip, propagateState | other replicas, naming server |
| user client (`User/`) | a vector clock | the three user operations | replicas |
| naming server, administrator client | name table; none | register, look up, delete; three commands | replicas |

What is hard: handlers run on a thread pool and hold the lock only in parts; an
operation gets its timestamps after the lock is released; gossip is repeated and
goes several ways; a gossiped operation is recognised by a timestamp.
What makes it correct: clocks never count updates that do not exist (or readers
wait for ever), operations are executed once at every replica, timestamps are
unique, a read sees the user's own writes, money is not lost.

### Bake-off (IPM): an experiment on selecting targets (JavaScript, p5)

A student fills a form, clicks at the targets of a grid as they light up, gets the
results, presses a button and does it all again. The browser calls the handlers: a
button's release, a press anywhere in the window (the buttons included), a change of the
window's size. State: the counters, the order of the trials, the form and the
button, the layout that depends on the measured screen. What is hard: these handlers in
orders nobody tried. What makes it correct: a result counts every trial once; a
student gets two, each timed and measured under the same conditions.

### p5.sound: the sound library (JavaScript, Web Audio, Tone)

| component | state | what is hard | properties wanted |
|---|---|---|---|
| SoundLoop, with Tone's clock | timeline of starts, stops and pauses, next tick | events for later times, found turn by turn by ticks that may be late | no call after a stop or past the limit; loops started together stay together |
| Phrase, Part, Score | step counter, metronome per part, current part | the metronome runs on its own; callbacks replaced by loop and score | a part ends, and plays from its first step |
| SoundFile, its nodes | playing, paused, mode, the nodes not yet cleared | `ended` comes later, after other calls | the file is silent when it says so, and is playing only if it has a node |
| its cues, its load | cues and last position; requests, count of preloads | reports of an earlier play; five ways for a load to end | no cue missed; the sketch starts; nothing comes back after dispose |
| PolySynth, Envelope, MonoSynth | notes, voices in use and levels as values in time | notes for later times, voices stolen, overlapping plays | a voice per note; a play keeps its shape |
| Oscillator, Noise, Pulse | the node of the browser, delay, arithmetic, modulators | a node starts once, so each start makes another | what was stopped is silent, what was started sounds and is wired |
| all objects | wires, and one array of all | each class wires and disposes of itself in its own way | the page's end finds all; sound gets through |
| SoundRecorder | file, input, the processor in the audio thread | messages between two threads | a file holds its own recording |
| AudioIn | stream held, source | the browser's answer comes after other calls | no microphone is left on |
| Reverb, Convolver | node, impulses loaded | nodes replaced, loads that answer later | one node connected, with the impulse wanted |
| PeakDetect, OnsetDetect | cutoff and counter; flag and timer | thresholds by frames, timers by time | detections apart |
| FFT, peaks, pitches, WAV, Listener3D | none, or parameters | - | - |

### The other programs

| component | state | hard behaviour | properties wanted |
|---|---|---|---|
| TecnicoFS (SO) | inode table, directory, block bitmap, open-file table | several threads per table, locks per table or per inode, a full table in mid-operation | no block in two files; every byte below a file's size in a block it has; handles lead to files |
| Hangman server (RC) | games per player, trial and error counters, the word of the last game started | UDP requests lost and repeated, players interleaved | each trial counted once, a retry never costs a life |
| GGC warehouse (PO) | stock, batches, partners, pending sales, date | long sequences of calls on shared stock | stock equals the sum of batches, balance equals what was paid |
| BlingBank (SIRS) | accounts, payments awaiting owners | approval by all owners, repeated messages | a payment executes once, with every approval |
| FP, LP, ASA, IA | none that outlives a call | - | - |
| BD | in the database server | - | - |

## 2. Modules

| module | what it is |
|---|---|
| `LeaseManager` | the LMs: timer, leader rotation, both Paxos phases on both sides, requests, sending of decisions |
| `LeaseManagerProofs` | TLAPS: `TypeCorrect`, `Validity`, `OneLeader` |
| `TransactionManager` | the TMs and the clients |
| `DistLedger` | the replicas, the users, the administrator |
| `DistLedgerProofs` | TLAPS: `TypeCorrect`, `KnownUpdates`, `Implementation` (DistLedger implements Accounts), `Once` |
| `Accounts` | abstract specification of what the replicas do with the money |
| `TransactionManagerProofs` | TLAPS: `TypeCorrect`, `Committed`, `OwnerKept` |
| `TecnicoFS` | the file system: threads that open, truncate, create, close, write and read |
| `TecnicoFSProofs` | TLAPS: `TypeCorrect`, `HandlesAreFiles`, `BlocksAreApart`, `BytesAreThere` |
| `Bakeoff` | the experiment |
| `SoundLoop`, `Looper`, `SoundFile`, `Cues`, `SoundLoad`, `PolySynth`, `Envelope`, `Generator`, `SoundGraph`, `SoundRecorder`, `AudioIn`, `Convolver`, `Detectors` | a part of p5.sound each, independent of the others |
| `Inputs` | instances of AudioIn, Detectors, SoundRecorder, Convolver and SoundLoad, with the assumptions on their constants |
| `InputsProofs` | TLAPS: `NoMicrophoneLeftOn`, `Detections`, `RecordingIsOwn`, `OneImpulseSet`, `DisposedIsQuiet` |
| `Connections` | the instance of SoundGraph, with the assumption on its constants |
| `SketchProofs` | TLAPS, on what a sketch itself keeps (`Bakeoff`, `Connections`): `TypeCorrect`, `EveryTrial`, `Results`, `ArrayKeepsAll`, `AlwaysAudible` |
| `Sources` | instances of SoundFile, Cues and Generator |
| `SourcesProofs` | TLAPS: `PlayingEnds`, `OneVoiceOnly`, `SilentWhenStopped`, `EveryCue`, `SoundsAsAsked` |
| `Music` | instances of SoundLoop, Looper, PolySynth and Envelope |
| `MusicProofs` | TLAPS: `CallsWithinLimit`, `StopIsQuiet`, `InSync`, `PlaysInStep`, `VoicesOfTheirOwn`, `PlaysAreShaped` |
| `Page` | the experiment, `Connections`, `Inputs`, `Sources` and `Music` side by side: a page uses one part |
| `MCLeaseManager`, `MCTransactionManager`, `MCDistLedger`, `MCTecnicoFS`, `MCPage` | values for the constants, for TLC |

The two halves of DADTKV meet in two places: a request for leases (TM to LM) and
a decision (LM to TM). `TransactionManager` treats both as external, with
constants `LMReplies` and `Decisions`. That over-approximates the program as it
is, where no decision is ever sent (finding 2), and shows what the TMs do with
decisions if they arrived; `Decisions` is empty in the runs about findings and
liveness, so that they show behaviours of the program itself.

Definitions that start with `Mutant` are wrong versions of the definition after
them, each a plausible slip in the code it models; they show that a property can
fail and are used by no specification.

### LeaseManager and its code

State: `currentTimeslot`, `currentLeader`, `highestPrepare`, `leasesTable`,
`lastConsensus`, `lastPropCall` are the fields of `LMServerState`; `round` holds
the locals of `SendPrepareRequest` and `sendAccept`; `handlers` the server calls
that are past their guard; `acked` and `decided` are history.

- `PaxosEvent` is the timer callback up to its first await: it removes the last
  consensus, starts the prepare phase (the accept phase in the first timeslot),
  then advances timeslot and leader.
- `Resume` is what runs after an await: count the reply, go on to the next LM, or
  end the phase. The merge of the promises, and the sending of the decision with
  whatever table the LM has by then, are parts of it.
- `RefuseCall` and `AdmitCall` are the guards of the handlers, which the code reads
  without the lock; `PrepareStep` and `AcceptStep` are the rest of a handler, under
  it. `CallFails` is a reply that comes too late or not at all: the handler may
  still run after its caller gave up.
- `aliased` records that after a decision `lastConsensus` is the very object
  `leasesTable`. The next removal then edits the list it iterates over, loses one
  request and throws (`Removals`); whoever called it is left with an exception.

A lease's queue is modelled by how often each TM stands in it, since no property
of this module depends on the order; the place where the code takes the head of an
aliased queue is a choice. A request that timed out before it was admitted is not
admitted later.

### TransactionManager and its code

State: the fields of `TMServerState` (`currentTimeslot`, `leasesTable`, `dadInts`),
`hung` (its lock is held for ever), `assigning` (locals of `UpdateLeasesTable`),
`sub` (the locals of `TransactionSubAux`, one record per submission), `client`.

- `Begin` takes the lock of the service, which the submission keeps to its end.
- `CheckLeases` is one turn of the waiting loop, with its effect: a key in no queue
  is taken at once. `RequestLeases` is the one request per submission.
- `PropagateTo`/`PropagationFails` are the call to the next peer; the callee applies
  writes and releases leases in one step, as it holds its lock for both.
  `CountReplies` is the comparison with the quorum.
- `ReadStep`, `WriteStep`, `ReleaseStep` each take the state's lock separately, and so
  are separate actions.
- `AssignSlot` is `UpdateCurrentTimeslot`; in a crash slot the TM waits for its own
  call to finish with the lock held, hence `hung`. `AssignKey` is one half-step of
  `UpdateLeasesTable`, which has no lock.
- The exclusion of a suspected TM is no action: its service is never bound in
  `Program.cs` and the guards in `ExclusionLogic.cs:89,113` are inverted, so it never
  changes any state. The component is therefore listed as partly modelled.

### DistLedger and its code

State: the fields of `ServerState` per replica; the user's timestamp; `call`, the
locals of a user's handler; `gossip`, those of the gossip in progress, at the sender
and at the receiver; `written` and `executed` are history.

- A write is `AskWrite` (stability is read), `AddOperation` (under the lock),
  `ReadClock` and `PutClock` (the unlocked read and write of `incrementTS`), `RaiseClock`
  (of `valueTS`, if the operation is stable), `StampRequest` and `StampReplica` (the *last*
  operation of the ledger gets `prevTS`, then the last one gets its timestamp), and
  `Answer` (the user merges the replica's clock). Another handler may come between any two.
- A read is `AskBalance` and `Balance`. The read of the balance and that of `valueTS`
  are one step.
- Gossip is `StartGossip` (ask the others, sort), `SendTo` per receiver, then at the
  receiver, per operation, `TakeOperation` (is it known; the clock; the addition),
  `StampPrev`, `StampTS`, `CheckOperation` (is the last one stable), `RaiseValue`,
  `ExecuteOperation` and `RaiseValue` again; then `SortReceived` and, under the lock,
  `StartRun`, `RunUnstable` per ledger entry and `EndRun`.
- `raced` is history: a handler put back a clock that had changed since it read it, or
  stamped, or took for its own, an operation that another had added meanwhile.
- A timestamp that is the list `valueTS` itself is marked `live` and read through
  `TimestampOf`.
- Comparing an operation without timestamps throws: `SortThrows`, `ContainThrows`, and
  the unsent message in `SendTo` each end the gossip. The sort is made in the ledger
  itself: one that throws leaves what came before the operation it throws on sorted
  (`SortLedger`; Java sorts fewer than 32 elements by insertion).

Abstractions: `TakeOperation` is the lines 45-49 of the service in one step, and so is a
sort; a ledger has fewer than 32 operations; all replicas stay registered; one administrator gossips at a time; a
refusal by an inactive replica changes nothing and is left out (the client throws
on its empty timestamp).

### TecnicoFS and its code

State: `inode` (inode_table with freeinode_ts), `dir` (the entries of the root), `freeBlocks`,
`fsData` (fs_data, block after block), `openFiles`; `thread` holds the locals of the
operation a thread is in; `crashed` is a null pointer dereferenced; `damaged` is
history: an allocation failed or a write left its block; `torn`: it left it so that part of a
number was written over and makes another.

- `tfs_open` is `Lookup` (without a lock), then `Truncate` (under the lock of the inode) or
  `CreateInode` and `LinkName`, then `EnterTable`: each takes its mutex or lock and gives
  it back, and other threads come in between.
- `tfs_write` keeps the lock of the inode, and is several steps all the same, for
  other files share the allocator: `BeginWrite` (length, index block of an empty
  file), one `AllocateDirect` or `AllocateIndirect` per turn of the loop in
  `allocate_blocks`, one `CopyPiece` per call of `write_aux_rec`.
- `tfs_read` and `tfs_close` are one step each: nothing they read changes meanwhile.
- Sizes, offsets and pieces are in bytes; a block of `BlockSize` bytes is `Entries` numbers of
  `IntSize` bytes. `fsData` is addressed by numbers, as an index block is in the code: an
  entry past the end of an index block is the first of the next block, and a piece that
  does not fit its block goes on in the next one.
- Data is one value: text, which read as an index entry is no block number. Not so where a
  piece ends in the first byte of a number: the other bytes stay, and what is left may be
  the number of any block (`Overwritten`). From then on the file system is `torn`, two files may
  have one block, and `BlocksNotShared` says nothing. Two or three bytes of text make a number
  far above any block's, and the contents are text: with binary contents
  a piece that runs into an index block may name any block.
- Where a `size_t` wraps around, the code copies out of bounds: a write crashes,
  a read takes the whole length asked for.

Left out: `tfs_copy_to_external_fs`, the mutex of an open file (each thread uses only
handles it opened), what the text says, `clear_dir_entry` (no caller), and deletion
of an inode with data (the only caller deletes an empty one).

### Bakeoff and its code

State: the variables of `sketch.js` and, in `display`, what `ppi.js` found of the screen.
`StartTest`, `MousePressed`, `ContinueTest`, `WindowResized` are the four handlers, each whole:
the last click of an attempt prints its results (`Report`) in the same step, and the
change of size lays the grid out again and shows the targets whatever went before.
`draw` changes nothing but the clock. Where the pointer is on the grid is reduced to the
target it is on, a gap, or off the input area; `early` and `resizedOnForm` are history.

### The parts of p5.sound and their code

Each module has the fields of its class as variables, one action per method, one per
event of the browser (marked external in the map), and a bound on the calls. Time is
a counter that `Advance` moves.

- `SoundLoop`: `ContextTick` is `Tone.Clock._loop`, which looks `Ahead` and catches up turn by turn
  (`Looped` folds over the turns); `Start`, `Stop`, `Pause`, `SyncedStart` write the timeline.
- `Looper`: `Tick` is `Metro.ontick` with the whole of `incrementStep`, `onended` and, in a score,
  `playNextPart`. To stop a metronome writes the time into the timeline of its clock: ticks due
  before it still come (`LateTick`, of a part that no longer plays: the metronome counts on, the
  part does not), until the clock gets there (`Halt`). A part started again before that goes on with the clock
  it has. `late` counts those ticks. `currentPart` is the array that the constructor leaves there until a
  score is started, which throws. Tempo is left out.
- `SoundFile`: `Played`, `PausedFile`, `StoppedFile` are the methods, which call each other;
  `Ended` is `_clearOnEnd`. `StopThrows` is the exception of a node that never started.
  Of the rate only its sign is kept (`playbackRate`): `rate`, `play` and `jump` turn the samples
  round when it changes (`TurnsRound`). Panning, volume and positions are left out.
- `Cues`: `Report` and `LateReport` are messages of the counter node of this play and of one
  before it; `ReportAgain` is one of this play that is not past the last, as of a file that
  loops. A cue's callback may remove its cue (`once`). An update does not look behind
  `prevUpdateTime`, which no play and no wrap resets.
- `SoundLoad`: `LoadSound` begins a load in or after preload; `Answered`, `Decoded`, `Unplayable`,
  `Failed`, `NoAnswer` are the ways it goes on. `Chosen` is `_checkFileFormats` on names with or
  without a dot. `Setup` is p5's.
- `PolySynth`: `_voicesInUse` with the functions of `Tone.TimelineSignal` that read and write it,
  its forgetting of old values included. What a voice plays is left out.
- `Envelope`: timelines of ramps with levels for numbers; `ValueAt` says what a level is
  between two. `control` holds two of them: `events` is the timeline of Tone's signal, which
  keeps its latest events only (10 in the code, `Memory` here) and from which the code reads levels;
  `param` is the AudioParam, which is told the same, forgets nothing and is what is heard.
  MonoSynth is an envelope with a clock of its own. A leg may take no time, as the release does by
  default; the exponential ramps of `setExp` are left out.
- `Generator`: `nodes` are all the oscillators or noises made, with when each plays and what
  it is wired to; `Current` is the one that the object still knows.
- `SoundGraph`: every constructor's wires (`EffectWires` ... `RecorderWires`), `Connect`, `Disconnect`,
  the rewirings (`SetType`, `Phase`, `Start`, `SetFFTInput`), each class's dispose with what it
  takes out of the array (`Splices`), and `DisposeSound`, which walks over that array while
  the objects leave it.
- `SoundRecorder`: two queues of messages between the page and `Process`, `Receive` of the processor.
- `AudioIn`: `Given` and `Refused` answer a request, `Unplugged` ends a stream by itself,
  `Listed` brings the list of devices. `on` is what the sketch called last; `crossings` counts the
  starts, stops and disposes that the sketch called while a request waited.
- `Convolver`: a Reverb too (`set`); nodes are kept after they were replaced, to see which are
  still connected. Loads and toggles are numbered in the order of the calls; `wanted` is
  the impulse of the latest of them, `ordered` says that the latest call answered was
  answered last.
- `Detectors`: `Draw` updates both in one frame, `Timeout` fires any time after its delay.

Many of the properties have a hypothesis kept in a history variable: calls in order
of time (`orderly`), no report late (`disturbed`), no overlapping plays (`overlap`).
They are what the code needs; without them each property is broken by behaviours that
section 5 lists. Where the damage can be counted it is counted instead, and the property
says how much of it there is at most: the microphones left on (`crossings`), the
steps a metronome is ahead of its part (`late`).

## 3. Runs

| run | specification | properties | shows |
|---|---|---|---|
| `lm_rounds` | FairSpec, 3 LMs, 3 timeslots | TypeOK, OnlyRequestedLeases, OneLeaderPerTimeslot, RoundsEnd | holds |
| `lm_majority` | Spec, 2 LMs crashed | DecisionHasMajority | violated, finding 1 |
| `lm_delivery` | FairSpec | DecisionsReachTMs | violated, finding 2 |
| `tm_safety` | Spec, 3 TMs, 2 clients | TypeOK, CommittedEverywhere, LeaseKeepsAnOwner | holds |
| `tm_liveness` | FairSpec, 2 TMs, 2 clients, resubmission | SubmissionsEnd | holds |
| `tm_exclusion` | Spec, 3 TMs | LeaseExclusion | violated, finding 3 |
| `dl_overlap` | Spec, overlap | TypeOK, KnownUpdatesOnly, ExecutedOnce, ImplementsAccounts | holds |
| `dl_unique` | Spec, overlap | UniqueTimestamps | violated, finding 4 |
| `dl_read` | Spec, no overlap | ReadsAreUpToDate | violated, finding 5 |
| `fs_threads` | Spec, 2 threads, 2 names | TypeOK, BlocksNotShared, BytesHaveBlocks, HandlesLeadToFiles | holds |
| `peak_frames` | Spec of Detectors | FramesBetweenPeaks | violated, finding 6 |
| `page` | PageSpec: each page uses one part | those below | holds |

`page` checks the experiment and the library in one run, as they share no state: every
behaviour chooses one part and leaves the others alone. The instances stand in three modules
because a proof about one part is given all the instances of its module, and gets slow
with them; `Page` extends the three.

| part | properties |
|---|---|
| Bakeoff | EveryTrialOnce, ResultsOfATest |
| SoundLoop | CallsLimited, SyncedTogether, StoppedIsQuiet |
| Looper | PhrasesInStep, PartEnds |
| SoundFile | PlayingHasNode, OneVoice, SilentWhenNotPlaying, Finishes |
| Cues, SoundLoad | NoCueMissed; QuietAfterDispose, SketchStarts |
| PolySynth, Envelope | OwnVoices; PlaysKeepShape |
| Generator, SoundGraph | SoundsAsTold; Registered, Audible |
| SoundRecorder, AudioIn, Convolver | OwnRecording; NoneLeftOn; OneImpulse |
| Detectors | DetectionsApart |
| all | PageTypeOK |

### Bounds, and why they are enough

`lm_rounds`: three LMs are the least with a majority that is not everybody. Three
timeslots give a first round without a prepare phase, a second with one (which
removes the first consensus), and a third that meets what the second left. In the
second timeslot LM1 suspects both others and leads beside the real leader LM2, while
LM3 is crashed; one reply may be lost (`MayFail`). One TM, one key, one
acknowledged request per TM and LM (`MaxRequests`): validity is about a single
entry. Timers are one timeslot apart at most (`MaxSkew`), and rounds end before the
next timeslot (`RoundsOverlap = FALSE`): the timer's period is far longer than
a round in the configurations of the repository. Nothing that is proved assumes
that: the theorems hold with overlapping rounds and any skew. The two runs
with violations allow overlap too.

`tm_safety`: three TMs, one of which shuts down in timeslot 2, in which TM1 suspects
it; two clients whose transactions share both keys; two directions of calls may
fail; one decision that queues TM2 before TM1 on one key. `tm_liveness`: two TMs, two
tries per client, an LM that grants, refuses or breaks, one direction of calls
that may fail, and no decisions.

`dl_*`: two replicas; `u1` may create the account `x` or transfer all the money (2) to it, `u2`
may create `x` too; handlers overlap, but in `dl_read`. `dl_overlap`: one write per user and three gossips in
either direction, so that an operation comes back to where it came from while another is
written, and the first gossip may meet it unstamped; replica 2 may be deactivated. That a sort
that throws leaves its ledger partly sorted matters from three operations on, so it is in
`dl_unique`, where `u1` makes two writes, with one gossip, and in the theorems, which have no bound on either.
`dl_read`: the same writes, one gossip, and one handler at a time (`Overlap = FALSE`): the
violation needs no more. 682,374 distinct states in `dl_overlap`.

`fs_threads`: blocks of 4 bytes, that is 2 numbers of 2 bytes; one direct block and the 2 entries of the
index. A write of 7 bytes needs the index, and two of them fill the file (and run one entry too
far); a write of 1 byte leaves the next one 3 bytes of a block, so that its pieces begin and end at
odd places, in the first byte of a number of the next block too. 9 blocks run out, or not, depending on the
order; 2 handles and 2 directory
entries for 2 threads and 3 inodes can be full. Three operations per thread are
enough to create, write and truncate under another thread's handle, and for
a write to leave its block. Threads and names are interchangeable, and no property
singles one out, so the symmetry is sound.

`page`, whose constants are in `MCPage`: the experiment has 2 targets, one trial each, a
click too many and three results, one more than a test has. Loops: 2, with 2
iterations, ticks that look 2 units ahead, calls for now and for 2 later, 3 calls, so
that a start, a stop and another start can be scheduled around one tick. Looper: 2
parts, sequences of 1 to 3 steps, so that lengths differ and divide or not; one tick comes late. SoundFile: 3
nodes, the least with one ending between two others, and 2 calls between them. Cues: a
file of 3 units, 2 cues, 2 plays. Loads: 2 files, 2 loads, one format the browser plays.
PolySynth: 3 notes on 2 voices, so that one is stolen, and a memory of 3 values, so
that one is forgotten. Envelope: 3 calls, attacks of time 0 and 2, a decay of 1, a release of 0 (the
default), with a sustain below a second (that is, none) and one that loses its fraction, and the same memory: a play alone tells the signal five events, so it always forgets.
SoundGraph: 5 objects of the kinds whose disposal differs; that the wires of every kind
carry sound from the start is evaluated for all of them (`AllCarryWhenMade`). Generator: 4 calls. Recorder: 2
files, recordings of 2 buffers, 3 calls. AudioIn: 2 devices, 3 requests and 2 other calls, so that a start or two can cross a third. Convolver: 3 loads, 7
nodes, as many as they and the constructor can make. Detectors: energies up to 4, 2 frames
per peak, as in `peak_frames`; the theorem covers the rest. 279,637 distinct states.

`CHECK_DEADLOCK FALSE` stands where the bound on timeslots, submissions, requests, operations or calls
lets the system come to rest.

### Fairness

`LeaseManager`: weak fairness of the timer of every LM, of the continuation of every
round (the thread pool runs what is ready), and of every call that is out: the server
answers, or the deadline of 5 s ends it (`CallFails` needs no fairness of its
own, as the server's steps end the call as well). No fairness on TMs: requests may
never come.
`TransactionManager`: weak fairness of the steps of every submission: its thread goes
on when it can, the service's lock is given in turn, and a call to a peer is
answered or fails. Weak fairness is enough because whatever enables a step
of a submission stays so until it is taken. No fairness on clients or LMs.
`Looper`: weak fairness of every metronome that runs, as the audio context ticks. `SoundFile`: a
node that does not loop ends, and `ended` is delivered. `SoundLoad`: every request is answered
or fails, in whichever way, and p5 calls setup when the counter is at zero. No
fairness on what the sketch calls.
`DistLedger` has safety properties only: a `balance` waits for a gossip that only an
administrator starts, so no fairness would make it end.

## 4. Proofs

All by TLAPS, for every value of the constants that satisfies the named assumptions
(sizes are positive, the configuration has the right shape). The theorems about the library
are about its instances in `Connections`, `Inputs`, `Sources` and `Music`, where the assumptions on their
constants stand, and which `page` evaluates: bounds are numbers, and what stands for the absence of
something (`none`, `null`, `NaN`) is not one of the things. Each states a property of the
part's own `Spec`, for any number of calls; a page that uses the part starts as it does and
takes its steps only.

`LeaseManagerProofs`. `TypeCorrect`: Spec => []TypeOK. `Validity`:
Spec => []OnlyRequestedLeases. Validity is not inductive: tables travel. The
invariant `IInv` adds that the tables in call records, answers, promises and
handlers hold requested leases only (`CarriedRequested`), and that a handler belongs
to a round that is there (`CallsAwaited`). Each action has a lemma; those of `Merge`,
`MergeAll`, `Minus` and `Removals` say that these operators invent nothing.
`OneLeader`: Spec => []OneLeaderPerTimeslot, by the strengthening that
the leader index is a function of the timeslot (`LeaderFollowsSlot`).

`DistLedgerProofs`. `KnownUpdates`: Spec => []KnownUpdatesOnly, with any number of
users, requests, gossips, and overlapping handlers. The invariant `IInv` is the
conjunction of `ClockInv`, `CallInv` (also the clock value read but not yet put back),
`LedgerInv` (the timestamps of operations, live ones through `valueTS`), `GossipInv`
(the message in flight) and `RunInv` (while the receiver runs its unstable operations
all of its ledger is stamped, as the lock keeps new operations out). `TypeCorrect`:
Spec => []TypeOK. Its invariant `TypeInv` adds to `IInv` that no balance is below zero, save
the -1 of an account that does not exist, and that a handler about to stamp an operation
finds one in the ledger: what is in a ledger is what a user asked for.

`Implementation`: NoSelfTransfer /\ Spec => ImplementsAccounts. Users,
ledgers, clocks, threads and gossip implement a service in which a balance changes only when a
replica performs a request somebody made, and a transfer gives what it takes. The mapping is
simple (the balances, and the requests in any ledger); what must be shown is that
whatever a replica runs was asked for, also when it came by gossip: `RInv` adds to
`IInv` that a message in flight and a handler hold such requests only. `NoSelfTransfer`
is needed: the code adds to the old balance of the receiver, so a transfer to oneself
makes money.

`Once`: Spec => []ExecutedOnce, for any users, requests, and number of gossips along any
way, with overlapping handlers. The property itself says `~raced`: a write that is counted from a stale
clock gets a timestamp another has, and an operation that is not the one a handler added
gets two timestamps, its neighbour none; the next gossip then does not recognise them (the race of finding 4).
Until that has happened, overlap does no harm, and this is what there is to prove. The invariant `OnceInv` is `IInv`,
and unless `raced`:
- `OwnInv`. The own entry of a replica's clock counts its writes (`Counted`): whoever puts one
  back that had changed has raced. So the timestamp that a write gets is past its `prev`, the
  timestamp that its user sent (`Ahead`).
- `WritesInv`. A write is in no ledger twice (`SingleInv`), and has one `prev` in every ledger and
  message that holds it, which its handler gave it (`KnownInv`); while a handler, or gossip, is not done with
  its operation, the operation is there, with what it has so far (`OwedInv`, `FoundInv`).
  So the test by which gossip leaves out what is
  known, which compares `prev`, never misses a write that is there; that it also leaves out another
  write with the same `prev` loses that one, but executes none twice.
- `LateInv`. The timestamp of an operation is past its `prev`, also when it is the
  replica's value timestamp itself, which grows (`ValueGrows`).
- `ExecutedInv`. An operation executed is in the ledger, and the value timestamp is past its `prev`
  (`Behind`), unless its handler has yet to stamp it. The receiver's last loop executes operations only whose `prev` has at least the sum of
  the value timestamp and does not go past it, hence equals it: not these.
What a sort, a stamp or an addition does to the writes of a ledger are lemmas (`SortedHolds`, `AppendHolds`, ...).

`TransactionManagerProofs`. `TypeCorrect`, `Committed`: Spec => []CommittedEverywhere, `OwnerKept`:
Spec => LeaseKeepsAnOwner. That a transaction is everywhere is claimed when its
client is told; `CommitInv` says for every place a submission can be in which peers have
it by then: all trusted ones up to the last called, then all of them, then its own TM.
The peers are called in the order of a least element of a set, hence `LeastNumber`.

`TecnicoFSProofs`. `TypeCorrect`, `HandlesAreFiles`: Spec => []HandlesLeadToFiles. A handle leads to
an inode that the directory names, for a thread entered it after it had looked the name up
(`PlaceInv`, with inodes made but not yet named, which are one thread's alone) and names are
never taken away. `IndexInv` is needed for the types: a truncation frees the index
block, which must not be block 0, the directory's. `BlocksAreApart`: Spec => []BlocksNotShared.
An index block that is freed goes on naming blocks, and names them again for the file that
takes it next. So `BlockInv` speaks of every place that may name a block: the direct blocks of
inodes, their index blocks, and every cell of the data, in free blocks too. A block that a
place names is not free, and no other place names it (`AloneInv`), until a number is `torn`: what a copy
writes before that is text, or is the number that was there. `TearInv`: only a write that leaves its block tears one. `BytesAreThere`: Spec => []BytesHaveBlocks.
`WholeInv`: until an allocation fails or a write leaves its block (`damaged`), index blocks
list block numbers only (`CleanInv`), a file has the blocks that its size reaches
(`FileInv`), and a writer, alone with its file, has allocated the blocks before the one it
is at (`WriteInv`).

`SketchProofs`.
- `TypeCorrect`, `EveryTrial`, `Results`. Hits and misses add up to the current trial,
  also beyond the last (`CountInv`); a click counts only after the form is gone, unless
  the window changed size over it (`TestInv`); the attempt under way is the one
  whose result is missing, on a canvas that the grid fits (`AttemptInv`).
- `ArrayKeepsAll`, `AlwaysAudible`: Graph!Spec => []Registered and []Audible, from one invariant,
  `GraphInv`. Neither is inductive. What one call takes from the array depends on the parts of
  the object, so `Built` says that an object is part of one other at most, at one
  place, and of which kinds: disposing of one object then removes nothing of a live one
  (`AllSpliced`: after a sequence of removals the array has what it had, less what was
  removed, as long as each of these was in it once; synths, pushed by two constructors, are
  in it twice and stay, as `Listed` says). At the page's end the array shrinks
  while it is walked over; the walk is a function of the turns, and what holds before a turn
  holds after it (`Climb`). `Audible` speaks of paths, a recursive function on sets of nodes: an
  invariant names the path each kind is made with instead (`Way`, `Wired`), wires on which no
  call breaks (`setType` of a delay leaves the path of the left side, `start` and `phase` rewire an
  oscillator with a path again), and `WayReaches` turns a path whose nodes differ into
  membership in `Reaching`. It takes as many turns as there are nodes in the wires, so that they
  are counted (`NodesCount`). The bands of an EQ have no path of their own, and are parts of
  one always. `GraphAssumption`: the sketch makes no band by itself, an EQ has 3 or 8 bands (as the
  constructor requires), and the output of the page is no object.

`InputsProofs`.
- `NoMicrophoneLeftOn`: Input!Spec => []NoneLeftOn, for any calls at any time. Microphones that are on,
  together with requests that wait, are at most one per crossing and one for the start under way (`Owed`): each
  answer turns a request into a microphone, a call that no request waits for leaves none behind. Those that the
  object has let go of are no more than the crossings.
- `Detections`: Detect!Spec => DetectionsApart. The counter of frames and the cutoff keep step with
  the last peak (`PeakInv`), the timer with the last onset (`OnsetInv`).
- `DisposedIsQuiet`: Loading!Spec => QuietAfterDispose, an action property: each of the ways a load
  may go on looks at `panner` before it tells the file or gives it the buffer.
- `OneImpulseSet`: Reverbs!Spec => []OneImpulse. Which node is connected (`Connected`) follows from the
  methods, which tear one down before they make another; that it has the impulse asked for last, by a load or a toggle, from `OrderInv`: the calls are
  numbered, no two waiting loads have one number, and the load with the largest, if it is past
  all that was answered, is of the impulse wanted. A load that is answered after a later
  toggle is not, and ends `ordered`: the code sets its impulse, whatever was toggled.
- `RecordingIsOwn`: Recorder!Spec => []OwnRecording. The hard state is what is under way between the
  threads. `Flow` says, for a page that waits for each recording: a start waits
  alone in the processor's queue, what the processor holds and has sent are buffers of the last
  call of record, at most as many as its limit, and nothing is under way when the next
  start is sent.

`SourcesProofs`.
- `PlayingEnds`, `OneVoiceOnly`, `SilentWhenStopped`: File!Spec => []PlayingHasNode, []OneVoice and
  []SilentWhenNotPlaying, from one invariant, `FileInv`. The array of nodes holds nodes whose
  `ended` is to come, each once, and every node that plays (`Sound`, which also takes the nodes
  about to leave); without overlapping plays only the last can play, and only if the file
  says so (`Single`). A file played in one of the two modes only never overlaps. Methods that
  call each other have lemmas about the record of the file that they map (`StoppedKept`, `PlayedKept`).
- `EveryCue`: Cueing!Spec => []NoCueMissed, for files that loop too. `CueInv`: as long as nothing disturbed
  the play, and once it has reported (`heard`), its last
  report is where the next update begins, and cues between the first report (`first`, that of the play or, after
  it came back, of this time round) and the last were called. An
  update is a function on its turns; `UpdateTurns` shows by a least counterexample (`Least`,
  from the library's theorem that `<` is well founded on the naturals) that after i turns
  without a throw each due cue among the first i was called.
- `SoundsAsAsked`: Sounding!Spec => []SoundsAsTold. `SoundingInv` separates the latest nodes of each
  voice from those before: these are silent when due, or disconnected; the latest play on
  exactly while the source is started.

`MusicProofs`.
- `CallsWithinLimit`, `StopIsQuiet`, `InSync`: Loop!Spec => []CallsLimited, StoppedIsQuiet and []SyncedTogether, from
  `LoopInv`. Lemmas about the timeline come first: what an event added changes at which times (`AddedAt`),
  that a clock stopped at t is stopped from then on (`StoppedFrom`). A tick of the context runs a
  clock for many turns, a function defined from its value before, so what holds after
  it is shown to hold after each turn (`TurnGood`, `TurnPhase`) and then, by the least number of turns
  of which it would not (`Climb`), of all. Each clock made fewer calls than ticks, for its
  first tick is late (`Counted`), and is stopped from when it is to be quiet (`Quiet`).
  Two clocks started in step at a have missed the start, or wait for it, or tick at a plus
  multiples of the period (`Dead`, `Waiting`, `Ticking`); two that tick are both past the horizon
  by less than a period after a tick of the context, hence at the same one (`SameTick`).
- `PlaysInStep`: Loopers!Spec => []PhrasesInStep. The count of a metronome is the step of its part and the
  ticks that came late, modulo the length (`InStep`), for parts not cut short; a tick that comes while
  the part does not play adds to both sides. For that, `LoopersInv` says what `onended` can be,
  and that a score of several parts is at none of them: `currentPart` is then the array
  of the constructor, or NaN (`ScoreAt`).
- `VoicesOfTheirOwn`: Synth!Spec => []OwnVoices. `SynthInv`: the notes held have the first voices,
  one each; all values in time are for the last call or before, so the latest is the one a call
  reads, and it is the number of the notes.
- `PlaysAreShaped`: Env!Spec => []PlaysKeepShape. `EnvInv`: while calls come in order, what the signal
  remembers ends as what the AudioParam was told does, and neither has an event after the
  last call's (`Steady`); so the level a call reads is the one that is heard, though
  the signal forgot the rest. Each of a play's three levels is reached (`Reached`): the last event for
  its time or before is a ramp to it, at that time. Later calls add and cancel events
  after it only (`LegLater`, `SteadyLater`). Times may be 0: a leg that takes no time jumps over the level before it, which
  the property then does not ask for. A call may be for the very time of the last event if its first leg
  takes time (`orderly`); a ramp may not.

Model-checked only, because the prover does not reach it: liveness (`RoundsEnd`, `SubmissionsEnd`, `PartEnds`,
`Finishes`, `SketchStarts`). `PageTypeOK` is model-checked only,
but each part's invariant says what of it the proofs need.

## 5. Findings

1. A decision needs no majority: empty refusals are counted as replies
   (`PaxosAcceptLogic.cs:34-42,121`, against `LMServerState.cs:459`).
2. Decisions are never sent: the dictionary read before a send is filled by sends
   only, and the exception is lost (`LeaseManager/LeaseRequestLogic.cs:87`).
3. Two TMs hold the same lease: a key in no queue is taken locally
   (`TMServerState.cs:245`, against its comment at 227-228).
4. Timestamps are not unique: they go to the last operation of the ledger
   (`UserService.java:42`, against A67 `README.md:60`).
5. A read may miss the user's own writes: `containOperation` takes different first
   writes of two users for one (`ServerState.java:134`, against `README.md:68,78`).
6. `framesPerPeak` is no pause between peaks (`p5.sound.js:10445`, against the documentation at 10330-10332, by
   which it "determines how many loops must pass before another peak can be detected"): one that is more than half as
   loud again is detected in the next frame. What the code does keep is `DetectionsApart`, checked and proved.

Also seen, without a run of their own: the accept phase sends the table that the LM
has *after* the awaits to the TMs, not the one accepted (`PaxosAcceptLogic.cs:125`);
a promise may be lowered by a prepare admitted before it (`PaxosPrepareLogic.cs:35-44`);
a request all LMs acknowledged may be lost with an aliased `lastConsensus`; a transfer
that fails is answered OK (`ServerState.java:174,202`); the writes of an aborted
submission stay at the peers that applied them (`TMPropLogic.cs:121`). In TecnicoFS: two
threads create one name twice (`operations.c:54`); a handle left past the end of a
truncated file reads beyond it and may crash (`:252`); a piece that leaves its block may end within
a number of another file's index block, which is then the number of some block: two files may share one (`:146`); after a failed allocation
files have holes (`:120`); a piece written after a truncation may leave its block
(`:134`); the buffer is not advanced from piece to piece (`:146`, `:232`); the copy takes the
number of an inode for a handle (`:292`); closing frees an entry before it destroys its
mutex (`state.c:385`).

In the experiment: a change of the window's size shows the targets over the form, the
results or the button, and clicks count again (`sketch.js:297`); on a canvas the grid does
not fit, results are printed again.

Behaviours of p5.sound that the models show and their hypotheses exclude, for whoever
changes that copy:

- Loops: a stop for later followed by a start is lost; a pause before a start
  for later is ignored; the time signature cancels out of the frequency.
- Score: `start` throws a TypeError, as `currentPart` is an array; `resetParts` closes over a shared
  `i`; a looping part stops calling `onStep`; `removePhrase` skips the phrase after one it removes.
- SoundFile: pause and setLoop reach the last node only; a cue point out of range leaves a
  node that never started, and the next stop throws; dispose passes an absolute time as
  a delay; a node already cleared makes the `ended` handler throw.
- Cues: a callback that removes its own cue throws, and the cue comes again; a
  late report moves the position back. An update calls the cues between `prevUpdateTime` and its position (2840-2848),
  and neither a play nor a wrap resets the former: cues before the first report of a play that begins
  further back, or of a file that came back to its start, are missed, though by the
  documentation (2735) a cue is called "every time playback reaches" it. `NoCueMissed` says what is left:
  from the first report on, none is.
- Looper: a tick that was due before a stop but comes after it moves the metronome a step ahead of its part,
  and phrases then play a step too far for good.
- Loads: a preload that fails or is disposed of never lets the sketch start; a name with a dot
  loses its first component; an array of formats that the browser does not play throws;
  setPath may be answered out of order.
- PolySynth: releasing one of several notes sets the count to 0; stealing a voice throws a
  ReferenceError; releaseAll leaves later counts; `_updateAfter` skips events of one time.
- Envelope: a play for earlier erases later ones; a sustain time is truncated to whole
  seconds; overlapping plays of a MonoSynth cut each other.
- Sources: arithmetic twice throws, though the comment at 4524-4526 says that it
  overrides; `stop` with the present time is taken for a delay; Noise ignores delays; a Pulse loses its
  modulator, and keeps old oscillators connected, when it is restarted.
- Objects: disposeSound skips every second sound; disposing twice takes another object out
  of the array (`splice(-1, 1)`); a MonoSynth is there twice, and one stays; the meter
  of an AudioIn stays; setInput of Amplitude and FFT disconnects other meters.
- SoundRecorder: record before the last buffers came gives them to the new file; record
  without a file goes to the last one; one stop too many sends an empty recording,
  which setBuffer refuses.
- AudioIn: each start, stop or dispose while the browser is asked may leave a microphone on.
- Convolver: the node of Reverb's constructor stays connected; an impulse that comes after a
  reset or a dispose is set, or throws; one that comes after a toggle replaces what was toggled to.

## 6. What is left

Of the plan, in order: `LeaseConsensus`, an abstract specification of one
decision per timeslot, of which the lease managers implement validity only (findings 1 and 2
show the rest is not there); `Hangman` (RC), players over UDP with lost and repeated
datagrams; `Warehouse` (GGC) and `BlingBank`, sequential models.

### Not modelled

- Hangman, GGC and BlingBank: next in the plan. Each is a program of its own that shares
  nothing with what is modelled here.
- DADTKV's status and manager processes, DistLedger's naming server and administrator: they
  launch, print, keep names, forward; where others depend on them they are constants
  or actions of the modules above.
- Analysis and conversions of p5.sound (FFT bands, peaks of a file, pitches, WAV, MIDI, listener
  positions): numbers computed from samples, without state that a later call depends on.
- Frequencies, levels, panning, widths and filter parameters in the parts that are modelled.
- FP, LP, ASA, IA (single functions without lasting state), BD (SQL scripts), the empty
  example of p5; start-up, parsing, drawing and printing everywhere.
