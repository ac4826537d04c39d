# udpcp in TLA+

A verification project for [udpcp](../src/README.md), which copies one file over UDP:
the sender announces it (INIT), blasts its chunks (DATA), announces the end of the pass
(DONE) and sends again what the receiver says is missing (NACK), until the receiver has
checked the SHA-256, renamed the file into place and said so (FIN). The core models
senders, receiver and network together; six smaller models look closer at what the core
abstracts: time, addresses, system calls, threads, arithmetic, and what the user is
told. TLC checks all of them on small instances; their safety properties are also proved
with TLAPS, for every value of the constants.

## The system

| Component | Source | State | Operations | Module |
| --- | --- | --- | --- | --- |
| sender | `src/lib/send.rs` | where `run_send` is, the attempt and pass counters, `Blast.pending`, `queued`, `progress_done`, `since_drain` | handshake, blast (with feedback drained on the way), collect feedback, complete, give up | `Sender` |
| receiver | `src/lib/recv.rs` | `state` (`ReceiveState`: tmp file, bitmap, count, frontier), `sender` | open a transfer, store a chunk, NACK, finalize, linger, abandon, reset | `Receiver` |
| clocks of the receiver | `recv.rs` | `oldest_gap_at`, `last_nack_at`, `last_data_at`, the read timeout | start and stop the gap clock, NACK, NACK again, give up | `NackClock` |
| directory | used by `recv.rs` | `name.tmp`, `name`, their inodes and descriptors | create, `set_len`, write, hash, rename, remove | `Directory` |
| wire protocol | `src/lib/protocol.rs`, parts of the above | the bitmap's words, the bytes written | cut a file into chunks and NACKs into batches, validate, place a chunk, pace | `Wire` |
| addresses | `send.rs`, `recv.rs` | sockets, `receiver_addr`, `sender` | bind, connect, filter by source | `Peers` |
| signals and exit | end of `recv.rs`, `src/main.rs` | `SHUTDOWN_SIGNAL`, the signal thread, the socket, the exit status | note the signal, shut the socket down, raise it again | `Shutdown` |
| reporters | `src/lib/report.rs`, `text_reporter.rs`, `jsonl_reporter.rs` | `last_pct`, `bar_active` | print events | `Reporter`, `Reports` |
| command line | `src/cli.rs`, `main.rs` | none | parse flags, build the configs, choose a reporter | (constants) |

Sender and receiver share nothing but datagrams, and each is one loop over one socket:
every step is the handling of one datagram or one timeout. What makes the system hard is
between them:

- **The network.** Datagrams are lost, repeated, delayed past the end of their transfer,
  reordered and damaged; only the payload of a DATA can be protected (`--verify`), and
  what an INIT announces is not.
- **Timers that decide alone.** The sender gives up after so many passes, the receiver
  after a silence; each may be wrong about the other. The receiver looks at its timers
  only when a read times out.
- **The last message.** After the rename the sender must hear a FIN, and after the FIN
  the receiver wants a FIN_ACK; either may be lost, and a serving receiver may be
  listening to somebody else by then.
- **Who is who.** No datagram names a transfer: addresses are all there is.
- **Failure and restart.** A send, a write, the hash check or the rename fails; a signal
  stops the receiver; it is killed and run again over the tmp file it left.
- **Shared paths.** Transfers one after the other, or receivers side by side, write the
  same `name.tmp` and `name`, and `name.tmp` may be a file that was sent itself; the
  source may change between being hashed and being sent.

What makes each component correct:

- sender: queue and set agree (`QueueInv`), success is reported only for a saved file
  (`CompletedMeansSaved`), it ends (`SenderEnds`);
- receiver: bitmap, count, frontier and tmp file agree (`SessionAgrees`), stored chunks
  stay (`StoredChunksStay`), a full transfer is whole (`FullMeansWhole`), the session is
  kept until it is over (`SessionKept`), tmp files go (`NoTmpLeftBehind`), it listens
  again (`ServesAgain`);
- clocks: gaps are NACKed in time (`NackedInTime`, `FirstNackPrompt`) and not too often
  (`NoEarlyRenack`), a silent sender is given up (`SilenceEnds`);
- directory: a file is replaced at once, by a whole one (`WritesThenRenames`,
  `ReplacedAtOnce`);
- wire: everything fits (`DataFits`, `NacksHeard`, `BitsApart`) and a transfer whose
  count is full has every byte (`FullIsAll`);
- addresses: a send that completes is saved where it was sent (`CompletedThere`);
- signals: the exit status tells why (`ExitTrue`), nothing is left behind (`TmpGone`),
  and the process ends (`SignalEnds`);
- reporters: a script can follow the lines and believe them (`StreamReadable`,
  `StreamTrue`, `PercentsRise`, `ProgressHonest`), the terminal stays tidy (`BarOwned`);
- together: final files are whole (`FinalIsWhole`), udpcp does what `FileDelivery`
  promises (`KeepsPromise`), transfers succeed (`SenderSucceeds`).

`PROJECT.json` lists the hazards of this code line by line, with the properties that
look after each of them.

## The modules

| Module | What it is |
| --- | --- |
| `UdpNetwork` | the datagrams, and the network as an environment that `Env` makes worse or better |
| `Sender` | `send.rs`: `phase`, `attempt`, `pass`, `pending`, `queued`, `sinceDrain`, `missing` |
| `Receiver` | `recv.rs` and its files: `rpc`, `from`, `header`, `meta`, `received`, `count`, `frontier`, `disk`; `saved` is a history variable |
| `FileDelivery` | an abstract specification: files appear whole and at once, a report is truthful and final |
| `WriteThenRename` | another: how files come to be replaced at once, by writing and renaming `name.tmp` |
| `Udpcp` | the composition of the first three, the properties, and the fairness |
| `Reporter`, `Reports` | the two reporters with a terminal and a script; `Udpcp` with what each step reports |
| `NackClock` | the receiver's timers on discrete time |
| `Shutdown` | the main thread, the signal thread and the socket between them |
| `Peers` | several sends and receivers, ports and addresses |
| `Wire` | the arithmetic, for a transfer opened by any INIT and fed any DATA |
| `Directory` | the receiver's system calls, one at a time, of several receivers |
| `MCUdpcp`, `MCReports`, `MCPeers`, `MCWire`, `MCDirectory` | the instances TLC checks |
| `UdpcpTypes`, `UdpcpSafety`, and `...Proofs` of `Reports`, `NackClock`, `Shutdown`, `Peers`, `Wire`, `Directory` | theorems and proofs |

`Reports` extends `Udpcp` and `Reporter`: each of its steps is a step of `Udpcp`
together with the events that the code reports there (over a network with `duplicate`,
which takes no steps of its own), so what the runs of `Reports` check of `Udpcp`'s
variables they check of `Udpcp`. The others stand beside the core, each with the
abstraction its question asks for; their relation to the core is said below.

### Sender

`phase[s]` is the point at which `run_send` looks at its socket or is about to send:
`start` and `handshake` (the attempts loop), `blasting` and `draining` (`send_pending`
and `drain_feedback`), `feedback` (`collect_feedback`), then `completed` or `failed`.
One action sends one chunk, because between two chunks the receiver may act; the drain
is one action per datagram, because what is drained depends on what arrived by then.
Each action does everything the code does up to the next such point: `SendChunk` pops
the queue, removes the chunk from `queued`, reads the source and decides about draining;
`FeedbackTimeout` counts the pass, gives up or queues what was NACKed. A NACK is a set
of chunk numbers; what it adds to a queue is appended in ascending order, the order in
which the receiver lists it (`Ascending`). `edited` records which chunks of the source
have changed since it was hashed.

### Receiver

One action per arm of `receive_loop` and of `linger`, with the guards in the order of
the code: the source filter (`Heard`), the packet type, the state. Failures are separate
disjuncts or actions guarded by `"ioerror" \in Env`. `Abandon` stands for
`abandon_transfer`, `reset_listening` and the `Drop` of `ReceiveState`: the error ends
the program or, with `--serve`, brings it back to listening, unless `reset_listening`
fails too (`NextUp`). The tmp file is removed in all cases; an error of that is ignored,
as in the code, and the file stays (`DropTmp`, with `unremovable`).

`disk` maps the names of files to what they hold: `tmp` and `final` are its views at
`name.tmp` and at `name`. Nothing in the code keeps a file from being sent to the tmp
name of another (`x.tmp`, while `x` is sent), so `Apart`, which says that nobody does,
is an assumption of the theorems that need it and not of the model. A content is a
function from chunk numbers to bodies, a body tells whose chunk it is and in what state,
so two files with a chunk in the wrong place differ. The hash check of `finalize` is
equality with the file the sender hashed.

`header` is what `parse_init` made of the INIT that opened the transfer: the path, the
number of chunks, and the lengths of the last and of the others. Of a length only
matters whether it is that of a chunk, that of a short last chunk, or neither, since
`store` compares lengths.

### Network

`toReceiver` and `toSender[s]` are sets of datagrams. With `"duplicate"` in `Env` a
delivered datagram stays, which is loss, duplication, delay and reordering at once and
without bound; without it at most `MaxLosses` datagrams are lost or repeated, which the
liveness runs need. Two equal datagrams under way at once are one element of the set:
this loses a copy silently, so a bounded-loss run can lose a little more than it counts,
never less. Damage is computed when a datagram arrives (`ArrivingAtReceiver`,
`ArrivingAt`): a garbled body or hash, another chunk number, or one flipped bit in the
type byte, as the proxy of `tests/transfer.rs` does. What else an INIT announces has no
protection at all: with `misannounce` it may be read as another header (`HeadersFrom`),
any of those in `Misread`, which the theorems leave open.

### Reports

A reporter is a record (`lastPct`, `bar`) with what came of it: the percentages printed
in this transfer, the last milestone a script has read (`lost` once a line came that
cannot follow), and the terminal, where a line may be `torn` by a reporter that writes
behind its own bar or `glued` to the bar by the error message of `main`. `Shows` is the
dispatch of the reporter that was chosen. `Reports` gives every process a reporter and
adds `Blast.progress_done`; `sent` is a history variable. An action names the step of
`Udpcp` and the events in the order of the code, for instance an abandoned transfer of a
serving receiver is `failed`, then `listening`.

### NackClock

A step is one turn of `receive_loop` at the instant `now`: a datagram of the sender
(`Opens`, `Stores`, `HearsSender`, `DoneNacks`, `DoneCloses`), of somebody else
(`HearsStranger`), or a read timeout (`GivesUp`, `GapNacks`: the order of
`on_idle_tick`), each ending with `read_timeout` (`Arm`). `Tick` cannot pass the instant
at which the read times out; that some turn is always possible then is `EveryWakeActs`,
without which time would stand still and the deadlines below would say nothing.
`bornAt`, `nackedAt` and `heardAt` are history variables. `Spacing` is the assumption
about the network that matters here: how close together datagrams come. `Receiver` lets
`GapTimer`, `IdleTimeout` and `LingerEnds` fire at any moment, which covers every
behaviour of these clocks.

### Shutdown

The main thread's steps are one `recv_from` and what follows it, reduced to what may
come of a datagram: a transfer opened, abandoned, saved. An error of `set_read_timeout`
(`TimeoutUnset`) ends `receive_loop` wherever it comes; an error of reading ends it too,
but in `linger` only closes the window. The thread's two steps are
`Notes` (`SHUTDOWN_SIGNAL.store`) and `Shuts` (`libc::shutdown`). A shut socket still
gives what is queued, then fails; sends fail at once. `Signal` may come at any point:
before the handler is installed it kills the process, the first one afterwards is the
thread's, later ones are ignored, and any may interrupt a read. In `Receiver` all this
is the action `Stop`.

### Peers

A send is bound to a port; ports are given away again. A datagram carries the two
addresses it travels between, and the file its payload is of, which the program cannot
see. A receiver hears the address of the INIT that opened its session; a sender hears
the address its ACK came from, and goes on sending to its target. A receiver may answer
from another address (`Reply`) than it was spoken to at. `Receiver` identifies a sender
with its address; `Peers` is the reason it may.

### Wire

`Init` chooses any small INIT; an accepted one opens a transfer (`Opens`) and `Stores`
takes any chunk number and any length. The operators are the code's arithmetic:
`validate_chunk_size`, `div_ceil`, the offset and the expected length of a chunk,
batches of NACKs, words and bits, the `u16` length field (`PayloadLen`, which wraps),
`send_delay`. Their names are those of the constants and functions of `protocol.rs`.
`Wire` shows why `Receiver` may treat a chunk as one thing that is stored or not.

### Directory

A name is a path with an inode, a content belongs to the inode, and a receiver holds
descriptors. One action is one system call of `ReceiveState::new`, `store`, `flush`,
`finalize` or `Drop`, and a receiver may be killed (`Killed`) before any of them. What
is written by descriptor is hashed, renamed and removed by name: `TmpIsOurs` says that
this is the same file. In `Receiver` the calls of one handler are one step; `Directory`
shows that nothing can come between them while paths are apart (`Apart`). Both implement
`WriteThenRename`, in which a transfer writes the tmp file of its path alone and renames
it when it is whole.

### What is abstracted

- Bytes: in the core a chunk is its owner, its number and its state. A datagram whose
  type is damaged has a payload of another format; that it passes for one of the new
  format is left out (a DATA misread as an INIT does not parse, a control packet misread
  as a DATA has the length of no chunk), as are SHA-256 collisions.
- Time: in the core timeouts may fire at any moment. `NackClock` counts time in steps of
  one unit; the rounding of nanoseconds in `Duration` is left out. The clock of `linger`
  is left to the core: it only starts again with each DONE.
- The file system: a killed program loses nothing that was written (no power failure),
  so `sync_all` has no effect of its own; the rename is atomic.
- An edited source keeps its length; shorter chunks would be dropped by `store`.
- A file that cannot be unlinked stays in the core only; in `Shutdown` and `Directory`
  unlinking works.
- Wording of messages, rates and byte counts in reports, byte order and offsets in
  headers.

## The runs

| Run | Module | Instance | Environment | Shows |
| --- | --- | --- | --- | --- |
| `serve` | `MCReports` | 2 senders of one name (3 chunks, the last one short, and 1), serving, drain every 2, 2 passes; JSON with `--progress` | loss, duplication, delay and reordering without bound | sessions do not mix, stale INITs and DONEs do no harm, success is true, shown progress is real |
| `faults` | `MCReports` | 1 sender, 2 chunks, serving, version 2, 2 passes; JSON with `--progress` | the same, and garbled bodies and hashes, failing operations, `set_len` and unlinking failing, crash and restart, signals, edits of the source | `FileDelivery` is kept whatever fails, garbled payloads are never stored, the JSON lines can be followed and are true |
| `damage` | `MCReports` | 1 sender, 2 chunks, the last one short, serving, version 1; text with `--progress` | the same network, and garbled bodies and hashes, INITs that announce another name, size or chunk size, wrong chunk numbers, damaged type bytes | what gets to a final path is whole, stored chunks stay, the queue is sound; the terminal stays tidy |
| `live` | `MCUdpcp` | 1 sender, 2 chunks, drain after every chunk, 3 attempts, 4 passes | 2 losses | the sender succeeds |
| `ends` | `MCUdpcp` | 2 senders (0 and 2 chunks), own paths, serving, 2 passes | failing operations, 1 loss or repetition | senders end, the receiver listens again |
| `clocks` | `NackClock` | 4 chunks, holdoff 2, reissue 8, idle 5, waits of 1, datagrams at least 2 apart, 16 units of time | datagrams of anybody at any time | gaps are NACKed in time, not too often, and silence ends |
| `signals` | `Shutdown` | serving or not, 3 datagrams, 2 signals | any interleaving of the two threads, signals and datagrams | the exit status tells why, the tmp file goes, linger does no harm; the process ends |
| `ports` | `MCPeers` | 3 sends, 2 ports, 2 receivers with 3 addresses | datagrams delivered any number of times until their port has rested | a send hears its receiver, completes only there, sessions are of one send |
| `chunks` | `MCWire` | files of 0 to 15 bytes, chunks of 0 to 9, datagrams of 11, words of 3 bits, 7 chunks at most | any INIT, any DATA | everything fits, a full count is a full file, the pace is kept |
| `directory` | `MCDirectory` | 2 receivers, 3 files (2 of one name), 2 chunks, 4 inodes | kills between any two calls, failing calls, damage | files are replaced at once and whole |
| `starved` | `NackClock` | datagrams 1 apart | | **violation** of `FirstNackPrompt`, see below |
| `nospace` | `MCUdpcp` | 1 sender, 2 chunks | `set_len` fails | **violation** of `NoTmpLeftBehind`, see below |

Deadlock is not checked: senders that have ended, a receiver that has exited, an empty
network, a bound that is reached and a transfer that is complete really stop.

Bounds of the core. Two chunks are the fewest that can be swapped, lost one by one and
split over two NACKs (`MaxNacks` 1); three make a gap below the frontier with a chunk on
either side, and with a drain every 2 a NACK that arrives in the middle of a blast is
seen there. Two passes are the fewest in which a chunk can be sent again; with the
duplicating network one attempt covers several, since its INIT may arrive any number of
times. More copies add nothing there, and a transfer may be replayed any number of times
to a serving receiver. Two senders of the same path cover what happens between a
transfer and any other. In `live` the number of passes is tight: each loss can cost one
pass, the DONE of the last one needs its own, and the code counts a pass before it is
made; with `MaxPasses` 3 the property fails.

Bounds of the others. `clocks`: the reissue interval is longer than the idle timeout and
the holdoff, so a clock that is not reset between transfers shows, and 16 units hold a
transfer given up, another one, and a NACK repeated in it; four chunks make two gaps of
different age. `signals`: three datagrams open a transfer, end it and leave one in the
queue; the second signal is the one that must do nothing. That arrivals are finite is
more than a bound there: a flood that keeps the socket buffer from ever running dry keeps
the receiver reading after the shutdown, and `SignalEnds` says nothing of it.
`ports`: a third send finds a port that was used by another; the first may offer twice
and the last make two passes,
since `--handshake-attempts` and `--retransmit-passes` are each process's own. `chunks`:
every size and chunk size below the limits and one beyond each, so that exact multiples,
one more and one less, empty files, single chunks, full and partial words and batches
all occur. `directory`: each of the two names has a tmp and a final inode; inodes are
interchangeable, hence the symmetry.

### Fairness and timing

`FairSpec` of `Udpcp` asks that a thread that can take a step takes it, that a timer
that is due fires (both loops block in `recv_from` with a timeout, in one thread each),
and that a datagram that is not lost is delivered. Nothing is asked of failures,
signals, edits, crashes, restarts or losses. Fairness of the gap timer is not needed,
since every pass ends with a DONE.

Timeouts that may fire at any moment defeat liveness (the sender would count passes
while its answers are under way), so `live` and `ends` set `Timely`, which says what the
default durations do when the network is faster than they are: the sender's 3 s outlast
a datagram and its answer; the receiver's idle timeout (30 s) and linger window (15 s)
outlast the 3 s pauses of a sender that is still there; the 0.5 s of NACK collection end
before a gap is NACKed again (3 s). No safety run and no theorem assumes it.

`FairSpec` of `Shutdown` asks that the operating system runs both threads: weak fairness
of `MainStep` and of `ThreadStep`. A read that blocks is no step, so nothing makes the
main thread leave `recv_from` but the shutdown; a read that breaks of itself
(`ReadBreaks`), signals and datagrams are not asked for.

### What does not hold

Two runs show it:

- `starved`: gaps are NACKed only when a read times out, and a read waits for 1 ms at
  least. While datagrams come closer together than that, no gap is NACKed before the
  DONE, though the README of udpcp says that a gap is NACKed "as soon as it has
  persisted past `--nack-holdoff`". Repair then waits for the end of the pass.
- `nospace`: when `set_len` fails there is no `ReceiveState` yet, and so no `Drop`, to
  remove the tmp file that was just created.

Others are the reason for an assumption, and can be seen by taking it away:

- A damaged INIT. Its hash is that of the file and protects neither the name, nor the
  size, nor the chunk size. With another name and an intact hash the file is saved under
  that name and answered with FIN: the sender reports success with nothing at its path.
  With a smaller size a transfer is full with a part of the chunks, with `--verify` too;
  the hash of the whole file then fails (`Env <- Misannouncing` in `damage.cfg`:
  `CompletedMeansSaved`, `FullMeansWhole`). `FinalIsWhole` says what is left: the file is
  whole, wherever it is.
- Files named `x` and `x.tmp`. A transfer of `x` empties a delivered `x.tmp` and renames
  it (`Paths <- TwoPaths`, `Path <- OwnPath`, `TmpOf <- TmpAlias` in `serve.cfg`:
  `CompletedMeansSaved`). `Apart` excludes it.
- A damaged chunk number. Version 2 hashes the body of a DATA but not the number it is
  stored under, so a chunk may be put in another's place, undetected until the hash of
  the whole file fails (`Env <- Misnumbering` in `faults.cfg`: `VerifyDetects`).
- A damaged type. The type byte is unprotected and ACK and FIN differ in one bit: a
  late, damaged ACK ends a blast with success though nothing is saved (`Env <-
  Mistyping` in `damage.cfg`: `CompletedMeansSaved`).
- An error of `set_read_timeout` in `linger` is passed on by both `?`s, so a receiver of
  one file that has saved it exits with failure. `LingerHarmless` says that nothing else
  does that: neither a failing read or send of `linger`, nor a shutdown during it.
- A port that is used again while datagrams or a session of its last owner are left: a
  FIN for one is heard by the other (`Rested = FALSE` in `ports.cfg`:
  all three properties).
- Two receivers that write the same name, as the README of udpcp warns: one hashes and
  renames what the other is writing (`NameOf <- MCSameNames`, `TmpOf <- MCSameTmps` in
  `directory.cfg`: `WritesThenRenames`). The Drop after a rename, which the code calls a
  no-op, may remove the other's tmp file then. `Apart` excludes both.
- A gap younger than the holdoff is NACKED along with an older one: `nack_gaps` lists
  every gap below the frontier. `FirstNackPrompt` and `NoEarlyRenack` are what is
  promised; nothing says "not before".
- A bandwidth limit below one chunk a second is exceeded by the one that is sent
  (`PaceKept` says so, which counts payload bytes, as the code does, and no headers).
- The error message of `main` is printed behind a progress bar that a failing transfer
  left (`glued`); `BarOwned` is about the reporter's own lines.

## The proofs

Every safety property and every action property that a passing run checks is a theorem,
for every value of the constants allowed by the named assumptions. Where one needs a
kinder environment, the theorem says so.

| Theorem | Property | Assumption |
| --- | --- | --- |
| `TypesCorrect`, `QueueCorrect` | `TypeOK`, `QueueInv` | none |
| `FilesWhole` | `FinalIsWhole` | `Apart` |
| `SuccessIsTrue` | `CompletedMeansSaved` | `Apart`; no `mistype`, `misannounce` |
| `PromiseKept` | `KeepsPromise` | `Apart`; no `mistype`, `misannounce` |
| `SessionsKept`, `ChunksStay` | `SessionKept`, `StoredChunksStay` | none |
| `SessionsAgree` | `SessionAgrees` | none |
| `FullIsWhole` | `FullMeansWhole` | no `misannounce`, `misnumber`, `mistype`, `edit`; `garble` only with `Verify` |
| `VerifyWorks` | `VerifyDetects` | no `misnumber`, `mistype` |
| `TmpRemoved` | `NoTmpLeftBehind` | `Apart`; no `crash`, `nospace`, `unremovable` |
| `GapClockIsTrue`, `WakesAct`, `RenacksWait` | `GapClockTrue`, `EveryWakeActs`, `NoEarlyRenack` | none |
| `GapsNackedInTime`, `FirstNackIsPrompt`, `SilenceIsEnded` | `NackedInTime`, `FirstNackPrompt`, `SilenceEnds` | `Spacing > MinWait` |
| `ExitIsTrue`, `NoTmpAtExit`, `LingersHarmlessly` | `ExitTrue`, `TmpGone`, `LingerHarmless` | none |
| `CompletedIsThere`, `HearsOnlyIt`, `SessionsKeptApart` | `CompletedThere`, `HearsItsReceiver`, `SessionsApart` | `Rested` |
| `ChunksTile` | the chunks of a file cover it | none |
| `DatagramsFit`, `NacksAreHeard`, `BitsAreApart` | `DataFits`, `NacksHeard`, `BitsApart` | none |
| `MarkedIsWritten`, `FullIsComplete`, `PaceIsKept` | `WrittenAsMarked`, `FullIsAll`, `PaceKept` | none |
| `DirectoryReplaces` | `WritesThenRenames`: `Directory` implements `WriteThenRename` | `Apart` |
| `Atomic` | `ReplacedAtOnce` | `Apart` |
| `FinalIsVerified` | `FinalWhole`: a final file is a whole one, sent under that name | `Apart` |
| `TmpStaysOurs` | what is hashed, renamed and removed by name is what was written | `Apart` |
| `DirectoryKeepsPromise` | `Directory`, with a history variable, implements `FileDelivery` | `Apart` |
| `PeersKeepPromise` | `Peers` implements `FileDelivery` | `Rested` |
| `ReceiverReplaces` | `Udpcp` implements `WriteThenRename` | `Apart`; no `misannounce` |
| `ReportsImplementsUdpcp` | `Reports` implements `Udpcp` | none |
| `ScreensTidy`, `StreamsReadable`, `ProgressIsHonest` | `BarOwned`, `StreamReadable`, `ProgressHonest` | none |
| `PercentagesRise` | the first half of `PercentsRise` | none |
| `StreamsTrue` | `StreamTrue` | `Apart`; no `mistype`, `misannounce` |
| `PercentsRiseTo100` | `PercentsRise` | no `mistype` |

The arguments.

1. `UdpcpTypes` proves `SystemInv == TypeOK /\ QueueInv` inductive, component by
   component: a sender's step keeps `SenderInv`, a receiver's step `RecvInv`, and
   neither touches the other's variables. Typing alone is not inductive (the head of a
   queue must be a chunk), nor is the queue invariant (it needs the types). It rests on
   lemmas about queues: what popping and appending do to the set a sequence lists
   (`PopLemma`, `AppendLemma`), and that a sequence without repetitions is no longer
   than the set it draws from (`LenLemma`).
2. `UdpcpSafety` first shows which steps matter: final files change in `DoneSaves` only,
   and then, as its path is nobody's tmp, to the file of the bound sender (`StoreSteps`).
   `FilesInv` follows. Success is true because of where the news travels: a FIN under way, a lingering receiver and
   a completed sender all imply that the file is saved (`NewsIsTrue`), and a FIN is not
   made out of another datagram (`FinIsSent`). Refinement maps `final`, `saved` and
   `Outcome` to the variables of `FileDelivery`; `TruthInv` is exactly what the guard of
   `Succeed` needs.
3. It then shows how an open transfer changes: it is opened, it stores a chunk,
   or nothing of it changes (`SessionSteps`). `SessionAgrees` is inductive with
   `BodiesOwned` (a datagram carries chunks of its sender); `FullMeansWhole` follows
   from the count (a subset as large as the set of chunks is that set) and from
   `StoredTrue`, which needs `DataTrue` of what is under way.
4. `NackClockProofs`: `ClockInv` adds to the types that the gap clock runs exactly while
   the counters disagree (`GapInv`; `CountLemma` says that this is when a chunk is
   missing), that the last NACK is no older than any chunk's (`NackInv`), and that a
   read never ends before its deadline (`WakeInv`). That deadlines are kept in time is
   `PromptInv`: the end of a read is at most two shortest waits past the deadline,
   because only a datagram that arrives in between can put it off, and the next one is
   more than one shortest wait away. This is where `Spacing > MinWait` is needed, and
   `starved` what happens without it.
5. `ShutdownProofs`: `ShutdownInv` says that the thread shuts the socket only after it
   noted the signal (`ThreadInv`) and that a tmp file belongs to a transfer of a main
   thread that reads or handles (`FilesInv`). `ExitTrue` is then the order of two
   statements of the thread, whatever the main thread does in between.
6. `PeersProofs`: `PeersInv` says whose everything is: a port is of one send
   (`OneOwner`), and so are a datagram (`NetInv`) and a session (`SessionsInv`).
   `Rested` is needed in one step, when a port is given away: nothing is left that would
   change its owner.
7. `WireProofs` rests on what division does (`DivMod`, `CeilCovers`, `DivTimes`): the
   solvers know no division by a variable. From them follow that chunks cover the file
   and that batches tile the list. `WireInv` counts the bits that are set; a full count
   is a full bitmap, hence a full file.
8. `DirectoryProofs`: no inode has two names (`LinksApart`), so that a write changes one
   path; what a receiver writes is what its tmp name stands for (`TmpIsOurs`), so that
   what was hashed is what is renamed (`HashedInv`). A step of another receiver keeps
   what is said of this one (`OthersKeep`), as their paths are apart.
9. `Udpcp`, `Directory` and `Peers` share one abstract specification. They differ in what
   they leave out of it: `Directory` sees files and no reports, `Peers` gives each send a
   path of its own, and `saved`, which `Udpcp` and `Peers` have, is a history variable
   that `RecordedSpec` adds to `Directory`. In `Directory` a rename is `Save` and every
   other call a stutter (`SavesOrStays`); in `Peers` a session saves the send that was to
   be saved there (`SaveStep`), and `CompletedThere` is the guard of `Succeed`. Likewise
   `Udpcp` and `Directory` both implement `WriteThenRename`, one handler at a time
   (`ReceiverReplaces`) and one system call at a time (`DirectoryReplaces`); the latter
   needs all of `DirInv`, since a write goes to an inode and a rename to names.
10. `ReportsProofs` shows first that a step of `Reports` is one of `Udpcp`
   (`StepsOfUdpcp`), so that all the invariants above may be used. What a step does to
   the phase of a process and to its reporter together is then stated once for senders
   (`SenderTells`) and once for the receiver (`ReceiverTells`); the invariants are proved
   from these two. `BarOwned` needs to know that a line is glued to the bar by a process
   that has ended only (`ScreensInv`). `StreamReadable` follows from a table
   of the milestones that may be the last one in each phase (`LinesInv`). `StreamTrue` is
   that table with `TruthInv`, and with what is known of a receiver that lingers
   (`LingerInv`). Progress is honest because what has not been sent is still queued:
   `Total - Len(pending)` is at most `progressDone` (`BlastInv`), and the last line shows
   the percentage of what is done (`PctsInv`). That 100 is reached before a success needs
   the way of the news again: a DONE under way means that every chunk was blasted, hence
   so does a saved file, which was saved on a DONE (`DoneInv`).

Only model-checked: liveness (`SenderSucceeds`, `SenderEnds`, `ServesAgain`,
`SignalEnds`), which the prover cannot do: fairness is about when a step is `ENABLED`.
`PROJECT.json` names a mutant for every property of every passing run: a plausible
mistake in the code that makes that property fail there. The type invariants of the six
smaller modules are proved, but given to no run.

## Not modelled, and the plan

Done: the core (`UdpNetwork`, `Sender`, `Receiver`, `Udpcp`), `FileDelivery` and the
refinement, their proofs; `NackClock`, `Wire`, `Shutdown`, `Peers`, `Directory` and
their proofs, two more refinements of `FileDelivery` among them; `WriteThenRename` and
its two refinements; `Reporter`, `Reports`
and their proofs.

Possible next: a refinement that maps the turns of `NackClock` to actions of `Receiver`,
which is argued for in prose above.

Left out for good: argument parsing (no state), wording and layout of output, byte order
and offsets of headers (pure functions that their unit tests cover), build, tests and
CI.
