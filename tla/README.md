# TLA+ models of SyncMob

SyncMob connects a desktop program (Rust, `src/desktop`) and an Android application (Kotlin,
`src/mobile`) over the local network: devices find each other by beacons, speak a Noise-encrypted
protocol over TCP, are paired once by two users comparing a code, and then exchange texts and files.
This directory models the parts whose correctness depends on the order in which threads, users and
networks act, checks them with TLC and proves their safety properties with TLAPS.

## 1. The system

| Component | State | Operations | Hard behaviour |
|---|---|---|---|
| Desktop engine: connections and pairing (`engine/mod.rs`) | `trust`, `conns`, both behind mutexes; per connection a thread with local copies; a queue of events | dial, listener, `run_connection`, `on_message`, `respond_pairing`, `try_finalize_pairing`, forget, block, disconnect, `expire_pairings` | trust is read, the lock released, and the result used later; two threads finalise one pairing; two devices dial each other at once; prompts outlive connections; crashes |
| Desktop engine: files (`engine/mod.rs`, `engine/transfer.rs`) | `incoming`, `outgoing`, quarantine files, a thread per sent file | offer, answer, chunk, finish, abort, cancel, `fail_transfers_for` | a transfer can be ended by four threads; connections are replaced under a running transfer; files change while they are read |
| Secure channel (`net/session.rs`) | the Noise state and the socket, a mutex each; message counters | send, recv, close, handshake | locks held across blocking I/O; writes that fail half way; nonces that must stay in step |
| Wire protocol (`proto.rs`) | none | encode, decode, `allowed_before_pairing` | limits at their boundaries; agreement of what is sent with what is accepted |
| Trust store, key store, settings (`security/`, `config.rs`) | files under the profile directory | load, save, add, remove, block, create an identity | several files written one after the other; a failed save; a crash or power failure between them |
| Discovery and admission (`net/discovery.rs`, `engine/mod.rs`) | peer table with last-seen times, rate-limit tables | beacon in, beacon out, expiry, connect, admit | stale entries, full tables, window boundaries, limits checked before they are used |
| File names and publication (`util.rs`, `transfer.rs`) | the download directory | `sanitize_filename`, `unique_path`, rename | check, then rename, on several threads |
| Graphical interface (`app.rs`) | one pairing prompt, a queue of file prompts, the lists | pumps the engine's events, calls the engine | prompts that are stale when answered |
| Android engine (`mobile/.../engine`, `net`, `security`, `crypto`, `util`) | concurrent maps instead of one lock per table | as the desktop engine | check-then-act on concurrent maps; its own Noise implementation |

The components meet in the engine: connection threads call `on_message`, the GUI thread calls the
engine's commands and receives its events through a bounded queue, housekeeping closes sockets that
the connection threads then clean up, and each device talks to the others only through the channel.

What should hold, by component:

* pairing: nobody is trusted unless both users said so; two confirmations are not lost; a connection
  entry belongs to one live thread; limits hold whatever races; a connection that is not paired, or is
  shut down, goes away; a revoked key is refused;
* files: nothing reaches the disk before the user agreed, nothing partial stays or is published, one
  verdict per transfer, slots are freed, the sender's thread ends, names are never overwritten;
* channel: messages arrive in order, exactly once; sending ends, whatever the peer does; an end that
  closes takes the other with it;
* stores: after a crash at any point the next start finds a usable profile, with the trust list and the settings
  it had;
* discovery and admission: tables are bounded, no source gets more than its rate (the code keeps this only
  within a factor of two) or is locked out by its own attempts, and who asked for a device never reaches another.

## 2. Modules

| Module | What it is |
|---|---|
| `Pairing` | connections and pairing of any number of desktop devices |
| `PairingProofs` | proofs: its type correctness |
| `PairingSafetyProofs` | proofs: who owns a connection, who is trusted, the connection limit |
| `PairingOutcomeProofs` | proofs: what comes of confirmations, and of texts sent over a paired connection |
| `MCPairing` | its instances for TLC |
| `Receipt` | what a receiver of files promises: one verdict, saved only if accepted |
| `FileTransfer` | files between two paired desktop devices; implements `Receipt` |
| `FileTransferProofs`, `ReceiptProofs` | proofs: its invariants; that it implements `Receipt` |
| `MessageStream` | what the layers above rely on in a channel: each end handles a prefix of what the other sent |
| `SecureChannel` | the channel with its mutexes, sockets and threads; implements `MessageStream` |
| `SecureChannelProofs` | proofs: its invariants, and that it implements `MessageStream` |
| `Network` | beacons, the peer table, dialling, admission and its limits |
| `NetworkProofs` | proofs: the limits, the rate, and who is reached |
| `Profile` | the files of the profile directory, from the unlock screen to the running engine |
| `ProfileProofs` | proofs: what the next start finds |
| `Downloads` | publishing received files in the download directory |
| `MCFileTransfer`, `MCSecureChannel`, `MCNetwork`, `MCProfile`, `MCDownloads` | their instances for TLC |

The modules share no state: each takes from the others what it needs as inputs that may be anything. `Pairing`
and `FileTransfer` use an ordered channel that may be cut at any moment, which is what
`SecureChannel` is shown to be; `FileTransfer` ends a received file with an input that says whether it could be
published, which is what `Downloads` opens up; `Pairing` restarts with the trust store it had, which is
`ListSurvives` of `Profile`; and the handshake of `Pairing` that may fail is `Network`'s way to a connection.

### Pairing

A *session* is one TCP connection that has gone through the Noise handshake. Its handshake hash is
unique to it, and so is the code the users compare: the session stands for its code. Its two *ends*
(`dialer`, `listener`) are each served by one `run_connection` thread. `chan[e]` holds the messages on
their way to end `e`, and `down[e]` says that the socket of that end is shut down or dead.

`thread[e]` follows `run_connection`: `handshake` (dial or listener), `checked` (the trust lookup is done,
its result is in `snap`), `loop` (registered, reading), `finalize`, `add`, `grant` (inside
`try_finalize_pairing`), `removing` (socket closed, entry still there), `done`. `ui[n]` follows the GUI
thread through `respond_pairing` (`local_ok`, `send`, `add`, `grant`) and through forget and block
(`disconnect`). One action is one critical section of the code, or one critical section and the sends
after it where nobody can see the difference. In particular, the trust lookup and the registration are two
actions, and `respond_pairing` and `try_finalize_pairing` are four, because the code releases its
locks in between and other threads run there.

`approvals` and `inbox` are history: who confirmed whom having seen which code, and at which ends a text was
shown. Inputs the program does not decide (does the handshake succeed, is `allow_new_pairings` on, when does
PAIRING_TIMEOUT pass) are chosen freely. In particular `admit` and the expected-key check, which can only
refuse a connection early, are the input `handshakeOk`; `MAX_CONNECTIONS` is also checked where
it must hold, at the registration. How often users dial, answer, send and administer, a timeout passes, the network
cuts a connection and a process dies is bounded by `Budget`, a set of alternative limits of which a behaviour
keeps one.

Left out: names and times, `Hello` (it refreshes names; its save is in `Profile`), `Ping`/`Pong`, and a trust
store that cannot be written (see `Profile`). Sending data is a text; files have their own module. Devices run this engine and
are honest.

### FileTransfer

Two devices that stay paired, one of them sending. `out[t]` is the thread of `send_file_blocking`:
`offer`, `wait` (for the answer), `loop` (the checks before a chunk), `send`, `ended`. `incoming[t]` is
the receiver's `IncomingTransfer`; `part` is the set of quarantine files. `at[a]` is where a connection
thread or the receiver's GUI thread is: `accept`, `refuse`, `tell...`, `abort`, `verify`
are the steps of `respond_offer`, `on_chunk` and `cancel_transfer` between two of which the lock of
`incoming` is free. A connection is lost in the steps of the code: the loop ends (`remove`), the entry is
removed (`failTransfers`), the transfers are failed (`done`); a new connection may come between any two.

A file is a number of units of data. `intact` stands for the hash: true while the data is that of the
offer. The file may become unreadable, shorter, longer or different between the hashing and the sending
(`Answered`), and reading, writing, creating and renaming may fail. `SendResult` says when a write to a
socket may succeed: writing to a connection the peer has just left may succeed and be lost.

Abstracted: a connection is registered by both sides in one step (how that goes wrong is the subject
of `Pairing`); `fail_transfers_for` collects and ends the transfers in one step (only the
collected ones are ended in the code too); setting the cancel flag and sending FILE_CANCEL are
one step; a thread that takes a transfer out of the table disposes of its file in the same step.
`SavedIsWhole` says that the sender has read at least the size it offered: it stops at a short read, so a file that
has grown is read further when its offered size is a multiple of `CHUNK_SIZE`.
`Restart` is the end of the receiver's process at any point and its next start: the tables are empty, what
was offered or accepted is `lost`, and its quarantine files stay. `PartFilesTracked` excuses exactly those: nothing
in the program removes them. Left out: progress events, names.

### SecureChannel

Both ends of one authorised connection. At each end run the connection thread (`reader`), threads that send
(`Worker`), and the GUI thread that disconnects (`closer`). `noise[e]` is the thread that holds the Noise
mutex and, with it, the writer: `send` takes both and gives both back, and the only other user of the
writer, `close`, waits for it. `conns[e]` is held only by `disconnect`, which closes the socket in the scope of the
table's guard; every other use of the table is short and is a guard (`Free`). A frame is its
message, its nonce and whether all its bytes were written: the nonce is not on the wire, so `Opens`
compares it with the number of messages this end has decrypted. `WriteFails` is a write
that finds no room for IO_TIMEOUT, or a dead socket: nothing or a part of the frame was written, the nonce is used
and the channel stays open, as in the code. A partial frame is completed by the bytes behind it and then fails to
open. `RecvTimeout` needs a peer that had a write fail: KEEPALIVE is shorter than IO_TIMEOUT.

The lengths of texts are those the user typed; `Clamped` is what `clamp_str` makes of them (one character more than
the limit), `Decodes` what the other end accepts. Left out: keys, tags, MAX_MESSAGES (2^48), an
unlock by a panicking thread, and the connection's life before both ends are registered.

### Network

One device and the network around it. `peers` is the table of nearby devices, `guard` that of
`ConnGuard`, `thread[t]` a dialling or connection thread from its first check to the insert into `conns`.
`at` says which device answers at an address; devices move, and a beacon may name any device and any
address. `Tick` ages both tables; `recent[a][i]` is history, the handshakes `a` was let in for within the last `i`
ticks. `HandshakesPerMinute` is the documented limit, which the code does not keep; `HandshakeRate` states what its
fixed window does give within a `MINUTE`: just under twice the limit. Left out:
`is_lan_addr` and the settings that refuse whole kinds of connection, the beacon limiter (a beacon it
refuses is one that never came), and the announcer.

### Profile

`disk` is what reading each of the three files gives, `kept` what is left of it after a power failure if the rename
was not written out. `job[a]` is the save a thread is in: all writers write a temporary file and
rename it, so only the rename is a step of its own (`EndSave`), and the process may end before it. Identity
and trust list are synced before their rename (`Synced`), the settings are not, so a power failure can
leave them `Torn`. `state` is the KeystoreState the unlock screen was built with: it is read
once. Create is four saves and starts in their order, each of which may fail; an error leaves the screen as it was.
`unsaved` and `replaced` are history and name the excuses of the properties: the last save of the file
failed or was undone by a power failure, the user deleted it, or an identity was created over the
remains of another. Without `~replaced`, `ProfileOpens` does not hold: a crash between saving the new identity
and the new trust list leaves the old list, which the new key cannot open (the program then says so and
advises to delete it).

### Downloads

Connection threads finish transfers of one sanitised name in a directory other programs use too. `Look` is one step
per candidate of `unique_path`, `Rename` takes the place of what is there by then (the behaviour of Unix),
`Copy` is the fallback across volumes. LIMIT stands for 10 000; the name after it is not looked up.

## 3. Model checking

| Run | Instance | Question |
|---|---|---|
| `first_contact` | 2 strangers, 2 sessions; one of 6 budgets (below) | `TypeOK`, `MutualApproval`, `AckNotRefused`, `ConnsOwned`, `ApprovalNotLost`, `CodeOfThisOrLostSession` |
| `live` | 2 strangers, 1 session, 1 timeout; 2 confirmations and 1 request, or 1 confirmation and 1 refusal; fair | `UnpairedDoesNotLinger`, `ShutdownFreesEntry` |
| `one_file` | 1 file of 2 chunks, 2 sessions, restarts | `TypeOK`, `PartFilesTracked`, `WrittenInOrder`, `SavedIsWhole`, `ImplementsReceipt` |
| `file_live` | 1 empty file, 2 sessions, fair | `SendingEnds`, `LostConnectionClears` |
| `channel` | 2 messages from each end, sockets of 1 frame, 1 text too long, 1 disconnect, fair | `TypeOK`, `ImplementsStream`, `UnopenedOnlyAfterLostWrite`, `FittingTextDecodes`, `SendReturns`, `TableReleased`, `BothEndsLeave` |
| `network` | 2 devices, 2 addresses, 2 threads, limits of 1 connection, 1 peer, 1 source, 2 handshakes in 2 ticks | `TypeOK`, `ConnectionsBounded`, `AskedForIsReached`, `HandshakeRate`, `SourceNotLockedOut`, `TablesBounded` |
| `profile` | 1 peer, 1 connection thread and the GUI, 2 identities | `TypeOK`, `EngineMatchesDisk`, `ProfileOpens`, `ListSurvives`, `SettingsSurvive` |

All of these pass. Five more runs each find that the code does not do what a document or comment says:

| Run | What happens |
|---|---|
| `forgotten` | A connection keeps the flag it was registered with. Forget removes the key and then closes the connection; between the two, or on a connection that read the store earlier and registers later (forgotten or blocked), text from that key is shown. |
| `done_message` | FILE_DONE is sent with an empty hash and `decode` requires 64 digits: the receiver closes the connection after every file. |
| `both_ways` | Both ends are in a write that has no room; each reader has a frame and waits for the Noise mutex its own end's sender holds. Nothing moves until IO_TIMEOUT fails a write, which costs the connection. `SendReturns` shows that this timeout is what ends it. |
| `handshakes` | A source uses up its limit at the end of one window and again at the beginning of the next: more handshakes within a minute than the 10 that `SECURITY.md:19` and the comment at `engine/mod.rs:49` promise, up to 19. `HandshakeRate` shows that this is the most. |
| `overwrite` | Two threads find the same name free; the second rename replaces the file that was reported as saved. The last candidate of `unique_path` is not looked up at all. |

The models also show behaviour that no run reports, because a property says what does hold instead:

* A prompt survives its connection, and the answer goes to the connection the device has by then.
  `CodeOfThisOrLostSession` bounds this: a session is paired by a confirmation of its own code, or of the code of a
  session that is lost. The second case occurs.
* A connection or a process lost when one side has saved the key and the other not, or a full trust store on one side,
  leaves one side paired, which `MutualApproval` allows, as both users did confirm: on the next
  connection it gets no prompt, so the other cannot complete the pairing until somebody forgets the device.
* An empty file has no chunks, so it is never verified or saved, and the sender reports success. The receiver's
  slot is freed with the connection (`LostConnectionClears`).
* A text longer than the limit is cut to one character too many and costs the connection (`FittingTextDecodes`).
* After a failed write the channel stays open until the other end fails to decrypt (`UnopenedOnlyAfterLostWrite`).
* A copy to another volume that fails half way leaves a part of the file under its final name (`Copy` of
  `Downloads`), though `SECURITY.md:82` says that an error at any step removes the partial file, and
  `engine/transfer.rs:138-139` that a failure never leaves anything behind: only the quarantine file is removed.
* An identity created over the remains of an older one may stand beside a trust list it cannot open, after a crash
  in between or when the old files were only unreadable for a moment (the excuse `replaced` of `ProfileOpens`).
* A power failure can tear the settings, and the defaults return (an excuse of `SettingsSurvive`).
* Failed saves are silent: a forgotten device returns with the next start (the excuse `unsaved` of `ListSurvives`).

**Bounds.** `Budget` counts what users, networks and crashes may do, and how often PAIRING_TIMEOUT passes; threads
are not bounded. Its limits in `first_contact` are: two connections with both users' confirmations and a timeout, or
with one confirmation and one refusal; and one connection with both confirmations and a text together with a request
of the user, with both confirmations, two requests and a timeout, with both confirmations, a text, a lost connection
and a restart, or with a confirmation, a refusal, a request, a restart and a timeout. In `live` one timeout is no
restriction: the first one at either end ends the connection. One session has everything that is local to a connection;
two are needed, and enough, for a connection and its successor or its rival (both sides dial at once), and
for a transfer that outlives a connection; a device has at most one entry per peer, so a third session
repeats the second. What needs three devices in `Pairing` (entries of different peers that compete for
MAX_CONNECTIONS or MAX_TRUSTED_DEVICES) is left to the proofs, which hold for any number, and the race for
the connection limit also to `network`; so is whatever three sessions, four threads or larger limits might add, for
every safety property of every module (section 4). Two confirmations are both users'. A file of three units in
chunks of two has a full chunk, a partial one, and, when it grows, one too many.

In `channel` a socket of one frame is full as soon as it is used, so that every send can block; two messages per end
give each sender one message to block on while the other is on the wire, an answer to send at the same
time, and a frame behind a broken one. In `network` one more device than each limit on devices and two threads
that race for the last place are what the limits are about; a window of two ticks has a middle, and
a limit of two handshakes differs from one and from none. The table of sources has one entry to spare, so with two
addresses it never refuses one and the second half of `TablesBounded` cannot fail in the run: three addresses are out
of TLC's reach with two threads, and this half rests on the theorem. In `profile` two identities are an old and a
new one, one peer is enough for a list to differ, two threads for two savers.

Devices, sessions, transfers, addresses and threads are symmetric wherever no liveness is checked and the
initial state treats them alike. `CHECK_DEADLOCK FALSE` where the bounds are used up or a system without work
stops; `network` and `profile` never stop and are checked for deadlock.

**Fairness.** Connection threads, sending threads and the continuation of a GUI command keep running:
weak fairness for each. `expire_pairings` is run every two seconds, and OFFER_TIMEOUT and the handshake
timeout pass in the end. In `SecureChannel` a write ends because the socket has a send timeout, and a mutex
is obtained because the number of sends is bounded: that a fair mutex would be needed to show this for endless
traffic is not modelled. Nothing is assumed of users (not even that they answer), of the network, of
`RecvTimeout`, or of crashes.

Each property is shown to depend on the code: `PROJECT.json` lists, for each property of a passing run, a
plausible bug (`..._NoLimit`, `..._OneSided`, next to the definition it replaces) with which TLC finds it
violated.

## 4. Proofs

Every safety property of the passing runs (type invariants, invariants, action properties and the two
refinements) is proved for every value of the constants: any devices, sessions, files, threads, sizes
and limits. The module ends with its theorems; before them stand the invariant, a lemma for each operator the proofs
keep needing, and a lemma for each action or kind of action that it preserves the invariant.

**Pairing.** `TypeCorrect` (`TypeOK`). The type invariant is not inductive by itself, because an action of the
GUI thread uses the device it stored earlier: `TypeInv` adds that the fields of `ui` and the owner of a started
session are set. The other theorems rest on it.

* `ConnsOwnedCorrect` (`ConnsOwned`): inductive with `TypeInv`. `Register` inserts only if there is no entry,
  no other action changes the `end` of an entry, and `Remove` is done by the thread that owns it.
* `MutualApprovalCorrect` (`MutualApproval`): `ApprovalInv` adds what is on the way: a PAIR_ACCEPT in a
  channel, a `remote_ok`, a thread in `add` or `grant` and a GUI thread past `local_ok` each imply the
  confirmations they stand for. It needs `ConnsOwned`, because a flag is set on the entry found by device, whichever
  connection it belongs to.
* `ConnLimitCorrect`: the table has at most MAX_CONNECTIONS entries (no run of `Pairing` asks this).
* `NoApprovalLost` (`ApprovalNotLost`): inductive with `ConnsOwned`. While an entry has both confirmations and
  is not authorised, some thread or the GUI is still on its way to `grant`; the one that leaves without it found
  `Ready` false or the trust store full.
* `AckMeetsPairing` (`AckNotRefused`): `TextInv` follows the text back. Who is about to send one, and who sent one that is on the
  way, regards the connection as paired or is done with it; in the second case its socket is closed
  (`ClosedWhenLeaving`) and the answer never reaches it.
* `PairedOnShownCode` (`CodeOfThisOrLostSession`): `CodeInv` follows a code back. A `local_ok` stands for a
  confirmation, a confirmation for a prompt, a prompt for an event, and an event for a connection that was registered: it
  is this one, or it is lost, as a device has one entry per peer.

The last three need, of most of the actions, only how they may change one thing. `EndStep`, `EntryStep`, `UiStep`,
`ChanStep`, `DataStep`, `EventsStep` and `PromptStep` state this once for every step of `Next`.

**FileTransfer.** `TypeCorrect`, `NoFileForgotten` (`PartFilesTracked`), `PrefixWritten` (`WrittenInOrder`)
and `WholeFileSaved` (`SavedIsWhole`) follow from one invariant `Inv`: `OfferedOnce` (an offer is on the way at most once,
and the receiver knows nothing of a transfer it has not been offered, so nothing is accepted or judged twice), `ChunksRead` (a
chunk on the way lies before what the sender has read, with the data the sender had), `Written` (what the receiver
has written was accepted and lies before it too), `Verified`, `Saved` and `PartFilesTracked` itself. The last
needs that a transfer without a verdict that is offered is new (`OfferedOnce`), the properties about data need
`ChunksRead`, because chunks outlive the connection and the thread that sent them.
`OneVerdict` (`ImplementsReceipt`, in `ReceiptProofs`): each step, on the ends, on the receiver's GUI thread, of a user
or a restart, changes the status of one transfer as `Receipt` allows, or of none, or loses what was on the way. It
needs `OfferedOnce`: without it an offer could reopen a transfer that has its verdict.

**SecureChannel.** `TypeCorrect`, `NoncesInStep` (`UnopenedOnlyAfterLostWrite`), `FittingTexts`
(`FittingTextDecodes`) and the refinement `StreamInOrder` (`ImplementsStream`). The argument is the Noise mutex: who writes holds
it (`LocksOK`), so the frame being written is the last one encrypted, and a frame anywhere carries the message with
its nonce's place in the stream (`Numbered`). From this alone a frame that opens is the next message: the
refinement. That a frame opens unless a write failed needs more: `AllInStep` says that the frames of an end's wire are whole,
consecutive, and start where its reader is, and that together they are what the other end has encrypted.

**Network.** `TypeCorrect`, `ConnectionLimit` (`ConnectionsBounded`), `ReachesWhoWasAsked` (`AskedForIsReached`),
`TablesKeepLimits` (`TablesBounded`), `NobodyLockedOut` (`SourceNotLockedOut`) and `RateKept` (`HandshakeRate`).
`ReachesWhoWasAsked` needs that a thread about to register has proved the key it was asked for (`ThreadsOK`), the
limits that a finite set which gains one member grows by at most one. The rate is the subtle one: `WindowsOK` ties the history to the entry of
`ConnGuard`. In a window, what was let in since it began is at most the count of the entry, and what is older came from windows
before it, of which a `MINUTE` holds less than one whole limit, because the handshake that began the window
before lies outside. That is where `2 * HANDSHAKES_PER_MINUTE - 1` comes from.

**Profile.** `TypeCorrect`, `RunsOnItsProfile` (`EngineMatchesDisk`), `CanBeOpened` (`ProfileOpens`),
`ListComesBack` (`ListSurvives`) and `SettingsComeBack` (`SettingsSurvive`). `Inv` says which saves can be under way
(`JobsOK`), how far the creation of an identity has come (`MakingOK`), that disk, older copies and pending
saves know of one identity unless it was replaced (`OneIdentity`), and that memory and disk agree unless a save is
excused (`ListSaved`, `ConfigSaved`). `OneIdentity` is what makes `ProfileOpens` survive a power failure: whatever
copies come back, they belong together. `NothingBehind` says that a file which is not there has no older copy to come back.

**Assumptions.** The bounds are numbers (a budget is any set of limits), and positive where the program's constants are used as such; initial pairings
are symmetric; a channel has two different ends; `None` (and `Torn`) is none of the values it is used
beside, which for records needs a statement of its own (`NoneAssumption` and the like), as TLA+ does not say whether a
model value is a record. Devices are finite in `Pairing` and, with addresses, in `Network`, where they are counted. TLC evaluates
these assumptions in every run.

**Only model-checked** is liveness, which the prover does not treat: `UnpairedDoesNotLinger`,
`ShutdownFreesEntry`, `SendingEnds`, `LostConnectionClears`, `SendReturns`, `TableReleased` and `BothEndsLeave`. The
properties of the five runs that show a disagreement are false of the code, and `Downloads` has no other.

## 5. Not modelled, and the plan

* The cryptography (Noise, Argon2, the encryption of files, fingerprints), byte layouts, drawing, QR codes, build
  files: what they compute is taken as given, who may call them when is modelled.
* `sanitize_filename` and `truncate_keeping_extension`: they are about characters; a name is a value here.
* The beacon limiter and the parsing of beacons: `Network` takes any beacon at any time, which includes all
  that they let through.
* The event queue of the GUI drops events when it is full. A lost offer is like one nobody answers, which the file
  runs contain; a lost `Disconnected` or `PairingFinished` only concerns what is drawn.
* The mutexes of `Inner` are taken in the orders config before trust, trust before peers, incoming before conns, conns
  before the writer, and noise before the writer; read from the code this has no cycle. Only the last two are
  modelled (`SecureChannel`), as the others are never held over blocking calls but in `on_offer` (see the
  hazards).
* Two programs on one profile directory; locks poisoned by a panic.
* The Android application: a second implementation of the protocol with concurrent maps in place of mutexes. It talks to the
  models of this directory as any peer; its own races (see the hazards) need models of their own.

Planned next, in this order:

1. `MobileEngine`: the Android engine's connection table and pairing on concurrent maps, against the
   same properties as `Pairing`; its transfers where they differ.
2. An abstract pairing specification (two users, two devices, one decision) that `Pairing` implements where
   nothing is revoked and no connection is lost. Its refinement proof would rest on `ApprovalInv` and the step
   lemmas of `PairingOutcomeProofs`.
