# Verification of the tmux tooling

TLA+ models, TLC runs and TLAPS proofs for the repository: a set of tmux
front ends, of which the Telegram bot (`telegram/tmux-bot`) holds most of the
state and nearly all of the concurrency. The models are written from the source;
`PROJECT.json` gives, for every definition, the lines it stands for, and lists the
runs, the hazards and the theorems.

## The system

| Component | State it keeps | Operations | What is hard |
| --- | --- | --- | --- |
| Binding file (`lib/store/binding-file.ts`) | a JSON file, its `.bak` and `.tmp`, the flag `rotateBackupOnSave` | `load`, `save` | death of the process or the machine between two file-system calls; recovery from the backup and the save that follows it |
| Binding store (`lib/store/bindings.ts`) | a map by (chat, thread) and an index by opencode session | `upsert`, `setOpencodeSession`, start-up | two maps that must agree; memory changed before the file is written |
| Router, commands, callbacks (`lib/router.ts`, `bot/commands.ts`, `bot/callbacks.ts`, `index.ts`) | none of their own, but what a handler read before an await | `/use`, picker, `/new`, `/abort`, text, permission buttons | updates one at a time, each waiting on tmux, opencode or Telegram; redelivery after a crash |
| Response streamer (`streaming/response-streamer.ts`, `stream-state.ts`, `telegram-transport.ts`) | one `StreamState` per opencode message: latest text, message ids, signatures, timer, chain of flushes, flags | `enqueue`, `complete`, `clear*` | timers, chained flushes, Telegram's answers and failures (429, parse error, refusal, lost answer, deleted message) in any order |
| Stream coordinator (`bot/stream-coordinator.ts`) | event queue, `lastMessageIds`, `disconnectedNoticeSent`, `stopped` | one handler per event, notices, `start`, `stop` | a serial queue whose operations await, while streams run beside it |
| Event subscription (`lib/opencode/events.ts`) | connection state, back-off delay, one attempt's abort signal | reconnect loop | idle timeout against a late event, abort from every await |
| Pane mirror (`lib/stream.ts`, `lib/tmux.ts`, `lib/capability.ts`) | one `StreamState` and interval timer per chat and window, the active window of a chat | `startStream`, `tick`, `edit`, `stop*` | ticks that overlap, a tick of a stopped stream, stop and restart under the same key |
| Rendering (`render/*`) | none between replies | normalize, parse, lift, split, pack | two sizes with limits of their own, nested blocks, degradation to plain text, a reply that is rendered anew as it grows |
| Slack bridge (`slack/tmux-bridge`) | last status per session | 30 s poll, `/notify`, commands | overlapping polls, a failing post in the middle of a poll |
| Sessionizer (`tui/sessionizer`) | session list, active and original session, filter, which dialog is open, a 150 ms timer | keys in the list, filter and dialogs; rename, kill, create; restore | a delayed switch against every other key, and against others who use the tmux server |
| Web gateway (`bin/lib/tmux-web-gateway.js`) | per upload: file, byte count, `failed`; per forwarded request: two ends | upload, proxy, upgrade, exit | size limit, disk error, disconnection and finish in any order; uploads of one name; half-closed connections |
| Scripts (`bin/*`) | state files of `tmux-omo-notify` and `tmux-host-stats`, the wait channel of `tmux-run` | scan, probe, run | failing push, timeout against completion |
| Configuration, units, CI | - | - | declarative; not modelled |

How the parts of the bot work together: Telegram's updates go to the command,
callback and text handlers, which change the **binding store** (and through it
the **binding file**) and call opencode. opencode's events come through the
**subscription** to the **coordinator**, which looks the session up in the store's
index and hands text to the conversation's **streamer**, which edits messages in
the chat. Handlers and events share nothing but the store, and interleave at
every await.

What makes each part correct: a restart finds the last completed save, or at worst the
one it replaced; the store's two maps agree and a session never leaves its directory; the events of a turn reach
the conversation that prompted it; the messages on screen say the latest text, and
no message is left that the bot does not know of; the event queue always goes on,
and nothing starts after `stop()`.

## Modules

| Module | Models |
| --- | --- |
| `DurableCell` | Abstract: one durable value, replaced by a save in a single step. |
| `BindingFile` | `binding-file.ts`, one action per file-system call; implements `DurableCell`. |
| `BindingFileProofs` | Theorems about `BindingFile`. |
| `BindingStore` | `bindings.ts` as operators on a store value. |
| `BridgeBot` | The update handlers over `BindingStore`, each cut at its awaits, with Telegram, tmux and opencode around them. |
| `BridgeBotProofs` | Theorems about `BindingStore` and `BridgeBot`. |
| `ResponseStreamer` | `response-streamer.ts` on both transports. |
| `StreamCoordinator` | `stream-coordinator.ts`; EXTENDS `ResponseStreamer` and drives its operations. |
| `StreamingProofs` | Theorems about `ResponseStreamer`, and about `StreamCoordinator` as its client. |
| `EventFeed` | Abstract: what a consumer of opencode's events is promised. |
| `EventSubscription` | `events.ts`, the reconnect loop cut at its awaits; implements `EventFeed`. |
| `EventSubscriptionProofs` | Theorems about `EventSubscription`. |
| `RichBlocks` | The native and the plain form of a block, their sizes, and lifting (`rich-blocks.ts`, `block-plain-text.ts`). |
| `TextSplitter` | `text-splitter.ts`. |
| `Grouping` | The packing loop of `chunker.ts`, which `groupItems` of `block-splitter.ts` repeats. |
| `BlockSplitter` | `block-splitter.ts`, over `TextSplitter` and `Grouping`. |
| `BlockParser` | `block-parser.ts`, from remark's nodes to blocks. |
| `MarkdownNormalizer` | `markdown-normalizer.ts`, one action per line. |
| `Rendering` | `pipeline.ts` and `chunker.ts`: all of these put together, for a reply that grows. |
| `RenderingProofs` | Theorems about `Rendering` and the modules it is made of. |
| `PaneMirror`, `PaneMirrorProofs` | `lib/stream.ts` with overlapping ticks; theorems about it. |
| `TmuxServer` | The sessions and the client of a tmux server, and targets with and without `=`. External. |
| `Sessionizer`, `SessionizerProofs` | The session chooser over `TmuxServer`, beside the Slack bridge's session commands and other clients; theorems about it. |
| `WebGateway`, `WebGatewayProofs` | Uploads, forwarded requests and exit of the gateway; theorems about it. |
| `MC*` | The constants of the runs. |

**BindingFile.** `primary`, `backup` and `temp` are the contents of the three files
(a list of bindings is known by the number of its save). `pc` is where `save` is.
`ReadStoreFile` is what a read may give: the content, or `Unusable` for every error but
`ENOENT`, of a good file too. `LoadBindings` is `loadBindings` of two such reads,
`Load` a start with what they give, `LoadRefused` its `BindingStoreCorruptError`, after
which systemd starts the bot again (`Restart`). `BeginSave`, `WriteTemp`,
`RotateBackup` or `SkipRotation`, `RenameTemp` are the calls of `save` in order,
`SaveFails` its catch clause at any of them. `Kill`, `PowerLoss`, `Writeback`, `Commit`
and `Damage` are the environment. The code flushes neither a file nor the directory:
`unsynced` are the lists whose bytes are in memory only, `onDisk` is the directory as the
file system last committed it, and a power loss tears files of the first kind and
undoes the renames since the second. `acked`, `previous`, `base`, `damaged` and `torn` are
history; the first two go back with the directory when a power loss undoes renames, so
that what such a loss costs can be read off.

**BridgeBot.** `handler` is the update being handled, the await it stands at and what
it has read so far; `TakeUpdate` runs a handler up to its first await, and each
later action runs it from one await to the next. `Save` changes the map and then may
fail to write the file. A `Crash` loses memory and the handler; Telegram redelivers
what had not been confirmed. The opencode server is external: it runs one turn of a
session at a time, a turn may ask for a permission, and it finds a request only
under the directory the session was opened in.

**ResponseStreamer.** `stream` holds every `StreamState` ever made, since a flush may
go on after its stream has left the map `states`. A record's `queued` and `at` stand
for the promise chain `task`: flushes waiting, and where the running one awaits.
`FlushState` is one turn of the loop of `flushState`, `SyncFrom` runs `syncMessages`
to its next await. `caller` is where `complete` awaits. `chat` is what Telegram
shows; `kept` is history, the messages whose deletion Telegram refused to a cleanup. A part has a text and is rich (native blocks) or plain; `Plain` gives the
plain form of a text, whose number of parts may differ.

**StreamCoordinator.** `queue` is the promise chain of `schedule`; an operation
starts when the one before has ended (`Free`), and awaits either `complete` (which is
the streamer's `caller`) or its posts to Telegram (`handler.left`). `bound` is what
the store resolves; `Unbind` is a command that moves a conversation on. `feed` is the
subscription: `Stop` aborts it, `SubscriptionEnds` is its return, events may arrive
until then, and `stop()` waits for that first and for the queue after it (`Drained`).
`posted` is history: for each conversation what it was to be told beside replies, and
whether it was told or cut off by a notice that failed before. A flush that is under
way when `stop()` returns may go on through its remaining parts, since `syncMessages` does
not look at `cancelled`. The module takes for granted what `EventFeed` says - connection
changes come in turn and an event comes once - and what `AbortEnds` of
`EventSubscription` says, that an aborted subscription ends.

**EventSubscription.** `pc` is the await `subscribeEvents` stands at, `result` what
that await has settled with: the code behind it runs later, and the abort, an event
or the end of the connection may come in between. `listeners` counts what the loop
has on the caller's signal (of `createAttemptSignal` and `waitForReconnect`), `live`
the streams it opened and did not close. An event is known by its number; `buffer`
holds those of the stream at hand that were not read. `Leave` is the `finally` block
together with the test behind it. opencode is external: it answers or not (`up`),
drops the connection whenever it likes, and may leave a call hanging while it is down,
since `openStream` has no timeout. `EventFeed` promises alternating state changes and,
within a connection, every event in order and once; what is emitted between two
connections may be lost, since the code asks for no replay.

**Rendering.** A text is the sequence of its UTF-16 code units (`H` and `L` are the
halves of a surrogate pair, `==` one unit); a node is what remark would make of a
piece of Markdown, a block a record with the source's `type`. `Content`, `Block` and
`Rich` are sets of trees of bounded depth, built in layers, and the source's recursive
functions are recursive functions on them. The source parses quotes and lists
`MAX_NESTING_DEPTH` deep and makes text of what lies deeper, so `MaxNestingDepth` is
its constant; `MaxTreeDepth` bounds how deep remark's nodes are. A text may hold any
units (`Unit`) with those the program writes itself among them (`Signs`). `ParseContent`,
`Lift`, `SplitOversize`, `RichBlock` and `PlainText` are the functions of the same
names, `GroupItems` and `GroupBlocks` their two greedy loops (`GroupsOf`, where
`groupItems` counts every item as one unit). `NormalizeLine` is a
turn of the normalizer's loop, for a line that is a kind, quoted or not, and indented
or not. remark itself is external, and which nodes it makes of a longer text is open:
`Parse(kept, node)` keeps the first `kept` nodes, puts any node behind them and renders
the reply anew, as the streamer does with every update. So a reply may get another node,
its last one may grow or become another one, and nodes before it may change, as a late
definition of a link makes them; the nodes that may take the place of others are
`Revised`. The normalized lines and the nodes are independent of each other.

**PaneMirror.** `streams` is the map from key to stream, `state` every `StreamState`
ever made. `Capture` is a firing of the interval, whatever older ticks are doing;
`Tick` runs a tick from the answer of tmux to its edit, in any order among the ticks
of a stream, and `EditDone` and `EditRefused` are the answers of Telegram. `Start`,
`StartCaptured`, `StartSent` and `StartFails` are `startStream` between its awaits.
`stopStream` knows a stream by its key only, and so does `StopStream`.

**Sessionizer.** Every tmux command is a `spawnSync`, so a key is one action. `list`,
`active`, `original`, `query` and `filterActive` are the signals of `App.tsx`,
`dialog` those of the dialogs that are TRUE, `pending` the name in the closure of
the timer. `Rescheduled` is the effect on the chosen session: it runs
when the memo changes, at most once for the list and once for the active name.
`SlackNew`, `SlackKill` and `SlackRename` are the Slack bridge's session commands,
`ClientMoves` any other client.

**WebGateway.** `upload` holds the closure of each `handleUpload`: how much was
received (`bytes`), how much the disk took (`written`), whether the request was read
to its end, its answer and its file. `Data`, `Write`, `End`, `Finish`, `CloseFile` and
`Disconnect` are callbacks, `Fail` the shared clean-up with its `unlinkSync`. A
forwarded request is its two ends, each open or closed; what one end's callback does to the
other is an action of its own. All uploads ask for one name, the case in which they meet, and
other programs create and remove files too.

## Runs

| Run | Question | Bounds |
| --- | --- | --- |
| `binding_file` | Which save does a restart find, is a good copy ever destroyed by the program? Do the files implement the cell? | 4 saves, any number of faults of every kind |
| `binding_file_power` | violation: is a save intact after a power loss? | 2 saves |
| `bridge_bot` | Do the two maps agree, does a session stay in its directory, do events reach the conversation that waits for them, is every update handled? | 2 conversations, 2 directories, 2 sessions, 3 updates, 1 crash, every call may fail |
| `bridge_bot_abort` | violation: does `/abort` interrupt the running turn? | 1 conversation, 3 updates, no failure |
| `streamer` | Do the chat and the stream's record of it stay together? | 1 message of the reply, 3 updates, 2 failures, texts of 1 to 3 parts |
| `coordinator` | Does the queue go on, does stop() return and end everything, do notices alternate whatever fails? | 2 messages of one session, 2 conversations, 5 events, 1 failure |
| `event_subscription` | Is the loop a feed? Does it leak listeners or streams, end when aborted, always connect again? | 3 events; any number of reconnections |
| `rendering` | Is anything a reply says lost, are Telegram's budgets kept, does a part that unchanged nodes fill change? | 2 nodes out of 20, one of which may replace others, 5 pairs of budgets, texts of 4 lines |
| `pane_mirror` | Does an interval outlive its registration, does a refused edit end its stream, is the screen shown in the end? | 1 window, 2 contents, 2 streams, 2 ticks at once, idle stop 0 or 1 |
| `sessionizer` | Does a late timer ever switch elsewhere, does the client end on the chosen session? | 3 sessions, 4 filters, 2 changes by others |
| `web_gateway` | Is an answered upload stored whole, does a failed one leave nothing, does anything linger? | 2 uploads, 2 candidate names, 1 chunk, 1 forwarded request |
| `coordinator_short` | violation: is every reply sent while Telegram takes everything? | 3 events, no failure |

Why the bounds are enough. Four saves are two generations of the backup after a
recovery, one more than any hazard of the file needs; its theorems hold for
every number. In `bridge_bot`, two conversations are needed for a
session to reach the wrong one, two directories for a rebind to move, and three
updates for bind, prompt and one that interferes; sessions are chosen in order, for
they differ in nothing else. In `streamer`, three updates are a first text, one that
arrives during its flush and one during the flush after; two failures are
a degradation followed by a break, or a lost answer followed by a refusal. Streams
of different keys share only the chat, where each has messages of its own, so one
key is enough; the coordinator has two. `UserDeletes`, lost answers and the draft
transport are left to `streamer`; `coordinator` takes only 429s and refusals. In
`event_subscription` three events are one before, one during and one after a
connection, or a gap inside one; the delays are the code's, in seconds.

In `rendering` the twenty nodes cover every branch of the parser (references to links,
images and footnotes, and definitions, are among them), every kind of block, lists in lists, in quotes and with content that is lifted, and tags that
overlap; with budgets of a few characters each kind of block is
split and degraded. Two nodes are enough to see how one part ends and the next
begins, since grouping looks only at the part being filled; the node that may replace
others is a text longer than three of the five budgets, so that a last node grows until it is split
and another first node moves everything behind it (the theorem holds for any such
nodes); four lines hold a fence, a quote
in it and a line after it. In `pane_mirror` streams of two
windows share nothing but the update that starts them; two streams of one window are
an old and a new one under the same key, two ticks an older and a newer one. In
`sessionizer` three names give one that is a prefix of another, one that is not what
was typed, and one to go on to when two are gone; two outside changes are a rename and
a new session of the old name. In `web_gateway` two uploads and two names make the
second upload take the second name, and a third party the one that was freed; one
chunk of one is below and above the limit. The theorems on the last three
hold for any sizes.

**Fairness.** `BridgeBot` assumes that the event loop runs the poller and the
handler, that calls are answered (or fail), and that opencode ends a turn
which is not waiting for anybody; `AttendedSpec` adds somebody who answers in
opencode's own interface. Without that person a conversation whose turn asks for a
permission waits for itself: the button is an update behind the prompt (this is the
run `bridge_bot_abort`). The coordinator assumes that operations
run, timers fire, Telegram answers, and that an aborted subscription ends (the property
`AbortEnds` of `EventSubscription`); it does not assume that events come,
that the connection returns or that stop() is called. `EventSubscription`
assumes that Node runs what has settled and fires its timers, that a call is
answered while opencode is up and rejected once its signal is aborted; it does not
assume that opencode comes back (`Reconnects` has it as its premise), emits, or
refuses a call while it is down. `PaneMirror` assumes that an
interval goes on and that tmux and Telegram answer; `Sessionizer` that a timer of 150 ms
fires, which is true unless the chosen session changes faster than that for ever;
`WebGateway` that Node runs its callbacks, that the disk settles a write, and that a
client goes on sending or goes away - the server has no request timeout, so that
a client that does neither holds its upload for ever.

**Deadlock** is checked in every passing run; the
specifications of the bot's parts have a `Rest` action for
the states in which the bounds are reached and nothing is left to do (in
`EventSubscription` the server may always go up and down). It is switched off
in `bridge_bot_abort`, which looks for a liveness counterexample, in `rendering`, where
the reply ends, and in `sessionizer` and `web_gateway`, where the program does.

## What the runs found

- `save` renames a file whose bytes were never flushed. After a power loss the store
  can be unreadable, against the comment on `createBindingFile`. Before the first
  rotation the bot then refuses to start.
- `/abort` is an update, and is taken only when the prompt of the turn it should stop
  has returned.
- A reply whose session goes idle before the first flush is dropped, and `handleIdle`
  does not look at what `complete` answers.

Further behaviour of the code, seen in the models and not counted as wrong: a final
flush that breaks the stream leaves outdated partial messages, since `complete`
cleans up only a stream that was broken before; a broken stream's
reply is deleted and nothing replaces it; a failing connection notice ends the
round for the remaining conversations; only the last message of a turn is
completed; a rebind before the idle event leaves the stream uncompleted; a 429 during
`complete` holds the whole event queue.

Of the binding file: a read of a good store file that fails (`EACCES`, `EIO`, `EMFILE`)
counts as an unusable file, so the bot starts from the backup, one save older, and the
next save, which skips the rotation, renames its list over the newer primary. A power
loss may undo completed renames, so that an older list is found with nothing torn.

Of the pane mirror: the commands `/stopall`, `/streams` and `/cap`
(`index.ts:192-215`) are registered after the route for texts, which returns for a text
with a `/` without calling `next`, so they never run. A tick of a stopped stream whose
edit is refused stops, by key, the stream that replaced it. Edits that Telegram
carries out in another order can leave an old screen (`overtaken` excludes these
streams from `ShownAtLast`). A stream may be shown live once more by a late tick.

Of the rendering: quotes are grouped by the number of their blocks, so that a quote of
two large tables degrades to plain text; nothing is lifted out of lists inside quotes or
inside native lists; the start number of a list is not kept (`rich-blocks.test.ts`
expects this); the lines of a quote lose their indentation, so that code fenced in a
quote and lists nested in one come out flat; a group of
code lines that is one blank line is dropped; a fence inside a fence of
another kind toggles it.

Of the sessionizer: Escape leaves the program from every dialog, although the dialogs say
that it cancels (`create-wizard.tsx:176`, `kill-confirm-dialog.tsx:32`,
`rename-dialog.tsx:36`). After a rename to a name tmux writes differently the list
has no active session, and the client may stay where it is: `ClientFollows` has
`active \in list` as a premise because the attempt to prove it without failed there.
Escape restores the original session by the name it had, and goes nowhere when that was
renamed.

Of the gateway: a file is unlinked by name, so a failing upload can remove a file that
took its place after others had removed its own; closing a file may fail after
the 200; an exit after two seconds leaves partial files; a plain forwarded request stays
open when ttyd dies in the middle of its response.

## Proofs

`BindingFileProofs` proves, for every set of faults and every number of saves:

- `TypeCorrect`: `Spec => []TypeOK`;
- `Recovery`: `Spec => []RecoveryInv`;
- `GoodCopyIsKept`: `Spec => GoodCopyKept`, an action property;
- `FileImplementsCell`: `Spec => RefinesCell`, the refinement of `DurableCell`.

The assumptions are those of `BindingFile`: the two contents that are no list
differ from each other and from every number, `MaxSaves` is a natural number, and the
faults are among the four modelled.

`RecoveryInv` says that a restart whose reads succeed finds the last completed save - after
a power loss the last one that the committed directory holds - and that failing reads
cost no more than one save. It is not inductive: it says what a restart finds, not why.
`IInv` adds the shapes a directory can have while no power loss has torn a file
(`Sound`): the primary is the last completed save and the backup, if any, the list that
save replaced; or the primary is missing or unusable and the backup is the last
completed save; or nothing exists; or the primary was damaged and the backup holds the
list before. `DiskInv` says this of the directory and of the one on the disk, since a power
loss makes the second the first. `FlagInv` says that the flag is false only while the
process runs on the backup, because the primary was damaged or its read failed, so that a
save that skips the rotation leaves behind it what it started from; `SavingInv` says
what the temporary file holds at each point of a save. `InitIInv` and `StepIInv` show it inductive, one case per action;
`CellStep` maps each step to a step of the cell or to a stutter.

`EventSubscriptionProofs` proves, for any delays and any number of events (the
assumption is that the first delay is positive and not above the last):

- `TypeCorrect`: `Spec => []TypeOK`, with the back-off between its limits;
- `NoLeak`: `Spec => []NothingLeaks`;
- `SubscriptionIsFeed`: `Spec => IsFeed`, the refinement of `EventFeed`.

Its `IInv` adds what each await can settle with (`ResultInv`), how many listeners and
streams belong to each await, also after an abort (`ListenerInv`: `NothingLeaks` alone
does not say that an attempt has one to give back), that the consumer was told of a
connection exactly while one is read (`StateInv`), and that the buffer is a run of
events that starts right after the consumer's position and, while opencode still
writes to the stream, ends with the newest (`BufferInv`). `RunTail` and `RunAppend`
are the lemmas on such runs, `EmitBuffer` and `ReadBuffer` the two steps that move
them; `FeedStep` maps each step to a step of the feed or to a stutter.

`BridgeBotProofs` proves, for any sets of conversations, names, directories and
sessions, any bounds and any set of calls that may fail:

- `TypeCorrect`, `IndexIsCoherent`, `SessionsStayHome` and `TurnsAreRouted`:
  `Spec => []` of `TypeOK`, `IndexCoherent`, `SessionInDirectory`, `OwnTurnRouted`.

The assumptions are `NoneAssumption` (null is none of the values it stands beside) and
that the bounds are natural numbers. The lemmas on the store come first:
`PutCoherent` (`put` keeps the two maps together, if no other conversation holds the
session it is given), `LoadCoherent`, and `PutSaved`, which adds the save that may fail.
That nobody else holds the session follows from the handlers, not from the store:
`IInv` says of each await what the handler has read and that it still holds
(`HandlerInv`), above all that a session under way to its conversation was opened in
its directory and is held by nobody, in memory or in the file. This is where
handling one update at a time is used: no other handler runs between two
awaits, so the conversation's binding is the one the handler read.

`SessionizerProofs` proves, for any names, filters and number of changes by
others, and whatever order tmux lists sessions in (`First`):

- `TypeCorrect`: `Spec => []TypeOK`, which says that at most one dialog is open and none
  together with the filter;
- `TimerIsForLatestChoice`: `Spec => []LatestChoice`;
- `ClientIsWhereShown`: `Spec => []ClientFollows`.

`IInv` adds that the chooser's list is
the server's while nobody else has changed it (`UpToDate`) and where the client is when no
timer is pending (`ClientPlace`). `Chosen` gives what is shown as chosen, `Timer` what
the effect leaves pending, and `RefreshKeeps` does rename, kill and create at once.

`PaneMirrorProofs` proves, for any windows, contents, settings and numbers of streams
and ticks, `Spec => []TypeOK`, `Spec => []NoStrayTimer` and `Spec => []NeverSpins`. The
strengthening is `StartInv`: while a stream is being started none is registered for its
window, so that registering it replaces nothing - this holds because updates are
handled one at a time. `StopStreamStops`, `Fewer`, `StopsOnly` and `RunsOn` say what
`StopStream` does to the timers.

`WebGatewayProofs` proves, for any number of uploads, names and chunks,
`Spec => []TypeOK`, `Spec => []NothingLeftBehind` and `Spec => []StoredAsAnswered`.
The strengthening says that a file that an upload owns is the one in its handler
(`OwnFile`), that an open upload still holds its file unless others touched that name
(`FileHeld`, with `Untouched`), and that what was answered was whole
(`WholeWhenAnswered`).

`StreamingProofs` proves, for any texts, limits, failures, numbers of streams and
updates and both transports (the assumptions say that a text and its plain form are
non-empty sequences of parts and that a plain form has no rich part):

- `TypeCorrect`: `StreamerSpec => []TypeOK`;
- `UpdatesAreNotLost`: `StreamerSpec => []NoUpdateLost`;
- `StreamsListTheirMessages`: `StreamerSpec => []ListsItsMessages`;
- `StreamedRepliesAreShown`: `StreamerSpec => []StreamedIsShown`;
- `GivenUpRepliesAreCleaned`: `StreamerSpec => []GivenUpIsCleaned`;
- `CancelledStreamsAreSilent`: `StreamerSpec => CancelledIsSilent`, an action property.

None of them is inductive; `StreamerInv` is. `Good` says what one stream object is by
itself: where a flush stands (the parts before the one it awaits are as the new text
wants them), that the list of messages and the list of signatures are of one length
until a final flush breaks, that a finished stream has no timer. `MapOK` ties the
streams to the map, and `CallerOK` says that `complete` holds an open stream without a
timer, and from its cleanup on one without flushes. `UpdatesOK` is `NoUpdateLost` in the
form that is kept: a stream is `Covered` by its timer, by a queued flush, by a delay, by
a call for its latest text, or by what its messages say. Every step of a flush is then
described twice, once and for all: `Moves` for the stream, `Notes` for the chat. `OwnInv`
adds that every message belongs to a stream and is listed by no other, `IdsOK` that only
ids Telegram gave out are listed.

The two results about the end of a reply need what the chat says beside what the stream
has noted. `ShownInv` is: a broken stream has failed its last flush (`HonestInv`), so that
what `complete` reports as streamed comes from a flush that went through; a message of
which Telegram confirmed every call says what its stream has noted for it
(`AccurateInv`); a draft is in the chat only as far as its final persisting has come
(`PersistInv`); and a reply that was reported streamed is `Shown`, by messages of its own
stream (`KeptInv`), which no step of another stream touches. `CleanInv` says of the cleanup
of a broken stream that a message still visible is one it has yet to delete or one of
`kept`: what is left in the end is what Telegram refused to delete, and not what broke
the stream.

For the coordinator, any sessions, conversations and events:

- `CoordTypeCorrect`: `CoordSpec => []CoordTypeOK`;
- `StoppedIsQuiet`: `CoordSpec => []QuietAfterStop`;
- `NoticesTakeTurns`: `CoordSpec => []NoticesAlternate`;
- `CoordinatorDrivesStreams`: `CoordSpec => [][StreamerNext \/ PostFailure]_streamerVars`,
  that is, whatever the coordinator does its streamer takes one of its own steps, and a
  failing post only counts a failure;
- `CoordinatedStreams`: `CoordSpec => [](NoUpdateLost /\ ListsItsMessages /\
  StreamedIsShown /\ GivenUpIsCleaned)`, and `ClearedStreamsAreSilent`:
  `CoordSpec => CancelledIsSilent`.

The streamer's lemmas are about `StreamStep`, every operation of the streamer with any
arguments, so that they hold under the coordinator as they do under
`StreamerNext`. `CoordInv` adds that an operation has either an awaited post or a call
into the streamer (`HandlerOK`), that a session has one last message (`LastOK`),
and that after `stop()` the subscription has ended and the queue, the caller and the map
are empty (`StoppedOK`);
that the streams are then cancelled and have no timer is `MapOK` and `Good`.
`NoticeInv` says when a conversation's notices and the coordinator's flag are apart: exactly
while a round of notices is under way that has not reached the conversation, and such a
round announces what the flag already says. A notice that fails ends the round for
everybody it has not reached at once, which counts for them as a notice they were not told;
`NoticesAlternate` therefore holds without a premise on failures.

`RenderingProofs` proves, for texts, items and measures of any length and value:

- `QuotesAreSpelledOut`: `NormSpec => []QuotesSpelledOut`. `NormInv` says of the two flags
  of the loop what they amount to for all lines read: an odd number of fences, a quote
  that reaches the last line, and never both. The lines of a quote come out without their
  indentation, all others as they were;
- `TextsAreCutSafely`: with a limit of at least 2, `SplitText` always finds a cut, so that
  the source's `throw` is never reached; its pieces are the text, within the limit, no
  surrogate pair is cut, and a line break within reach is used. `PiecesStayWhole` follows;
- `GroupsAreRuns`: `GroupsOf` loses, repeats and moves no item, and no group but the last
  has room for the next item. `GroupsKeepBudgets`: if every item fits by itself, every
  group does;
- `EarlierGroupsStand`: items added at the end change no group but the last;
- `EarlierPartsStay`: `RenderSpec => EarlierPartsStand`, for any `Revised`: the parts that
  the nodes an update leaves alone fill do not change, however the nodes behind them do;
- `BudgetsHold`: `RenderSpec => []WithinBudgets`;
- `PairsStayWhole`: `RenderSpec => []PairsWhole`, if no text of a node has half of a
  surrogate pair. The premise is about remark, which is given well-formed text;
  `WholeAssumption` has TLC evaluate it for the nodes of the run.

The loops are recursive functions. `RecursiveFunction` shows, from the least counterexample
(`Least`), that a function exists which is given by its value at 0 and by a rule that
goes back to an earlier value; `PiecesUnfold` and `TurnsUnfold` apply it, and the results
are again by the least counterexample. A limit of 1 is excluded because the theorem is
false there: a pair does not fit. The program's limits are 3800 and more.

The functions on trees need the same for layers. `TreeRecursion` says that a rule that
computes the value of a tree from the values of trees of the layer below defines a
function on every layer; each function is shown to follow its rule (`SplitOversizeUnfold`,
`ParseContentUnfold` and so on), and its values have a type by the least depth at
which they would not. The types are relative to a class of texts, `IsTextClass`: a
set closed under everything the program does to a text, namely writing signs,
concatenation and cutting at a safe place. `SplitText`, trimming, splitting at line breaks,
decimals, indenting, tables and tag stacks never leave a class, so that no function
from `ParseContent` to `PlainParts` does. All texts are a class, which makes
these lemmas type correctness; the texts without half a pair are one
(`WholeIsClass`), which makes the same lemmas `PairsStayWhole`.

`SplitFits` is the half of `WithinBudgets` that is about splitting: every block that
`SplitOversize` returns fits the limits it was split for in its native form, by the
depth of the block, since a quote splits what it holds with limits less what the quote
itself takes, and a piece that is still too large degrades to plain text, which fits.
`GroupFits` is the other half. `EarlierPartsStay` is `EarlierGroupsStand` with the
fact that each block comes from one node alone: what is computed of some nodes
begins with what is computed of the first of them (`AllBlocksBegin`), so the parts
that those fill are the same before and after an update (`FilledByMore`). The inductive
invariant is `RenderInv`: the parts are those of the nodes remark last made. A part that
holds the beginning of a node which grows may well change, and does when the node is
split.

**Only model-checked.** `NothingLost`: it compares what is read off the nodes with what
is read off the messages through every recursive function of the pipeline, and needs a proof
of its own for each of them. Liveness (`UpdatesHandled`, `QueueServed`, `StopReturns`,
`AbortEnds`, `Reconnects`, `ChosenIsShown`, `NothingLingers`, `ShownAtLast`) rests on
fairness and ENABLED, and stays with TLC.

## Not modelled

- `remove`/`unbind`, `clearMessage` and `hasActiveStream`, which nothing calls.
- Options of Telegram calls, wording, logging, timestamps, ids of drafts.
- A connection of the gateway that is closed in one direction only: `pipe` ends the other
  side there, and the model's ends are open or closed.
- remark: any nodes may come out of it. The streamer's model takes a text as a member
  of a small set, and assumes that a rendered text and its plain form have a part.
- Formatting inside a text, links, languages and column alignment: they change neither
  the words nor the sizes.
- Which component of the sessionizer has the keyboard's focus is OpenTUI's affair; the
  list is taken to have it whenever no input does, which is more than happens.
- The pane mirror's `stopAllForChat` and `activeStreams`, which only commands call that
  never run, and `/send`'s keys, which change no state of the bot.
- Of the Slack bridge, only the session commands: the idle monitor's poll and
  its notifications are left for later.
- Everything listed as `not_modelled` in `PROJECT.json`, with the reason there.

## Plan

What is left, the most important behaviour first:

1. `IdleMonitor`: the Slack bridge's poll, with overlapping polls and failing posts.
2. `OmoNotify` and `RunCommand`: the notifier's scan and `tmux-run`'s wait. Both are shell
   scripts whose state is files and a wait channel.
3. The session cycle, the back-off's arithmetic and the issue classifier, as operators
   checked against a reference definition.

Theorems next: every safety property that a run checks is proved but `NothingLost`. The
way to it is the one of `PairsStayWhole`: `Words` of a text is a homomorphism, so one lemma
per function, that the words of its result are the words of its argument, along the same
recursion.
