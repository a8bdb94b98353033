# bitchtea in TLA+

bitchtea is a terminal chat client for language models that looks like an IRC
client: channels, queries and personas on the screen, an agent with tools
behind it, session files on disk and a daemon for background jobs.  It is
written in Go (`src/`).  This directory models its concurrent and persistent
core in TLA+, model-checks the modules with TLC on small instances, and proves
with TLAPS, for every size, the safety of the turn engine and of most other parts.

Contents: [1 inventory](#1-inventory), [2 modules and
code](#2-modules-and-code), [3 runs](#3-runs), [4 fairness](#4-fairness),
[5 proofs](#5-proofs), [6 where code and documents
differ](#6-where-code-and-documents-differ), [7 what is left
out](#7-what-is-left-out), [8 plan](#8-plan), [9 running it](#9-running-it).

`PROJECT.json` is the machine-readable index: components, runs, mutations of
the model that break each property, the source lines behind every definition,
findings, the forty hazards that matter most and theorems.  What else the code
is exposed to is in sections 1, 6 and 7.

## 1 Inventory

Paths are under `src/internal/` unless they begin with `src/`.

### The chat window and the turn

| component | state | operations | talks to |
|---|---|---|---|
| turn engine (`ui/model.go`, `agent/agent.go`, `llm/stream.go`) | `m.streaming`, `m.eventCh`, `m.cancel`, `m.queued`, the textarea; `a.turnActive`, `a.lastTurnState`; two buffered channels per turn | Enter, Up, Esc, Ctrl+C; `startAgentTurn`, `waitForAgentEvent`, `handleAgentEvent`, the `agentDoneMsg` handler; `sendMessage`; `StreamChat` | one goroutine per turn, one per stream, one per wait command; all meet in channels and bubbletea messages |
| key ladders (`ui/model.go`) | `escStage`, `ctrlCStage`, their times, `queueClearArmed`, panels, picker | Esc, Ctrl+C, SIGINT/SIGTERM, Enter, Up, end of turn | turn engine, player, picker |
| streamed answer and daily log (`ui/model.go`, `ui/transcript.go`) | the messages on the screen, `streamBuffer`, the placeholder, the log's buffer | chunk, other message, end of step, end of turn, log write | events of the turn, one file a day |
| focus and membership (`ui/context.go`, `membership.go`, `invite.go`) | open contexts, active index, who is invited where, two JSON files | `/join`, `/query`, `/part`, `/invite`, `/kick`, start | agent (notes about personas), session directory |
| tool panel and picker (`ui/toolpanel.go`, `ui/model_picker.go`, `model_picker_keys.go`) | rows found by a tool's name; the models of a service, a filter, a cursor, the index of the message that shows them | tool start and result, `/models`, keys, Enter, Esc | events of the turn, catalog, messages that arrive below |
| headless run (`src/main.go`) | one context for all turns, exit status, what is on stdout | prompt of flag and stdin, loop over a turn's channel, follow-up, signal | the same agent and stream goroutines, a script that reads stdout |
| mp3 player (`ui/mp3.go`) | library, index, process, generation, elapsed time | play, pause, stop, next, rescan, the wait for the process's end | player processes, SIGSTOP/SIGCONT |

Hard: an interrupt clears the UI's state at once while the goroutines of the
turn unwind later, beside the next turn; every event travels in a message of
its own; two announcements of one end; times and flags of ladders that
different paths reset; messages of processes that were replaced.  Correct
means: one turn in the agent at a time, no event lost, doubled or applied to
the wrong turn, the UI never stuck busy, no typed prompt lost, a queue cleared
only on purpose, one player at a time, the log complete and in order, exit status
0 only for a whole answer, what is marked is what is picked.

### Conversation state

| component | state | operations | talks to |
|---|---|---|---|
| context histories (`agent/agent.go`, `agent/context_switch.go`, `ui/model.go`, `ui/commands.go`) | a history per context, the current one, saved watermarks, injected memory, scope; the session log | `/join`, `/query`, `/part`, `/invite`, `/kick`, `/compact`, `/restart`, `/resume`, `/fork`, a turn's appends, the saving at its end, start with `--resume` | turn goroutines that outlive an interrupt; session files |
| messages and their repair (`llm/convert.go`, `llm/cache.go`, `agent/agent.go`, `session/session.go`) | histories of fantasy messages, requests, lines of a session file | projection to `llm.Message` and back, the cache marker, `sanitizeOrphanedToolUses`, `/compact`, the line's two forms | provider, session files, memory |
| follow-ups and answer filter (`agent/agent.go`) | kind of the turn, `lastAssistantRaw`, the stream filter | `MaybeQueueFollowUp`, `SanitizeAssistantText`, `followUpStreamSanitizer` | turn engine |
| settings and client (`config/`, `ui/commands.go`, `llm/client.go`, `llm/providers.go`) | configuration, profile name, rc file, the client's fields and cached provider | `/set`, `/profile`, `/save`, start with environment and flags, an attempt of a turn; the settings no command pushes, `/save` and its backup, `--init-config` | provider addresses and keys |
| tool contexts and attempts (`llm/stream.go`, `llm/tool_context.go`, `ui/model.go`) | `c.toolCtx`, a manager's running tools, the UI's active-tool slot | attempts with retries and backoff, `CancelTool`, tool start and end | tools, Esc |

Hard: the history a cancelled turn appends to has moved; one operation updates
the slice, another the map; a step with several calls goes through a shape
made for one; a setter runs between two reads of an attempt; a stream of a
cancelled turn shares slots with the next.  Correct means: what is said in a
context stays there and is logged there exactly once, what a resume restores
is what was, every call has its own result, a request goes where the user was
told, Esc stops what it names.

### Tools

| component | state | operations | talks to |
|---|---|---|---|
| file state (`tools/tools.go`, typed wrappers in `llm/`) | paths read in the turn | read, write, edit, reset at a turn's start | files others write |
| bash (`tools/tools.go`, `llm/typed_bash.go`, `llm/result_cap.go`) | process, its descendants, the pipe, the deadline, the output | run, kill, wait for the pipe, cut head and tail, cap the result | the kernel, the turn's context, overflow files |
| terminals (`tools/terminal.go`) | session map; per session pty, emulator, process, `closing`, `done`, three goroutines | start, send, keys, snapshot, wait, resize, close, `CloseAll` | vt emulator, process |
| MCP manager (`mcp/manager.go`, `client.go`) | entries, tools cache | Start, Stop, ListAllTools, CallTool, invalidate | MCP SDK, server processes |

Hard: read-then-write on files others change; a close that races with reader,
copier and callers on a mutex they share; deadlines that pass while a start is
finishing.  Correct means: no call changes a file its turn has not read, every
tool returns, nothing outlives its Stop, no tool is called under another's
name, the model is told truly what became of a command.

### Files and the daemon

| component | state | operations | talks to |
|---|---|---|---|
| session files (`session/session.go`) | JSONL lines, a program's entries in memory | New, Load, Append, Fork, Latest | other programs |
| memory files and jobs (`memory/memory.go`, `daemon/jobs/memory_consolidate.go`, `session_stitch.go`) | HOT.md, daily files, markers, per scope | AppendDaily, AppendHot, search from a scope outward, snippet, the two jobs | programs and the daemon under and beside a lock |
| stale clean-up (`daemon/jobs/stale_cleanup.go`) | sessions and archive | walk, rename, copy and remove | programs that append |
| daemon and mailbox (`daemon/`, `src/daemon_cli.go`) | `daemon.lock`, `daemon.pid`, `mail/`, `done/`, `failed/` | start, stop, submit, recovery, poll, dispatch, Complete, Fail | other daemons, TUIs, signals |
| checkpoint (`session/session.go`, `daemon/jobs/checkpoint.go`, `ui/model.go`) | one JSON file a directory, counters of the program, the session's entries | a window's write at a turn's end, the daemon's job | windows and daemon, without a lock |
| model catalog (`catalog/`) | one cached JSON file | refresh at start | server, other programs |

Hard: any process may die between two file operations; names that hold whole
seconds; times of files compared with times of processes; writes that end in
the middle.  Correct means: one daemon, every accepted job gets a verdict and
is not run twice for nothing, an entry acknowledged can be loaded, archived or
found, a fault costs what it hit and no more, a context finds its own memory and
no other's.

### Not modelled

Rendering, themes, the pricing the picker shows, clipboard, sound, prompt files
and `@file` expansion, error texts, cost sums, MCP configuration and redaction,
the parsing of flags, the definitions of tools, developer commands: pure
functions of a text, pure output or external programs; reasons are in
`PROJECT.json`.

## 2 Modules and code

A handler, a goroutine's step up to the next point where another may act, or a
file operation is one action.  Texts, names and payloads are small sets; what
a property has to tell apart (whose message, which version, which call) is
kept.  Variables a comment calls *history variables* record what happened, for
properties to speak about; guards read them for bounds only.

* **TurnEngine** (core).  Event loop handlers (`EnterSends`, `EnterQueues`,
  `Unqueue`, `ClearQueue`, `Interrupt`, `HandleEvent`, `IgnoreDone`,
  `HandleDone`), the wait commands (`WaitEvent`, `WaitClosed`), the steps of
  `sendMessage` (`Begin` ... `Close`; the deferred calls `Unwire`, `Release`,
  `Close` are steps because the UI starts the next turn between them), of
  `StreamChat` (`StreamEmit`, `StreamEnd`, `StreamClose`) and the drain
  goroutine.  `outbox` is what `sendMessage` will send before it looks at
  anything again: its sends are plain, so a full channel holds it.
* **TurnProtocol**: what a user sees of turns, without goroutines: one is
  live, its events come in order, it finishes or is abandoned, once.
  `TurnEngine!ImplementsProtocol` is the refinement.
* **Headless**: `runHeadlessLoop` in the place of the event loop, with
  TurnEngine's agent, stream and drain actions as they are; `printed` and
  `completed` record what reached stdout and which streams said that they were
  done.
* **KeyLadder**: the two ladders with the code's windows (1.5 s and 3 s, in
  ticks of half a second), the panels before them, the queue.  The handler of
  `QuitMsg` is modelled as written, though bubbletea's own loop takes that
  message first.
* **StreamView**: `handleAgentEvent` on the growing message, the placeholder,
  `syncLastAssistantMessage` at the end of a turn, the log's buffer.
  `disturbed` and `unseen` mark steps into which another message came and
  turns that put no answer on the screen.
* **ToolPanel**: rows of the panel, which a result finds by its tool's name, over
  turns that are interrupted with calls running.
* **ModelPicker**: the list, its filter and cursor, the window of rows about the
  cursor, and the message the picker is drawn in while others arrive; `silent`
  marks a picker that was opened without a message of its own.
* **Focus**: `FocusManager`, `MembershipManager`, the five commands and the two
  files.  A file is whole, or missing-or-cut (`<<>>`).  Channels are spelt as they
  are typed: `Channel` and the roster's key take one '#' off, and a load takes
  another (`Reloaded`).  `focusKept`, `rosterKept` record that no save failed since,
  `misspelt` whom the newest note named in another spelling of the channel,
  `shortened` that a load changed a name.
* **Mp3**: the controller, its processes and generation numbers; offsets after
  a track's end count as 0; `missed` marks a rescan that saw a library without
  the playing track.
* **ContextHistory**: histories, watermarks, injected memory, logs and every
  command that moves them; a turn's goroutine is reduced to the steps at which
  it touches a history.  `met` collects the operations that break a property
  in the code as it is (section 6), and each property names those it excepts.
* **Messages**: the two shapes of a message, their conversions and the repair,
  as operators; **Transcript** (turns that append to a history, with queued
  prompts, errors, cancellation, and `/compact` with its two requests and the
  memory it writes), **HistoryRepair** (the repair on every short
  history) and **EntryProjection** (a session line's two forms) use it.
  `Boundary` is the place of the prompt-cache marker in a request.
* **FollowUp**: which turn follows which, `sanitize` on messages, the stream
  filter on chunks.  A text is a sequence of pieces: halves of the words
  (AUTONEXT_DONE, AUTOIDEA_DONE), separators, anything else.
* **Settings**: the configuration, the rc file, a start's environment and
  flags, the client and its cached provider, an attempt's reads.  A command
  changes the configuration at once (only the event loop reads it) and calls
  the client's setters one by one (`todo`), since an attempt takes the mutex
  between them.
* **Preferences**: the other settings, one key for each way a setting is taken:
  at the start, at the next call, at the next prompt, at once; the lines `/save`
  and `--init-config` write and what they put aside.  `pending` are the changes
  that nothing has taken yet.
* **ToolCancel**: `ToolContextManager`, `StreamChat`'s attempts, the UI's slot;
  of fantasy only the order of its callbacks.  `alone` says that no earlier
  stream still ran when the turn began.
* **ToolRegistry**: read, write and edit on versions of a file; a check and
  the write after it are two steps, and a write ends whole, fails before it
  touches the file, or leaves it cut (`Outcomes`).  `late` marks a call of a
  cancelled turn that marked a file in the next turn's set; `last` is the newest
  answer, beside what its write has done.
* **BashTool**: one command, its process and a descendant that may hold the pipe,
  the kill at the deadline or at Esc, the verdict told to the model, and the
  head, tail and overflow file of its output, in bytes that begin or continue
  a rune.
* **Terminals**: each tool's call up to the next lock, pipe or channel; reader,
  copier and waiter goroutines; deadlines; the process.  Of the vt library:
  Write answers a query into a pipe, Read takes from it, Close ends both.  The
  pipe is an `io.Pipe`: who writes waits until each byte has been read.
* **McpManager**: Start's goroutines, deadlines and stragglers,
  Stop, the tools list and its cache; and the split of a name at its
  separator.  Time is left out: any deadline may pass at any moment.
* **SessionFile**: New, Load, Append in two pieces, Fork, kill; `mixed` and
  `over` mark names two programs or two forks came to.
* **MemoryFiles**: HOT.md as pieces, daily files as `parseDailyEntries` sees
  them, the consolidation entry by entry, the stitch, torn writes and kills.
* **MemoryRecall**: the path a scope has, the scopes a search visits, the limit,
  the scopes turns, `/compact` and jobs write to, and the snippet with its
  heading, in bytes and runes.
* **Checkpoint**: programs' counters, the entries of their turns, the daemon's
  job, and the two steps of each write of the one file.  `plain` are sessions in
  which only turns' own entries were saved, where both count alike.
* **StaleCleanup**: walk, rename, copy-and-remove against appends, by inode;
  `raced` marks an append after the copy, `halted` a run that was killed.
* **Daemon**: every file operation of daemons, stop commands and TUIs is a
  step, any process may die between two, a pid is used again.
  **JobMail** is the promise of a mailbox without files; `KeepsPromise` is the
  refinement.
* **Catalog**: several programs' refreshes of one file from servers whose list
  changes; a list is its version number.

The `MC*` modules hold instances.  Five of them (`MCUi`, `MCTools`, `MCFiles`,
`MCMessages`, `MCFrontEnds`) check several independent modules at once: `part` is chosen in
the initial state, a behaviour is one of that module's, and the other modules'
variables stay as they began.  The modules' own specifications are not touched
by that; it only lets one run ask one family of questions.

The modules that end in `Proofs` hold the theorems of section 5, one for each
group of components, and change no definition.

A definition whose name begins with `Fault` is a plausible bug put in the
place of a definition to see that a property notices; nothing of a
specification uses it.

## 3 Runs

A property of a run is one promise, often a conjunction of named parts: each
part is defined and explained in the module it is about, and at least one
mutation of the code's model breaks it.

Bounds are the constants of the `.cfg`; the comment of each constant says what
it bounds.  They are the smallest with which every action fires and every
property is broken by its mutations, then raised until a run takes one to three
minutes.

| run | instance | properties and what they say |
|---|---|---|
| `turn_engine` | two turns (one may be a follow-up), three prompts, one streamed event that becomes a tool event, event channel of 1, stream channel of 1 | Interrupts, queueing and endings in every order.  `OneTurnInBody`: one turn in the agent.  `ListenerAlive`, `NoTurnOutOfReach`: the window hears its turn and can cancel it.  `ImplementsProtocol`: ends once, events in order.  `PromptsKept`: a prompt is in one place and sent once.  The channels fill up, so every plain send does block. |
| `front_ends` | The window: two turns, one prompt and one follow-up, all four kinds of streamed events, event channel of 4, stream channel of 2.  The headless run: the same.  One call of bash: one descendant, outputs of up to seven bytes of which five or four are shown | `TurnsEnd`: the window gets idle, and an uninterrupted turn ends.  MaxTurns covers every prompt and follow-up: with fewer the model could not start a turn the UI has promised.  `StatusIsTrue`: no turn of the headless run is rejected as busy, and exit status 0 means the whole answer of every turn is on stdout.  `HeadlessEnds`: it exits, after a signal whatever the provider does.  `CommandIsTold`: the verdict on a command is what became of it, the two ends shown cut no rune, and the call returns. |
| `turn_wedge` (violation) | one turn whose event channel fills | `CancelledTurnEnds`, the comment that a cancelled turn exits at once, is false: section 6. |
| `contexts` | `#main`, `#dev` with a HOT.md, two turns, one note or summary, two logs, one relaunch, with and without `--bare` | `TurnOwnsContext`: a reply is appended where its turn began.  `Isolation`: nothing moves between contexts.  `LogIsTrue`: the log has each message once, in its context, and a resume restores it.  `MemoryInPlace`: a turn finds its context's HOT.md in its history, no history has it twice.  Up to the operations each names. |
| `tool_calls` | ToolCancel: two turns of two calls or attempts, the first perhaps cancelled and still running.  ToolRegistry: three turns, two callers, one file that others change, writes that fail.  McpManager: one server with calls and two Starts, or two servers with two lists.  Names of tools: server names of up to three, tool names of up to four characters, every two of them | `ToolsStopAsMeant`: Esc reaches what it names and nothing else, a turn ends once and its tools are told.  `FilesGuarded`: no call changes a file its turn has not read, and each answer is true of the file: a success wrote it whole, a refusal changed nothing, and only a failed write may leave it cut, and says so.  `McpIsTrue`: nothing outlives Stop, no call goes to a closed session, names route to their server and do not collide. |
| `daemon` | two pids, a checkpoint that is well-formed and a job that is malformed or of an unknown kind, one failed file operation; crashes, restarts and stops unbounded; with fairness | `OneDaemon`.  `VerdictsAreTrue`: a job runs twice only by a fault, its verdicts agree, recovery spares the fresh.  `MailIsSafe`: implements `JobMail`, a daemon removes its own pid file only, a malformed job is never lost.  `Settles`: a living daemon settles every well-formed job, and ends when told. |
| `terminals` | two calls at a time; one session whose program prints and asks, or two silent ones without a race of starts | `SessionsEnd`: what a close has ended, what the limit bounds.  `CallsReturn`: every tool returns, unless bytes are left on its session's pipe, whose reader has ended. |
| `terminals_hang` (violation) | one caller, one session | `CloseReturns`, the comment that the wake byte unblocks the reader and close goes on, is false when the reader has left by itself: section 6. |
| `files` | SessionFile: two programs of two goroutines, three appends, two News, a fork, a fault.  MemoryFiles: two writers, three daily entries, three runs of the job beside one note or one run beside two and a summary, one torn write.  MemoryRecall: the root and names that differ in case and signs, or come to nothing, two terms, two days, two entries; every text of up to five characters, snippets of three.  StaleCleanup: two files, two runs, three entries.  Checkpoint: two programs and the daemon, three turns, or two with one odd entry, reset or failure | `FileIsOneChain`: order and chain of a session, what a fault costs.  `MemoryIsKept`: entries and markers of the memory.  `MemoryIsScoped`: a context finds its own entries, nearest first, and no other's; a snippet has its match and heading.  `EntriesAreMoved`: an entry is in the sessions or the archive, whole and once.  `CheckpointHolds`: a lone write repairs the file, a job has read the turn that asked for it, both writers count alike where they can. |
| `messages` | Transcript: three turns or compactions of two steps of two calls, a bootstrap of two, the last four kept.  HistoryRepair: every history of three messages of two parts.  EntryProjection: every message of four parts.  FollowUp: five pieces in every cut into chunks of two and two messages.  Settings: two profiles (one whose service fixes the address, one without a key), three environments, three commands or restarts beside an attempt.  Preferences: one key of each kind, eight words typed, three edits and saves, a restart, a second that passes, a file of the user's own.  Catalog: two programs, two servers, three refreshes, three hours, TTL of two | `CallsAreAnswered`: calls and results are paired in what a turn, `/compact` and the adapter leave, what leaves the history is remembered, the cache marker is at the end of the bootstrap.  `RepairIsRight`, `LineSaysWhatItHolds`, `WordIsHeeded`: repair, session lines, follow-ups.  `SettingsHold`: a request goes where the settings say, a setting shown is used or waits for its time, what was saved comes back, the user's own file is put aside.  `CacheCanBeTrusted`: what the catalog file says. |
| `messages_results` (violation) | one turn, one step, two calls | `ResultsAreOwn`, that results round-trip, is false for a step of two calls: section 6. |
| `ui` | KeyLadder: the code's windows, a queue of two.  Focus: `main` and `dev`, typed with up to two '#' more, in capitals or without a name, one persona, one fault, three open contexts (two once somebody was invited).  Mp3: two files, two plays.  StreamView: six arrivals, one failed write.  ToolPanel: two tools, four rows, two turns.  ModelPicker: three services, one with more models than the picker has rows, three messages, a filter of two characters | `KeysOnPurpose`: the keys and what they clear.  `PlacesAreKept`: what a restart brings back, where /part leaves the user, what the agent was told.  `PlayerInSight`: one player, the one shown.  `AnswersAreKept`: screen and log.  `PanelIsTrue`: a row has its own call's result, none is lost or shown twice.  `PickIsMarked`: what Enter takes is what the user saw marked, and no key writes over another message. |

`CHECK_DEADLOCK FALSE` is in the configurations whose behaviours stop when a
bound is used up or the user stops typing; `daemon` keeps the check.

Bounds worth a word:

* Two turns are what a race of turns needs: the one that is unwinding and the
  one that has begun.  The proofs of section 5 do not depend on it.
* EventCap and StreamCap are 100 in the code.  What matters is full, empty and
  between: one place makes every plain send wait, and `front_ends` has four
  and two.  Again the proofs hold for all.
* The daemon's crashes are not bounded, as its state is finite without.  One
  failed operation is enough for each step of Complete and Fail to fail; a
  second could only repeat what the first did to another job.
* `HistoryRepair` and `EntryProjection` check functions on all inputs up to a
  length.  The repair looks at a message and its successor, and inserts; three
  messages have every pair with a neighbour on either side.
* A text of five characters, a snippet of three: the match begins, ends or is
  inside the window, or lies beyond it; a longer text only moves it.  Seven
  bytes of output against limits of five and four put a rune across either cut.
* The picker shows five rows in the instance, twelve in the code: with eight
  names listed its window moves, fits, and is empty.

## 4 Fairness

Only three runs state liveness; all other properties are of `Spec`.

* **TurnEngine.FairSpec**: weak fairness of each turn's wait command, agent
  goroutine and end of stream, and of the event loop.  Goroutines that can run
  do; bubbletea handles every message posted; a provider's stream ends, since
  an attempt ends with its connection or context and retries are bounded
  (`llm/stream.go`).  Receiving an event may stay disabled or enabled as the
  goroutine finds it; its `select` is one process, so fairness is on the
  process and not on a branch: nothing is assumed about which ready branch Go
  picks.  The user's keys are not fair.
* **MCFrontEnds.MCFairness**: for the window as above; for the headless run the
  goroutines and the loop, and the end of the provider's stream only until a
  signal comes: after that the cancelled turn must end without it
  (`agent.go:497`, `main.go:279`).  For a call of bash (`BashFairness`): the
  deadline passes, the kernel kills and reaps, `cmd.Run` returns.  The command
  owes nothing.  `BashReturns` asks that every descendant lets go of the pipe,
  since nothing in the code makes it (`tools.go:805`).
* **Daemon.LiveSpec**: weak fairness of a daemon's own steps.  Its poll loop
  selects between the signal and the ticker (`run.go`); when both are ready Go
  picks at random, so the branch that leads to the exit is taken at last:
  strong fairness of that one step.  Handlers end, being bounded by their
  timeouts.  Nothing is assumed of crashes, TUIs or stop commands.
* **Terminals.Fairness**: goroutines run, whoever waits for the emulator's mutex
  gets it (strong fairness: Go hands a mutex to a waiter that has starved),
  deadlines of the tools pass, a process that was sent SIGKILL ends.  The program
  in the terminal need not print, read or end.  `MCSpec` bounds spawning in a way
  that leaves another step of the same call enabled, so no fairness is asked of a
  step the bound forbids.

## 5 Proofs

TLC checks each property on an instance; the proofs below are for every value
of the constants.  Each module assumes the named ASSUME of the component it is
about and no more: numbers are naturals, channels have a place, a set that is
counted is finite.  TLC evaluates those assumptions in the runs of section 3.

| module | theorem | states | of |
|---|---|---|---|
| `TurnEngineProofs` | `TypeCorrect` | `Spec => []TypeOK` | TurnEngine |
| | `MutualExclusion` | `turnActive` lets one `sendMessage` past the compare-and-swap at a time | |
| | `DrainStaysWired` | a turn that streams finds the client's prompt drain wired | |
| | `EveryTurnInReach` | a turn that still runs is on the screen with its cancel function, or cancelled | |
| | `DoneOnce`, `InOrder` | the end of a turn is acted upon once; events in order, none twice, none left out | |
| | `ListenerStaysAlive` | the window that listens has a wait command or message under way | |
| | `PromptsAreKept` | a prompt is in one place, is sent once, and batches keep the order of typing | |
| | `Refinement` | `TurnEngine` implements `TurnProtocol` | |
| | `StatusSaysWhatItPrinted` | exit status 0 means that every turn was printed whole; no turn finds the agent busy | Headless |
| `DaemonProofs` | `OnlyOneDaemon` | two daemons are never past `Acquire` | Daemon |
| | `TrueVerdicts` | runs, verdicts and recovery: twice only by a fault | |
| | `FilesStayPut` | own pid file only; a malformed job stays | |
| | `PromiseKept`, `SafeMail` | the files implement `JobMail` | |
| `ToolProofs` | `FilesAreGuarded` | no call changes a file its turn has not read, and its answer says what became of the write | ToolRegistry |
| | `CancellingIsExact` | Esc reaches what it names, an end tells the tools, once | ToolCancel |
| | `McpAccounted` | nothing outlives Stop, calls meet open sessions, lists are whole, names route | McpManager |
| | `ClosedSessionsEnd` | what a close has ended, what the limit bounds | Terminals |
| `ContextProofs` | `ContextsApart` | nothing moves between contexts | ContextHistory |
| | `StreamingTurnOwnsContext` | a turn that streams finds the agent in its context | |
| | `LogsAreTrue` | what is said is logged once, under its context, and the logs and the histories agree | ContextHistory |
| | `MemoryStaysInPlace` | a turn finds its context's HOT.md, no history has it twice | |
| `FileProofs` | `SessionsAreChains` | order and chain of a session, what a fault costs | SessionFile |
| | `CheckpointsHold` | a lone write repairs, a job has read its turn, both writers count alike | Checkpoint |
| | `CleanupKeepsEntries` | an entry is in the sessions or the archive, whole and once | StaleCleanup |
| | `MemoryKept` | an entry of a daily file is folded into HOT.md once, a note under the lock is whole | MemoryFiles |
| `UiProofs` | `PanelShowsTheCalls` | a row has its own call's result | ToolPanel |
| | `PlayerStaysInSight` | one player, the one shown | Mp3 |
| | `KeysActOnPurpose` | the keys and what they clear | KeyLadder |
| | `PlacesStay` | what a restart brings back, where /part leaves the user, what the agent was told of a persona | Focus |
| | `AnswersStay` | screen and log have what streamed in, in order, once | StreamView |
| `MessageProofs` | `RepairHolds` | the repair pairs every history, changes nothing else, and is done at once | HistoryRepair |
| | `LinesSayWhatTheyHold` | a line that claims no loss gives back its message, of any length | EntryProjection |
| | `FollowUpsHeedTheWord` | the word of a follow-up is heeded, and hidden, in whatever chunks it comes | FollowUp |
| | `SettingsAreFollowed` | a request goes where the settings say, and what was saved comes back | Settings |
| | `PreferencesAreKept` | a setting shown is used or waits for its time, the user's own lines are put aside | Preferences |
| | `SettingsAndPreferencesHold` | both together, as the run asks | MCMessages |
| | `CatalogIsTrusted` | what the catalog file says of itself is true | Catalog |
| `TranscriptProofs` | `TurnsAreAnswered` | over turns, failures and `/compact`, calls stay answered in their place, and what leaves a history is remembered | Transcript |

Each is argued in the same way.  An inductive invariant implies the property;
there is a lemma for its initial states and one for each action (and for each
conjunct, where an action disturbs several), and the theorem puts them together.
What the invariants say beyond the properties is the reason why the code is
right:

**Turn engine.**  `TypeOK` is proved by groups of variables.  That an end is
handled once needs that a `done` message under way belongs to a turn past its
loop (`LateInv`) and that the UI listens to the turn it can cancel (`UIInv`).
That events come in order needs that of the current turn one event at most is
under way, with its wait command or as the only message, and that it is the next
one (`OrderInv`).  Mutual exclusion needs that `turnActive` is set while some
turn is between swap and release, the drain that a turn in its loop holds it
(`DrainInv`), and all of them that a turn not yet started has left no trace
(`FreshInv`).  `RefinedStep` maps every step to one of `TurnProtocol` or a
stutter: a turn the UI starts is a `Begin`, an event it handles a `Show`, an end
or an interrupt a `Leave`, an end that hands over the queue or a follow-up a
`FinishAndBegin`.  `PromptInv`: what waits in textarea and queue is in the order
of typing, and disjoint from what any turn carries.

**Headless run.**  `HeadlessIInv` reuses the goroutines' steps but not `IInv`,
for another loop receives.  Turns before the current one are over and those
after it untouched (`LoopInv`); a stream that ended has said so unless a signal
came (`StreamInv`); a turn past its loop was whole or its error is on the way
to the terminal (`ErrorInv`).

**Daemon.**  Who is past `Acquire` holds the flock (`LockInv`), and so nobody
else writes its pid file (`PidInv`).  Verdicts are true since a scan holds files
of `mail/` (`ScanInv`), recovery only files that were there before it
(`KindInv`, `OldInv`), what is settled has been run or was found so
(`VerdictInv`), and whatever else is in `mail/` is as good as new (`FreshInv`,
`TakenInv`).  The refinement of `JobMail` follows step by step: rename is Accept, the
handler's start Try, the result Judge, the removal Close.

**Tools.**  ToolRegistry: a call is nobody's or marks what it read in its own
turn (`CallFits`), and knows what its write did (`WroteFits`).  ToolCancel: the calls of a turn, run and to be run, are told
apart by their numbers (`CallsInOrder`), running tools are known to their
attempt's manager or were told to stop (`ToolsAccounted`), and a turn that began
alone goes on alone.  McpManager: an object that was dialled is named by its
entry, found by a Stop, or hidden behind a late one (`ObjFits`).  That a name
routes home exactly if its server's name holds no separator is proved for all
names, by `LeastOf`: a set of numbers that is not empty has a least.

**Terminals.**  A session's goroutines end in order, the emulator last (`Fits`);
a close holds a session no call can find any more (`CallsFit`, `ClosedIsDead`);
without a race there is room for the one start on its way (`Roomy`).

**Contexts.**  Every message of a history is the context's own, or was appended
by a cancelled turn (`Fine`, `Own`); a goroutine that may still append is the
streaming turn's, in the turn's context, or cancelled (`Pending`).  `LogsBooted`
says why a resumed history begins with the bootstrap that the agent counts.  Its
proof needed two exceptions that the run does not reach: with a third
context, or a `/compact` before the first turn, the properties would have been
false as first written (`Tame`, `Straight`).

**Logs and memory.**  `LogIInv` rests on that invariant and compares, for every
context, three sequences: the history, its copy in `contextMsgs`, and the
group of the log.  The copy lacks memory at most, and nothing between a prompt
and the end of its turn (`TurnSynced`), which is why a watermark taken from
`messages` is one of the copy too, and why what a turn said is above it
(`TurnUnsaved`).  A message that is appended is nowhere yet, as its turn or note
is new (`Known`, `Used`, `PhasesFit`), so that nothing is there or logged twice
(`Once`, with the memory only of contexts marked as injected).  The group of a
context is its history up to the watermark (`Mirrors`), begins with the system
prompt (`Headed`, without which `RestoreMessages` would shift the watermark), and
memory that counts as injected is in its own context's history (`AtHome`).  Most
steps append one message at most to each history (`Moves`); a note for the
current context may put it behind a copy that lacks memory (`Rewinds`).

**Files.**  Sessions: one writer at a file (`WritersFit`), what a file ends
with (`TailsFit`), ids given once (`IdsFit`), order and memory (`OrderFits`,
`MemoryFits`), and the account of faults: a write that ends early owes the line
it will spoil, and that line's loss pays the debt (`Paid`).  Checkpoint: a lone
writer finds the file empty and leaves it whole (`FileFits`), what a job is owed
has been saved (`JobsFit`), and in a plain session counters are what is saved
plus what is not yet (`Plain`).  Clean-up: a file has one name (`OneName`) and a run's
copy is its own until it is complete (`SweepFits`).  Memory files: `MemoryIsKept`
counts what is wrong in HOT.md against the torn writes.  HOT.md owes for an entry
folded again, for a marker without its body, for a body without its marker and for
a marker that is still open (`DebtOf`); each torn write adds one to the debt at most,
and a fold of the run adds none, since a marker that was swallowed was owed for already
(`EntryPieces`).  A run knows of every entry that was there at its start that it has
marked it, holds it, or will open its file (`JobFits`); a note that is being
written is the last thing under the lock (`NotesFit`).

**Window.**  Panel: after each call that is pending and not crossed, rows and
calls of its name that are still to finish are as many (`Balanced`), which makes
the search by name find the right row.  Player: it plays while it has a process,
and generations grow (`PlayerFits`); the listing of a library in order rests on
`SortedExists`.  Keys: the ladders keep what the user would count (`LadderKnows`).
Focus: a file is empty, or holds a state the window could have, and as long as no
save failed that is the window's own or the one it was loaded from (`WindowFits`,
`MembersFit`); `NoteChanges` has the spellings of one channel that are not told.  Streamed answer:
what is logged and what waits in the log's buffer are one text in the order of
arrival, complete but for what is marked as unseen or lost (`LogFits`); and until
another message comes the answer that grows is the last on the screen, with all
chunks of its step in the buffer (`ScreenFits`).

**Messages.**  These are proofs about functions of sequences, for every length.
`Those` and the module's folds are recursive functions, and the proofs speak of
their intermediate values: for a fold over a message's parts there is a function `h`
on `0 .. Len(parts)` with one step per part (`Steps`, from the library's
`RecursionExists`), and what is claimed of the whole is shown of every `h[k]`.
The repair has places: `at[i]` says where message `i` has got to when it is through
(`Repairs`, `SanitizePlaces`), rising by one, or by two where a message of results
was put in.  Read at its places the result is paired (`SanitizePairs`), nothing is
left to splice (`SanitizeTwice`), and what is taken out again is what was put in
(`SanitizeKeeps`); `ShapeStable` is about one message.  A session line is followed
part by part: texts, calls and outputs taken so far, and whether something was
lost (`Holds`, `LineComesBack`, `LineKeepsOutputs`).  The stream filter is followed
chunk by chunk: what it has shown and what it holds is a function of the text so
far (`Shows`): undecided as long as the text may begin a word, stripping until
something follows the word, passing from then on.  That a chunk keeps this is
`ChunkShows`, which rests on trimming from the left being the same for a text that
grows (`TrimConcat`); at the end `SanitizedIs` says that the history keeps the same.

**Turns.**  `TranscriptIInv` describes a history by where its calls are: for some
function `nx`, message `i` is a prompt or a summary, or an assistant message with the
calls `nx[i-1] .. nx[i]-1`, or the answer to the calls of the message before it
(`Draft`, `InPlace`).  Every call is answered in the next message, those of the last
message excepted (`Heeded`), and when a turn is through the last message has none
(`Drafted` with `made + 1` twice).  An answer adds steps one by one, each owing nothing to those
before it (`AnswerSteps`); only its last may not have run its tools, and then every
call of that message lacks its answer, which is what the repair puts in
(`SanitizeDrafted`).  That these calls all lack it is why the repair says "turn
cancelled" of nothing that was run, and a result of several calls in one message is
why the property excepts them: of it the proof knows the first id and no text.
`/compact` cuts anywhere: what is left is a `Draft` whose first message may be an
answer without its call, behind the summary (`CompactDrafted`), and what is gone are
the calls below `nx[0]`, which were flushed or found nothing durable.  With `Kept` at
one or more the summary never is the whole history, so the next compaction takes it.
In a request the history goes through the older shape once more (`RequestDrafted`),
and the cache marker is found from the lengths of what precedes it (`MarkerIsLast`).

**Settings and catalog.**  What the running command has still to push is what the
configuration says, and where client and configuration differ it is still to come
(`PushFits`); what is cached was built from what the client holds, and so was an
attempt that no setter ran beside (`CacheFits`); a configuration that no `/set
service` asserted reaches the service it names (`ReachFits`); the rc file is a
configuration's own lines, of this one while `savedAs` says so (`SavedFits`).
`Snapshot` and its way back are folds of five lines, followed line by line.
Preferences have the same shape (`KeptFits`, `OwnLinesStay`, `ShownIsUsed`).
Catalog: what the file holds and what a program is about to write was served at
the time it names, by the address it names (`CatalogIInv`).

`DrainStaysWired`, `DoneOnce`, `InOrder` and `FilesStayPut` are proved for every
size and no run checks them by name; `ImplementsProtocol` and `MailIsSafe` say
as much of each step.

**Only model-checked.**  Of the safety properties: `MemoryIsScoped` (MemoryRecall),
`PickIsMarked` (ModelPicker) and `CommandIsTold` (BashTool), which are written with the
operators of the community modules that take an operator as a parameter.  Liveness
under fairness (`TurnsEnd`, `HeadlessEnds`, `Settles`, `CallsReturn`, the end of
`CommandIsTold`) and ENABLED are beyond the prover.

## 6 Where code and documents differ

Three are shown by a run:

* **A cancelled turn can stay for ever** (`turn_wedge`).  `agent.go:394-399`
  says a cancelled turn exits at once.  Its sends to the UI are plain; after an
  interrupt the UI no longer receives from that channel, and with a full
  channel the goroutine never ends.  `turnActive` stays set and every later
  prompt is answered "agent busy".
* **Results of a step with several calls are mixed** (`messages_results`).
  `agent.go:385-386` says tool results round-trip.  `llm/convert.go:130` keeps
  one id and concatenates the texts; the first call gets every output, and the
  repair says of the others "turn cancelled".  On the wire the second call has
  no result at all, repaired or not (`agent.go:861-866`).

* **`terminal_close` may never return** (`terminals_hang`).  `terminal.go:191-193`
  says that close sends a wake byte to unblock the reader and then waits for it.
  The reader may have left by itself, having seen `closing` at the head of its loop.
  The emulator's pipe is an `io.Pipe`: nobody takes the byte, and line 504 waits
  with the emulator's mutex held.

The others were met while modelling.  Most are behaviours of the models too:
the property excepts them by name, or a history variable marks them.

Turn, keys, screen

* The next turn starts on the `done` event, which `sendMessage` sends before it
  releases `turnActive`: a batch sent in that window is rejected and its
  prompts are gone (`agent.go:352`; `model.go:747-748`).
* Queued prompts' age is never looked at, though `model.go:749-751` and
  `docs/agent-loop.md:1305-1315` give a limit of two minutes.
* The Esc that cancels a turn arms the clearing of the queue but zeroes
  `m.escLast`, so a later Esc clears it however late
  (`docs/signals-and-keys.md:26-28`).
* A message that arrives while an answer streams makes the rest of that step's
  chunks reach neither screen nor log; after an errored turn
  `syncLastAssistantMessage` may overwrite an earlier answer
  (`docs/ui-components.md:589-594`).
* bubbletea takes `QuitMsg` before `Update` sees it, so `model.go:653` probably
  never runs.
* Mp3: a pause whose signal fails counts the elapsed time twice; a rescan may
  mark another track as the playing one.
* The headless run: after a signal the stream's error event may be dropped
  (`stream.go:468`) and the agent's `select` may find the closed channel first,
  so a turn that was cut counts as completed, and the program exits with 0 or
  prepares a follow-up (`agent.go:1168-1169` says cancelled turns never queue
  one).  A second signal is swallowed while the first is dealt with.
* The panel: `Clear` has no caller outside tests, so the rows of interrupted
  turns run for ever, and calls of one tool that overlap may swap results.
* A line `models` in bitchtearc opens a picker at the start that has no message
  of its own; its keys write over the last message of the session.
* A `/part` of a context opened before the active one moves the user to the
  next (`context.go:107-109` says otherwise); `SaveFocus` and `SaveMembership`
  write in place, so a kill in between loses the file; `/invite` with capitals
  in the channel, or another '#', tells the agent of a channel no roster has, and
  `/invite x #` of one without a name.
* `context.go:40-41` says that any leading '#' is stripped; one is.  `/join ##dev`
  opens `#dev` with a '#' in its name, which is not `/join #dev`, and a restart brings
  it back as `dev` (`recordToContext`, 194-197): as a second entry of that name if it
  was open too, so that `/part` leaves one of two equal contexts.

Conversation

* An interrupted turn's reply lands in the context joined since
  (`agent.go:71-73`, `docs/user-guide.md:98`).
* The memory of a restored focus is put into `#main` (`model.go:218`); an
  `/invite` before the next turn takes a context's memory out of its history
  while it stays marked as injected (`agent.go:1358-1359`).
* `/resume` restores the default context into whichever is current
  (`model.go:273`, `docs/sessions.md:704-705`).
* `/compact` sets the watermark past notes that were never logged, and its
  summary is never logged either (`docs/commands.md:130`).
* After a `--bare` session is resumed without, the bootstrap prefix of a new
  context is cut from conversation (`context_switch.go:27-34`).
* `InjectNoteInContext` takes no lock, and may lose a reply appended between its
  read and its write (`agent.go:848-851`).
* `docs/commands.md:112` and `docs/agent-loop.md:1705-1709` say the agent is
  untouched by `/join`, `/query`, `/part`; `syncAgentContextIfIdle` is called.
* `/compact` keeps the last four messages whatever they are, so that a result
  may stay without its call; an empty summary is accepted; a summary that fails
  after the memory was written has it written again at the next try; with a
  bootstrap and four messages it inserts a summary of nothing.  It flushes from
  the end of the bootstrap, where `docs/commands.md:93` says from the second
  message, and runs in `Update` under a context nothing cancels.
* A headless resume restores all contexts into one history (`main.go:273-283`;
  `docs/sessions.md:738-740`).
* A bare AUTONEXT_DONE at the end of a stream is shown
  (`docs/agent-loop.md:218-232` says it is stripped); an answer of several
  messages is never seen as done; auto-idea alone still queues next steps.
* The slot of `ToolContextManager` may hold, or lose to, the stream of a
  cancelled turn (`client.go:223-225`); with two calls in a step Esc names the
  second while the first runs (`docs/architecture.md:102`).
* `/set profile` pushes address and key to the client but not the service, so a
  client whose service fixes its address sends the new key to the old service
  (`client.go:130-139`; `agent.go:801-806` says it must be pushed);
  `/set service` does not reach the client either, nor do temperature, top_p,
  top_k, effort and tool timeout (`client.go:193-196`).
* With OPENROUTER_API_KEY or ZAI_API_KEY and a BITCHTEA_MODEL of the user's own, the
  start takes the name of the profile but not its model (`config.go:135-138`), so
  that the name shown does not say what is asked for.
* `/set provider` accepts any name at runtime
  (`docs/on-screen-output-dump.md:66-71` shows an error), and the saved line is
  ignored at the next start; after `set provider` a saved ollama profile is no
  profile any more, and its empty key fails the start's key check.
* Sampling, effort, tool_timeout and banner are read at the start only (verbosity
  also at the next call, persona_file at the next prompt that is built): `/set`
  shows a value that nothing uses yet, and `/save` does not keep it.  A mistyped
  effort is dropped without a word, though `rc.go:87-89` says it fails loudly.
* The lines of `--init-config` are said to be ready to be uncommented; those of
  a long key and of what is unset would store the mask, or the word `<unset>`.
  Two `/save` in one second leave the backup of the second;
  `--init-config --force` makes none.
* `agent.go:153-154` says that effort is forwarded for cliproxyapi;
  `applyCliproxyReasoningEffort` is called by its tests alone.

Tools

* A late read of a cancelled turn opens the guard of the next one
  (`tools.go:47`); a file created after the existence check is overwritten
  unread (`tools.go:641-642`); a write that fails half-way leaves the file cut, with
  an error that does not say so (654-656, 703-705); a call cancelled after its start still writes
  (`typed_write.go:51`); any ended context is reported as a timeout
  (`tools.go:554-555`).
* bash: the timeout kills bash but not its descendants, and the call waits for
  them; what was printed by then is dropped when the context has ended
  (`tools.go:554-555`); files of long outputs stay, though `tools.go:868-869`
  says they are cleaned up at the session's end.
* Terminals: a `SendText` whose session ends may wait at the same pipe for ever,
  with the mutex that `Snapshot` and close need; two starts at once exceed the limit (114-116); output not copied yet is lost
  at exit (`tools_test.go:967-968`); Resize does not take `emuMu` (49); unknown
  keys are an error, not text (`docs/tools.md:77`); `CloseAll` has no caller
  (417-419); a session started by a call whose context ended has an id nobody
  is told; "Configurable via SET MAX_PTY_SESSIONS" (23) is not implemented.
* MCP: a stdio server's process is bound to the context of its start and is
  killed when that is done (`client.go:345`; `manager.go:260-261`); a list
  begun before an invalidation is stored after it (378); Stop leaves the cache
  (289); a straggler of the first Start hides the second's object from Stop
  (207); server names may hold underscores (531-533).

Files and daemon

* A write that ends early leaves no newline and swallows the next entry
  (`resume_edge_test.go:17-19`); two programs on one file fork the chain
  (`docs/sessions.md:1233-1235`); two sessions of one second share a file;
  `Fork` writes over a fork of the same time of day; `Latest` sorts by name, and
  a fork sorts with its base (`session.go:260, 309`).
* memory-consolidate folds one of two entries of one second or one heading; a
  marker that was cut takes the next with it (`docs/memory.md:1439-1441`); it
  takes no lock (`docs/daemon.md:204-206`); session-stitch appends at every run
  (`session_stitch.go:52-55`).
* Search: a text with characters that grow in lower case may end the program at
  `content[:idx]` (`memory.go:246`), or shift the snippet; names without a letter
  or digit all share `unnamed`, and case and signs do not tell names apart;
  write_memory for the channel `#` goes there, where the window's `#` is `main`.
* `memory_consolidate.go:174-179` says nested scopes are what runtime writes
  produce; those are all flat, and such a job finds nothing.
* stale-cleanup loses an entry appended between the copy's end and the removal;
  a kill in the copy leaves a part in the archive that conflicts for ever
  (`docs/daemon.md:503-505`).
* Daemon: failed runs are in `failed/`, not `done/` (`docs/daemon.md:872-873`);
  recovery fails malformed files (888) and jobs never run (605-606), and jobs
  whose temporary file is older than the start (584-585); `IsLocked` takes the
  lock for a moment, and a start in it says a daemon runs (`run.go:38-39`);
  stop may remove a new daemon's pid file (`daemon_cli.go:154`).
* Catalog: `SourceURL` is never compared (`refresh.go:43-45`), a failed write is
  reported as updated, a time in the future counts as fresh, two refreshes may
  put the older list last.
* Checkpoint: `docs/sessions.md:1865-1879` says that window and daemon write
  identical states, that the last write wins and that each counts the whole
  session.  The window counts since its start and with the calls of attempts that
  failed; the daemon also counts notes, drained prompts, injected memory and
  earlier runs, and leaves the model out; two writes at once may leave a mixture
  until the next lone one.  A failed append is not tried again.  Nothing reads
  the file.
* `mcp.LoadConfig` is called by tests alone.

## 7 What is left out

Beside what section 1 lists:

* Data races in the sense of the Go memory model, where a slash command sets a
  field of the agent that a turn reads without a lock; `InjectNoteInContext` is
  modelled as read and writes, the others as one access each.
* TurnEngine: tokens, thinking, verbosity and cost of events.  ContextHistory:
  appends to the log that fail (SessionFile has them).  Transcript: one message
  of results a step, as fantasy makes them.
* ToolCancel: what fantasy does between callbacks.  McpManager: resources and
  prompts.
* Daemon: a recovery scan whose `ReadDir` fails, which is logged and skipped
  (`run.go:82-85`); jobs' order within a poll (ULIDs are random within a millisecond),
  coarse file times, a pid that went to a program which is no daemon, a daemon
  without dispatcher.
* SessionFile: equal entry ids, a Fork read in pieces.  MemoryFiles: torn daily
  appends, daily files read half written; there every scope is one, and
  MemoryRecall has their paths.  StaleCleanup: two programs of one session
  name.  Focus: two programs in one session directory.  StreamView: change of
  day, the flock between programs, sanitizing of the log's lines.
* Headless: parsing of flags, the text of labels.  Its stdin is read before the
  loop.  BashTool: several descendants; signals a command sends itself.
* MemoryRecall: sizes of files, the cut of a long result list.  Checkpoint: the
  model's name and the timestamps in the file.  ToolPanel and ModelPicker:
  widths, prices.
* Preferences: the lines of provider and baseurl that `--init-config` writes; they do
  change something when uncommented, since they end a profile (Settings has the keys).
* Settings: the texts that `/set provider` and `/set baseurl` preview.  Catalog:
  reading the file for the picker and for prices (ModelPicker starts from what
  was read).  The one-time move of an old data directory (`config.go:535-584`).

## 8 Plan

Written first, and revised when a module was done:

1. TurnEngine with TurnProtocol and their proofs: the heart, where every other
   part hangs. *Done.*
2. What a turn touches: ContextHistory, ToolCancel, Transcript with Messages,
   FollowUp, KeyLadder, StreamView. *Done.*
3. What outlives a program: SessionFile, Daemon with JobMail, MemoryFiles,
   StaleCleanup, Focus, Catalog, Settings. *Done.*
4. Tools: Terminals, ToolRegistry, McpManager. *Done.*
5. The other front end, and what stood beside the core: Headless, BashTool,
   ToolPanel, ModelPicker, MemoryRecall, Checkpoint, Preferences, `/compact` and
   the cache marker. *Done.*
6. Further modelling, if the proofs leave room: failing appends in
   ContextHistory, by the log of SessionFile; McpManager's resources; Catalog's
   Load and the price lookup; an abstract log of a conversation that
   ContextHistory and SessionFile both implement.
7. Proofs of the safety of the parts: headless run, daemon and mailbox, tools,
   terminals, contexts with their logs and memory, session files, checkpoint,
   clean-up, panel, player, key ladders, and TurnEngine's prompts. *Done.*
8. Further proofs: Settings with Preferences, MemoryFiles, StreamView, Catalog,
   Focus, FollowUp, the repair, the session lines, and on top of them the history
   over its turns. *Done.*
9. What is left to prove: MemoryRecall, ModelPicker and BashTool, once their searches
   and sorts are written without operators as parameters.

## 9 Running it

    tlc -workers 2 -config MCTurnEngine.cfg MCTurnEngine.tla
    for p in TurnEngine Daemon Ui Tool Context File Message Transcript; do
        tlapm ${p}Proofs.tla
    done

Every run takes less than five minutes on two cores, each module of proofs less
than seven, `MessageProofs` eight.
