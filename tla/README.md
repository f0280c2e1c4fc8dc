# A formal model of same-telegram

same-telegram is a Telegram bot that gives each of its users a workspace: a
machine on Fly with a volume, reached as a terminal inside Telegram. It is also
the postbox between an admin and a team of agents that leave files for each
other. This directory holds TLA+ modules translated from the source, TLC
configurations that check them on small instances, and proofs of theorems that
TLAPS checks for every instance. `PROJECT.json` lists components, runs,
mutants, findings, hazards and theorems, and maps each definition to the lines
it models.

    tlc -workers 2 -config MCOrchestrator.cfg MCOrchestrator.tla   # one run
    tlapm OrchestratorProofs.tla                                  # one component's proofs

## 1. The system

Four programs: `same-telegram serve` (the daemon: bot, socket, watchers),
`same-telegram` subcommands and hooks (other processes that talk to it by
socket or by files), `workspace-server` (inside each workspace machine), and
the Mini App (a web page). Outside: Telegram, the Fly Machines API, SQLite, the
file system, AI providers, agents.

The heart of the concurrency is that the bot's update loop (`bot/bot.go` Run)
handles one update at a time, while goroutines that handlers have started, two
watchers, the socket's connections, eviction tickers, other processes and the
Fly API go on beside it and share its maps and files.

| Component | State | Operations | Interacts with | What is hard |
|---|---|---|---|---|
| **Orchestrator** `machines/` | `starting` set, table `user_machines`, Fly's machines and volumes | EnsureRunning, Status, Destroy, Stop, UpdateAllImages | called by the loop and by goroutines; Fly API; SQLite | every call may fail or lose its reply; crash between two calls; overlapping operations on one record |
| **Onboarding** `bot/workspace_onboarding.go`, `onboarding*.go` | maps per user: session, awaitingKey, timestamps, pendingDestroy | /start, buttons, key prompt, /destroy, /cancel, pollers, key injection, eviction | orchestrator, store, loop | flows that share a timestamp; goroutines and handlers on one session; old buttons; deadlines |
| **Update loop** `bot/bot.go`, `commands.go` | offset, the cascade of handlers | handleUpdate, handleCallback | everything in the bot | order of the cascade |
| **/newbot, /import, /export, /update** | maps per user like onboarding's | conversations, archives | orchestrator | the same as onboarding |
| **In-flight AI requests** `process_control.go` | cancel functions per message | start, cancel, /stop, edit | none: no handler starts a request here | nothing, while it has no caller |
| **AI modes, sessions, usage, store** `ai_mode.go`, `onboarding.go`, `conversation_store.go`, `sessions.go`, `usage.go`, `store/` | aiState, waits for a key, conversations and sessions in memory; users, api_keys and usage in SQLite | /ai, /onboard, /settings, /new, a key, a text; answers; eviction; restart | AI clients, CLI binaries, update loop | two settings of one thing; old buttons; rows written from values read apart; expiry while an answer is awaited; a limit that fails open |
| **Rate limiting** `ratelimit.go` | token buckets | allow, consume | loop | bucket changed outside its lock |
| **Task queue** `taskqueue/` | a file per task in a directory per state | Create, Move, Read, List | agents, /tasks, /cancel-task | a move is read, write, remove; ids per process |
| **Agent messages** `msgbox/`, `bot/agent_messages.go` | outbound, processed, inbound directories; reply tracker in memory | message command, scan, send, archive, reply | agents, Telegram, loop | half-written files, one name per second, resending after a crash, lost answers |
| **Reviews and decisions** `daemon/review_watcher.go`, `bot/review_*.go`, `team_commands.go` | reviews/, decisions/, audit.log, seen, debounce | announce, approve, reject | agents, loop | lookup, stamp and rename by name in steps; crash between; names in lists and buttons that are out of date |
| **Daemon and socket** `daemon/`, `serve_cmd.go`, `notify/` | PID file and its .tmp, socket file, each process's place | serve, serve --fg, stop, hook | hooks, other daemons, other programs' PIDs | files shared without a lock; stop's 5 s against a handler's 60; a crash between two steps |
| **Terminal server** `workspace/` | per connection: handler, three goroutines, shell, PTY | open, relay, ping, close, shut down | shells, clients | who unblocks whom; deadlines; process ids used late |
| **Terminal page** `web/app` | socket, timers, delay, status | connect, retry, tap | terminal server | timers against manual retries |
| **ANSI parser** `web/app/src/lib/ansi.ts` | current line, text that waits, cursor, style, finished lines, parser state | feed | the page's components draw its lines | text that waits against sequences; shared style objects; UTF-16 units against columns |
| **Workspace image** `src/workspace` | the volume's files | startup.sh | orchestrator's injections | what survives a new image |
| Output filter, AI clients, audit and analytics, configuration, command runner, templates, scripts | none, or append only | pure input and output | | not concurrent |

What makes each right:

- *Orchestrator*: a record names a machine of its user with its token; one
  provisioning at a time; a volume never dies before its machine; a record of a
  live machine is not lost; the guard is always let go.
- *Onboarding*: a text is taken for a key only within the deadline; /destroy
  needs a confirmation that answers the question asked; a link never mixes two
  workspaces.
- *Agent messages*: a complete message reaches everybody at least once, again
  only after a fault, and a reply names the message it answers; bad files do
  not stay.
- *Reviews*: what the audit log says can be relied on after crashes, as far as
  its entries could be written; the stamp
  agrees with the directory; a path that was heard is processed.
- *Terminal*: no shell outlives its connection or is killed for another, nor a
  job of its process group; every
  end of either side is noticed; the page always tries again.
- *ANSI parser*: the page shows what a terminal without the waiting text would
  show; a change of colour repaints nothing; the last lines are kept.
- *AI modes*: off means off, in memory and in the store; a provider gets its own
  key; the context of a question is one conversation; a day's limit holds.
- *Daemon*: PID file and socket lead to the one daemon, and none is left behind;
  a hook that was answered OK was heard.
- *Task queue*: state and directory agree, history is legal. (Not modelled yet.)

## 2. The modules

| Module | Models | Read it with |
|---|---|---|
| `WorkspaceRegistry` | abstract: what the orchestrator promises | `machines/store.go`, `orchestrator.go` |
| `Orchestrator` | threads over the Fly API and the table | `machines/orchestrator.go`, `client.go` |
| `OrchestratorProofs` | theorems about `Orchestrator` | |
| `WorkspaceOnboarding` | one user's conversation, over `WorkspaceRegistry` | `bot/workspace_onboarding.go`, `onboarding.go`, `onboarding_state.go` |
| `TerminalServer` | the relay | `workspace/websocket.go`, `server.go` |
| `TerminalClient` | the page, composed with the relay | `useWebSocket.ts`, `StatusBar.tsx` |
| `Reviews` | files left for the admin | `review_watcher.go`, `review_commands.go`, `team_commands.go` |
| `AgentMail` | messages and replies | `msgbox/`, `agent_messages.go`, `message_cmd.go` |
| `TerminalText` | abstract: a line and a page where every character takes its cell at once | `ansi.ts` getCurrentLine, getLines |
| `AnsiParser` | the parser, implementing it | `web/app/src/lib/ansi.ts` |
| `AIModes` | one user's AI settings, keys, conversations and limits | `ai_mode.go`, `onboarding.go`, `conversation_store.go`, `sessions.go`, `usage.go`, `store.go` |
| `Daemon` | daemons, commands and hooks over two files | `serve_cmd.go`, `daemon.go`, `socket.go`, `notify/client.go` |
| `WorkspaceOnboardingProofs`, `TerminalProofs`, `ReviewsProofs`, `AgentMailProofs`, `AnsiParserProofs`, `AIModesProofs`, `DaemonProofs` | theorems about the module of that name (`TerminalProofs`: about `TerminalServer` and `TerminalClient`) | |
| `MC*` | instances for TLC | |

Composition: `WorkspaceOnboarding` uses the orchestrator through
`WorkspaceRegistry` (INSTANCE), which `Orchestrator` is proved to implement, so
the conversation is checked against what the orchestrator promises and not
against its threads. `TerminalClient` EXTENDS `TerminalServer` and joins the
two steps of each side that are one event on the wire.

**Orchestrator.** One action is one call to Fly or to the table, with the code
up to the next call. A thread's place is `pc`, its record copy `um`. Every call
has three outcomes: done, failed, done but the reply lost. Machines also change
by themselves (boot, sleep, be removed by hand) and the bot may crash, which
loses `starting` and all threads. Status, Destroy and Stop run in the update loop
(`Loop`), EnsureRunning in goroutines of /start (`Starters`), UpdateAllImages in
goroutines of /update (`Admins`).

**WorkspaceOnboarding.** The maps of `onboardingState` are reduced to one user's
entries, because no handler touches another user's. A deadline is "fresh" until
`Clock` makes it "old". `Handles` says the loop is free and the session lock is
not held. `handleWorkspaceComplete` reads the session after unlocking it, a data
race: `Readings` is the set of values it can read.

The history `question` follows the question of /destroy: "open" once it was
asked, and "closed" when it was answered, dropped or has expired. Only a text that
comes to handleDestroyConfirmation drops it. The cascade of handleUpdate takes
some texts first: what the rate limiter stops, and a reply to an agent's message
(`GoesPast`); commands and buttons do not come there either. `DestroyIsConfirmed`
says what is left: a question leads to at most one destroy, within its deadline,
and to none once a text has got as far as the confirmation.

**TerminalServer, TerminalClient.** Handler, output, pings and input are four
processes per connection. `due` stands for the 60 s read deadline. A shell that has
ended is a zombie for the rest of the server's life, because no code waits for
it; that is why a kill by number is safe, and the model keeps the numbers.
A shell may leave a job behind (`job`): in its own process group, as a script's
child is, or in one of its own, as an interactive shell's background job or
anything under setsid is. The job holds the terminal, so the relay's read does
not fail when the shell ends (`Held`, `OutReadFails`), and only the kill of the
shell's group, when the handler cleans up, ends a job of that group. What the
kernel does with groups and terminals is external to the source and modelled from
how the code uses it; so is that closing the master ends a read that waits on it,
which Go's poller does.
In the page time is not counted: of the two timers started when a socket
closes, the shorter expires first.

**Reviews.** A file is its last admin stamp. Approving is lookup, intent entry,
stamp, rename, result entry, each a step, and agents, the watcher or a crash come
between. LogReviewAction tells nobody when it fails, so an entry is written or
`lost`, and the request goes on. The watcher is seeding, adding watches, collecting events, firing, and
processing the batch path by path.

**AgentMail.** A message is a number, its file is created and filled in two
steps, and its name is the agent and the second. The Watcher lists the directory,
reads, sends to the users one by one with one retry, tracks each sent message, and
archives. Where the archiving fails (`unmoved` counts it) the next scan sends the
message again. A reply pops the tracker and writes a file.

**AnsiParser.** An action is one character in state "normal", or one escape
sequence: its parameter bytes are read at once, as numbers, and the final byte
does what handleCSI does. A line is a sequence of cells (UTF-16 unit and style);
spans are what equal neighbours make, which `Merged` keeps, because merging
makes cells share a style object. `Live` stands for the parser's own style
object, which DCH and ICH put into the line. `TerminalText` has no waiting text and
no styles; `ImplementsText` substitutes getCurrentLine and getLines for its
variables and is the parser's refinement of it. The history `recent` keeps the
text of the last lines for `KeepsRecentLines`.

**AIModes.** `ai` is aiState (memory), `row` the user's row and `vault` the
table api_keys (SQLite), which a restart keeps. `Route` is the cascade of
handleUpdate after the workspace's own handlers. A question is two steps, sent and
answered; time, eviction and a restart come between, the loop handles nothing
else. A key is named by the backend whose key it is, which is what
`KeyFitsBackend` compares: the one it was asked for, or in workspace mode, where
detectKeyBackend looks at the prefix, any (`Pasted`). A conversation is its answered pairs, each with its
time, its size and the epoch it belongs to (an epoch ends with /new or a restart).

**Daemon.** A daemon is a process and its PID. Its start is a step for each
system call on a shared file: remove the socket, bind, chmod, catch signals, write
the .tmp, rename, run; and its end close, remove, remove the PID file. `serve`
and `serve stop` are step by step too, with limits that may pass at any moment. A
dead daemon's PID may come back as another program's (`reused`). `calm` is the
history in which commands come one at a time, each after the last has settled, no
second daemon is started by hand and none gives up waiting; outside it the code
lets two daemons take each other's files, and the model reaches that.

## 3. The runs

| Run | Instance | What it shows |
|---|---|---|
| `orchestrator` | 2 users, 2 starters, 1 admin, 2 machines, 2 volumes, 2 tokens, symmetry | types, `CredentialsMatch`, `SingleFlight`, `DataOutlivesMachine`, `RecordKept`, and the refinement of `WorkspaceRegistry`, with every failure and crashes |
| `orchestrator_live` | 1 user, 2 starters | the guard is always let go |
| `onboarding` | 2 workers, 1 poller, 2 machines | types, `KeyHasDeadline`, `PolledLinkIsWhole`, `DestroyIsConfirmed` |
| `onboarding_inject` | 1 worker | *violated*: a key pasted early is injected into nothing |
| `terminal` | 1 connection with the page | `NoOrphanShell`, `KeepsGoodSocket` and four liveness properties of both ends |
| `terminal_shells` | 2 connections, 2 process ids, symmetry | a late kill hits only its own shell |
| `reviews` | 2 names (one a part of the other, alike but for the extension), 2 files written, 1 crash, 1 lost entry | `AuditAccounts`, `StampAgrees`, `EventsAreHeard` |
| `agent_mail` | 1 agent, 2 messages, 2 seconds, 2 users, 2 replies, 1 fault | bounded copies, replies that name their message, delivery, draining |
| `ansi` | 1 character, 6 parameter lists, lines of 3 columns, a page of 2 lines and 1 of slack, 5 edits | `ImplementsText`, `KeepsRecentLines`, `NoRepaint` |
| `ansi_pairs` | 2 characters, one of two units, 4 columns, 4 edits | *violated*: a cut through an emoji |
| `ai_modes` | 2 providers with keys and ollama, 2 CLIs, workspace mode, the owner; 4 changes, 3 questions, 2 days of 2 ticks, 1 fault | `OffMeansOff`, `KeyFitsBackend`, `ContextIsOneTalk`, `LimitHolds` |
| `daemon` | 3 daemons, 2 shells with 3 commands, 1 hook, 1 reused PID, symmetry | `FilesTellTheTruth`, `NoSilentLoss` |

Each property of a passing run has a mutant: a definition replaced by the form a
plausible bug would give it (a missing guard, a missing reset, two steps in the
wrong order), under which TLC finds that property violated.

**Why the bounds are enough.** Two users and two machines let one user's
operation find another's machine and let one user have an old and a new one;
two starters race for one guard. In the conversation two workers and two
machines let a session be replaced while an older goroutine still fills it, and
the registry then knows two generations. `MaxPolls` is 1 instead of 15: a poll
leaves the state as it is or ends the poller. One terminal connection is enough
for its own liveness, since connections share only process ids and the server's
end; two connections and two ids are what a wrong kill needs. Two names, one
containing the other and listed first, are what a wrong match needs; two writes let
a file be rewritten at any step. Two messages in two seconds cover one name used
twice and two names in one scan; one fault is a crash, a lost answer or a
failed archiving at any point, and a second fault meets the same states with other counts.

Three columns and a tab stop of two let the cursor stand before, in, at and past
the end of the line, with text waiting at each place; five edits write, move,
restyle and edit again; four finished lines trim a page of 2 + 1. Tabs of 8 and a
page of 5000 + 500 are the same arithmetic. Two providers are what a wrong key
needs, with ollama as the backend without one, and one CLI (gemini) is not
installed. Four changes set up a key, switch, turn off and switch again; an old
button is a change like any other. A TTL of one tick in days of two lets a wait, a
conversation and a session expire before, with and after each other and across
midnight, and three questions pass a limit of two. Three daemons are one that
dies or lingers, one started over it, and one beside; two shells let a start race
a stop. One hook is enough, since hooks share nothing.

**Deadlock** is checked for the orchestrator and the onboarding. In the other
runs the system may really stop: connections, writes, edits, commands and faults
are used up.

**Fairness, and why the code gives it.**
- Threads of the orchestrator: weak. HTTP calls have timeouts, SQLite a busy
  timeout, and no thread waits for another except at the guard, which returns.
- Loop and workers of the conversation: weak. Pollers: strong, because a poll
  needs the session lock, which the loop takes and lets go again and again, and a
  Go mutex does not starve a waiter.
- Relay: weak for each goroutine's step that the kernel or a closed file wakes;
  strong for `PingEnds`, because `<-done` is ready long before the next tick and
  select must choose it, and for `OutReadFails`: once no shell or job holds the
  terminal, what is left to read is finite, and the read fails after it. Nothing is assumed of the shell, nor of a client that
  stalls. A client that is gone sends no pongs, so the deadline passes.
- Page: timers fire, and a socket that has closed says so.
- Reviews: handlers and the watcher run. The debounce timer fires because agents
  do not write every half second for ever. Files and crashes are bounded.
- Mail: the Watcher's ticker fires, calls to Telegram return, and archiving does
  not fail for ever (faults are bounded): a directory that stays unwritable
  keeps its messages, and has them sent every two seconds. Nothing is assumed of agents, users or the number of seconds.
- `AnsiParser`, `AIModes` and `Daemon` have safety properties only and no
  fairness. The parser acts when it is fed; a question ends by its own timeout; a
  daemon may be killed at any step.

## 4. What is proved

Each `*Proofs` module proves theorems about its component for every value of
the constants. Together they state every invariant, action property and
refinement that a passing run checks; liveness is the rest. The assumptions are
the ASSUMEs of the models, which TLC evaluates in each run, and one hypothesis
that `WaitingTextIsShown` names. What the proofs use of them:

| Module | Assumes |
|---|---|
| `Orchestrator` | `ThreadsDistinct` (the update loop is one thread, and none is of two kinds), `NoneIsNoId` |
| `WorkspaceOnboarding` | `NoneIsNoId`, `PollsPositive` |
| `TerminalServer`, `TerminalClient` | `NoPidIsNoPid` |
| `Reviews` | `BoundsAreNumbers` |
| `AgentMail` | `BoundsAreNumbers` |
| `AnsiParser` | `ParserBounds`: the limits are numbers, a tab stop and a page are not empty, parameters are numbers or missing, wide characters are characters |
| `AIModes` | `ModeBounds`: the limits are numbers, a conversation may have a pair, and ollama is not a provider with keys |
| `Daemon` | `NoneIsNoDaemon` |

A bound is any number: the theorems hold for every number of polls, writes,
crashes or edits, which is what the bounds are there to cap.

| Theorem | Statement |
|---|---|
| **OrchestratorProofs** | |
| `TypeCorrect`, `Invariance` | `SafeSpec => []TypeOK`, `SafeSpec => []IInv` |
| `RecordsAreRight` | `SafeSpec => []CredentialsMatch` |
| `OneStartPerUser` | `SafeSpec => []SingleFlight` |
| `DataIsSafe` | `SafeSpec => []DataOutlivesMachine` |
| `RecordsAreKept` | `SafeSpec => RecordKept` |
| `Refinement` | `SafeSpec => ImplementsRegistry` |
| **WorkspaceOnboardingProofs** | |
| `OnboardingTypes` | `SafeSpec => []TypeOK` |
| `PromptsExpire` | `SafeSpec => []KeyHasDeadline` |
| `PolledLinksWork` | `SafeSpec => []PolledLinkIsWhole` |
| `DestroyNeedsConfirmation` | `SafeSpec => DestroyIsConfirmed` |
| `UsesTheRegistry` | `SafeSpec => Registry!Spec` |
| `StoresOwnMachine` | `SafeSpec => []GotOwn` |
| **TerminalProofs** | |
| `ServerTypes`, `SystemTypes` | `SafeSpec => []TypeOK`, `SystemSpec => []SystemTypeOK` |
| `NoShellOrphaned` | `SafeSpec => []NoOrphanShell` |
| `PidsStayApart`, `KillsOnlyItsOwn` | `SafeSpec => []PidsApart`, `SafeSpec => KillsOwnShell` |
| `PageIsAClient` | `SystemSpec => Spec` |
| `KeepsConnected` | `SystemSpec => KeepsGoodSocket` |
| **ReviewsProofs** | |
| `ReviewTypes` | `SafeSpec => []TypeOK` |
| `AuditCanBeTrusted` | `SafeSpec => []AuditAccounts` |
| `StampsAgree` | `SafeSpec => []StampAgrees` |
| **AgentMailProofs** | |
| `MailTypes` | `Spec => []TypeOK` |
| `RepliesAreRight` | `Spec => []ReplyNamesItsMessage` |
| `CopiesAreFew` | `Spec => []CopiesBounded` |
| **AnsiParserProofs** | |
| `ParserTypes` | `Spec => []TypeOK` |
| `RecentLinesStay` | `Spec => []KeepsRecentLines` |
| `ColoursRepaintNothing` | `Spec => NoRepaint` |
| `WaitingTextIsShown` | if `Wide = {}`, `Spec => ImplementsText` |
| **AIModesProofs** | |
| `ModeTypes` | `Spec => []TypeOK` |
| `OffStaysOff` | `Spec => []OffMeansOff` |
| `KeysStayApart` | `Spec => []KeyFitsBackend` |
| `ContextsAreWhole` | `Spec => []ContextIsOneTalk` |
| `LimitIsKept` | `Spec => []LimitHolds` |
| **DaemonProofs** | |
| `DaemonTypes` | `Spec => []TypeOK` |
| `FilesAreTrue` | `Spec => []FilesTellTheTruth` |
| `NothingIsLost` | `Spec => []NoSilentLoss` |

Every proof has the same shape. `IInv` is the inductive invariant; a lemma per
group of actions shows that a step keeps it (`StepIInv` or `Steps` combines
them), and the temporal theorem follows with PTL. What `IInv` adds to the
properties, and why:

**Orchestrator.** `DataOutlivesMachine` needs that a Destroy about to delete a
volume has seen the machine of its copy go (`LoopShape`) and that no other
machine mounts that volume (`VolumesApart`); `VolumesApart` needs that the volume
a provisioning thread has in hand is still mounted by none. `CredentialsMatch`
speaks of copies too, so it needs what each thread knows at each place
(`StartersShape`, `LoopShape`, `AdminsShape`) and that a created machine has its
owner, mount and token (`MachinesWhole`). `RecordKept` is about overwriting a row,
and rests on `SingleFlight` and on `CopiesCurrent`: a copy that differs from the
table names a machine that is gone, or the table does. `PersistStep` (what never
changes once it is set) carries most of the proof. `Refinement` maps each step to
a step of the registry or to a stutter.

**WorkspaceOnboarding.** A whole link needs `SessionWhole` (machine and token are
written under one hold of the lock), the confirmation needs `RequestOpen` (a
request can be confirmed only while its question is not closed), and
`UsesTheRegistry` needs what the registry knows of machines (`RegistryTypes`)
and of goroutines' results (`GotOwn`). With `Refinement` of the orchestrator it
closes the composition: what the conversation asks is allowed, and what it is
promised is kept.

**Terminal.** `KillsOwnShell` rests on `PidsApart`, zombies included, which is where
"no code waits for a shell" is used; `NoOrphanShell` is inductive once the sockets
before the relay are known to be open (`SocketsWhole`). `PageIsAClient` shows that
every step of page and server together is a server step with a client it allows,
so `NoOrphanShell` and the others carry over; the page's own invariant is
`PageShape` (which status goes with which state of the socket). For a whole
specification, fairness included, the theorem needs no ENABLED: `SystemSpec` has
the server's fairness as a conjunct.

**Reviews.** `AuditAccounts` counts entries, and is inductive only with what the
request in progress has already written: `AuditShape` says, for each stage, how
far intent, move and result are apart, entries lost included. `StampAgrees` needs `StampIsFresh`: between
stamp and rename a file may be taken away or replaced, but not stamped otherwise.

**AgentMail.** `ReplyNamesItsMessage` needs `Tracking` (what the tracker holds under
an id is the name of the message shown under it). `CopiesBounded` needs an
amortised count, `CopiesCounted`: copies seen, plus one while the present scan
still owes a copy (`Owed`), are at most 1 + crashes + lost answers + failed
archivings; these three are exactly what makes a copy owed again. The bound is
relative: nothing in the code limits how often archiving fails.

**AIModes.** `OffMeansOff` speaks of an /ai off whose write to the store
succeeded; `KeyFitsBackend` of what the row and the vault hold, not of where the
legacy route sends it. `OffMeansOff` needs both halves of `BothOff`, memory and row, because a
restart copies one to the other. `ContextIsOneTalk` needs `OneTalk` of the stored
conversation and that it expires a TTL after its last pair (`TalkInv`), and, for
the pair about to be added, that its question was asked in time (`QuestionInv`).
`LimitHolds` needs that what was sent was counted (`CountInv`).

**Daemon.** `NoSilentLoss` speaks of hooks that were answered OK, and under `calm`
of hooks that found no daemon; notify.Send returns nil to both.
`FilesTellTheTruth` is about settled states; `CalmInv` says what holds in
between: one daemon runs (`OneAtATime`), a command in progress is about that one,
and at each step of its start it owns what it has made (`OwnFiles`). `Removers`
says that each file has somebody who will remove it unless a daemon was cut off.

**AnsiParser.** `Narrow` (without wide characters the waiting text begins at a
column of the line) is what the refinement needs and what an emoji breaks; the
rest of `IInv` is types and `KeepsRecentLines`. The refinement's core is
`NextText` and `FlushedFacts`: the shown text with text waiting is the shown text
after `flushText`, so moving, erasing or ending the line first flushes and then
does what `TerminalText` does. `ColoursRepaintNothing` needs that merging runs of
equal styles changes no cell's look (`MergedFacts`, `SameLook`).

The hypothesis `Wide = {}` is no restriction of convenience: with a character of
two units the refinement is false, which `ansi_pairs` shows. In runs and theorems
alike it says "the parser is right on text outside the astral planes"; the other
three theorems about the parser hold for every `Wide`.

*Induction.* The library's induction theorems take an operator, which the provers
cannot instantiate. Where recursion over data matters (a fold over SGR parameters,
styles along a line, the least pair a conversation keeps) `LeastNumber` derives
the least-number principle from the well-foundedness of inclusion on finite sets,
which is stated over sets, and `ChainExists` and `ChainHolds` obtain from it that a
recursive function exists and has what each of its steps keeps. `AnsiParser`
therefore writes its two loops as functions (`SgrSteps`, `RunStyles`).

**Only model-checked**: liveness (`GuardReleased`, `ShellEndCloses`,
`GoneClientEndsShell`, `Retries`, `OffersTap`, `EventsAreHeard`, `ReachesEveryone`,
`OutboxDrains`), because the prover does not handle ENABLED, hence fairness. The
properties of the two violated runs are refuted, not proved.

## 5. Findings

Two places where the code does not do what it says of itself, each with a run
whose counterexample shows it; `PROJECT.json` quotes the lines.

1. `onboarding_inject`: the key is injected when it is pasted; if the workspace
   is not there yet it is never injected.
2. `ansi_pairs`: the parser reads a surrogate pair as one character, moves the
   cursor by one, and subtracts two when it writes; the text after an emoji
   overwrites half of it.

Other behaviour that the models reach and no property excludes (most of it a
hazard with a note):

- *Orchestrator*: Status drops the record on any 4xx, 401 and 429 too; a wait
  for a machine that times out is only logged.
- *Onboarding*: handleWorkspaceStart may overwrite a session that already has its
  result. /destroy asks for DESTROY "or anything else to cancel"
  (`workspace_onboarding.go:651`), but a command, a button, a rate-limited text
  or a reply to an agent's message does not cancel it.
- *Terminal*: the cleanup kills the shell's process group, which
  `websocket.go:93-96` says reaches the child processes; a job in a group of its
  own, as an interactive shell makes them, lives on. A shell that does not read
  keeps a closed connection; a job that holds the terminal keeps the connection of
  a shell that has ended; a ping that waits 10 s ends the pings; zombies use up process ids; requests in flight get no
  5 s at the end.
- *Reviews*: the audit entry that `review_commands.go:210` wants before any mutation
  may not be written at all, and the review is moved all the same; the buttons
  under an announced decision act on `reviews/pending`; the numbers of /reviews shift; a name that was announced is never announced
  again; a file between seeding and watching is not announced; an approved file
  replaces an earlier one of its name.
- *Agent messages*: a message caught half written is archived unsent; a second
  message in one second replaces the first; a message whose file cannot be moved is
  sent again at every scan.
- *AI modes*: /ai <backend> changes memory only, and the row's backend goes on
  answering; the legacy route may pair the row's key with memory's backend; a
  write of /ai off that fails is not reported, and the row stays on; a key that
  stays in a row switched to ollama is copied to the vault under ollama.
- *Daemon*: stop says "stopped" after 5 s though the daemon may answer for 60,
  and that daemon's late exit removes the next one's files; serve --fg takes the
  socket of a running daemon; a PID in other hands is signalled.
- *ANSI parser*: deleted and inserted cells change their look with the parser's
  style; a string or a character set designation cut between two chunks is read
  differently.

## 6. Left out, and why

- *Wording, Markdown, truncation, summaries, logging*: no property is about them.
- *Errors of the disk* in Reviews, other than lost entries of the audit log, and
  in AgentMail, other than failed archivings: a rename or stamp fails only
  because the file is not there.
- *Message ids*: Telegram's ids are taken to be distinct over the chats of the
  bot's users; the reply tracker's key is the id alone.
- *The polling fallback* of the review watcher, which runs only without inotify.
- *Midnight between a count and its request* in `AIModes`: both are of one step,
  so a question counted before midnight and sent after is sent on the day it was
  counted. Of a conversation's two limits `ContextIsOneTalk` checks that of pairs.
- *The store's reads* in `AIModes` fail only where the code goes on without
  them (SettingsBackend, Counted); elsewhere an error ends the handler with a
  message. Model names are left out: no property tells them apart.
- *The size of the page's numbers*: columns and parameters are small numbers;
  `Number` is parseInt with its default.
- *Invite codes, /newbot, /import, task queue, rate limits*: not modelled.
- *In-flight requests*: no handler starts one, so /stop and edits find none.
- *Output filter, AI clients, configuration, command runner,
  templates, scripts*: pure functions or input and output.

## 7. Plan

Done, in this order because the data and money of users are at stake first:
1. `WorkspaceRegistry`, `Orchestrator` and the proofs.
2. `WorkspaceOnboarding` over the registry.
3. `TerminalServer`, `TerminalClient`.
4. `Reviews`, `AgentMail`.
5. `TerminalText`, `AnsiParser`; `AIModes`; `Daemon`.

6. Theorems: every invariant, action property and refinement that a passing
   run checks (section 4).

Next:
1. `RateLimit` (`ratelimit.go`) against the bound over a window, with its proof.
2. `TaskQueue` (`taskqueue/`, `task_commands.go`): Move as read, check, write,
   remove; of little weight while only /cancel-task moves a task here.
3. `Forms`: /newbot, /import and invite codes beside the onboarding's maps.
4. `Startup` (`startup.sh`): what a new image keeps of the volume.
5. What the proofs leave: refinements beyond the three proved, such as a
   postbox that `AgentMail` implements; and a shorter second half of
   `AnsiParserProofs`.
