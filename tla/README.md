# A TLA+ verification of hunch

hunch learns which command usually follows which from what is run in a shell, and
offers the next one as ghost text. A background daemon keeps what was learned;
a zsh script records every command and asks for suggestions while a line is
edited. This directory holds TLA+ models of the daemon, of the processes around
it, of the shell's editor integration, of what can be recalled from what was
recorded, of how a command becomes a template, of the replay that measures the
predictions, and of the commands that install, update and remove the program; TLC
configurations that check them; and TLAPS proofs.

## The system

| component | state | operations | speaks to |
|---|---|---|---|
| daemon (`src/daemon/daemon.go`, `handlers.go`) | graph and predictor (atomic pointers), raw examples, dirty counter, a flush channel of one slot, `flushMu` | one goroutine per connection (`record`, `record_raws`, `import`, `reset`, read-only requests), `flushLoop`, `decayLoop`, `start`, `stop` | shared memory, SQLite |
| SQLite store (`store.go`) | transitions, cwd histogram, raw examples | load, save, prune, clear, save raws | the daemon, under `flushMu` |
| graph (`core/graph`) | counts per (context, next) | `RecordObs`, `Merge`, `Decay`, `All`, `Transitions`, `BackoffStates` | called by daemon, import and eval |
| raw store (`rawstore.go`) | concrete commands per (context, template) | record, merge, hydrate, drop | called by handlers, flush and decay |
| prediction (`core/predict`, `predictFallback`) | none of its own | the ladder of contexts, scores, filters, hydration | reads graph and raw store |
| process life (`daemon.go`, `osutil*.go`, `cli/daemon*.go`) | lock file and flock, pid file, socket file | run, start, stop, stale-lock recovery, update's restart, reset without a daemon | the file system, signals |
| zsh integration (`integrations/zsh/hunch.zsh`) | ghost text, cached candidates, the window of two commands, the co-process | widgets, hooks, the handler of answers | zle, `hunch client serve` over pipes, `hunch client record` in the background |
| client and import (`cli/client.go`, `import_history.go`) | none | one request per command; `serve` answers line by line; the import sends two requests | the daemon's socket |
| normalization (`core/normalize`, `ipc/runnable.go`) | none | unwrap, classify, collapse, split into segments, extract arguments, display | called wherever a command or a prefix arrives |
| evaluation (`core/eval`) | a graph, frequencies, counts of hits | replay a history: predict each command, then learn it | the graph, a copy of the ladder |
| `init`, `daemon start`, `uninstall`, `update`, `doctor` (`cli/`) | `.zshrc`, `hunch.zsh`, `config.toml`, the executable | append and strip lines, write the script, download, verify, replace, restart | the file system, GitHub, the daemon, a user with an editor |
| redaction, scoring, why, stats, export, config, IPC encoding | none that outlives a call | pure functions, printing | |

What is hard about it: goroutines that share five pieces of state under four
different kinds of protection (two mutexes, atomics, `flushMu`, none); a counter
that stands for "something is not saved yet" while saves, resets and imports
replace what it counts; crashes at any point between memory and disk; several
processes that find each other through files which a crash leaves behind; an
asynchronous pipe whose answers arrive after the line has changed; contexts
that are generalized when recorded and again when queried, in different places;
templates that are compared with templates of unfinished lines; and files of the
user's that several commands read, change and write back.

The properties that make it correct:

- daemon: what is acknowledged is in memory and on its way to disk; nothing that
  was forgotten comes back; predictions read what is recorded; requests end.
- processes: one daemon per data directory; the files name it; nobody is locked
  out by what a crash left; a stop stops and a restart leaves a daemon.
- recall: what is recorded is found again by a query that deserves it, at the
  specific and at the general rungs; counts are observations; what is offered
  can be run.
- shell: the ghost text belongs to the line; the accept key inserts what is
  seen; other plugins are left alone; each line is answered.
- normalization: wrappers do not matter, segments do not mix, what is shown can be
  run, and what a template forgets is what is carried over as arguments.
- evaluation: no command is predicted from itself or later ones; rates compare.
- installation: the user's lines survive, the script is sourced once, the executable
  is a whole release, and a command that ends has done what it is for.

The hazards in `PROJECT.json` list, line by line, where each can go wrong.

## The modules

| module | what it is |
|---|---|
| `WriteBack` | abstract: memory and disk as a write-back cache that learns, saves, forgets and crashes |
| `Daemon` | the goroutines of one daemon over memory and database |
| `DaemonProperties` | its invariants, the refinement mapping to `WriteBack`, fairness and liveness |
| `DaemonProofs` | its theorems |
| `Ownership` | abstract: one daemon at a time owns the data directory and the files that lead to it |
| `Lifecycle`, `LifecycleProperties`, `LifecycleProofs` | daemon processes and commands on one data directory |
| `Contexts` | the contexts a command is learned under and those a query climbs through; used by the next two |
| `Recall`, `RecallProperties`, `RecallProofs` | records, imports, and what a query gets back |
| `Replay`, `ReplayProperties`, `ReplayProofs` | the replay of `hunch eval` |
| `Normalize`, `NormalizeProperties`, `NormalizeProofs` | from a command line to its template and its arguments |
| `Shell`, `ShellProperties`, `ShellProofs` | the line editor of one shell and its co-process |
| `Install`, `InstallProperties` | init, start, uninstall and update beside a user and releases |
| `InstallProofs` | its theorems: places and the executable; `.zshrc` and what commands deliver |
| `Picks`, `PicksFacts` | the elements of a sequence that a loop keeps; lemmas about them and about induction, used by the proofs of `Shell`, `Install`, `Replay`, `Recall` and `Normalize` |
| `MCDaemon`, `MCLifecycle`, `MCRecall`, `MCReplay`, `MCNormalize`, `MCShell`, `MCInstall` | small instances for TLC |

The models meet at narrow interfaces and are checked apart: `Daemon` is one
process of `Lifecycle` between `boot` and `exit`; `Recall`'s records, imports and
resets are single steps because `Daemon` looks inside them; `Shell` lets any
answer come back because `Recall` says which do; `Recall` and `Replay` are given
templates because `Normalize` says what they are; `Install` starts and stops the
daemon in one step because `Lifecycle` looks inside.

### Daemon

A step is what a goroutine does between two accesses to shared state. `pc[p]` is
where goroutine p is; connection handlers are `Conns`, and `Boot`, `Stop`,
`Loop`, `Sweep` are `start()`, `stop()`, `flushLoop` and `decayLoop`. `flush()`
and `decay()` are called from several of them, so their actions take the caller
as a parameter and return to where it was. The graph pointer and the predictor
pointer are separate (`g`, `pred`) and graph objects have identities (`heap`): a
handler keeps the one it loaded (`hg`) while a reset replaces it. An entry is its
count; `old` are the entries Decay would prune. `Faults` are database operations
that may fail. A crash (`Vanish`) empties memory at any step; the database stays.
`residue` (history) are rows whose deletion failed.

### Lifecycle

A step is one system call: open, flock, read, check a pid, unlink, truncate,
write, listen, close. A lock file is an inode, so that an unlinked one can still
be locked; the kernel drops a dead process's flock and leaves its files. One
command (`stop`, `update`'s stop and start, `reset`) runs beside the daemons.
A pid may be given out again.

`Ownership` is what this promises, one level up: a process is out, starting, serving or
stopping (`Phase` of its `pc`), and the promise ends with the first recovery. That there
is one owner at a time (`LockExcludes`) is the guard of its `Take`.

### Recall

`Run` is a command and the prompt after it, which sends a record request in the
background (`sent`); `Deliver` is `handleRecord`, `Lose` a daemon that is down.
`ImportSeed` and `ImportRaws` are the two requests of `import-history`, which may
die in between. Graph and raw examples are bags; requests are numbered by the
commands run, so that two alike are two. A query changes nothing and is an
operator: `Ladder` the contexts in order, `Candidates` with `min_count`,
`Answering` the rungs that may answer (scores are not modelled, so any rung but
the first may fall short of `min_confidence`), `Suppress`, `Hydrate` and
`DisplayCommand` in the code's order. The typed prefix, the limit and decay are
left out, and commands are those the redactor lets through. The history file
takes every command as it is run.

### Replay

`Replay(cmd)` is one round of `eval.Run`'s loop: `Predicted` asks the model and the
baseline and counts, `Remember` learns. `Learned` adds what `BackoffStates` says,
as the daemon's handler does, and once more the last command alone, as only `Run`
does. Scores are nondeterministic: any of the commands known after a context may
come first, and any rung but the first may fall short of the confidence. `past` is
the history, from which the properties say what graph and counts ought to be.

### Normalize

The state is the line as it is typed, word by word; the functions of
`core/normalize` are operators on it, and every invariant is evaluated on every
line. A word is a value with the attributes the code reads off its characters
(flag, assignment, operator, the shape that the regular expressions give it, which
words begin with which); `Wrappers` has a record per entry of `wrapperConfigs`
with the fields that `findInnerCommand` reads. Loops over tokens are recursive
functions or the first index with a property.

### Install

A step is one access to a file or to the network, by any of `Procs`, each running
`init --auto`, `daemon start`, `uninstall` or `update`; between them the user edits
`.zshrc`, releases are published, and processes die. `.zshrc` is a sequence of lines:
the user's own, the four of hunch's block, and a source line that is commented out.
What the code writes in place (`os.WriteFile`) is a truncation and a write, by a handle
that follows its file through a rename (`at`); what it writes aside is renamed.
`windows` chooses between the two ways of replacing the executable. `mine`
and `excuses` are history: the user's own lines as the user left them, and what has
happened for which the code promises nothing: two commands at once (`together`), three
(`crowd`), an uninstall beside another command (`removing`) or dead on its way (`half`,
`torn`), a process that dies while it writes beside another that edits (`stub`), an edit
between a command's read and its write (`edited`), a block that has lost its end (`unclosed`).

### Shell

A step is a widget with the redraw that zle runs after it, the response handler,
or a step of the co-process. Lines are short sequences of characters, because
the ghost text is about extending them. `asked`, `origin`, `missed` and `took` are
history: the number of the latest query, the query the candidates answer, whether
the latest answer was given up, and the suggestion taken with a key.

## The runs

| run | question | bounds |
|---|---|---|
| `daemon_safety` | can any interleaving with faults, resets and a restart break `flushMu`, resurrect rows, or split predictor and graph; is it a `WriteBack`? | 2 connections, 2 records, 2 resets, 2 lives, every fault |
| `daemon_schedule` | can a record escape the bookkeeping of unsaved work? | 2 connections, a transition and its generalization, threshold 2, a stop |
| `daemon_live` | is every request answered, everything saved? | 1 connection, 2 records, an import, a reset |
| `lifecycle` | one daemon, findable, startable, stoppable; is it an `Ownership`? | 2 processes, 3 lock inodes, 3 starts, a crash, a command |
| `recall` | are routines recalled, fallbacks reachable, suggestions runnable, counts true? | 4 commands out of 3, an import, 2 of: new shell, lost request, reset |
| `shell` | does the ghost text settle, and is every line answered? | 2 characters, lines of 2, 3 keys, a fault |
| `replay` | is each command predicted from earlier ones only, and do the numbers compare? | histories of 5 commands out of 3, in 2 directories or none |
| `normalize` | what may a template forget, and does a suggestion outlive each typed word? | all lines of up to 5 of 14 words, 5 wrappers |
| `install` | whose lines, script and executable survive which overlaps and crashes? | 2 processes, 3 commands, 2 edits, a crash, 2 releases |
| `daemon_race`, `two_daemons`, `restart` | three statements of the documentation that the code does not keep | small |

Why the bounds are enough: the daemon's hazards are between two handlers, or a
handler and a background goroutine, over one transition (`k2` is only needed where
a record's loop is interrupted); a record is interrupted by at most two resets,
and a third graph object already behaves like the second. Two processes contend
for a lock, and a third start reuses a pid. `min_count` is 2, so four commands
make a habit in a context and ask for it. Three keys type, correct and accept;
answers to two lines are then in the pipe. `MCRecall` has a command with a comma,
one that changes the directory, and one that is its own template; its history file
holds an old habit. A replay learns for four commands what the fifth is asked
about, twice what `MinCount` needs. Five words are a wrapper, a flag with its value, a
command and an argument, or two segments of two words. Three commands are one that
dies, one that meets what it left, and one beside; two edits are a line added and a line
broken. Counters of requests, faults and keys are bounded by guards
over the constants named `Max...`. `CHECK_DEADLOCK FALSE` is set because these
bounded systems come to rest: everything allowed has been done, nobody types.

Each property of a passing run has a mutant in `PROJECT.json`: an operator
`Bad...` (`Lossy...`) beside the definition it replaces, which breaks the property.

### What the code does not keep

The three violation runs, with the text they contradict, and the disagreements that
have no run of their own are under `findings`. The heaviest: a reset can
make a later record unsaveable (`daemon_race`); a stale-lock recovery can remove a
live daemon's lock (`two_daemons`); an update can leave no daemon (`restart`); the
filter against `cd` to the current directory never removes anything; a record keeps
the directory after a `cd`; a suggestion taken with a key is never counted as
accepted; a fallback's suggestion vanishes while its wrapper or its last word is
typed; `hunch eval` counts single-command contexts twice, and cuts before it filters,
where the daemon does neither; and uninstall leaves the log and the lock file.

Four more statements of the documentation are definitions no run checks, and TLC
refutes each within seconds when it is added to the invariants of the
configuration named: `ServesItsDatabase` (`MCLifecycle.cfg`; the reset without a
daemon), `GhostExtends` (`MCShell.cfg`; the ghost text of the shorter buffer),
`NeverSuggestsCurrentDir` (`MCRecall.cfg`) and `SurvivesTyping` (`MCNormalize.cfg`).

The disagreements shape the properties that do hold. `ImplementsOwnership` and
`FilesNameDaemon` say what holds until a recovery has removed a lock file.
`UnsavedIsTracked` passes without overlapping resets. `PredictorServesGraph` passes
without an import beside a reset. `RecallsRoutine` excepts `cd` and commands with a
comma, `Runnable` the first command of a session and a half-done import.
`GraphIsThePast` has the doubled count in it. `ArgumentsAreShapes` is about lines of one
segment, `WordsKeepSuggestion` about whole words after the wrappers.
`CommandsDeliver` lets `init` be content with a commented-out line, and speaks of the
database only; `UserLinesSurvive` names what may cost the user lines.

### Fairness

- `Daemon`: strong fairness per goroutine. The Go scheduler runs every runnable
  goroutine, a ready `select` case is eventually chosen, and `sync.Mutex` hands
  itself to a waiter after 1 ms (starvation mode), so `flushMu` is not denied for
  ever. Nothing is assumed of clients, signals, crashes or the daily decay.
- `Lifecycle`: weak fairness of each process that is starting or stopping.
- `Shell`: weak fairness of the co-process, of zle's handler and of the prompt
  after a command. Nothing is assumed of keys: the handler may always find keys
  queued and discard an answer, which the properties name as an exception.

## The proofs

All theorems hold for every value of the constants that satisfies the named
assumptions (`LifecycleAssumption`, `DaemonAssumption`, `InstallAssumption`,
`ShellAssumption`, `ReplayAssumption`, `ContextsAssumption`, `RecallAssumption`,
`NormalizeAssumption`), which give types, keep distinguished values apart and say that eval's
depths grow, that a suggestion is not empty, that a command without a comma is its own only
piece, that `--` and the short flags are flags, and that no wrapper's name has an equals sign.

`LifecycleProofs`: the inductive invariant `IInv` adds to the types that a flock
has one holder per inode and only a running daemon has one (`FlockOK`), and that
until a recovery everyone past opening the lock file has the inode at `lockPath`
open and everyone running holds it (`LockInv`). `LockExcludes` is not inductive
alone: two daemons could hold two different inodes. `LockExcludesTheorem` and
`FilesNameDaemonTheorem` follow. `NotLockedOutTheorem` is the safety half of `StartsAlone`: a process
that is alone is not told that the lock is taken, and until a recovery one that has it
does not fail. `OwnershipTheorem` is the refinement, step by step: `OwnStarting`,
`OwnStopping` and `OwnCommand` name the step of `Ownership` for each system call. It needs
what happens around the hand-over: the socket is gone from `listener.Close` on and before
`net.Listen` (`SockFree`), and the pid file before `Unlock` (`PidGone`).

`DaemonProofs`: `TypeOK`, one lemma per group of actions, with `PlaceOK` (each
goroutine is inside its own function) used as the case distinction later. Then
`MutexOK`, from types alone. Then `IInv` with two more
parts: `DownOK`, a dead process has no memory and no goroutines; and `SnapshotOK`,
the snapshot a flush is about to save holds no more than the graph and no less
than the rows it replaces. Without the second, `StoreBehindGraph` is not
inductive: a flush could write anything. It is preserved because nothing but the
holder of `flushMu` removes entries or writes rows, and records only add.
Every action is shown to be a `WriteBack` step or a stutter (`CacheStep`), from
which `StoreBehindGraphTheorem` and `Refinement` follow, and `DurabilityTheorem`: a count in the
database goes down only where a reset or decay that is running deletes it or where an
earlier deletion failed, and a daemon that starts has all of it.

Its last part is about two properties that hold only where resets stay away, and the
theorems say so. `PredictorTheorem` assumes `MaxResets = 0 \/ MaxImports = 0`: then
no handler is ever inside one of the two (`ResetFree`, `ImportFree`), so that an
import about to store a predictor has loaded the graph that is still current
(`ServedInv`). `TrackingTheorem` assumes no resets and that saving transitions does not
fail. `UnsavedIsTracked` is not inductive: a decay deletes a row whose entry a
record has just brought back, and only after that the row is missing. `TrackedInv`
therefore counts a row that is due for deletion, or whose deletion failed, as missing
already (`Pending`).

`StopTheorem` is about the last thing a daemon does. It is not true of every stop: connections
that are being handled go on after the listener is closed, and what they record after the
final flush's snapshot is lost. The theorem says exactly what is needed: that no request is
under way at that moment, and that the stop's own flush succeeds (`OrderlyStop`, a condition on
three steps; other flushes may fail and resets may have happened). Then the database that is
closed has all of the graph and every raw example. `FinalInv` is why: with the listener closed
nothing adds any more, so a snapshot taken since is all there is; only the loop's flush and the
daily decay are left beside the stop, and what the decay deletes has left the graph before.

`PicksFacts`: what a loop that keeps some elements of a sequence gives (`Picked`, `Only`),
for every sequence: which elements, in which order, and how that goes over appending,
removing and replacing. The library's induction theorems take an operator and cannot be
instantiated, but induction over a set can be stated (`NatInduct`, `SeqInduct`, from the
well-ordering of the numbers), and so can the existence of a recursive function.
`SelectSeq` is opaque to the provers, so the models use `Picked` where proofs need it.

`InstallProofs`: `ExecutableIsRelease` needs three strengthenings. `FetchedOK`: what is
about to be put in place has been compared with a digest, so it is a release.
`AloneOK`: until two commands overlap, at most one process is under way, and outside
its swap the executable is there. `MissingOK`: only Windows swaps, and what is missing was
moved aside. No bound is used: any number of processes, crashes and releases. `Placed`
says what files hold and that each process is at a place of its own command.

The other four properties of `Install` have each an invariant of their own.

- `UserLinesSurvive`: `LinesInv` says where the user's lines are when they are not in
  `.zshrc`: in the text of the process that writes them (`Carries`). That removing blocks keeps
  them needs that no line of the user's stands inside one (`Outside`), which an edit
  that adds lines at the end of a file with an open block would break: hence `unclosed`.
- `SourcesScriptOnce`, first part: `MarksInv`. Two inits that overlap have read the same `.zshrc`,
  or the second has read what the first has made of it. In the first case both write the same
  text to the same `.zshrc.tmp`, and after one has renamed it the other writes over `.zshrc`
  itself. Who is going to rename `.zshrc.tmp` finds a source line in it, or no file, or
  another who is about to write one (`TmpPromising`).
- `CommandsDeliver`: `AloneInv`, what a command has done when it has come to a place (`SoFar`),
  while nobody interferes; and `Downloading`, whose download may lie beside the executable.
- `SourcesScriptOnce`, second part: `PresentInv`, from `AloneInv`: only the uninstall that is on
  its way has removed a script that is still sourced.

`ShellProofs`: the four safety properties of `Shell`, for any characters, any answers and however
much is typed. `GhostSettles` says nothing until the pipes are empty, so its invariant has to
say where the answer to the line is until then (`AnswerAhead`): the latest query, or its
answer, is the last thing in the pipes, and is about this buffer (`AskedAbout`), or its
answer is on the screen. `AcceptedFits` is the state after an accept key, which asks nothing.
`KeptTheorem` states that for itself: `AnswerArrives` then needs only that the co-process serves
and zle runs the handler, no query is ever lost on the way (`QueryKept`).
`ForeignKept` and `AcceptsWhatIsShown` follow from `IInv`, step by step.

`ReplayProofs`: the five properties of `Replay`, for every history, whatever the
model answers. `TypeOK` needs only that learning adds to a bag (`GraphInv`). `Rates` is kept by every `Score` (`ScoreKeeps`: a rank that counts at
one depth counts at every deeper one, and none counts when nothing was offered), and the
sets of places that the properties count grow by one per command (`PlacesGrow`).
`EarnedTheorem` needs to know where the graph comes from (`FromPast`): what it knows
was learned after the command its context ends in, and a query asks for contexts that
end in the last command, or for the empty one, which is never learned (`LadderEnds`,
`OffersKnown`). `PastTheorem` counts: the replay's window is the end of the history
(`PastInv`), learning a command adds to the contexts of that window what replaying it
adds to their places (`LearnedCounts`, `OccurrencesGrow`), and to nothing else
(`LearnedKeys`).

`RecallProofs`: the six properties of `Recall`, for any commands, shells and history files.
What a step does to the counts is said once (`CountSteps`), from what a record adds
(`RecordAdds`: once under each state of `BackoffStates`) and an import (`ImportAdds`: as often as
the file has it). Then four invariants.

- `KnowMore` is the property for every context, not only those in the graph. Records and imports
  keep it for different reasons: both add to the generalization whatever they add to the context,
  but they agree on what that is only without commas, and because every command in a shell's
  window is in the file (`Logged`).
- `CountsAreObservations` is not inductive: a record under way will be counted once more.
  `CountsOwed` adds what is under way to what is counted; an import that takes the count from the
  file moves it to the other side.
- `LearnedKnown`: a context counts at least what was recorded under it since the last reset.
  `RecallsRoutine` and `FallbackReaches` follow, because the first rung of a query is the context
  of such a record and one of the last is its newest command (`LadderIs`).
- `Findable`: for what the graph knows there is a raw example under the part of the context that
  is also a part of any history that climbs to it (`Bare`), or one is still to be sent, or, if the
  import has died, the next import reads the command from the file again.

`NormalizeProofs`: the six properties of `Normalize`, for every vocabulary, table of wrappers
and line. The state is only the line, so the invariant is its type and the work is in lemmas
about the functions, by induction over places in the line.

- Concatenation: `FlattenSeq` over appending, splitting and dropping an empty piece
  (`FlattenSplit`, `FlattenDrop`). `LineDivides` is `SegmentsIndependent` for any sequence of words: an
  operator shields the parts on both sides (`LinePartShift`).
- Templates: which piece a word leaves depends on it, the word before and the first
  (`PieceAgrees`). Hence a template begins with the templates of what the line begins
  with (`TemplateMonotone`, for `WordsKeepSuggestion`); one without placeholders has every word
  (`TemplateVerbatim`, for `ShownVerbatim`); and a word can be exchanged or left out beside its
  equal exactly where it is not kept verbatim (`ExchangeKeeps`, `TemplateDouble`).
- Wrappers: where the command begins does not depend on what follows its first word
  (`FindInnerStable` up to `UnwrapStable`, over lines that are `Alike`), which
  `ArgumentsAreShapes` needs, because an exchanged word could otherwise move the command.
  `InvocationFinds` meets the loop of `findInnerCommand` with the grammar in `Invocation`: at each
  of the wrapper's own words the loop has skipped as many positional arguments as stand before
  it (`BelowCounts`), and it never stands on a flag's value. `FlockFinds` does so for flock.

Proving corrected the models in five places. The counterexamples to the first attempts at
`LinesInv` and `MarksInv` were behaviours beyond the bounds of `install`: a block that
opens inside a block has no end of its own (`Unclosed`); a user does not bring back a
source line after the script is gone; and a third init, or the successor of one that died
while it wrote, can leave two source lines (`crowd` and `stub`, both beyond the three
commands of the run). A loop with a filter became `Picked`. `WrapperTransparent` called a word
like `--user=x` an assignment, which the code takes for a flag.

Only model-checked: the liveness properties (`RequestsAnswered`, `EventuallySaved`,
`AnswerArrives`, `StartsAlone`, `TermStops`: fairness and `ENABLED` are out of the
prover's reach; safety that the first four rest on is proved in `MutexTheorem`,
`TrackingTheorem`, `KeptTheorem` and `NotLockedOutTheorem`), and that each run's mutants break
its properties. Every invariant and every safety property of the passing runs is a theorem;
two of them under the hypotheses named above (`PredictorTheorem`, `TrackingTheorem`), because
without them the code does not keep them. Conversely `StopSaves` and `QueryKept` are proved and
belong to no run. No module declares a RECURSIVE operator.

## Not modelled

Scoring (floating-point decay) and the recency of raw examples; splitting a line into
words, the regular expressions behind a word's shape, redaction and JSON quoting
(character-level functions of one call); SQL text and migration; `why`, `stats`,
`export` and `doctor`'s other checks (read-only); settings; terminal output; and
the Windows shims for locks and signals, whose file semantics differ (an open lock
file cannot be unlinked). Of `Install`, the import that `init` offers at its end is in
`Recall`.

## Plan

Order of the work: `WriteBack` and `Daemon` first, since losing or resurrecting
what was learned is the worst the program can do; `Lifecycle`; `Recall`; `Shell`;
then `Normalize`, `Replay` and `Install`; each with its runs, then its proofs. Open:

1. `Recall`: decay by age (entries pruned under one context and not another), two
   shells writing one history file.
2. `Shell`: the fallback to another plugin's widget, and an outcome per record.
3. `Daemon`: the order of raw examples against transitions in both tables.
