# A verification of Elvish in TLA+

Elvish is a shell: a language whose commands run in pipelines that carry bytes and
values, an interactive line editor, and a daemon that stores the history all sessions
share. Two things in it are hard to test. Goroutines, processes and sessions meet in the
event loop, the prompt, pipelines and the daemon. And much of the rest is algorithms on
trees and text where a rare combination of ordinary inputs goes wrong: resolving
variables, undoing temporary assignments, sharing nodes between versions, escaping,
wrapping, sending only the difference to the screen. This directory models both kinds,
checks them with TLC on small instances, and proves the central facts about the event loop,
the prompt, the highlighter, pipelines, redirections, `peach`, the daemon, remote calls and the
history with TLAPS for any size.

`PROJECT.json` is the index: components, runs, mutants, the source lines of every
definition, findings, hazards and theorems. Paths below are relative to `src/`.

## 1. Inventory

### The line editor (`pkg/cli/loop.go`, `pkg/cli/app.go`, `pkg/cli/tty.go`)

*State.* `loop`: the channels `inputCh` (capacity 128), `redrawCh` (1) and `returnCh`
(1), the flag `redrawFull`. `app`: the notes in `State.Notes`, the channel `reqRead`
(1), made by each call of `ReadCode`. The goroutines of one `ReadCode`: the one that
reads the terminal, the one that relays signals, and one for each source of late updates
(prompt, rprompt, highlighter).

*Operations.* `ReadCode`, `Run`, `Redraw`, `Input`, `Return`, `HasReturned`, `handle`,
`Notify`, `CommitCode`, `CommitEOF`, and the teardown when `ReadCode` returns.

*Interaction.* Every other part talks to the loop only through its channels, from its
own goroutine; a builtin such as `edit:redraw`, `edit:notify` or `edit:return-line` may be
called from any goroutine at any time. The channels survive a `ReadCode`, so what one
session leaves behind the next one finds.

*Hard.* Flags and channels set by others between two steps of the loop; teardown that
waits for goroutines which may be blocked; a handler that sends on a channel only it
causes to be emptied.

*Correct when* no redraw and no note is forgotten, a return ends the loop, the loop does
not block in a handler, and a session ends all its goroutines.

### The asynchronous prompt (`pkg/cli/prompt/prompt.go`)

*State.* `updateReq` and `ch` (capacity 1), `last`, `lastWd`, a goroutine for the life of
the editor and one per computation. *Operations.* `Trigger`, `Get`, `LateUpdates`, `loop`.
*Hard.* A computation that takes longer than the threshold; requests that come meanwhile;
a notification nobody receives because no `ReadCode` is active; `lastWd`, which decides
whether a trigger does anything. *Correct when* requests and notifications are not lost
and the prompt ends up showing the current directory.

### The highlighter (`pkg/edit/highlight/highlighter.go`, `highlight.go`)

*State.* The cache (code, styled text, errors), its mutex, the channel of late results.
*Operations.* `Get`, `InvalidateCache`, `LateUpdates`, the goroutine of a late result.
*Hard.* A result that arrives after the code has changed, has changed back, or the cache
was invalidated; a send on a full channel. *Correct when* what is shown was made from the
code it is shown for, `Get` never hangs, and an improved text is announced.

### Chunks, pipelines and ports (`pkg/eval/compile_effect.go`, `port.go`, `external_cmd.go`, `exception.go`)

*State.* For each pipe between two forms: the byte pipe, the value channel, and the back
channel `sendStop`, `sendError`, `readerGone` by which the reader says that it has gone.
For each form the exception it threw; for the chunk the position and the background jobs.
*Operations.* `chunkOp.exec`, `pipelineOp.exec`, the end of a form (record, tell the
writer, close), `Put` and `Write` of the outputs, reading, waiting for a process.
*Hard.* Forms end in any order; a reader that ends before its writer must not make the
pipeline fail; the order in which a form tells that it has gone; a failing `os.Pipe` half
way through; interrupts. *Correct when* a pipeline ends when its forms have ended, reports
exactly the exceptions the forms threw on their own account, and a writer without a
reader stops.

### Captures and builtins that read their input (`pkg/eval/port.go`, `frame.go`, `builtin_fn_stream.go`, `builtin_fn_io.go`)

*State.* The value channel and the byte pipe of a port, the two goroutines that empty them, what
they have collected, and the output of the builtin itself. *Operations.* `CapturePort`,
`ValueCapturePort`, `StringCapturePort`, `FilePort`, `IterateInputs` with the builtins that use it, `only-bytes`,
`only-values`, `from-lines`, `slurp`, `read-line`. *Hard.* The two bands come in any order and end separately;
either may be full; the reader of the output may go; a background job may outlive the capture in
which it was started. *Correct when* each band is delivered in order and to the end, and both sides end.

### Redirections (`redirOp.exec`, `formOwnedPort` in `pkg/eval/compile_effect.go`)

*State.* The ports of the form and which of their parts it must close. *Hard.* Sequences
of redirections, duplicated and closed ports, failures in the middle; the back channel
lives in the port that a redirection replaces. *Correct when* everything the form opened or
was given is closed exactly once and nothing else is.

### peach (`pkg/eval/builtin_fn_flow.go`)

*State.* A weighted semaphore, an atomic flag `broken`, an error under a mutex, a wait
group. *Hard.* Break and exceptions racing with the start of the next call; interrupts.
*Correct when* no more functions run than asked for, no exception is lost, and it returns.

### The daemon (`pkg/daemon/activate.go`, `server.go`, `client.go`)

*State.* Shared by all processes: the socket file and the lock of the database. In a
daemon: accepted connections and those being served, signals. In a shell: its connection
and the state of `Activate`. *Operations.* `Activate` (`detectDaemon`, `killDaemon`,
spawning, waiting), `Serve`, `client.call` with its reconnections. *Hard.* Several shells
start at once, a daemon ends or crashes at any time, a daemon of an older version is
replaced, time limits expire, a retried call reaches another daemon. *Correct when* a shell
is never connected to a daemon of the wrong version, activation ends, the daemon ends with
the last shell, and a shell can always recover.

### Command history (`pkg/store/cmd.go`, `pkg/cli/histutil`, `pkg/edit/hist_store.go`, `pkg/cli/modes/histwalk.go`)

*State.* The table of commands in the database; in a session the bound `upper` fixed when
the store was made, the session's own commands, the cursor, and the stack of the cursor
that leaves out duplicates. *Operations.* `AddCmd`, `DelCmd`, `PrevCmd`, `NextCmd`,
`FastForward`, the three cursors, `NewHistwalk`, `Prev`, `Next`, `Accept`. *Hard.* Other
sessions change the table between two calls; a call fails; moving over the border of the
two parts and over the ends. *Correct when* the cursor moves along a list to which
nothing is added, and walking shows each command once, newest first.

### Remote calls (`pkg/rpc`, `pkg/daemon/client.go`)

*State.* A client: `seq`, the pending calls, `closing` and `shutdown`, under two mutexes; the
goroutine that reads responses. A server: a goroutine per request and a list of free `Request`
objects. The daemon client: `rpcClient`, without a lock. *Operations.* `Go`, `send`, `input`,
`Close`; `ServeCodec`, `readRequest`, `service.call`, `sendResponse`; `client.call` with its
retries. *Hard.* The connection breaks before, while or after a request is written or answered;
responses come in any order; a request must not be carried out twice. *Correct when* each call
gets its own answer once, is executed at most once, and returns.

### The language (`pkg/eval`: `compiler.go`, `builtin_special.go`, `compile_*.go`, `closure.go`, `ns.go`, `var_ref.go`, `frame.go`, `eval.go`)

*State.* At compile time the scopes with their slots and captured variables; at run time
namespaces, the variables their slots refer to, deferred functions, loaded modules, and the
environment. *Operations.* Every special command, commands and closures with arguments and
options, captures, `eval`, `use`. *Hard.* A name is resolved to a slot when a chunk is
compiled and the slot is filled when it runs: shadowing, deleting, loops, recursion and code
that other chunks compiled lie in between; exceptions and flow control leave a function in the
middle, when deferred functions and restoring assignments still have to run; modules use
each other. *Correct when* a use of a variable reaches the variable that is lexically in
force, temporary assignments are undone on every way out, and a module that is loaded has run.

### The parser (`pkg/parse`)

*State.* Position, how often the end was overrun, the errors, the node being made. *Operations.*
One parse function per kind of node, for code and for filters; `Quote` and its variants.
*Hard.* Nested contexts in which a character ends a word or does not; errors in the middle;
an error at the end of the text is "partial" and makes the editor ask for another line.
*Correct when* the nodes tile the text, an error that is not partial stays one, and what is
quoted is parsed back.

### Values and persistent data (`pkg/eval/vals`, `builtin_fn_num.go`, `builtin_fn_container.go`, `builtin_fn_stream.go`, `pkg/persistent`)

*State.* Maps and vectors are trees whose nodes versions share. *Operations.* `Assoc`, `Dissoc`,
`Conj`, `Pop`, `SubVector`, iterators; arithmetic on int, big integers, rationals and floats,
`compare`, `order`, `compact`, indexing and slicing, `assoc`, `take`, `drop`. *Hard.* Bitmap
nodes that grow to arrays and shrink back, hash collisions, tails that overflow into the tree,
slices of vectors; the border of int; negative and open indices. *Correct when* no operation
changes another version, arithmetic is exact, `order` yields an order, and every way to index
agrees with the others.

### Options (`pkg/getopt`, `pkg/mods/flag/flag.go`, `pkg/edit/complete_getopt.go`)

*Operations.* `Parse` and `Complete` with the flags for `--`, for options after arguments and for long options
only; `flag:parse-getopt` and `edit:complete-getopt`. *Hard.* Chains of short options, arguments that are
joined, separate, optional or missing, and a last argument that is not finished. *Correct when* the options written
out again are parsed to the same, and completion takes the arguments before the last one as parsing does.

### Globs (`pkg/glob`, `pkg/eval/glob.go`)

*Operations.* Putting patterns together from wildcards with modifiers, walking the tree,
matching names. *Hard.* `**` over slashes, hidden names, several wildcards in one name.
*Correct when* a pattern finds the names it matches and no others.

### Markdown (`pkg/md`)

*Operations.* Block and inline parser; the formatter, with and without reflowing; HTML,
terminal and text output; smart punctuation. *Hard.* Formatted text is parsed again: any
character may become markup where it lands. *Correct when* formatting changes nothing but the
layout, formatting twice is formatting once, and the terminal shows all of the text.

### The screen (`pkg/ui`, `pkg/ui/styledown`, `pkg/cli/term`, `pkg/cli/tk`, `pkg/edit/buffer_builtins.go`, `completion.go`)

*State.* The last buffer the writer wrote; selection and window of a list box; the buffer, the
pending code, the text inserted last and an unfinished paste of the code area. *Operations.*
Styling texts, SGR and Styledown in both directions, highlighting regions; decoding keys with a
time limit; `UpdateBuffer`, `ResetBuffer`, notes; `Select`, `Reset`, `Render` of list boxes,
sharing the height of the screen; keys, three kinds of abbreviations, pastes, motions, kills
and completion in the code area. *Hard.* Only differences are sent to the terminal, which wraps
and scrolls by itself; wide characters; bytes of a key that come late; windows that depend on
the window before; text remembered from key to key while other operations change the buffer.
*Correct when* the screen shows the buffer, keys typed are keys read, the selection is visible,
and an edit changes what it should and nothing else.

### The rest

Directory history, the database, navigation and listing modes, the shell's
start-up, the language server, documentation tools, text diff and support packages are listed
in `PROJECT.json` with the reason why they are not modelled; section 7 comes back to them.

## 2. Modules

| Module | Models | Role |
|---|---|---|
| `EditorLoop` | loop.go, app.go (ReadCode, handle, Redraw, Notify, Commit*) | event loop and its goroutines over several sessions |
| `Pipeline` | compile_effect.go (chunk, pipeline), port.go, external_cmd.go, run-parallel | running a chunk |
| `Redir` | compile_effect.go (redirOp, formOwnedPort, end of a form) | the ports of one form |
| `Peach` | builtin_fn_flow.go (peach) | parallel iteration |
| `Ports` | port.go (captures), frame.go (IterateInputs), builtin_fn_stream.go, builtin_fn_io.go | both ends of a port |
| `MCForms` | | runs Pipeline, Redir, Peach and Ports |
| `Daemon` | activate.go, server.go, client.go | shells and daemons |
| `MCDaemon` | | what the behaviours of Daemon start with |
| `Prompt` | prompt.go | asynchronous prompt |
| `Highlighter` | highlighter.go, highlight.go | cache with late results |
| `Rpc` | rpc/client.go, rpc/server.go, daemon/client.go | calls over connections that break |
| `HistView` | the interface of `histutil.Cursor` | abstract specification |
| `HistCursor` | cmd.go, db_store.go, mem_store.go, hybrid_store.go, hist_store.go | implements HistView |
| `HistWalk` | dedup_cursor.go, modes/histwalk.go | extends HistCursor |
| `MCSession` | | runs Prompt, Highlighter, Rpc, HistCursor and HistWalk |
| `Compile` | compiler.go, var_ref.go, the compile functions | names become slots |
| `Interp` | the exec methods, closure.go, frame.go, eval.go, vars, flow builtins | extends Compile |
| `MCLanguage` | | programs, and sessions of them |
| `Hashmap`, `Vector` | pkg/persistent | operations on a heap of nodes |
| `Persistent` | | versions of both in one heap |
| `Parser` | pkg/parse | code, filters, quoting |
| `Values` | pkg/eval/vals, builtins on numbers, containers and streams | values |
| `Glob` | pkg/glob, pkg/eval/glob.go | wildcards |
| `Getopt` | pkg/getopt, mods/flag/flag.go, edit/complete_getopt.go | command-line options |
| `MdInline`, `MdBlock`, `MdFmt`, `MdCodecs` | pkg/md | each extends the one before |
| `MCLibrary` | | runs Persistent, Parser, Values, Glob, Getopt and MdCodecs |
| `StyledText` | pkg/ui, pkg/ui/styledown, pkg/wcwidth, builtin_fn_styled.go | texts with styles |
| `TermReader` | reader_unix.go, key.go | decoding of keys |
| `TermWriter` | buffer.go, buffer_builder.go, writer.go, app.go (redraw, heights), codearea_render.go | extends StyledText; a model of the terminal |
| `Widgets` | listbox*.go, scrollbar.go | list boxes |
| `CodeArea` | codearea.go, buffer_builtins.go, state_api.go, completion.go, modes/completion.go | the buffer being edited |
| `MCScreen` | | runs StyledText, TermReader, TermWriter, Widgets and CodeArea |
| `Pipeline_proofs`, `Redir_proofs`, `Peach_proofs`, `EditorLoop_proofs`, `Daemon_proofs`, `Rpc_proofs` | | theorems about the module each is named after |
| `MCForms_proofs` | | theorems about Ports, and about the composition MCForms |
| `MCSession_proofs` | | theorems about Prompt, Highlighter, HistCursor and HistWalk, and about the composition MCSession |

An operator whose name ends in `_something` next to an operator of the code is a plausible
mistake in it. No specification uses these operators; they record which mistake each
property would find, as listed under `mutants`. A helper that stands for part of the lines of
another definition is read with that definition and has no entry of its own under `map`.

The modules are of two kinds. State machines (`EditorLoop`, `Pipeline`, `Redir`, `Peach`, `Ports`,
`Daemon`, `Prompt`, `Highlighter`, `Rpc`, `HistCursor`, `HistWalk`, `Persistent`, `TermWriter`,
`Widgets`, `CodeArea`) have variables and an action per operation. Modules of algorithms
(`Compile`, `Interp`, `Parser`, `Values`, `Glob`, `Getopt`, `Md*`, `StyledText`, `TermReader`, `Hashmap`,
`Vector`) are operators that follow the functions of the code, mostly under the same names,
and state what they promise as operators on an input. `MCLibrary`, `MCScreen` and
`MCLanguage` give them their inputs: a text, a document, a list of values, a pattern, a
sequence of keys or a session grows by one element per step, and the property is an action
property on the new input. So each input within the bounds is checked once. The variable `part` of
`MCForms`, `MCSession`, `MCLibrary` and `MCScreen` says which component a behaviour is about;
the variables of the others stay as they begin.

### EditorLoop

`pc` is the goroutine that called `ReadCode`: `idle`, then the steps of `Run` (`extract`,
`draw`, `select`, `handle`, `push`, `poll`, `next`), after `ReadCode` has set up the terminal (or not: `SetupFails`) and
started its goroutines one by one (`StartReader`, `StartSigRelay`, `StartLateRelays`), each of which is added to
the counter `wg` of the `WaitGroup` and taken from it where it ends (`Done`); then the teardown in the reverse order of the
`defer` statements (`stopLate`, `stopSignals`, `closeReader`, `closeReqRead`, `wait`,
`reset`). `Extract` takes the redraw flag under its mutex and `Draw` is the
call of `redrawCb` with it, which other goroutines can overtake; `ReceiveInput`, `ReceiveReturn` and
`ReceiveRedraw` are the cases of the `select`; `HandleSignal` and `HandleTermEvent` are
`app.handle`, whose last act for a terminal event is `RequestRead`, the send on `reqRead`;
`Poll` is the look at `returnCh` after a batch. The goroutines are `ReaderTakeToken` …
`ReaderInput`, `SigRelay*`, `Late*`. `AsyncRedraw`, `CommitCode`, `NotifyAppend` and
`NotifyRedraw` are calls by other goroutines; `Notify` is two steps since the state is
unlocked before `Redraw`. What a widget does with a key is a choice: nothing, add a note,
or commit. What a redraw looks like is left out, except whether it is full, and that it
shows and removes the notes; `wanted` remembers, for the property, that a full redraw was
asked for and has not been made.

### Pipeline, Redir, Peach, Ports

`Pipeline`: a form is `<<p, i>>`; its output pipe has the same name. `Start` is the check
for interrupts at the head of a pipeline, `SpawnForm` one iteration of the loop that makes
pipes and goroutines, `PipeFails` its early return, `WaitForms` and `BgJobDone` the wait,
`AfterChunk` the check at the end of `chunkOp.exec`. A form runs (`Put`, `PutStopped`,
`WriteBytes`, `WriteBroken`, `Reap`, `Read`, `Finish`) and then goes through the end of the
function in `pipelineOp.exec` in the order of the code, one step for each effect another
goroutine can see: `Record`, `StoreSendError`, `CloseSendStop`, `StoreReaderGone`,
`CloseIn`, `CloseOut`. What the commands compute is left out: kinds of forms stand for
the ways a command can meet its pipes. The forms have no redirections here.

`Redir` takes one form of a pipeline, with or without pipes at either side, through a
sequence of redirections (`RedirToName`, `RedirToFile`, `RedirToFd`, `RedirClose`,
`RedirFails`, `RedirBadDst`), its body, and the same end (`TellReader`, `CloseOwned`).
A port is the names of its file, channel and back channel.

`Peach`: the iterating goroutine is `CheckBroken`, `Acquire`, `Spawn`, `WaitAndReturn`; the
goroutine of an input is `Call`, `Store`, `SetBroken`, `Done`, `Release`, the last two in
the order of its deferred calls.

`Ports`: `stage` is what reads the port. The writer is the captured code, or the form before a builtin: `OpenPort`,
`ChooseWrite`, `Write` (blocked while the band is full), `WriteStopped`, `ClosePort`; `BgPut` is a background job
the captured code has left. `RecvValue`, `WritePiece`, `ValuesEnd` are the goroutine of the values, `ReadByte`,
`BytesEnd` that of the bytes, `TakeInput` and `ReturnFromStage` the builtin. `values` and `text` record everything that was
written to each band. What should come out is stated on places in them: by `Rank`, how many elements of a kind there are up to a
place (`Delivers`), and by the ends of lines (`LineEnds`, `LinesOf`).

### Daemon

Each shell runs `Activate`: `Lstat`, `Dial`, `GotVersion`, `RemoveStale`, the kill of an
outdated daemon (`GotPid`, `Signal`, `KillWait`), `Spawn`, `Poll`, `Timeout` (`LstatFails` and `SpawnFails` when a call fails); calls made
on a broken connection go through `Lost` and `Retry`. Later it may `Reconnect`, `Forget`,
`Exit` or `Die`. Each daemon goes through `Bind`, `Listen`, `OpenStore`, its loop (`Accept`,
`ServeConn`, `ConnDone`, `OldConnDone`, `ListenErr`, `HandleSignal`), and its exit
(`RemoveSock`, `CloseStore`, `CloseListener`), or ends in `Crash`. The operating system is
one socket file, the backlog of each socket, and the lock of the database. A scenario says
whether an outdated daemon runs at first, whether daemons are quick enough for the time
limits, and how many crashes and failing calls may happen.

### Prompt, Highlighter, Rpc, HistView, HistCursor, HistWalk

`Prompt`: `Receive`, `InTime`/`Timeout`/`Await`, `Again` (the loop over requests received
meanwhile), `SendNotice` and `Requeue` are the steps of the method `loop` and of `update`;
`Compute` is the goroutine of one computation; `Trigger` and `Chdir` are calls of the
editor, `BeginRead`, `EndRead`, `RelayReceive` and `RelayRedraw` what the editor does with
the notifications. A prompt's content is the directory it was computed in.

`Highlighter`: `GetCall`, `GetHit`, `GetMiss`, `GetNoCommand`, `GetInTime`, `GetTimeout`
are `Get`; `CommandsStyled(n)` is the goroutine that asks whether commands exist,
`LateReceive` … `LateSend` the one that delivers the result of call `n` late. A styled
text is the code it was made from, whether its commands are styled, and the epoch (number
of invalidations) in which the commands were looked up.

`Rpc`: goroutines of a shell make one call each through one daemon client, to a method that returns, fails,
or does not exist. `CallLoop`, `Dial`, `Call`, `AfterCall` are `client.call` and `connect`, with `rpcClient` read
and written in separate steps since nothing locks it. `Send` (or `SendRefused`, on a connection that is closing
or shut down) registers a call under `reqMutex`, and `Write` or `WriteFails` sends it; `InputRead`, `InputBodyLost`
and `InputEnd` are the goroutine `input`, `Close` the method. The server's loop is `getRequest`, `ReadRequest`,
`AnswerInvalid` (for a method that does not exist) and `ServeEnd`, the goroutine of a request `Execute`, `SendResponse` and
`FreeRequest`. `Cut` breaks a connection: of what was on its way a part arrives, and the last message of it perhaps
torn. A request is identified by its caller.

`HistView` is a cursor over a list to which nothing is added: `view` has the commands under increasing numbers, `before`
the numbers of those before the cursor, `on` whether the cursor is on the next one, and `got` what `Get` returns.
Between two commands, without being on one, it is after the one it was on has been deleted, or after a failed call at the
border. `HistCursor` has the table of the
database (`AddOther`, `AddOwn`, `Delete`), the store (`FastForward`) and the cursor (`Open`, `Prev`,
`Next`, each with a possible failure of the call to the database). The refinement mapping
`View` takes the view to be the matching commands of the database below `upper` under their own numbers, followed by
the matching commands of the session (`Places`, `Commands`). `HistWalk` extends it with the cursor that leaves
out duplicates and the walking mode; each call of the lower cursor is a step, so that other
sessions act in between. A prefix is the set of texts that have it.

### Compile, Interp

A program is a tree whose forms are those of the language (the header of `Compile` lists
them): the models meet the parser's output at the level of its meaning. `Compile` is the
compiler: scopes with slots, captures added scope by scope, and its errors; `chunkOp` compiles a
chunk to operations that refer to slots and captured variables by index. `Interp` executes them
on a state of cells, namespaces, deferred functions, modules, environment and output. Next to
its index every reference keeps the declaration that is lexically in force, found by searching
the program text, and every activation of a function is numbered: this is the reference against
which `LexicalScoping` compares the cell that the index reaches. A pipeline has one form here; ports and
interrupts are in `Pipeline` and `Redir`.

### Hashmap, Vector, Persistent

Nodes are entries of a heap, so that sharing and changes in place are visible. `Hashmap` has
bitmap, array and collision nodes with `assoc`, `without`, `find`, `pack`, `unpack` and the
iterators; `Vector` has `Conj`, `Assoc`, `Pop`, `pushTail`, `popTail`, slices and iterators. `Persistent`
applies operations to any version so far and keeps beside each version the function or
sequence it should be.

### Parser

One operator per kind of node (`Chunk`, `Pipeline`, `Form`, `Filter`, `Compound`, `Indexing`, `Primary`, …)
on a state with the position, the overrun, the errors and the node. Values of strings are code points, with
invalid bytes, so that quoting (`Quote`, `QuoteCommandName`, `QuoteVariableName`) is modelled by what it writes.

### Values

A value is a record with its Go type. Integers have `IntBits` bits, beyond which they are big
integers (`NormalizeBigInt`, `UnifyNums`); floats are multiples of a half and the special ones.
`Equal`, `Hash`, `Cmp`, `CmpTotal`, conversion of indices, `assoc`, field maps, and the builtins
`+ - * / %`, comparisons, `exact-num`, `range`, `randint`, `order` (with its insertion sort), `compact`, `take`, `drop`, `has-value`,
`make-map` follow their functions.

### Glob, Getopt, Md*

`Glob`: `Concat`, `RConcat`, `ConcatPattern`, `Index` and `doTilde` put patterns together, absolute and below the home
directory too; `globIn` is the walk, `matchElement` the matching of a name, `doGlob` applies the modifiers; `matches` is the
reference, any division of a path into parts. `Getopt`: `parse` goes over the arguments one by one, `Parse` and `Complete` look at
what is left at the end; `completeOptions` and `argHandler` are the candidates of `edit:complete-getopt`. `MdInline` and `MdBlock` parse to operations, `MdFmt` writes them as
Markdown again, `MdCodecs` as HTML, for the terminal and as text. Regular expressions are written as
the predicates they stand for.

### StyledText, TermReader, TermWriter, Widgets, CodeArea

`StyledText`: characters are tokens, some of width two or none. `TermReader`: `readEvent` is
`readEvent` of reader_unix.go on a sequence of tokens with `timeout` where the next byte comes late. `TermWriter`:
`UpdateBuffer` makes the bytes that the writer would send, and the terminal (external: cells, wrapping,
scrolling) interprets them; actions are output of commands, the start of editing, redraws
with notes and addons below the code (`renderApp`, with `distributeHeight`), clearing, and the final redraw. `Widgets`: `Select`,
`Accept`, `Reset`, `Render` of a list box in either direction, on regions of changing size, and the scroll bars; `told` is what the
callbacks were told last.
`CodeArea`: a key that is inserted, with its abbreviations, other keys, editing commands, pastes, and completion mode; the history variable `typed` has the keys
typed with nothing else in between.

## 3. Properties and what the runs show

Seven runs check properties; five more state what a comment or document says and show that the
code does not do it; each of these is a finding.

**EditorLoop** (two calls of `ReadCode`, two keys, a signal, two calls from elsewhere): a full
redraw that was asked for is still queued when the loop waits without having made it, whatever
requests overtake each other between extracting the flag and drawing, and notes have a redraw
coming (`RequestsNotLost`); the wait for the counter `wg` is a wait for the goroutines: between calls of `ReadCode` none
is left, and the counter never falls below zero, where `Done` panics (`NoGoroutineLeft`); a
return is noticed unless the handler is blocked on `reqRead` (`ReturnNoticedUnlessBlocked`);
teardown hangs only while a terminal read has not come back or the input channel is full
(`TeardownWaitsOnlyForTerminal`). **EditorLoop_stuck** (violation): the handler can be blocked
for good, against the comment on `Run` (`ReturnEndsRun`): another goroutine commits while a
terminal event is on its way, the event stays in `inputCh`, and the next session, whose
`reqRead` still holds its first token, blocks while handling it.

**MCForms.** *Pipelines* (a process, an endless writer and a builtin in one pipeline; a background
job in which `run-parallel` writes to a builtin; a single command; failing pipes, interrupts): only
exceptions of a form's own are recorded, and whoever finds `sendStop` closed finds the error to
return (`ReaderGoneIsNoFailure`); the chunk does not return before its foreground forms, its result
is what the forms threw and not success after an interrupt (`ChunkIsFaithful`). *Redirections*:
when the form has ended, each file and channel it was given or opened has been closed once, and
nothing else (`ClosedExactlyOnce`). *peach*: the bound on running functions holds until an interrupt
and at most one call starts after a break (`CallsAreBounded`); every exception is in the result
(`AllExceptionsReturned`). *Ports*: what comes out of each band of a port is what was written to it, in order,
and all of it once the reader has returned; a builtin puts what its input says, and stops early only
because its own reader has gone (`PortsDeliver`). All of them end, and background jobs are counted off (`FormsEnd`).
**MCForms_input** (violation): after a redirection of the input, the back channel is looked up in
the port that replaced the pipe, so that the writer is not told (`ReaderGoneStored`) and the
shell panics.

**MCDaemon** (two shells; an outdated daemon and time limits that may expire, or one crash or
failing call): a successful activation never talks to an outdated daemon
(`ConnectedUpToDate`); `Activate` ends (`ActivateEnds`); daemons end with the shells
(`DaemonEndsWithShells`); a shell that starts when nothing else moves gets connected,
whatever a crash left behind (`RecoversWhenQuiet`). **MCDaemon_unlink** (violation): a daemon
that ends removes the socket file its successor has bound (`SocketRemovedByOwner`): it
removes the file with `os.Remove`, and closing the listener unlinks the path again.

**MCSession**: an idle prompt is that of the directory for which an update was queued and the
screen has the latest one; what the highlighter caches and shows is of its code, and a late
improvement has been announced or will be (`NothingStaysStale`). A call gets the reply to its own
request, once, and no request is executed twice, however the connection breaks
(`CallsAreExact`). The hybrid cursor implements `HistView` (`ImplementsView`) while other sessions add and
delete commands and a call may fail; the walk offers the distinct commands, newest first, and shows the
current one (`WalkIsExact`), and reports the end only at the end (`EndIsTheEnd`). The prompt on
the screen becomes fresh, `Get`, every remote call and `Prev` return (`EverythingComesBack`).

**MCLanguage** (sessions of three chunks that use, shadow, capture, assign and delete variables in
every kind of block, with flow control, exceptions, `eval` and modules): every use of a variable
reaches the variable that the program text says, in the right activation (`LexicalScoping`); `tmp` at the
start of a function and `with` around the rest of it have the same outcome and leave all variables
as they were, whether the body ends, throws, breaks or an assignment fails half-way
(`TmpIsWith`); a module that is loaded has run to its end, though modules use each other and fail
(`LoadedModulesRan`). **MCLanguage_defer** (violation): a deferred function that succeeds returns an
exception with the reason nil, which takes the place of the exception that a function
deferred before it throws (`DeferredExceptionsPropagate`).

**MCLibrary**: no operation on a map, a vector or a slice changes another version, and all that can be
asked of a version agrees (`VersionsPersist`); the nodes tile every source text, with errors or
without, a quoted string is parsed back, options written out are parsed to the same, and
`edit:complete-getopt` sees the arguments as `flag:parse-getopt` does (`TextRoundTrips`); a parse error is
partial iff more input can eliminate it: one that is final stays whatever is typed after it, and typing what the
partial errors of a text ask for leads to a text without any (`PartialIsExact`, which exempts two messages, see
below); arithmetic is exact over the border of int
(`ExactArithmetic`); `compare` is an order, `order` sorts by it, stably, for every combination of options, equal
values have equal hashes, `compact` leaves one of each run, and all ways to index,
slice and change lists, strings and maps agree (`ValuesAreCoherent`); formatting a document keeps its HTML,
reflowing keeps it up to white space, formatting again changes nothing, and the terminal shows all of its text
(`MarkdownKeepsMeaning`); a pattern finds the names it matches and no others, within the
limits that the property names (`GlobIsExact`). **MCLibrary_glob** (violation): beyond these limits, a name is
missed because each part between wildcards is matched at the first place where it fits
(`GlobFindsAll`).

**MCScreen**: after any sequence of output, redraws with notes, resets and final redraws the terminal
shows the buffer cell for cell, and everything printed before (`ScreenShowsBuffer`); a rendered list
box shows its selection, every line of the items that end above its lower edge in its row, with no row left empty unless an
item crosses the edge, and `respectDistance` rows on either side of the selection; it has told its callbacks of the selection,
and the height it asks for is enough, in either direction; widgets stacked on the
screen get heights that are fair (`WindowsAreFair`); a text comes back from SGR sequences, from Styledown, and
style by style from the names of its style, and highlighting changes no text (`StylesKeepText`);
keys typed are keys read, with a delay anywhere at most one key is garbled (`TypedKeysAreRead`); a key that is typed
is inserted or expands an abbreviation that is there, and always one that was typed consecutively; what was typed in a paste is
inserted, quoted; a candidate replaces the range it was shown in, and the common prefix of the candidates extends what it
replaces; in each case the rest of the buffer is what it was; and moves, kills and transpositions are those of a declarative
definition of words and lines (`EditsAreExact`).

### Differences the properties allow for

While modelling, more places showed where the code does less than its documentation, a comment or
its neighbours say. Where a property meets one, the exception is written into it; the others are
listed for whoever works on the code. They were found by reading and, where a module has them, seen in its behaviours.

*Running code*

- The composite exception of two functions in `run-parallel` that both meet a gone reader is
  not suppressed by the pipeline (`ReaderGoneIsNoFailure` leaves out `run-parallel`).
- When `os.Pipe` fails, `pipelineOp.exec` returns while earlier forms run, and a background
  job stays counted (`ChunkIsFaithful`, `FormsEnd`).
- After an interrupt `peach` ignores that `Acquire` failed: the bound is exceeded and
  `Release` may panic (`CallsAreBounded`). With one worker a call can start after
  an earlier one has thrown break, unlike `each`.
- Replacing a port closes it under a port that was duplicated from it, and a redirection of
  the input closes the pipe before `readerGone` is set; `Redir` has both, `ClosedExactlyOnce`
  is about neither.
- A background job that outlives the capture it was started in sends on a closed channel and ends the
  shell (`port.go:117`); `only-bytes` and `only-values` whose own reader has gone, and `from-lines` and
  `slurp` with more values than the channel holds, wait for a writer that waits for them (`builtin_fn_io.go:295`, `:310`;
  `builtin_fn_io.d.elv` says that value input is ignored). `FormsEnd` excuses exactly these.
- `StringCapturePort` drops a last line without a newline (`port.go:213`); the three writes of
  `FilePort` for a value may have bytes between them (`PortsDeliver` allows for both).
- `tryOp` returns before `finally` if the catch variable cannot be set (`pkg/eval/builtin_special.go:865`;
  `website/ref/language.md:2187`).
- A variable made and deleted in the condition of a loop leaves a nil slot that the next round uses
  (`builtin_special.go:315`, `:354`, `:405`); `Closure.Call` marks deleted arguments as present
  (`closure.go:101`).
- `set a[0] a[1] = 1 2` keeps only the second assignment: both are made to the old list.
- If modules use each other in a circle and one fails, the other stays loaded and refers to the
  namespace of the one that failed.

*The editor and the daemon*

- At eagerness 5 a forced update does not record the directory in `lastWd`, so that a change
  back to the recorded one queues no update (`PromptFollowsDirectory`, a part of `NothingStaysStale`).
- A late highlighting result obtained before `InvalidateCache` may replace what was cached
  for the same code after it (`TextIsOfTheCode` says nothing of invalidation).
- A daemon leaves its loop at the last disconnection although a client may wait in `connCh`,
  and a retried `Pid` may be answered by, and lead to the end of, the new daemon; both only
  make `Activate` fail (`ActivateEnds`, and `RecoversWhenQuiet` for a shell on its own).
- Two goroutines that call the daemon when the connection has been shut down may meet a nil
  `rpcClient` (`client.go:75`; `CallsAreExact` allows for it then and only then).
- When a call to the database fails while the cursor is at the end of the shared part,
  `Next` does not leave it any more (a step that does not move, in `ImplementsView`).
- If one candidate is a prefix of the others, what completion inserts as the common prefix may be longer than it
  (`pkg/edit/completion.go:226`; `completion.d.elv:108`), and the range to replace is that of the time the
  candidates were made (`:82`).
- Characters typed with bound keys in between count as consecutive for abbreviations if the buffer and the dot are back
  where they were (`codearea.go:377`), though an abbreviation should be expanded only if no cursor movement came between
  (`insert_api.d.elv:3-5`). `EditsAreExact` demands the expansion of what was typed consecutively, and does not forbid the other.
- Of an item that crosses its lower edge a vertical list box keeps as many lines as do not fit, and not as many as do
  (`listbox.go:213`): rows are left empty or filled with items further down, or the box is higher than its region (`widget.go:21`),
  and a selected item that is too high is not shown as far as it fits (`listbox_window.go:38-39`). `WindowsAreFair`
  says nothing of the rows from such an item on, and holds for all others. A text view that is scrolled while empty starts at line -1
  (`textview.go:121`); rounding may put the end of a scroll bar's thumb past the bar.
- `edit:clear` clears the screen without telling the writer and asks for a full redraw, but a final redraw is never
  full: if the code is committed first, the differences from what is no longer there are written (`ScreenShowsBuffer`
  compares the screen again once it has been drawn).
- `ui.ParseKey` does not read the names of keys such as `Alt--` or a non-ASCII character (`key.go:172`), and
  xterm's code 63 (a question mark) is read as `;` (`reader_unix.go:338`); `TypedKeysAreRead` leaves these out.
- SGR code 3 (italic) is written and not read (`parse_sgr.go:81`; `StylesKeepText` leaves it out).

*Values and text*

- `0.0` and `-0.0` are equal and have different hashes (`vals/hash.go:41`); `Cmp(1, 1.0)` differs from
  its comment (`cmp.go:21`); big integers beyond the range of floats become infinite; `/ 0` with a single argument yields 0;
  `randint` panics if the difference of its bounds overflows (`builtin_fn_num.go:374`).
- `QuoteCommandName("^")` is not quoted.
- `diag.Error.Partial` should be true iff some text eliminates the error when it is appended (`diag/error.go:14-16`). It is also true,
  and the editor asks for another line, for a list with both elements and pairs that ends the text, such as `[a&a]` (`parse.go:772-776`
  reports the error at the end of the list), and for a bad redirection sign that does, such as `>>>`; nothing
  helps there. `PartialIsExact` exempts these two messages. The digits missing from an octal escape
  such as `"\7` are asked for too, though no digits make it a byte.
- `--=x` is taken for the first option without a long name, and completion loses the options before the last in a
  chain of short ones (a TODO at `complete_getopt.go:100`); `ArgumentsRoundTrip` and `CompletionAgrees` leave these out.
  `edit:complete-getopt` with `...` as its only handler indexes -1.
- `</kbd>` without its opening tag panics in the terminal codec; `---` becomes an en-dash and a hyphen.
- Two `**` in a pattern yield duplicates, and `*[match-hidden]?a` decides by its first wildcard (`GlobIsExact`).

## 4. Bounds

Every bound is a constant in a configuration, or named in the `MC` module.

- `EditorLoop`: two sessions, because what is interesting is what one leaves to the next;
  two keys and `InputChSize = 2`, so that the channel fills up (128 in the code); one signal
  and two calls from elsewhere; one relay of late updates, since the relays are alike. The
  violation run has three sessions and no signals: one session to leave the event, one to
  block on it.
- `Pipeline`: buffers of one value fill and empty in one step; forms that end by themselves
  do up to two units of work; three forms, so that one has pipes on both sides. `Redir`: three
  redirections are enough to open, duplicate and replace a port. `Peach`: three inputs for two
  workers, so that a worker's token is used again. `Ports`: three writes, with a channel and a pipe of
  one place each, so that either fills up while the other has room.
- `Daemon`: two shells, and three daemons of which one is outdated; one fault where there
  is no outdated daemon.
- `Prompt`: two directories, three changes and three triggers: away, back, and away again.
  `Highlighter`: two codes, three calls, one invalidation, and a channel of one place (128
  in the code), so that it is full. `Rpc`: two callers, one of which asks for a method that does
  not exist (a method that fails differs from one that returns only in what it answers, and is covered by the proof), two connections, of which one may break, and the code's number of retries. `HistCursor`, `HistWalk`: two texts, two
  prefixes, up to two commands in the database, two of the session and one failing call; the border,
  both ends and duplicates all occur.
- `MCLanguage`: each session declares a variable, runs one of some 200 chunks, and one of some 25 that
  look at what it left: 14 bodies in 14 surroundings. The builtin `more` is true twice, so that loops run
  and end and recursion returns.
- `MCLibrary`: hash maps of eight-way nodes with nine keys, among them nil, two with the same hash and three that
  share their low bits: nodes grow to arrays and shrink back. Vectors of two-way nodes with up to nine elements: three levels.
  Two operations after these, on any version. Source texts of up to five characters from six
  alphabets of characters that matter to each other; strings of three code points to quote. Integers of four bits. Three
  values in order. Documents of three lines out of twelve, and inline texts of four characters; a line is four columns wide.
  Patterns of four segments. Up to three arguments out of eighteen, with all eight sets of flags.
- `MCScreen`: a terminal of four columns and two rows, on which texts wrap, scroll and are too high; lists of up to
  nine items in six regions; lines of code of up to three characters, with the quotes of a paste five; texts of three styled characters, two
  regions, columns of up to three widgets, two keys with a delay anywhere, motions in lines of four characters.

`CHECK_DEADLOCK FALSE` is in every run because each model may stop: a chunk ends, a shell
exits, bounded inputs run out. That nothing stops too early is what the liveness properties
say.

## 5. Fairness

- Go's scheduler runs every goroutine that can run: weak fairness for each goroutine in
  `EditorLoop`, `Pipeline`, `Peach`, `Ports`, `Prompt`, `Highlighter`, `Rpc` (callers, the input
  goroutine, the server's loop and its handlers). None is assumed of keys,
  signals, calls from elsewhere, changes of directory, interrupts, connections that break or other faults. A terminal read
  ends because `ReaderGotEvent` and an aborted read are steps of the reader; where the
  terminal delivers nothing (`MaxKeys` reached) no step is forced, and
  `TeardownWaitsOnlyForTerminal` allows for that.
- `Pipeline`: weak fairness of a form says that a command which neither loops nor is blocked
  ends. Endless writers are only assumed to go on writing.
- `Peach`, `Prompt`, `Highlighter`: the function called, the computation of the prompt and
  the lookup of commands return. All are code of the user; the properties are about what
  happens around them.
- `Highlighter`: strong fairness for acquiring `cacheMutex`, since Go's `sync.Mutex` hands
  the lock over to a waiter that has starved for a millisecond.
- `Daemon`: weak fairness of each process; shells that are connected exit at last (the
  condition under which a daemon is to end at all); strong fairness of `Timeout`, since the
  waits are bounded in time however often what they wait for comes and goes.
- `HistWalk`: a call to the database returns, with an answer or an error.

`MCForms` and `MCSession` state the same fairness for the part a behaviour is about.

## 6. Proofs

Each theorem below holds for every value of the constants. The module of each proof extends
the module it is about; the assumptions are named there and TLC evaluates them in its runs.

### Pipeline_proofs

The theorems hold for every chunk (any number of pipelines, any
number and kind of forms, in the background or not), every buffer size and amount of work,
with `os.Pipe` failing and interrupts coming at any time. The only assumption is
`PipelineAssumption`, the types of the constants, with pipelines that have a form each (the
parser makes no others). TLC evaluates it in every run of `MCForms`.

- `PipelineTypeCorrect`: `Spec => [](TypeOK /\ AtPipeline)`. `AtPipeline` says that while a
  pipeline is being started or waited for, it is one of the chunk; without it the steps that
  look up its forms could not be typed.
- `BackChannelSound`: `Spec => [](StopCarriesError /\ BrokenPipeIsFlagged)`. Neither is
  inductive, because `CloseSendStop` does not itself look at `sendError`: it relies on the
  step before it. The invariant `BackChannel` adds `GoneInOrder` (a form about to close
  `sendStop` has stored the error; one about to close the pipe has set `readerGone`) and
  `CleanupHasInput` (only forms with an input pipe go through these steps). Each step of the
  cleanup establishes what the next one needs; no other step touches the back channel, and
  nothing is ever taken back.
- `NoFalseFailureTheorem`: `Spec => []NoFalseFailure`. The
  invariant `ExceptionHasCause` follows an exception to its cause: a process is killed only
  when its reader has closed the pipe, which by `BrokenPipeIsFlagged` means that
  `readerGone` is set when it is reaped, so that it becomes the "reader gone" exception, which
  only forms with an output pipe get and which `Record` suppresses. The
  composite exception of `run-parallel` has no such cause, and `NoFalseFailure` leaves these
  forms out.
- `ReaderGoneTheorem`: `Spec => []ReaderGoneIsNoFailure`, the two parts together, as `MCForms`
  checks them.
- `ChunkTheorem`: `Spec => []ChunkIsFaithful`. The property speaks of the end of the chunk; four invariants say how it
  gets there. `AheadNotStarted`: forms the chunk has not come to have not begun. `Recorded`: an exception
  is recorded exactly when the form has ended and it is one of its own or that of a `run-parallel`.
  `BehindIsDone`: the foreground forms of earlier pipelines have ended and recorded nothing, since the chunk would
  not have gone on. `ResultHasCause`: a failure has a form that caused it, an interrupt stays noticed. The proof
  showed that an earlier wording of the property was false for a `run-parallel` in the foreground, whose
  composite exception is its own failure though none of its functions failed on its own account; no chunk
  of the run has one.

Lemmas: `ChunkShape` and `FormPairs` give the structure of chunks and forms, `InputOfForm`
that the pipe a form reads from is the output of the form before it, `FormStepIsLocal` that the step of
a form changes the exceptions of no other.

### Redir_proofs

The theorems hold for any number of redirections, and with pipes on either, both or no
side of the form. `RedirAssumption` says that there are enough file names for the
redirections (an opened file is a new one every time), and that none of them is the name of
something the form was given.

- `RedirTypeCorrect`: `RedirSpec => [](RedirTypeOK /\ OpenedCounted)`. `RedirTypeOK` includes that no part of a
  port is marked for closing that is nil, which in the code would be a nil dereference.
  `OpenedCounted` (no more files than redirections) ensures that there is a new name.
- `ClosedTheorem`: `RedirSpec => []ClosedExactlyOnce`. The property speaks of the end only; the
  invariant `Ownership` says why it comes about: everything that belongs to the form has been
  closed once, or is open and marked for closing in exactly one port. That no two ports own
  the same thing is what makes `2>&1` and `>&-` safe: a duplicated port owns nothing. The lemmas
  `ReplaceUnowned` and `ReplaceByNew` are the two ways in which a redirection replaces a port.

### Peach_proofs

The theorems hold for any number of inputs and workers (`PeachAssumption`), with interrupts
at any time.

- `PeachTypeCorrect`: `PeachSpec => [](PeachTypeOK /\ SpawnedSoFar)`; `SpawnedSoFar` is needed because `Spawn` starts the
  goroutine of an input that `CheckBroken` has looked at two steps earlier.
- `ExceptionsTheorem`: `PeachSpec => []AllExceptionsReturned`. The invariant `ErrorsSoFar`: the
  error combines the exceptions of exactly the goroutines that are past the store under
  `errMu`; at the return none is before it.
- `BreakTheorem`: `PeachSpec => []AtMostOneAfterBreak`. The invariant `LateIsLast`: after a call has
  been started with the flag up, the iteration is back at the check of the flag, which stays
  up, so no second one is.
- `WorkerBoundTheorem`: `PeachSpec => []WorkerBound`. The invariant `SemaCounts`: until an interrupt
  the semaphore is the number of goroutines that still have to release it, and one more
  between `Acquire` and the `go` statement. After an interrupt this is false, and the code
  does exceed the bound.
- `CallsTheorem`: `PeachSpec => []CallsAreBounded`, the last two together.

### EditorLoop_proofs

The theorems hold for any number of sessions, keys, signals, relays and calls from
elsewhere, and any capacity of `inputCh` (`LoopAssumption`, which only the types need).

- `FullRedrawTheorem`: `Spec => []FullRedrawNotLost`. The property is about the loop waiting in
  its `select`; the invariant `RedrawPending` is about every point of it: a full redraw that is
  due is in the flag or being drawn, and a flag that is set has its token in `redrawCh` unless
  the loop is just about to extract it.
- `NotesTheorem`: `Spec => []NotesNotLost`, which is inductive.
- `RequestsTheorem`: `Spec => []RequestsNotLost`, the two together, as `EditorLoop` checks them.
- `NoGoroutineLeftTheorem`: `Spec => []NoGoroutineLeft`, for any finite set of relays. The teardown waits for the counter
  of the `WaitGroup` to be zero and looks at no goroutine. The invariant `GoroutinesCounted` says that in every state
  the counter is the number of goroutines that have been started and have not ended (a cardinality, so that each step
  adds or takes one element of a finite set), and zero outside a session.
- `LoopTypeCorrect`: `Spec => []TypeOK`, the capacities of the channels among the types. `RedrawPending` and `GoroutinesCounted`
  are part of the argument: that a relay or a full redraw is where the next step expects it. The truth values
  (`SwitchesOK`) and the rest (`CellsOK`) are separate lemmas, since one prover is good at each.

### MCForms_proofs

- `PortsDrainedTheorem`: `PortsSpec => []NothingLeftInPort`, for any capacity of the buffers and number of writes: when
  a capture, `IterateInputs`, `only-bytes`, `only-values` or `slurp` returns, each band that it reads to the end is
  empty and its writer has closed it. It is the reason why nothing that was written is missing from what is
  collected. The invariant `BandsEnd` adds that a goroutine which has ended, or holds the last line, has found its band over, and that
  a band is closed only by a writer that does not write any more.
- `PortsDeliverTheorem`: `PortsSpec => []PortsDeliver`, for any capacity of the buffers, any number of writes and every
  interleaving of the writer, a background job, the two goroutines of the reader and the builtin. What a capture collects,
  what a builtin (`all`, `one`, `take`, `drop`, `compact`, `count`, `keep-if`, `to-lines`, `only-bytes`, `only-values`,
  `from-lines`, `slurp`, `read-line`) is given, and what it puts, is what was written, in order and, once a reader that reads to the
  end has returned, all of it. The property speaks of what has come
  out; it is not inductive since it is silent about what is still in a band, in the hands of a goroutine or half read. `PortInv`
  adds: what is in a band is the rest of what was written to it, after what was taken from it (`BandRests`); what has
  come out of a band are the elements of their kind with the first ranks (`ValuesGot`, `BytesGot`, `FileGot`), and the line being
  read begins after the last end of a line that was read (`LinesGot`); how far a builtin is with its inputs, whether it
  has stopped and what it remembers of them (`StreamOK`, `PassedSoFar`) agree with what it has put (`StreamPuts`, `PutAtEnd`). It rests on lemmas
  about the operators: `RankAdd` and `DeliversStep` (one more element adds one to the rank of the last place and is
  delivered next), `RestGrows` and `RestShrinks` (a queue at its two ends), `LineAdded` and `LinesStay` (a write completes a line or leaves the lines
  there are), `PutsGrow`. None of them needs an induction, because ranks and ends are sets of places.
- `FormsDeliverTheorem`: `MCSpec => []PortsDeliver`, the same in the composition.
- `FormsTypesTheorem`: `MCSpec => []TypesOK`. The lemma `PartsOfForms` says that a behaviour of the composition is a
  behaviour of each part; it makes every theorem about a part one about the composition.

### Daemon_proofs

The theorems hold for any number of shells and daemons, at most one of which is outdated at first, and for any scenario of
faults and time limits (`DaemonAssumption`).

- `DaemonTypeCorrect`: `Spec => []TypeOK`.
- `DaemonConnectedUpToDate`: `Spec => []ConnectedUpToDate`. `client.call` reconnects to whatever has bound the socket
  file, without asking for its version; that this is safe is not a matter of one step. The invariant: a daemon binds
  the file once, at its start (`BoundOnce`); as long as the file is that of the outdated daemon no other daemon has
  ever been reachable and no shell has finished `Activate` (`OutdatedFirst`); a connection that its shell has
  forgotten belongs to a daemon that no longer has the file (`ForgottenOK`), so that accepting it late does no harm; and
  `ShellOK` says what a shell holds at each step of `Activate`.
- `DaemonReplacedForGood`: `Spec => []ReplacedForGood`: once a daemon of the new version has served a shell or opened the
  database, or `Activate` has succeeded in any shell, the socket file is never again that of the outdated daemon. The step
  that could break it is one that gives the file to the outdated daemon, which `BoundOnce` excludes, or one that opens the
  database or serves while that daemon has the file, which `OutdatedFirst` excludes.

### Rpc_proofs

The theorems hold for any number of callers, connections, breaks and retries (`RpcAssumption`).

- `RpcTypeCorrect`: `RpcSpec => []RpcTypeOK`.
- `RpcCallsAreExact`: `RpcSpec => []CallsAreExact`. The invariant `RpcInv` follows the traces a call leaves: an entry of `pending`, a
  request on its way, a goroutine of the server with a `Request` object, a response on its way. Each bears the
  connection and number under which the call was registered (`NumbersOK`: these belong to one call), and a call is
  registered once, since `client.call` tries again only what `send` refused (`UnsentOK`, `RegisteredOK`). Traces that may
  still have the method executed exclude each other (`RequestsOK`, `HandlersOK`), a response carries what the
  execution gave (`ResponsesOK`, `LoopsOK`), and a `Request` object is free or with one loop or goroutine (`ObjectsOK`).
  One lemma per action shows that it preserves all twelve parts.

### MCSession_proofs

For any directories, eagerness, codes, texts, prefixes, numbers of calls and capacities (`PromptAssumption`,
`HighlighterAssumption`, `HistAssumption`, `RpcAssumption`).

- `PromptTheorem`: `PromptSpec => [](PromptFollowsDirectory /\ ShownIsLast)`. Both speak of quiet moments. The invariants
  `RequestIsOnItsWay` and `NoticeIsOnItsWay` say where a request or a notification is at all others: queued, being computed, about
  to be put back, or shown.
- `HighlighterTheorem`: `HighlighterSpec => []LateResultsAreSound`, with `LateIsOnItsWay` in the same role and
  `HighlightHasGoroutine`: a call of `Get` that waits has started a goroutine of its own.
- `NothingStaysStaleTheorem`: `MCSpec => []NothingStaysStale`, the two in the composition; `SessionCallsTheorem` is the
  same for `CallsAreExact`. `PartsOfSession` takes the composition apart.
- `SessionTypesTheorem`: `MCSpec => []TypesOK`. For the history this is not a formality: that the position in the database
  stays at most `upper`, and that in the session's commands at most one past the end, is what the step over the border
  between the two needs (`CursorOK`). `DbPrev` and `DbNext` choose the greatest or least matching number: `MinOfNats` and `MaxOfNats`
  derive that there is one from the well-foundedness of the natural numbers.
- `CursorImplementsView`: `MCSpec => ImplementsView`, the refinement. `CursorInv` says what the two cursors under the hybrid one have
  to do with each other: the shared part is entered only from the beginning of the session's part, and while the cursor
  is in the session's part the shared one is at its end; where the cursor is on a command, that command has the prefix; a shared
  cursor that says "end" is over an edge. `PrevGoesBack` and `NextGoesForward` say where a call leads, over the border too: to the
  next older or newer command of the view, to the end if there is none, or nowhere if the call fails (a `Next` may also do nothing:
  section 3). `Mapping` translates places into the variables of `HistView`; then there is one lemma per kind of step, `PrevIsPrev`,
  `NextIsNext`, `OpenIsOpen`, `DeleteIsDelete`, and `AddIsNotNoticed` for the steps that stutter.
- `WalkIsExactTheorem`: `MCSpec => []WalkIsExact`, and `WalkEndTheorem`: `MCSpec => EndIsTheEnd`. `WalkInv` strengthens
  `WalkIsFaithful`: what has been collected are the commands the cursor has passed, so that the loop of `dedupCursor.Prev` may be
  interrupted by other sessions and failing calls after every call (`CollectSeen`, `CollectNew` and `CollectSame` are the
  three ways an iteration ends). `WalkOK` says which entry of the stack is shown.

## 7. What is only model-checked, and what is not modelled

Liveness (`FormsEnd`, `EverythingComesBack`, `ReturnNoticedUnlessBlocked`, `ActivateEnds`, …) is
outside the prover. The modules of algorithms use `RECURSIVE` operators, since the code they
follow is recursive over trees and text, and what a recursive definition computes for every
input cannot be proved with the installed provers: `Compile`, `Interp`, `Parser`, `Md*`, `Hashmap`,
`Vector`, `Values`, `Glob`, `Getopt` and `TermReader` are checked by TLC on bounded inputs, and with them `VersionsPersist`; so
are `ScreenShowsBuffer` and `WindowsAreFair`, whose modules fold over texts and items, so that every fact about them would be an induction over data.
The results that are only checked hold for the bounds of section 4.

Abstractions a reader should know of: in `EditorLoop` redraws have no layout and a widget's reaction to a key
is a choice; commands are kinds in `Pipeline`; a file is a name; a connection is named by the shell and
daemon it joins in `Daemon`, where each shell makes one call at a time (concurrent calls are in `Rpc`); the
operating system's behaviour (accepting, unlinking, file locks, SIGPIPE, aborted reads) and the terminal's are
taken from how the code uses them; in `Interp` a module that `use` finds is a source text by its name (relative paths,
bundled modules, plugins and the search of the library directories are left out); the dot of `CodeArea` is between runes
(setting `$edit:-dot` to the middle of one is left out); characters are tokens of a few classes, so that tables of
widths, character references and key names have a few representatives; type hints and autofixes
of the compiler, tracebacks, error messages and the printing of values are left out.

Not modelled:

- Directory history: scores and their decay are floating-point numbers.
- The database: bbolt; its lock is part of `Daemon`, its table of commands part of `HistCursor`.
- Navigation and listing modes: sequential user-interface code over the list box and the code
  area, which are modelled.
- The interactive shell and scripts: start-up and the loop around `ReadCode`.
- The language server: a layer over the parser and the completer.
- Documentation tools and text diff: a site generator, and code taken from Go.
- Builtin modules (`str:`, `path:`, `os:`, `re:`, `math:` and others): mostly one call each into the Go
  library; what they add to it is the conversion of arguments, which `Values` has for numbers.
- Windows.
- Of modelled packages: JSON and lists in `pkg/persistent`, HTTP in `pkg/rpc`, reading glob patterns from text, printing of trees, `flag:call` and `flag:parse` (Go's flag package), which
  candidates a completion has and which regions a tree has.

## 8. Plan

1. *Theorems*: the safety part of the editor's teardown (`TeardownWaitsOnlyForTerminal`).
2. *Abstract specifications*: the prompt as a cell that ends up holding the last request's
   answer; a pipe with its back channel as a closable queue that `Pipeline` implements; `Rpc` as calls
   that are executed at most once.
3. *More of the system*: directory history with scaled scores; the loop of the interactive shell
   around `ReadCode`; navigation and listing modes on top of `Widgets`; unlimited `peach`.

## 9. Running

    tlc -workers 2 -config EditorLoop.cfg EditorLoop
    tlc -workers 2 -config MCForms_input.cfg MCForms
    tlapm Pipeline_proofs.tla
    tlapm Redir_proofs.tla
    tlapm Peach_proofs.tla
    tlapm EditorLoop_proofs.tla
    tlapm Daemon_proofs.tla
    tlapm Rpc_proofs.tla
    tlapm MCForms_proofs.tla
    tlapm MCSession_proofs.tla

Each `.cfg` file is named after its run; `PROJECT.json` lists the module of each.
