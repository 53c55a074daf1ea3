# A TLA+ model of agn-cli

`agn` is a command line agent. It keeps conversations ("threads") as files, sends them to a
language model, runs the tools the model asks for, and answers over the command line
(`agn exec`) or as a JSON-RPC server on stdin and stdout (`agn serve`). This directory holds
TLA+ modules of its core, TLC configurations that check them, and proofs for TLAPS. File and
line references are to the sources under `src/`.

## 1. The system: parts, state, operations

| part | state it keeps | operations | interacts with | what makes it correct |
|---|---|---|---|---|
| agent loop (`internal/loop`) | the `State` of each turn: messages, `LoadedMessageCount`, `PendingToolCalls`, `RestrictAttempts`, `LastAssistant` | `Agent.Run`: load, summarize, call_model, route, call_tools, save | store, summarizer, model, tools, event sink | every history it saves or shows the model is well formed; a turn saves all or nothing; it ends |
| summarizer (`internal/summarize`) | none | `Summarize` | model, token counter | it cuts neither between a call and its outputs nor more than the budget asks, and forgets nothing |
| thread store (`internal/state`) | one JSON file per thread in a directory that all processes share | `Save`, `Load`, `List` | file system | saves are atomic; loads are never torn; lists are complete and fresh |
| JSON-RPC server (`internal/server`) | `inFlight`: request id to cancel function; the shutdown context | turn/start, thread/resume, turn/interrupt, thread/list, thread/read | agent loop, store, client | each request is answered, truthfully; an interrupt stops the turn it names |
| stdio MCP client (`internal/mcp/client.go`) | `pending`: request id to channel; `nextID`; `done` | `ListTools`, `CallTool`, `Close`, `readLoop` | MCP server process | no call gets another's answer; no call can stop the others |
| shell tool (`internal/mcp/shell.go`) | the collector of one command's output, an idle timer | `CallTool` | command, file system | the result and the output file hold what they should; a killed command is no success; the call returns |
| tool routing (`multi.go`, `reserved.go`) | `toolIndex`: tool name to provider, replaced by each `ListTools` | `ListTools`, `CallTool` | all turns of a process | a tool listed to a turn can be called by it; the reserved name stays with the shell |
| pages of thread/list (`handleThreadList`) | none between two requests: the cursor is with the client | one page | store, which others write to between two pages | a client that follows the cursors sees every thread it may expect, once, and comes to an end |
| the way of a tool's output (`mcp/content.go`, `tokencounting`, `llm/messages.go`, `message.TextForSummary`) | the record, in every later turn of the thread | check, count, record, show, summarize | tool providers, model, summarizer | what was recorded can be used ever after; a turn fails for an output only if it must |
| SDK client (`sdk/client.go`) | `pending`, `handlers` | `Turn`, `Resume`, `Cancel`, `ThreadList`, `ThreadRead` | a server process | answers and events reach the call they belong to |
| HTTP session, the call of the model, the token counts themselves, configuration, telemetry, command line | none that outlives a call | conversions and calls | external services | (data only) |

What is hard in this code:

* **Concurrency.** `agn serve` runs every request in a goroutine; turns share the store, the
  tool providers and the output. Several `agn` processes share the store's directory.
* **Failure and cancellation.** Every stage of a turn can fail, and its context can end between
  any two of them, after tools have acted.
* **Crashes.** The process catches no signal and does not wait for its goroutines at the end of
  its input: it can stop between any two steps of a save.
* **Ordering.** Answers come late, twice, in any order or never; deadlines and idle timers race
  with the end of a command; the closing of a pipe races with its reader.
* **Boundaries.** Where a history is cut for a summary, where output is cut for a result, what is
  an empty and what a blank text, where a scanner stops.
* **Agreement.** Four places look at the same fields of a tool's output with code of their own; a
  record that one lets pass and another does not understand makes a thread unusable for good.

`PROJECT.json` lists the hazards one by one, each with the properties that watch it.

## 2. The modules and the code

### Histories: `Messages`, `Summarize`, `SummarizeScan`

A record is its kind, its token count, whether it renders to text, its tool calls or the call it
answers, and the turns it stands for; a summary stands for the turns of all it replaced.
`Paired` says what the model API accepts: the outputs of a tool call follow it at once, in order,
one per call, and no output stands alone. Token counts are positive because
`internal/tokencounting/tokenizer/count.go` adds a constant of 3 to every message.

`Summarize` is the closed form of `Summarizer.Summarize` and of `adjustLoadedMessageCount`.
`SummarizeScan` takes the two loops of the code (summarize.go:76-163) step by step; the run
`summarize_scan` shows that they end and have computed the closed form (`ReturnsClosedForm`). Only
the closed form is used elsewhere.

### Turns: `AgentLoop`, `TurnTransaction`

`AgentLoop` has one action per reducer of the stage machine (types.go:50-76, agent.go:104-151),
one per branch of `route`, and one for "the stage reports an error" (`StageFails`). `callTools`
is one action per tool, since a turn can be cancelled between two. `turn[t]` is the `State` of
turn `t` with the locals of `Loop.Run`; `base`, `replied` and `cancelled` are explained in the
module. Load and Save are atomic here; that this is justified is what the run `store` shows.

`TurnTransaction` is what a caller relies on: a turn begins, then either replaces one thread by
a well-formed history that contains it, or changes nothing. `AgentLoop` implements it.

Two turns on one thread **do** lose updates: each loads, works for minutes, and writes the whole
thread back (agent.go:203-228, 456-459), with no version check. The last save wins, and the
other turn's records are gone although its caller was told it succeeded. Nothing in the
repository promises otherwise, so the property is stated as what does hold: a save that finds
the thread as the turn loaded it keeps all that the thread stood for (`SavesKeepHistory`).
Likewise a turn with `RestrictOutput` can never succeed: `route` has no way from it to the save.
`RestrictedTurnsNeverSucceed` states that.

### The store: `ThreadStore`, `ThreadRegister`

`ThreadStore` is `LocalStore` with the file system's steps: CreateTemp, Write, Rename, ReadDir,
and one ReadFile per entry, each of which can fail, with a kill of the process between any two.
A thread's content is the save that wrote it. `ThreadRegister` is the abstract store: per thread
one atomic register, whose writers may die without knowing whether they wrote. `ThreadStore`
implements it for saves and loads; the run `store` checks it, and it is proved.

### The pages of a list: `ThreadPages`

One client follows the cursors of thread/list while threads are saved. Each page lists the store
anew: the names at one moment (`RequestPage`), the files one by one (`ReadEntry`), then `Answer`
or `Refuse`. The cursor is a thread id, looked up in the *new* list (server.go:259-264). A save
takes its time first and renames its file later (`TakeTime`, `Commit`), so that two saves of one
thread can arrive in the other order; that a save may be one step is what `ThreadStore` shows. A
failed list or an ended context is `PageFails`, after which the client may ask again.

The properties need to know what happened meanwhile: `touched` are the threads saved since the
first page was asked for, `up` and `down` say that the thread of a cursor was found at a newer or
an older time than the one it was given at, `whole` that the client began without a cursor.
`cursorAt`, `listed` and `again` record the answers. None of them is read by an action's guard.

* A thread nobody saved is listed, unless a cursor's thread moved *back*, and then only because
  two overlapping saves of it arrived in the wrong order (`UntouchedAreListed`).
* It is listed once, unless a cursor's thread was itself saved: then the page behind its new
  place begins from the front again (`UntouchedListedOnce`).

### The server: `Server`

One action per critical section and per write of an answer. `agent.Run` is reduced to three
steps: the last look at the context (in `store.Save`, local.go:88-92), the save, or giving up.
A request keeps its `kind`; one whose parameters are refused behaves like a query. Requests are
numbered in the order in which their lines come. Clients choose ids freely, twice the same one too.

### The MCP client: `McpClient`

The goroutines in `sendRequest` (register, write, wait, return) and the one in `readLoop`
(take the channel out of `pending`, send on it). The server is external: it answers what it was
sent in any order and any number of times (`ServerWrites`), and makes requests of its own under ids
it chooses (`ServerAsks`, the constant `Asks`), since the ids of the two directions of JSON-RPC have
nothing to do with each other. Three things the code does are visible in it:

* `readLoop` looks at the id of a line and at no method (client.go:203-215): a request of the server
  under the id of a pending call, even of one whose own request is not written yet, is given to the
  call as its answer. `AnswersMatch` says that this is all that can come in the place of the answer,
  and that no call ever gets the answer of another.
* `sendRequest` closes its channel when it returns, and `readLoop` may hold that channel or find it
  in `pending`, which a call that gives up or fails does not leave (client.go:166-184, 214-220): the
  send then panics the process. The property `PanicsOnlyOnAbandonedCalls` confines this to the answer
  of a call that was cancelled, and to a request of the server under the id of a call that was
  cancelled or could not be sent (`MarshalFails`, `WriteFails`).
* At the end of the server's output `readLoop` returns and wakes nobody (client.go:193-222):
  a call then returns only when its context ends.

`full` says that the server reads no more and its stdin has no room: a call blocks in
`c.writer.Write`, which looks at no context (client.go:178). `CallsReturn` says when a call does
return: its context ends or its answer comes, and it is not held by such a write.

### Tool routing: `ToolIndex`

The providers nested as `main.go` nests them, `MultiClient(shell, Reserved(MultiClient(servers)))`,
or without the outer one when the shell tool is disabled. A turn lists (`ListServer` per server,
then `SetInner`, `SetOuter`: each `MultiClient` replaces its index by that of this listing) and
calls (`ThroughOuter`, `ThroughInner`), while other turns do the same and servers change what they
offer. The index is a pointer to a map nobody changes any more, so a reader has one listing's
index or another's. Two things show: a slow listing replaces the index of a newer one, and a
listing refused for a reserved name has put that name into the inner index all the same
(multi.go:35 runs before reserved.go:33). `ShellStaysOurs` says that no call gets through by it.

### The way of a tool's output: `ToolOutput`, `PdfScan`

`ToolOutput` follows one output: the provider checks it or, for the shell and for structured
content, does not (`Accept`); the payload is built and parsed (`Build`), each part is counted
(`CountPart`, `CountPdf`); it is recorded; it is shown to the model and rendered for a summary
(`Show`, `Render`), where the code panics at what it does not expect. A field is what the code
tells of it: empty, blank, decodable or not, the file name and extension of a URI.

`PdfScan` is `contentScanner` of pdf.go, one action per round of a loop, over the characters it
tells apart. Where it fails decides whether the output can be counted. One page stands for all:
the pages are scanned one by one, nothing is kept between them, and the first that fails ends the
count. Their sizes are looked at when all texts are there, where one that is not positive panics
(`Scanned`). In an array a stray
delimiter makes it loop without moving (`Stuck`, pdf.go:438-462).

### The SDK: `SdkClient`, `Session`

`SdkClient` is `sdk.Client`: the goroutines inside a call (`Register`, `Write`, `Receive`,
`GiveUp`), the one in `readLoop` (`ReadLine`, `Deliver`, `HandlerReturns`, `ScanEnds`) and
`Close`. `Turn` and `Resume` are the kind "turn", `Cancel` is "interrupt", `ThreadList` and
`ThreadRead` are "query". A handler is run by `readLoop`; if it calls the client itself, `waits`
names the call, and `readLoop` goes on when that call has returned. `chan[c]` is the channel of
capacity 1 of call `c`; the deferred `close` is part of every return.

`Session` joins it with `Server` over two pipes: `ServerReads(r)` is `Server!Read(r)` for the
`r`-th line the client wrote, and what `Server!Step` answers becomes a line for `readLoop`. A turn
writes its events between `storeCancel` and its answer. Three things the code does show here:

* A call that is given up leaves its turn running, and the send of its late answer panics the
  caller's program, as in the MCP client (`PanicsOnlyAfterGiveUp`).
* A handler that calls the client waits for an answer which only `readLoop`, inside that handler,
  could read; until the context of that call ends, nothing else is read either (`AnswersArrive`
  excludes this case).
* When a server ends, `readLoop` ends and wakes nobody.

### The shell tool: `ShellTool`

`executeShellCommand` with its copiers, the collector, the idle timer, and as external parts the
command, its children and `os/exec`. A stream is a number of bytes; a copier may take any chunk.

### Runs

| run | instance | what it shows |
|---|---|---|
| `summarize_scan` | all histories of up to 4 records, sizes 1 and 3, budgets 3 and 4 | `KeptIsLeast` (no record more is replaced than needed), `NothingForgotten`, and under fairness `ReturnsClosedForm` (the loops end with what the closed form says) |
| `turns` | 2 turns on 1 thread, 11 stages, replies with no tool or two | `StoredThreadsPaired` and `ContextPaired` (what is saved and shown is well formed), `NewMarkExact` (what is marked new to the model is exactly this turn's), `ReplyIsRecorded`, `RestrictedTurnsNeverSucceed`, `SavesKeepHistory`, `ImplementsTransaction`, and under fairness `TurnsEnd` |
| `store` | 3 calls of any kind on 2 threads | `LoadsNeverTorn`, `TempsInFlight`, `ListsCompleteAndFresh`, `ListsNewestFirst`, `ImplementsRegister` |
| `store_list_fails` | the same | a **violation** of `ListsSucceed` |
| `server` | 3 requests, 2 ids | `TurnsInterruptible`, `InterruptsClaimOne`, `AnswersMatchStore`, `RequestsAnswered` under fairness |
| `session` | 2 calls, 1 event per turn | `ReturnsAreTrue`, `EventsBeforeAnswer`, `PanicsOnlyAfterGiveUp`, and under fairness `AnswersArrive` |
| `mcp` | 2 calls, 2 lines in the pipe, requests of the server under the id of one call | `AnswersMatch`, `ReaderNeverBlocks`, `PanicsOnlyOnAbandonedCalls`, and under fairness `CallsReturn` |
| `shell` | up to 3 bytes, limit 2 | `KeptUpToLimit`, `FileHoldsAll`, `KilledIsNotOk`, and under fairness `CallReturns` |
| `shell_loses` | 1 byte, no limit | a **violation** of `OutputComplete` |
| `thread_pages` | 3 threads, 2 saves, pages of 1 and 2, 1 failure | `UntouchedAreListed`, `UntouchedListedOnce`, and under fairness `PagingEnds` |
| `tool_index` | 2 turns at a time, 2 servers, 4 names, 2 changes of what they offer | `OfferedToolsRouted`, `ShellStaysOurs` |
| `tool_output` | one item of every kind, pairs of those that pass the checks, pages of up to 5 characters | `RecordedIsUsable`, `FailsOnUncountable`, and under fairness `OutputEnds` |

Why the bounds are enough:

* *Summaries.* Four records hold a call, its two outputs and a record before or behind; sizes 1
  and 3 with budgets 3 and 4 put the cut on every one of them.
* *Turns.* A turn without tools takes 5 stages, each round of tools 3 more: 11 stages are two
  rounds. A reply asks for two tools, so a turn can stop between them, or for none. A record has
  size 2 and a summary needs more than 4 tokens: it is made once in a turn, right after the load,
  so the second turn has it, on the records of the first and its own prompt. One restricted attempt is one more call of the model and the failure after it. Two
  turns on one thread overlap at every step, or one sees the other's result. All safety properties
  of this run are theorems, so more turns, threads, sizes and stages add nothing. `MaxSteps` is
  the program's own parameter, not a cap of the model.
* *Store.* Three calls are two saves that overlap each other and a list or load that overlaps
  both, or a save that is killed before a save and a list.
* *Server.* Three requests are two turns under one id and an interrupt, or one turn and two
  interrupts that race. `MaxRequests` caps the requests.
* *Session.* Two calls are a turn and an interrupt of it, by another goroutine or by the turn's
  handler, or two calls that could get each other's answers. One event per turn can be handled
  before, while or after the interrupt is made. `MaxCalls` and `MaxEvents` cap calls and events.
* *MCP.* Two calls can get each other's answers. `MaxLines = 2` is an answer and its repetition, the
  answer of another or a request of the server, with further ones behind as `readLoop` goes on.
  `Asks = {1}` gives one of the two calls an id under which the server asks as well, and none to
  the other.
* *Shell.* A limit of 2 and 3 bytes put the limit inside, before and behind a chunk of each
  stream; both timeouts are set or not. `MaxWritten` caps what is written.
* *Pages.* Three threads and pages of one or two put a cursor before, on and behind each other
  thread. The limits asked for are 0, which is the default of 1, and 5, which is cut to 2. Two saves
  are two of one thread, in either order, or one of each of two. `Start = 2` gives threads different
  or equal times before; `MaxFailures` caps the requests that fail.
* *Routing.* Two turns are a listing against a call or against another listing. Two servers can
  offer one name. The names are two tools, `shell` and one that `TrimSpace` makes `shell`. Turns
  begin again without end; `MaxChanges` caps what the servers change. Turns are symmetric.
* *Outputs.* The items differ wherever the code tells two apart. Pairs show that one item's error
  does not hide another's panic. Pages are all of up to 3 characters, and longer ones of those that
  nest: strings, escapes, arrays, dictionaries, inline images.

`CHECK_DEADLOCK FALSE` is set where the system really stops: all turns or calls have ended, or
the process has.

### Fairness

* `AgentLoop!FairSpec`: each turn's goroutine runs on (`WF(Step(t))`). This says that the model,
  the tools and the store answer every call, if only with an error. Cancellation is not fair.
* `Server!FairSpec`: each request's goroutine runs on, and a turn ends, which is what `TurnsEnd`
  gives. Reading the next line, the end of input and the process's end are not fair: closing
  `os.Stdin` does not interrupt a read that blocks, so `Serve` need not return.
* `Session!FairSpec`: `readLoop` and the callers run on, and a handler that waits for no call
  returns. Nobody has to give up, close or end, and the server need not do anything.
* `McpClient!FairSpec`: `readLoop` and the callers run on while the process lives. The MCP server
  is not fair at all: it need not answer, nor read, so a write may wait for ever.
* `ShellTool!FairSpec`: the call's goroutines run on, `os/exec` kills the command once its
  context has ended, and timers that can only stop do. The command is not fair, nor is any timer.
* `ThreadPages!PagesFairSpec`: the client asks for the next page and the server's goroutine runs on.
  Nobody has to save, and no request has to fail.
* `SummarizeScan!Spec` and `ToolOutput!FairSpec`: the one goroutine runs on (`WF(Next)`).

## 3. What is proved

All theorems hold for every value of the constants; their assumptions are the named `ASSUME`s in
the modules, which the runs evaluate. Every safety property, every action property and both
refinements that a run checks are theorems.

* **`AgentLoopProofs`**, in three parts that build on each other.
  * *Summaries.* `SummarizedPaired`: for every history that is paired and every budget, the
    summarized history is paired. The closed form makes this a statement about `Max` of a set: the
    tail starts at no output, so no call is in the older part with its output in the tail.
  * *The shape of histories.* `TypeCorrect`, `StoredPaired`, `ContextsPaired`,
    `RestrictedNeverSucceed`. The properties are not inductive: between `call_model` and the last
    tool a turn's history is *not* paired. The inductive invariant says instead (`OpenPaired`) that
    it is paired up to a last record of tool calls, which are exactly `pending`, of which exactly
    the first `answered` have their outputs behind it; and that `pending` is empty at every stage
    at which the history is shown to the model, saved or summarized. One lemma per action.
  * *The turns that records stand for.* `NoTraceLeft` (a turn that failed, or has not ended, is in
    no thread), `MarkExact`, `RepliesRecorded`, `HistoryKept` and `TransactionImplemented`.
    `TurnInv` adds what the turns of records say: threads stand for turns that succeeded only, the
    records up to the mark for turns loaded from them, those behind it for this turn alone. The
    refinement then needs one case: a save is a commit, and every other step changes neither store
    nor success.
* **`SummarizeScanProofs`**. The two loops of the summarizer are partially correct for every
  history and every budget: `ReturnIsClosedForm` (what they return is what `Summarize` says),
  `LeastKept` and `NothingIsForgotten`. `ScanInv` says what holds at each line: in the backward
  scan every later tail is too short; in the walk back all that was passed is tool outputs; each
  loop ends at the index of the closed form. The token count of a tail is a recursive function;
  what is needed of it is proved from the well-foundedness of the numbers (`WFMin`) and not by the
  library's induction theorems, which take an operator that this prover cannot instantiate. That
  the loops end stays with TLC.
* **`ThreadStoreProofs`**, in two parts.
  * *The store.* `FinalWhole`, `NeverTorn`, `OnlyTempsInFlight`, `ListsComplete`, `NewestFirst`,
    `RegisterImplemented`. `StoreInv` is a conjunction of named parts: what a call at each stage
    knows (`CallOK`); a temp file is of a save under way or killed (`TempOK`); a thread's file is
    absent or the whole version of a save past its rename (`FinalOK`); a save that got through its
    rename has left a version for good, and never one that it replaced (`SavedOK`); what a list has
    read (`EntriesOK`); and that times follow the order of the calls (`TimesOK`), without which
    `NewestFirst` is not inductive. For the register, each step of a call is mapped to the
    register's step or a stutter.
  * *The pages of a list.* `NoThreadIsMissed` and `NoThreadIsRepeated`, for any finite number of
    threads, any saves and any limits. The two properties speak of the end, the invariant
    `PagesInv` of the place where the last cursor was given: an untouched thread that was listed has
    been passed there, if no cursor moved up (`ListedInv`), and one that has been passed was
    listed, if none moved down (`PassedInv`). `PageIsPrefix` is the lemma on the page itself: it is
    the first part of what remains, empty only with it, and has a last thread. The first and the
    last thread are found by their `Rank`, a number that grows along the list.
    `OnlyOvertakenSavesHide` shows what the exception of `UntouchedAreListed` takes: if no save is
    overtaken by one of the same thread that took its time later, no thread is missed at all. For
    this `TimesInv` traces each time to a save that is through, so that a commit makes its thread
    no older, and `ForwardInv` says that no cursor's thread is then older than it was given.
* **`ServerProofs`**. `RunningTurnsAreFound`, `InterruptsAreClaimed`, `AnswersAreTrue`. The
  inductive invariant ties `inFlight`, contexts and interrupts together: an entry is a turn of
  that id which nobody has interrupted (`EntryInv`); a turn is cancelled exactly if one interrupt
  has found it (`FoundInv`); an interrupt that is told `request not found` found nothing (`NotFoundInv`);
  and a request is told something only at its end (`StageInv`). The effect lemmas say of each
  action, field by field, what it leaves alone.
* **`SessionProofs`**. `CallsReturnTruth`, `EventsComeFirst` and `PanicNeedsGiveUp`, for clients
  that make at least one call. `SessionRunsServer` shows that the server of a session does nothing
  that a server alone could not do, so that all of `ServerProofs` holds for it, instantiated at the
  session's variables. `SessionInv` adds what ties the two sides: each line is that of one call,
  and each request that of its line (`LineInv`); since ids are not used twice, a turn stays in
  `inFlight` until it is cancelled or done (`EntryInv`); what the program has seen of a turn has
  happened (`ToldInv`); wherever an answer is, it is the one the server gave to that call
  (`AnswerInv`), and it is in one place only (`OnceInv`); a turn's events stand before its answer
  (`OrderInv`), and the events sent are those handled, the one being handled and those still in the
  pipe (`EventInv`). The properties alone are not inductive: they speak of a call that has
  returned, and where its answer came from is known only from what was on its way before.
* **`McpProofs`**, in two parts.
  * *The client.* `NoAnswerOfAnother`, `RoomInTheChannel`, `PanicNeedsAbandonedCall`, for any number
    of calls and any set of ids under which the server asks. The argument is that at most one line
    is on its way to a call: its entry is still in `pending`, or the reader has its channel, or the
    channel holds the line, or the call has returned it (`AnswerOK`, `PendingOK`). So the channel's
    one place suffices whatever the server writes. The line is the call's own answer or a request of
    the server under its id (`Comes`), since an answer in the pipe is that of a request that was
    sent (`SentOK`), and no two calls have one id (`IdsOK`). Ids are counted by the calls that have
    begun; the number of calls in a behaviour is assumed finite.
  * *Tool routing.* `ToolsReachTheirProvider` and `ShellIsNeverTaken`, for any turns, servers and
    names. A listing under way knows every unchanged tool of the servers that have answered it
    (`ListingInv`); a turn is offered the shell and names that are not reserved (`OfferedInv`); once
    a listing has succeeded both indexes have every unchanged tool, whatever listings follow, and
    the outer index sends to the shell exactly the shell's name (`InnerInv`, `OuterInv`). So a
    listing that is refused does no harm: what it leaves in the inner index is right for every
    unchanged name, and a reserved one never gets past `ThroughInner`. The maps are extended by
    `With` and not by the `@@` of module `TLC`, which the prover does not know.
* **`ShellToolProofs`**. `ResultKeepsUpToLimit`, `TruncatedFileIsWhole`, `KilledNeverSucceeds`.
  The inductive invariant adds what `combined` holds (everything, until the limit is passed) and
  that a killed command has a context that has ended. `CollectSound` is the lemma on
  `outputCollector.write` for a chunk of any size.
* **`ToolOutputProofs`**. `RecordedStaysUsable`, `OnlyUncountableFails`. An item that has a part,
  which parses and counts, is none that `Show` or `Render` panics at or refuses; the proof holds
  whatever the PDF scanner does, and for every set of contents and pages.

Theorems that no run repeats: `TypeCorrect`, `NoTraceLeft`, `FinalWhole`, `SummarizedPaired`,
`ReturnIsClosedForm`, `SessionRunsServer`, `OnlyOvertakenSavesHide`, and the invariants
`SessionInvariant` and `PagesInvariant`, which the properties of their runs follow from.

Only model-checked: all liveness (`TurnsEnd`, `RequestsAnswered`, `CallsReturn`, `AnswersArrive`,
`CallReturns`, `PagingEnds`, `OutputEnds`, `ReturnsClosedForm`), which this prover cannot do, and
the two violations.

## 4. What the checks found

* **Lists fail while a thread is saved, and for good after a save was killed** (`store_list_fails`).
  `Save` writes to `<id>.<random>.json`, and `List` takes every `.json` file for a thread.
* **Output of a shell command can be lost** (`shell_loses`). `cmd.Wait` is called while the two
  copiers still read; it closes the pipes, and the error that tells them so is dropped.

What the models show besides, and no document denies:

* The last of two turns on a thread wins (section 2, turns).
* A late answer to a cancelled MCP or SDK call panics the process.
* A request that an MCP server makes under the id of a pending call is taken for its answer. Under
  the id of a call that was cancelled, or whose request could not be marshalled or written, it
  panics the process.
* A write to an MCP server that does not read holds its call, whatever its context.
* A client that pages through threads is given some twice if a cursor's thread is saved meanwhile.
* A slow listing replaces a newer tool index: a tool that a server has just got, and that the
  turn was offered, may be unknown when it is called.
* `ValidateContentItems` accepts an empty text beside another item, and audio; counting refuses
  both, so the turn fails after the tool has acted.
* Counting ends the process at a PDF page whose size is not positive (pdf.go:79-82).
* Counting never comes to its end for a PDF with a stray delimiter in an array, and no context
  stops it.

## 5. What is not modelled

* Texts, JSON, spans, events and logs; thread/read and the checks of parameters, which change no
  state.
* The token counts themselves, and what images and pages count by their size: arithmetic on one
  input. Which outputs can be counted is in `ToolOutput`; that a count is positive is all the rest needs.
* The rewriting of tool schemas for the model's API; the call of the model, external: it answers
  or fails.
* The HTTP client's session and listing, which are the MCP Go SDK's; what it does to an answer is
  in `ToolOutput`.
* `Close` of the providers, which runs once at the end of the process; a second `Close` of a
  client, which panics but which no path of the program makes.
* What a disk keeps through a power failure: the code never calls Sync (local.go:133).
* In `ShellTool`, a copier that gives up on a full disk and leaves the pipe undrained, so that the
  command blocks until its timeout.
* `RemoteStore`, a stub; configuration, telemetry and the flags of the command line, read once or
  only reported; tests and packaging.

## 6. Plan

Done: the histories, the loop and its transaction, the store and its register, the pages of a list,
the server, the SDK and its session with the server, the MCP client, tool routing, the shell tool,
the way of a tool's output; a proof of every safety property and both refinements.

Left, in this order:

1. The steps of `ThreadStore` mapped to `TakeTime`, `Commit` and `ReadEntry` of `ThreadPages`, which
   takes a save for one step.
2. The token counts of images and pages, with the width of their integers.
