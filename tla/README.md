# A TLA+ model of clspc

clspc is a C++20 library that drives a Java language server (JDTLS) as a child
process, finds a method by class and name, expands its callers and callees into
a tree with source snippets, and offers all that as tools of an MCP server. The
modules beside this file model the parts of it whose correctness depends on
order, failure and concurrency; TLC checks them on small instances and TLAPS
proves the results that matter most for every value of the constants.
Paths below are relative to `src/`.

## 1. The system

    MCP client --lines--> clspc_mcp_smoke --calls--> service --owns--> Session --pipes--> JDTLS
                                                        |                 ^
                                                        |             semantic (anchor, call tree)
                                                        +--thread--> StderrDrainer <--stderr pipe-- JDTLS

| Component | Code | State | Operations |
|---|---|---|---|
| Session | `src/session.cpp` | open documents by URI, the next request id, answers read and not taken | `initialize`, `initialized`, `sync_text`, `sync_disk_file`, `close_file`, eight queries, `shutdown_and_exit`, `wait` |
| Anchor resolution | `src/semantic.cpp` | deadline, attempts, candidates | `resolve_anchor`, `resolve_method_anchor_in_file` |
| Call tree expansion | `src/semantic.cpp` | the visited set, the recursion, the tree | `expand_outgoing_node`, `expand_incoming_node`, `wait_for_initial_incoming`, `collect_unique_snippets` |
| Source window | `src/source_window.cpp` | none | `extract_source_window` |
| Service | `src/service.cpp` | children, pipes, drainer threads, LiveSession's entry | `with_started_session` under four `run_*` functions, LiveSession's methods and `shutdown` |
| MCP server | `tools/clspc_mcp_smoke.cpp` | the process-wide LiveSession, the input | the line loop, five tools |
| Symbol search | `src/session.cpp`, `src/semantic.cpp` | none | `parse_document_symbols`, `find_method_symbol` |
| URI codec | `src/uri.cpp` | none | `file_uri_from_path`, `path_from_file_uri` |
| WorkspaceManager | `src/workspace_manager.cpp` | its state, its session, the last error | `start`, `stop`, `expand` |
| JDTLS launch | `src/jdtls_*.cpp` | none | find the installation, build the command, spawn |
| Inspection output | `src/inspect.cpp` | none | formatting |
| Demos | `tools/dep_expand_demo*.cpp` | none | one question each, put to a session of their own |
| Earlier expansion | `src/expand.cpp`, in no target of `CMakeLists.txt` | | |
| pcr | `external/pcr`, a submodule whose sources are not here | processes, pipes, framing, the JSON-RPC dispatcher | external |
| JDTLS | another program | | external |

How they interact. Every call is synchronous. A Session has one thread; it reads
the server's output only inside `request_json_raw`, while it waits for an answer,
and serves the server's own requests there. The only second thread of the program
is a StderrDrainer, which copies the child's stderr to a file, and which is joined
when its child is given up. The MCP loop serves one line at a time; two of its
tools spawn a server for the one call, two share one that lives until the input ends.

What is hard, and what makes each part correct:

* Session: the client's table and the server's copy are updated through a pipe,
  by statements that can throw in between; requests may be abandoned and answered
  later; the server asks questions back; the server may die anywhere. It is correct
  if the two tables agree once the pipe is read, if everything the server reads is
  legal when it reads it, if an answer is returned only for its own request and
  about the text the caller has open, and if every call ends. One flaw is known: a
  text that JSON cannot carry gets into the client's table and not to the server, so
  the tables differ until the next text, and the properties say by how much.
* Service: three ways to take a child down (return, exception, shutdown of the live
  session) plus a throw between spawning and owning; undrained pipes. Correct if
  nothing is left behind on any of them, a result implies a clean end, and a call
  never works with a server launched for something else.
* Call tree: cyclic graphs that are learned while they are walked. Correct if the
  tree is exactly the answers, and each item is asked about and accounted for once.
* Anchor: retries against a server that is warming up. Correct if the anchor is
  the first there is in the order of the last answer, and the search ends.
* A whole question (anchor, callees, callers) over one session: three copies of a
  file meet, the one on disk, the one the server was sent, and the one its index was
  made from, while other programs edit. Correct if all steps come to one method and
  every snippet shows what it is labelled with.
* WorkspaceManager: a state that every call tests first, changed by calls that throw
  halfway and call each other. Correct if it tells the truth between calls, if there
  is one server at a time, and if a response holds what was asked for.
* Source window, URI codec, symbol search: arithmetic at the ends of a file and of
  `size_t`; what one side escapes the other reads; the first method in the text,
  however deep it lies.
* MCP server: one reply per request whatever the tools throw, one live launch for
  the life of the process, a clean end.

`PROJECT.json` lists the components with their status, and under `hazards` every
point of the code that a test would hardly reach, with the properties about it.

## 2. Modules

| Module | Models | Remarks |
|---|---|---|
| `LspSession` | Session, its two pipes, the server and the files | the core |
| `DocumentService` | what a Session promises its caller | abstract specification that `LspSession` implements |
| `CallTree` | the expansion and the flat list of snippets | |
| `AnchorResolve` | the two retry loops, the choice and order of candidates | |
| `Expansion` | whole questions over one session while files are edited | has `SourceWindow` by INSTANCE, and abstracts `AnchorResolve`, `CallTree` and `LspSession` |
| `WorkspaceManager` | `start`, `stop`, `expand`, the destructor | |
| `SourceWindow` | `extract_source_window` | pure, as one step over every input |
| `UriCodec` | the two path functions and the percent codec | pure |
| `SymbolSearch` | an answer's parser and `find_method_symbol` | pure; the recursion over children is a function on levels |
| `Service` | calls, children, drainers, LiveSession | abstracts a request to "waiting, answered, failed", and a throw while it waits |
| `McpServer` | the line loop | composes `Service` by INSTANCE |
| `LspSessionProofs`, `CallTreeProofs`, `ServiceProofs`, `McpServerProofs`, `ExpansionProofs`, `WorkspaceManagerProofs`, `AnchorResolveProofs`, `PureProofs` | theorems | `McpServerProofs` goes on from `ServiceProofs` by INSTANCE; `PureProofs` is about the three pure modules |
| `MC...` | instances for TLC | constants and symmetry; `MCPure` also puts the three pure modules side by side |

Definitions named "Defect" are wrong versions of the operator they precede; no
specification uses them. Each is what a plausible bug would make of the code, and
replacing the operator by it violates the property that is paired with it in
`PROJECT.json` (`mutants`).

### LspSession

`docs` is `docs_by_uri` (text and version; `Closed` when there is no entry), `call`
is the point `request_json_raw` and the function around it have reached, `responses`
is what the dispatcher has read and nobody has taken, `toServer` and `toClient` are
the pipes with the messages in them. A write appends, blocks while the pipe is full,
or throws when the child is gone (`Emit`, `WriteThrows`). `SyncText` has the three
branches of `sync_text` in the code's order: a new entry is made after the didOpen
is out, a changed entry is changed before the didChange is out, so that a throw
leaves the change in the table. The write throws when the child is gone; before that
`params.dump()` throws on a text that is not UTF-8 (`NotUtf8`, the texts that are not
`Encodable`), and then the server lives and nothing is sent: `docs` has the new text and
version, and the history variable `sent` still has the document as it was last encoded.
File texts are read as raw bytes (`sync_disk_file`), so a Latin-1 source is enough; for a
document that is not open yet the same throw leaves no entry. Query strings and the
workspace folder are taken to be UTF-8. `DocumentQuery` and `Lookup` begin a query,
`EnsureOpen` is `ensure_query_document_available`, `SendRequest`, the `Pump...`
actions and `TakeResponse` are `request_json_raw`. A throw ends a call (`Finish`),
except in `shutdown_and_exit`, which swallows it. The server reads in order, answers
in any order from the text it holds at that moment, asks, notifies, writes garbage,
crashes. Files are edited, deleted and restored by `EditDisk`.

In `DocumentService`, `table` is `docs` and `told` is `sent`: `Update` moves both,
`UpdateUntold` is the throw above and moves the table alone, and a query answers from
`told`.

### CallTree

The recursion is a stack of loops in progress (`stack`), the tree its nodes in
preorder. The graph is not a constant: the server's answer about an item is chosen
when it is asked for and kept in `fetched`, so one run covers every graph and a
server that answers the same question differently. `Enter` makes a node with the
checks in the code's order (visited, depth, path, scope), `Fetch` asks, `Follow`
opens the loop over the answer, `UsePrefetched` is the root of an incoming
expansion, `ProbeAnswered`, `ProbeFails` and `ProbeTimesOut` are
`wait_for_initial_incoming`. The two directions share the actions because the two
functions differ only in the root's calls. `max_depth` is a variable so that one run has
several values of `options.max_depth`, an `int` nobody checks: 0 and negative ones too.

### Service and McpServer

`at` is the statement the calling thread is in; `procs` holds one record per child
ever spawned: the state of its request, whether it was told to exit, our two
descriptors, its stderr pipe, its drainer. A request that is answered with an error has
`ask = "failed"`; one that throws while the child lives (a codec error in the pump, an
answer the parsers refuse) is `RequestThrows` too. The history field `told` counts the
times a living child was sent a shutdown request, whatever became of it; at the
teardown a failed request is swallowed, as `shutdown_and_exit` does. `Throw` says where an exception leads
from each place: a one-shot call goes to its catch clause and runs the teardown
again, a live call that fails before it is stored is destroyed, one that fails later
stays. Destroying closes our descriptors; whether pcr also kills the child is left
open, both happen. A drainer blocked in `read` keeps the pipe open although the
descriptor was closed under it, which is how Linux behaves. `McpServer` adds the
line loop; a line is a record of what the dispatch tells apart. `Abort` is
an exception outside the `try` blocks: nlohmann's `value()` on a member of another type,
or `dump()` of a reply whose message is not UTF-8, as when a parse error quotes the bytes
of an `illformed` line. `FinishTool` is the reply to a tool call: a live tool's result may
turn out not to be encodable, and is then an error, and the reply to a failure may throw
for the same reason. In all these cases `Terminate` is what is left: the process is gone
without a reply, its pipes are closed, and no destructor has run.

### AnchorResolve

A clock runs to the deadline, `Sleep` advances it, every answer is chosen anew. A
symbol is what its name is folded to, its kind, the form of its URI and its file;
`Fits` has the tests of `select_anchor_candidates` in order, a `malformed` URI
throws while the answer is parsed; `select_anchor_candidates` is the loop, as a function on
the number of symbols seen, and keeps the order of the answer.

### Expansion

`disk`, `known` and `opened` are the three copies: what is on disk, what the server
answers from, and which files the session has sent. `Questions` are the steps of
`LiveSession::expand_calls` and `resolve_anchor`, of `run_expand` and of the two
demos, as sequences over "search", "resolve", "symbols", "outgoing", "incoming" and
"graph"; each step passes the points `Search`, `EnsureOpen`, `DocumentSymbols`,
`Prepare`, `Ask`, `Cut` and `Children` in the order of its function, since an
outgoing expansion reads the root's snippet before it asks for the callees and an
incoming one has probed for the callers before. `Throw` begins another attempt where a
retry loop would, any number of times, and ends the question elsewhere. Trees have
one level and an answer at most one call: deeper trees meet nothing new, as
all their nodes come from answers about known texts, and are cut from disk.
`Edit` is another program writing a file, `ServerNotices` the server
looking at a file the session has not opened. `trusted` and `quiet` are history
variables that name the premises of the properties.

### WorkspaceManager

`at` is the statement a call is in, `status` the published state, `procs` the children
ever spawned. `start` is reached from its caller, from `expand` when stopped, and goes
through `Stop`, `Shutdown`, `Wait` and `Release` first when the state is Error.
`RequestThrows` and the other failures take the way of the catch clause they meet:
`start` and `expand` set Error and keep the session, `stop` swallows. `ChildEnds` lets
a server exit or die at any time. `Step` is one step of `run_expand`, of the warm-up
or of a query, and adds what it found to `work`. The file is in no build target, and
one name it uses (`QueryStatus::NotReady`) is declared nowhere; it is modelled as it
is written.

### SourceWindow, UriCodec, SymbolSearch

`SourceWindow` computes with `% Modulus`, the width of `size_t`, including the cast of
a negative padding in `tools/clspc_mcp_smoke.cpp`; a line of text is its number.
`UriCodec` works byte by byte, with the test `i + 2 < s.size()` of `uri.cpp:65` and
`lexically_normal`; a URI is its scheme, its host and its text. In `SymbolSearch` an
answer is a forest of elements of three forms, those the parser tells apart; names
are what they are folded to, with or without parameters. A forest is a function from
places to elements, a place being the numbers of the children on the way to it:
`Search` is the loop over the children of a place as a function on the number of them
looked at, and `find_method_symbol` has what its recursive calls return as a function
on the level, the deepest first.

## 3. What TLC checks

| Run | Instance | Distinct states | Shows |
|---|---|---|---|
| `session_safety` | 2 documents, 3 texts (1 not UTF-8), 3 calls, pipes of 2, 1 stray message | 978 thousand after symmetry | the tables mirror each other, but for a text that cannot be encoded; the wire and the handshake stay legal; no request of the server's is lost; an answer is current; `DocumentService` is implemented |
| `session_liveness` | 1 document, 2 texts (1 not UTF-8), 2 calls, 2 stray messages, 1 edit | 509 thousand | every call ends, a shutdown leads to a finished child |
| `tree_safety` | 5 items (one external, two at one place), depths -1, 0 and 3, answers of up to 2 | 887 thousand | the expansion's safety, on every graph of that size |
| `tree_ends` | 4 items, one without a path, depths 0 and 4, 2 probes | 87 thousand | it ends |
| `service_teardown` | 1 launch, 2 calls, 2 lines on a stderr pipe of 1 | 472 thousand | nothing is left behind; calls end |
| `service_calls` | 2 launches, 3 calls, silent children | 605 thousand | the right server; results after a teardown; one shutdown to a living child |
| `mcp_dispatch` | every kind of line, 2 in a row, 2 launches, silent children | 333 thousand | replies, one launch for life, a clean end; the end of input ends the process |
| `mcp_default_direction` | 1 tool call | 290 until the violation | expected violation, see Findings |
| `anchor` | 7 kinds of symbols (2 wanted), answers of 3, 3 ticks | 196 thousand | the first anchor, termination |
| `expansion` | 2 files of 5 texts, 2 questions, 2 edits | 5.2 million after symmetry | one method per question; snippets show their method; the anchor is where it should be |
| `manager` | every warm-up and request, 4 calls | 2.5 million | one server, a true state, complete responses |
| `pure` | files of up to 4 lines, 16 values of `size_t`; paths of up to 4 bytes of 7; forests of 2 with 2 under each | 747 thousand | the lines shown; every escaped URI read back; the first method found |

Why the bounds are enough to be of interest. Three calls let a document be opened,
changed or closed and queried, with one call failing in between; a pipe of two
holds a didOpen together with the query that needs it, and is full often enough
that every write also blocks. Two stray messages let the server ask while it is
being asked. Of the three texts one cannot be encoded, so a document can be given it
and then another one, or be closed or queried with it in the table. In `CallTree`, depth 3 with five items has diamonds, cycles through the
root, an item first met at the depth bound and met again above it, and an answer
that names an item twice. In `Service`, two lines on a pipe of one are what it
takes to block a child, and three calls are a live call, another that reuses or
refuses it, and a shutdown or a one-shot call beside it. A fourth call meets no new
combination of `entry`, `current` and `kind`. In `Expansion` the five texts have the
method first, further down, of another class before and beside it, and not at all of
the class asked for; two edits are one before a file is opened and one after, or two
files edited under one question; a second question meets what the first has opened.
Four calls of the manager are a start that fails, another that has to stop first, a
query that fails and a query after it. Four bytes hold an escape with a byte to
either side of it, an escape at the end, and `..` in its escaped forms. For the window all arithmetic wraps
at 16 just as at 2^64, and the proofs have no bound at all.

Properties a reader may wonder about:

* `NoStrays` exempts one case, because the code does: when the drainer's log cannot
  be opened the child was spawned and nobody tells it to exit or waits; only its
  input is closed.
* `CallsEnd` and `ServingEnds` exempt a child stuck on a stderr that nobody drains:
  a one-shot call without `CLSPC_CHILD_STDERR_LOG`, or a drainer that gave up
  because its log could not be written. The program really does hang there. The
  exemption is met in `service_teardown`; the children of `mcp_dispatch` write nothing
  (`MaxLines` = 0), so there every call ends.
* `HandshakeLegal` excepts the shutdown of a session on which nothing was called: when
  `initialize` throws, `with_started_session` sends shutdown and exit all the same, and
  the server may read shutdown before it has answered `initialize`.
* `FetchedOnce` is about answers that were accepted and about the questions of the walk.
  `wait_for_initial_incoming` repeats its question about the root until an answer is
  accepted, so the root may be asked about any number of times.
* `DepthBound` at a `max_depth` of 0 or less: the root is shown and not expanded; in an
  incoming expansion it has been asked about before the depth is looked at.
* `Ends` of `AnchorResolve` does not say "by the deadline": only the heads of the loops
  look at the clock (`semantic.cpp:512`), and an attempt under way runs past it with
  requests that have no timeout. The model's clock stops at the deadline for that reason.
* `EveryRequestAnswered` excepts the line in which the process aborts, and `CleanEnd` a
  process that aborts: hazards of the code, which no property excludes.
* `ClosedUnlessCut` has the premise that no node was cut off at the depth bound:
  an item that is first met at the bound is marked visited there and is then not
  expanded where it is met again higher up. It also has the premise that the root is
  in scope: the callers of an incoming root are asked for before the root is looked
  at, so the answer about a root out of scope is there and nobody follows it. TLC's
  instance has a root in scope; the second premise was found in the proof.
* `NeverEmpty` excludes negative paddings: `arguments.value("snippetPaddingAfter", 1)`
  may be negative, the cast makes it huge, and the sum wraps to a line before the
  first one shown. `InBounds` holds for these too.
* `SnippetsShow` excepts a file that was edited after the session opened it, and, of the
  files the session has not opened, one that was edited during the question and one that
  was edited before it without the server having noticed: the code reads snippets from
  the disk and positions from the server, and does not compare the two. What the
  property adds is that an edit before the session opens the file does no harm, however
  little the server noticed of it, and that an edit of one file leaves the snippets of
  others right.
* `AnchorInClass` has the premises of the code's shortcut: `find_method_symbol` looks
  in the whole file, so the anchor is a method of the class only if no other class of
  the file declares one of the name.
* `StateIsTrue` does not say that a server that is Ready lives: nothing watches it,
  and the next query finds out.
* `AnySpelling` speaks of escapes in either case, of bytes escaped that need not be,
  and of an empty host and `localhost`; any other scheme or host must throw. A URI
  without the slashes of an authority (`file:/path`), which the code refuses, is not among
  those it speaks of, nor is one with a raw percent sign.
* `CleanResult` says that a one-shot result is returned only after the living child was
  asked to shut down, was sent exit and is gone. It does not say that shutdown was
  answered: `shutdown_and_exit` swallows a request that fails (`session.cpp:724-732`), and
  the result is discarded only when exit cannot be written.

Fairness. `Spec` has none. `FairSpec` of each module assumes that the program's
threads run (weak fairness of the calling thread, of a drainer, of the clock) and
that a server that lives and is not blocked reads its input and answers; a server
may still hold every answer back until its own requests have been replied to
(`AnswerUnlessWaiting`), may fail a request, and may die at any time, since nothing fair
is assumed of failures and crashes. That a living server answers is needed because
no request has a timeout (`session.cpp:618`). Servers read with a thread of their
own, as JDTLS does: a server that stopped reading while it cannot write could block
the client for good.

### Findings

`mcp_default_direction`: without a `direction`, `jdtls_expand_calls` expands the
incoming calls (`tools/clspc_mcp_smoke.cpp:840`); its schema publishes
`{"default", "outgoing"}` (line 632) and its description says that only
`outgoing` is supported (line 608).

## 4. What TLAPS proves

Each theorem has the form `Spec => []P` and holds for every value of the constants
that satisfies the module's assumptions (finite positive pipe capacities, natural
bounds, a non-empty set of launches, distinct markers, texts shorter than the modulus,
questions that resolve a class before they do anything in its file). The bounds of the models
are constants too: the theorems hold whatever they are, so for runs of any length.

`LspSessionProofs`: `TypeCorrect`, `MirrorHolds` (`DocMirror`), `WireIsLegal`
(`WireLegal`), from `SessionInvariant`. The invariant `SessionInv` is `TypeOK`,
`DocMirror`, `WireLegal` and `QueryReady`. Given the types, `DocMirror` is preserved on
its own; `WireLegal` is not: a message is legal for the state the messages before it
lead to, `DocMirror` says that this state is the table as it was last encoded (and how far
the table may be ahead of that), and `QueryReady` that a query about to be sent has its
document in the table, which joins the two halves of a document query. The lemmas `AppendStep`, `TailStep` and `QuietStep` carry the steps: a
message is appended, the head of the pipe is read, or neither is touched.

The same module, on what passes between the two sides: `AnswersAreCurrent` (`AnswerIsCurrent`) and
`RefinesService` (`ImplementsService`), from `ExchangeInvariant`. Ids are given out once
(`FreshIds`), so the only request and the only answer with the id of the call in progress
are its own (`OwnRequest`, `OwnAnswer`). That the answer is made from the text the caller
has open needs more: no document message follows the request in the pipe (`NoNotesAfter`),
as the client writes nothing but replies while it waits; so, by `DocMirror`, what the server
holds when it answers is the document as it was last encoded (`sent`), and that is the
table unless its text cannot be encoded. Both results are about steps: the return of a
query is an answer of `DocumentService`'s, and every other step changes the table, and what
the server was told of it, as that specification allows, or nothing it shows.

`HandshakeIsLegal` (`HandshakeLegal`) and `AsksAreConserved` (`AsksConserved`) come from
`HandshakeInvariant`. `HandshakeLegal` speaks of the next message the server reads, so the
invariant speaks of all that are under way, each in the light of those before it
(`WireOrder`), and of what the client's phase says about pipe and server, which the next
write needs (`ClientAhead`). The exception for a shutdown without a handshake needs that a
session on which something was called has `initialized` read or under way (`Opened`).
`AsksInv` says that the server's requests that wait in its pipe
and the replies that wait in the client's are distinct, and together those it waits for.

`CallTreeProofs`: `TreeInvariant`, `AskedOnce` (`FetchedOnce`), `AccountedOnce`
(`OneAccountPerItem`), `DepthBounded` (`DepthBound`). The invariant `TreeInv` adds
what the properties do not say: `visited` is the set of the tree's items
(`VisitedIsTree`), the node being asked about is the last one and its loop has not
begun (`FetchingLast`), every item asked about has a node with an account of its own
(`AskedIsAccounted`), loops in progress belong to nodes that were not stopped
(`FramesExpanded`). With it a second question about an item would need a second
account, which `visited` excludes: `AskedAnewInState` says that of the question about to be
put, and the root of an incoming expansion is excluded because it is the first node.
`DepthBounded` holds for every integer `max_depth`.

The same module, on what the tree has of the answers: `TreeTrue` (`TreeIsTheAnswers`),
`ClosedTree` (`ClosedUnlessCut`), `WorkBounded` (`WorkBound`), from `AnswersInvariant`.
Those properties speak of finished trees, so `AnswersInv` says what holds on the way. A
loop in progress has turned the first calls of its answer into the children of its node
and has the rest before it (`Running`, by `Unfolds`); an expanded node without a loop has
all of its answer, unless nobody has been asked about it yet (`Finished`); every call of
every answer is visited, waits in a loop, or waits in the root's answer that was fetched
before the root (`Heard`). That the loops belong to ever later nodes (`Ordered`) is what
lets a new child change the answer of the innermost one alone. `WorkBound` is then
counting: a node below the root is told by its place among its siblings and the item of
its parent, of which there are at most `MaxFan` times the items asked about.

`ExpansionTerminates`: no expansion goes on for ever, cyclic graph or not. `StepsLeft`, a
natural number in every reachable state, falls with every step: probes before the deadline,
nodes that answers can still make (natural by `WorkBound`), twice the questions (items not
met yet and the one in hand; a question opens a loop, which must return), and the loops that
run. It is at first at most `MostSteps` = `MaxProbes` + 1 + `MaxFan` n + 2 n + 3 for n
items. It rests on `TreeInv`, `AnswersInv` and `ProbesEnd` (no probe after the last that
fits).

`SnippetsOnce` (`SnippetsUnique`) is about the flat list, a recursive function on the
number of nodes (`Collected`): if the function did not exist, or `CollectedWell` (what is in
the list after n nodes) failed, there would be a least number where it does (`Least`), and
`CollectStep` excludes it.

`ServiceProofs`: `ServiceInvariant`, `ServiceTyped` (`TypeOK`), `LaunchKept`
(`SameLaunch`), `ResultsClean` (`CleanResult`), `ToldAtMostOnce` (`ToldOnce`), `NoLeaks`
(`NothingLeaks`), `StraysExplained` (`NoStrays`). The last two speak of the moments
between calls only, so the invariant `ServiceInv` says what is true on the way:
which kinds of call come to which places (`Routes`), whose child is at work
(`Ownership`), that every other child is gone for good (`OthersGone`), how far the one
at work has been taken down (`Teardown`), and, for the result, what the shutdown has
achieved if nothing has been thrown (`NotYetTold`, `CleanSoFar`). Two lemmas carry the
steps: `DriftInv` for whatever a child or its drainer may do, `MoveInv` for a step of
the calling thread, and each action is reduced to one of them. For `McpServerProofs`
there is also `Settled`, about the service when no call is in progress.

`McpServerProofs`: `McpInvariant`, `McpTyped`, `RequestsAnswered` (`EveryRequestAnswered`),
`OneLaunchForLife` (`BoundForLife`), `EndsClean` (`CleanEnd`). The service's invariant
is reused as it is: each step of the composition is a step of the service, or leaves
its variables alone. `McpInv` ties the two together: until the process aborts the service
keeps its invariant (`Tended`), what it works at is the call of the line being served, or
the final shutdown (`Errand`), and once a live tool has answered, the entry is there and is
of the launch that answered (`LiveBound`).

`PureProofs`, on `SourceWindow`: `WindowInBounds` (`InBounds`) for every modulus, file,
range and padding, `RangeShown` (`ShowsTheRange`) and `SomethingShown` (`NeverEmpty`) for
the paddings they speak of. They assume that a file and its range are shorter than the
modulus, which a file in memory is.

On `UriCodec`: `AnySpellingRead` (`AnySpelling`), for paths of any length and bytes, and
`EncodedIsRead`, that `percent_decode` undoes `percent_encode` on every sequence of bytes.
A text is the spellings of the path's bytes laid end to end (`Laid`), so it is known where
each of them lies (`PieceAt`); a spelling is read in one round of the loop, and whatever
follows it cannot be taken for a part of it (`SpellingRead`), so what is read from the end of the
n-th spelling is the rest of the path after n bytes (`DecodeSpelled`). Only that paths
are normal is used of `lexically_normal`: on them it is the identity.

On `SymbolSearch`: `OfferedMethodFound` (`MethodFound`) and `FirstMethodIsFound`, for
forests of any depth and width. `IsFirst` says that a place is the first of the methods
under another and its first n children, or that there is none. A round of the loop leads
from n - 1 children to n (`RoundFinds`), if the recursive call for the n-th is right; what is
under an earlier child comes before what is under a later one (`BranchBefore`). Then a level is
right if the one below it is (`SearchFinds`). `OffersIs` goes from symbols to the answer
they were parsed from, of which some roots were dropped.

No prover here does induction with a predicate as parameter, and none unfolds a
recursive function. Wherever one is met, that it exists and what it computes is shown by hand:
if not, there would be a least number for which it fails (`Least`), and one round of the
recursion excludes that.

`ExpansionProofs`: `Invariant`, `ExpansionTyped`, `OneMethod` (`SameMethod`),
`SnippetsTrue` (`SnippetsShow`), `AnchorTrue` (`AnchorInClass`). `SameMethod` alone is not inductive: two steps look
for the method anew, and nothing in it says that they look at the same text. The
invariant `ExpansionInv` adds that what an attempt looks at is open (`Lookup`), that
every anchor so far is the first method of the name in the text of the one file of the
question (`Anchored`), and that the file cannot change, because no class is resolved
once there are trees (`Route`). An open file is never sent again, so its text and with
it the first method stay. For the snippets, `Trust` says that the server's text of a
trusted file is the one on disk and `Asked` that an item is named for what is at its
line in the server's text; `WindowAround`, about the operators of `SourceWindow` with the
width of `size_t`, then puts that line inside the window (`NodeShows`). The delicate
step is `EnsureOpenStep`: a file becomes trusted there, and no node may have shown an
older text of it; `Anchored` shows that no tree exists yet. `AnchorTrue` needs to know what holds while nobody edits
(`Undisturbed`): every text the server answers from is the one on disk and stays so when a
file is opened, so a file chosen for declaring the class still does when the method is
looked for.

`WorkspaceManagerProofs`: `ManagerInvariant`, `ManagerTyped`, `OneServerAtATime`
(`OneServer`), `StateTrue` (`StateIsTrue`), `ResponsesComplete` (`AnchorOnSuccess`). The
published state lags behind what is going on, so the invariant `ManagerInv` speaks of
the points of the calls: where there is a server (`HasServer`), what it has been told
(`Told`), what may be published there and what that then means (`Truth`), and what an
expansion has found or will have found by its end (`Work`).

`AnchorResolveProofs`: `AnchorInvariant`, `AnchorTyped` (`TypeOK`), `FirstAnchor`
(`FirstThatFits`). `FirstThatFits` speaks of the end, so `AnchorInv` says what holds on
the way: what the attempt has tried and what it has left are together the candidates of
the last answer (`Trying`, by `Remain`). That the candidates are the wanted symbols, all
of them and in order, is a fact about the loop of `select_anchor_candidates`
(`CandidatesWell`); `KeptStep` is its one round, and `Least` the induction, as above.
It is assumed that a symbol's name is folded letters and whether there are parameters,
and that the model's "none" is no file.
`AttemptsEnd` is about `Ends` there: a step of the thread leaves an attempt less to do
(`WorkLeft`: a search, two requests per candidate, the pause), except the one that begins an
attempt, which leaves at most `MostWork` = 2 `MaxSymbols` + 5; the clock adds nothing. So
between two looks at the clock there are only so many steps, whatever the server answers.

Only model-checked: the liveness properties (`CallsEnd`, `ShutdownEnds`, `Ends`,
`ServingEnds`), which need fairness, and fairness needs `ENABLED`, which this prover does
not reason about. Of the two `Ends` the half without fairness is proved
(`ExpansionTerminates`, `AttemptsEnd`): an expansion, and an attempt to find an anchor, has
only so many steps, so what is left to TLC is that a step is taken when one can be, and
that the clock gets past the deadline. Every invariant and every action property
that a run checks is a theorem.

## 5. Not modelled, and why

* Field-by-field JSON parsing, formatting (`inspect.cpp`), tracing: an answer is well
  formed, an error, or makes its parser throw.
* JDTLS discovery and command lines: look-ups without state; `SpawnThrows` is what
  the service sees of them.
* `expand.cpp`: in no build target, and replaced by `semantic.cpp`.
* The demos' options, set-up and printing; their questions are in `Expansion`.
* pcr's inside, and JDTLS: external; modelled from their use.
* What a file edited behind an open document ought to give: it is never sent again
  unless the caller syncs it, and snippets are cut from the disk at positions computed
  from the open text. `Expansion` shows what holds all the same.
* A callee whose URI is not a file's (a class of a library) throws where it is parsed
  (`session.cpp:294`) and ends the expansion: `RequestThrows` of `CallTree` and
  `Expansion`, with no promise to hold it against.
* Two servers on one workspace directory (a one-shot tool beside the live session):
  the conflict is inside JDTLS.

## 6. Plan

Done, in this order: `LspSession` with `DocumentService`, `CallTree`, `Service`,
`McpServer`, `SourceWindow`, `AnchorResolve`, then `Expansion`, `WorkspaceManager`,
`UriCodec` and `SymbolSearch`, and the proofs of section 4.

Next: the formatting in `inspect.cpp` and the parsers that copy fields, should a property
come to depend on them.
