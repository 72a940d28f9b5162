------------------------------ MODULE LspSession ------------------------------
(***************************************************************************)
(* clspc::Session (src/session.cpp): one JSON-RPC conversation of a single- *)
(* threaded client with a language server that runs as a child process.    *)
(*                                                                         *)
(* The client keeps a table of the documents it has opened.  The server    *)
(* keeps its own copy, built from the didOpen / didChange / didClose notes *)
(* that reach it through a pipe.  Every query about a document relies on   *)
(* the two agreeing by the time the server reads the query.  The client    *)
(* reads its own input only while it waits for an answer, so everything    *)
(* the server says in between piles up in the other pipe.                  *)
(*                                                                         *)
(* Wire framing, JSON and the dispatcher (external/pcr) are outside the    *)
(* repository: they are modelled by what session.cpp relies on.            *)
(***************************************************************************)
EXTENDS Integers, Sequences, FiniteSets

CONSTANTS
    Uris,           \* documents the caller names
    Texts,          \* contents a document may have
    NotUtf8,        \* those of them that JSON cannot carry: dump() throws
    NoUri,          \* the subject of a request that is about no open document
    NoText,         \* the content of a file that cannot be read
    PipeCap,        \* messages a pipe holds; a writer blocks when it is full
    MaxCalls,       \* bound: API calls made between initialized and shutdown
    MaxUnprompted,  \* bound: messages the server sends of its own accord
    MaxEdits        \* bound: changes made to the files behind the client

ASSUME TextsAssumption == NoText \notin Texts /\ NotUtf8 \subseteq Texts
ASSUME UrisAssumption  == NoUri \notin Uris
ASSUME BoundsAssumption ==
    /\ PipeCap \in Nat \ {0}
    /\ MaxCalls \in Nat
    /\ MaxUnprompted \in Nat
    /\ MaxEdits \in Nat

VARIABLES
    phase,       \* how far the owner of the Session has taken it
    call,        \* the API call in progress and the step it has reached
    docs,        \* docs_by_uri
    sent,        \* history: each document as it was last encoded for the server
    nextId,      \* id the dispatcher gives to the next request
    responses,   \* answers the dispatcher has read and nobody has taken
    result,      \* what the last request call returned or threw
    toServer,    \* the child's stdin
    toClient,    \* the child's stdout
    alive,       \* the child runs
    srvPhase,    \* the server's view of the handshake
    srvDocs,     \* the server's copy of the documents
    srvPending,  \* requests the server has read and not answered
    srvAsked,    \* requests of the server's own that await a reply
    disk,        \* the files
    calls, unprompted, edits    \* counters against the bounds

clientVars == <<phase, call, docs, sent, nextId, responses, result, calls>>
serverVars == <<srvPhase, srvDocs, srvPending, srvAsked, unprompted>>
world == <<alive, serverVars, disk, edits>>    \* what no client step touches
vars == <<clientVars, toServer, toClient, world>>

-----------------------------------------------------------------------------
(* Documents and messages.                                                 *)

Closed == [text |-> NoText, version |-> 0]

OpenDocument == [text : Texts, version : Nat \ {0}]

\* What params.dump() turns into JSON; for any other bytes it throws.
Encodable == Texts \ NotUtf8

DocKinds == {"didOpen", "didChange", "didClose"}

\* "query" stands for the five requests that name a document and make sure it
\* is open; "lookup" for workspace/symbol and the two callHierarchy requests.
QueryOps == {"query", "lookup"}
RequestOps == QueryOps \cup {"initialize", "shutdown"}

DocNote(kind, u, doc) == [kind |-> kind, id |-> 0, uri |-> u, doc |-> doc]
Request(op, id, u)    == [kind |-> op, id |-> id, uri |-> u, doc |-> Closed]
Notice(kind)          == Request(kind, 0, NoUri)
Reply(id)             == Request("reply", id, NoUri)

Answer(req, status, text) ==
    [kind |-> "answer", id |-> req.id, op |-> req.kind, uri |-> req.uri,
     status |-> status, text |-> text]
Unprompted(kind, id) ==
    [kind |-> kind, id |-> id, op |-> "none", uri |-> NoUri,
     status |-> "none", text |-> NoText]

NoCall == [op |-> "none", uri |-> NoUri, step |-> "idle", id |-> 0]
NoResult == [op |-> "none", uri |-> NoUri, outcome |-> "none", text |-> NoText]

-----------------------------------------------------------------------------
Init ==
    /\ phase = "spawned" /\ call = NoCall
    /\ docs = [u \in Uris |-> Closed] /\ sent = docs
    /\ nextId = 1 /\ responses = {} /\ result = NoResult
    /\ toServer = <<>> /\ toClient = <<>> /\ alive = TRUE
    /\ srvPhase = "new" /\ srvDocs = [u \in Uris |-> Closed]
    /\ srvPending = {} /\ srvAsked = {}
    /\ disk \in [Uris -> Texts \cup {NoText}]
    /\ calls = 0 /\ unprompted = 0 /\ edits = 0

-----------------------------------------------------------------------------
(* The client.  A write either goes through, or blocks while the pipe is    *)
(* full, or throws because nobody holds the other end.                     *)

Idle == call.step = "idle"

Emit(m) ==
    /\ alive /\ Len(toServer) < PipeCap
    /\ toServer' = Append(toServer, m)

WriteThrows == ~alive /\ UNCHANGED toServer

\* Defect: initialize() is taken for the whole handshake.
FinishSkipsInitialized(outcome, op, u, text) ==
    /\ result' = [op |-> op, uri |-> u, outcome |-> outcome, text |-> text]
    /\ call' = IF call.op = "shutdown" THEN [call EXCEPT !.step = "exit"] ELSE NoCall
    /\ phase' = IF call.op # "initialize" THEN phase
                ELSE IF outcome = "ok" THEN "open" ELSE "failed"

\* Defect: the exception of the shutdown request leaves shutdown_and_exit.
FinishNotSwallowed(outcome, op, u, text) ==
    /\ result' = [op |-> op, uri |-> u, outcome |-> outcome, text |-> text]
    /\ call' = IF call.op = "shutdown" /\ outcome = "ok"
               THEN [call EXCEPT !.step = "exit"]
               ELSE NoCall
    /\ phase' = IF call.op = "initialize"
                THEN IF outcome = "ok" THEN "ready" ELSE "failed"
                ELSE phase

\* The call in progress ends; only "shutdown" goes on, whatever happened.
Finish(outcome, op, u, text) ==
    /\ result' = [op |-> op, uri |-> u, outcome |-> outcome, text |-> text]
    /\ call' = IF call.op = "shutdown"
               THEN [call EXCEPT !.step = "exit"]
               ELSE NoCall
    /\ phase' = IF call.op = "initialize"
                THEN IF outcome = "ok" THEN "ready" ELSE "failed"
                ELSE phase

Throw == Finish("threw", call.op, call.uri, NoText)

Begin(op, u, step) ==
    call' = [op |-> op, uri |-> u, step |-> step, id |-> 0]

\* The caller's next call once the handshake is over.
NextCall ==
    /\ Idle /\ phase = "open"
    /\ calls < MaxCalls /\ calls' = calls + 1

Initialize ==
    /\ Idle /\ phase = "spawned"
    /\ phase' = "initializing"
    /\ Begin("initialize", NoUri, "request")
    /\ UNCHANGED <<docs, sent, nextId, responses, result, calls, toServer, toClient, world>>

Initialized ==
    /\ Idle /\ phase = "ready"
    /\ \/ Emit(Notice("initialized")) /\ phase' = "open"
       \/ WriteThrows /\ phase' = "failed"
    /\ UNCHANGED <<call, docs, sent, nextId, responses, result, calls, toClient, world>>

\* Defect: the query goes out without making sure its document is open.
QueryUnopened(u) ==
    /\ NextCall
    /\ Begin("query", u, "request")
    /\ UNCHANGED <<phase, docs, sent, nextId, responses, result, toServer, toClient, world>>

\* document_symbols, definition, implementation, references and
\* prepare_call_hierarchy: open the document first unless the table has it.
DocumentQuery(u) ==
    /\ NextCall
    /\ Begin("query", u, IF docs[u] = Closed THEN "ensure" ELSE "request")
    /\ UNCHANGED <<phase, docs, sent, nextId, responses, result, toServer, toClient, world>>

\* workspace_symbols, outgoing_calls and incoming_calls.
Lookup ==
    /\ NextCall
    /\ Begin("lookup", NoUri, "request")
    /\ UNCHANGED <<phase, docs, sent, nextId, responses, result, toServer, toClient, world>>

OpenDoc(u, t) ==
    LET doc == [text |-> t, version |-> 1]
    IN  /\ Emit(DocNote("didOpen", u, doc))
        /\ docs' = [docs EXCEPT ![u] = doc] /\ sent' = [sent EXCEPT ![u] = doc]

\* Defect: a file that cannot be read is opened all the same.
OpenUnreadable ==
    /\ call.step = "ensure"
    /\ OpenDoc(call.uri, disk[call.uri])
    /\ call' = [call EXCEPT !.step = "request"]
    /\ UNCHANGED <<phase, result, nextId, responses, calls, toClient, world>>

\* ensure_query_document_available -> sync_disk_file -> sync_text.  A file that
\* cannot be read, or whose bytes are not UTF-8, makes the query throw.
EnsureOpen ==
    /\ call.step = "ensure"
    /\ LET u == call.uri
       IN  \/ /\ disk[u] \in Encodable /\ OpenDoc(u, disk[u])
              /\ call' = [call EXCEPT !.step = "request"]
              /\ UNCHANGED <<phase, result>>
           \/ /\ disk[u] \notin Encodable \/ ~alive
              /\ Throw
              /\ UNCHANGED <<docs, sent, toServer>>
    /\ UNCHANGED <<nextId, responses, calls, toClient, world>>

SendRequest ==
    /\ call.step = "request"
    /\ \/ /\ Emit(Request(call.op, nextId, call.uri))
          /\ call' = [call EXCEPT !.step = "wait", !.id = nextId]
          /\ UNCHANGED <<phase, result>>
       \/ WriteThrows /\ Throw
    /\ nextId' = nextId + 1
    /\ UNCHANGED <<docs, sent, responses, calls, toClient, world>>

\* Defect: the first answer that comes is taken, whatever request it is for.
AnyResponse == responses

\* take_response(id): the call ends with the answer, with the server's error,
\* or with the exception of a parser that rejects the answer.
Mine == {r \in responses : r.id = call.id}

TakeResponse ==
    /\ call.step = "wait"
    /\ \E r \in Mine :
         /\ responses' = responses \ {r}
         /\ Finish(r.status, r.op, r.uri, r.text)
    /\ UNCHANGED <<docs, sent, nextId, calls, toServer, toClient, world>>

\* One pass through pump_once() while the answer is not there yet.
Pumping == call.step = "wait" /\ Mine = {} /\ toClient # <<>>

PumpAnswer ==
    /\ Pumping /\ Head(toClient).kind = "answer"
    /\ responses' = responses \cup {Head(toClient)}
    /\ toClient' = Tail(toClient)
    /\ UNCHANGED <<phase, call, docs, sent, nextId, result, calls, toServer, world>>

\* Defect: a request of the server's is treated as a notification.
DropAsk ==
    /\ Pumping /\ Head(toClient).kind = "ask"
    /\ toClient' = Tail(toClient)
    /\ UNCHANGED <<phase, call, docs, sent, nextId, responses, result, calls, toServer,
                   world>>

\* A request of the server's: its handler's result is written straight back.
PumpAsk ==
    /\ Pumping /\ Head(toClient).kind = "ask"
    /\ \/ Emit(Reply(Head(toClient).id)) /\ UNCHANGED <<phase, call, result>>
       \/ WriteThrows /\ Throw
    /\ toClient' = Tail(toClient)
    /\ UNCHANGED <<docs, sent, nextId, responses, calls, world>>

PumpNotification ==
    /\ Pumping /\ Head(toClient).kind = "notify"
    /\ toClient' = Tail(toClient)
    /\ UNCHANGED <<phase, call, docs, sent, nextId, responses, result, calls, toServer,
                   world>>

\* A payload that is no JSON-RPC message makes the codec throw through
\* pump_once; the request is abandoned and its answer may still come.
PumpGarbage ==
    /\ Pumping /\ Head(toClient).kind = "garbage"
    /\ toClient' = Tail(toClient)
    /\ Throw
    /\ UNCHANGED <<docs, sent, nextId, responses, calls, toServer, world>>

PumpEof ==
    /\ call.step = "wait" /\ Mine = {} /\ toClient = <<>> /\ ~alive
    /\ Throw
    /\ UNCHANGED <<docs, sent, nextId, responses, calls, toServer, toClient, world>>

\* Defect: the text is replaced in the table and nothing is sent.
SyncSilently(u, t) ==
    /\ IF docs[u] = Closed
       THEN t \in Encodable /\ OpenDoc(u, t)
       ELSE /\ docs' = [docs EXCEPT ![u].text = t]
            /\ UNCHANGED <<sent, toServer>>
    /\ UNCHANGED <<phase, call, nextId, responses, result, toClient, world>>

\* sync_text: open, keep, or replace the text.  A document is opened in the
\* table once its note is written, but replaced there first: the table keeps the
\* new text if the note cannot be encoded, with the server alive and not told,
\* and if it cannot be written.
SyncText(u, t) ==
    /\ \/ /\ docs[u] = Closed /\ t \in Encodable
          /\ OpenDoc(u, t) \/ (WriteThrows /\ UNCHANGED <<docs, sent>>)
       \/ docs[u] = Closed /\ t \in NotUtf8 /\ UNCHANGED <<docs, sent, toServer>>
       \/ docs[u].text = t /\ UNCHANGED <<docs, sent, toServer>>
       \/ /\ docs[u] # Closed /\ docs[u].text # t
          /\ docs' = [docs EXCEPT ![u] = [text |-> t, version |-> @.version + 1]]
          /\ \/ t \in NotUtf8 /\ UNCHANGED <<sent, toServer>>
             \/ /\ t \in Encodable
                /\ Emit(DocNote("didChange", u, docs'[u])) \/ WriteThrows
                /\ sent' = [sent EXCEPT ![u] = docs'[u]]
    /\ UNCHANGED <<phase, call, nextId, responses, result, toClient, world>>

SyncMemory(u) == NextCall /\ \E t \in Texts : SyncText(u, t)

\* sync_disk_file on a file that can be read (an unreadable one only throws).
SyncDisk(u) == NextCall /\ disk[u] # NoText /\ SyncText(u, disk[u])

\* Defect: the table keeps the document that was closed.
CloseKeepsEntry(u) ==
    /\ NextCall /\ docs[u] # Closed
    /\ Emit(DocNote("didClose", u, Closed))
    /\ UNCHANGED <<phase, call, docs, sent, nextId, responses, result, toClient, world>>

CloseFile(u) ==
    /\ NextCall /\ docs[u] # Closed
    /\ \/ /\ Emit(DocNote("didClose", u, Closed))
          /\ docs' = [docs EXCEPT ![u] = Closed]
          /\ sent' = [sent EXCEPT ![u] = Closed]
       \/ WriteThrows /\ UNCHANGED <<docs, sent>>
    /\ UNCHANGED <<phase, call, nextId, responses, result, toClient, world>>

\* shutdown_and_exit, its first half: the request and its answer go through
\* SendRequest, the pumps and TakeResponse; whatever they throw is swallowed.
ShutdownAndExit ==
    /\ Idle /\ phase \in {"open", "failed"}
    /\ phase' = "closing"
    /\ Begin("shutdown", NoUri, "request")
    /\ UNCHANGED <<docs, sent, nextId, responses, result, calls, toServer, toClient, world>>

\* The second half: "exit", then stdin is closed unless writing "exit" threw.
SendExit ==
    /\ call.step = "exit"
    /\ Emit(Notice("exit")) \/ WriteThrows
    /\ call' = NoCall
    /\ phase' = "exiting"
    /\ UNCHANGED <<docs, sent, nextId, responses, result, calls, toClient, world>>

\* wait() returns when the child is gone.
Wait ==
    /\ Idle /\ phase = "exiting" /\ ~alive
    /\ phase' = "closed"
    /\ UNCHANGED <<call, docs, sent, nextId, responses, result, calls, toServer,
                   toClient, world>>

-----------------------------------------------------------------------------
(* The server (external).  It reads its input in order, answers requests in *)
(* any order and with the text it holds when it answers, and may say things *)
(* nobody asked for: requests of its own, notifications, stray output.     *)

Input == Head(toServer)

Reads(kinds) ==
    /\ alive /\ toServer # <<>> /\ Input.kind \in kinds
    /\ toServer' = Tail(toServer)

SrvReadDoc ==
    /\ Reads(DocKinds)
    /\ srvDocs' = [srvDocs EXCEPT ![Input.uri] = Input.doc]
    /\ UNCHANGED <<clientVars, toClient, alive, srvPhase, srvPending, srvAsked,
                   unprompted, disk, edits>>

SrvReadRequest ==
    /\ Reads(RequestOps)
    /\ srvPending' = srvPending \cup {Input}
    /\ srvPhase' = IF Input.kind = "shutdown" THEN "down" ELSE srvPhase
    /\ UNCHANGED <<clientVars, toClient, alive, srvDocs, srvAsked, unprompted,
                   disk, edits>>

SrvReadInitialized ==
    /\ Reads({"initialized"})
    /\ srvPhase' = "running"
    /\ UNCHANGED <<clientVars, toClient, alive, srvDocs, srvPending, srvAsked,
                   unprompted, disk, edits>>

SrvReadReply ==
    /\ Reads({"reply"})
    /\ srvAsked' = srvAsked \ {Input.id}
    /\ UNCHANGED <<clientVars, toClient, alive, srvPhase, srvDocs, srvPending,
                   unprompted, disk, edits>>

SrvReadExit ==
    /\ Reads({"exit"})
    /\ alive' = FALSE
    /\ UNCHANGED <<clientVars, toClient, serverVars, disk, edits>>

SrvSay(m) ==
    /\ alive /\ Len(toClient) < PipeCap
    /\ toClient' = Append(toClient, m)

TextFor(req) == IF req.kind = "query" THEN srvDocs[req.uri].text ELSE NoText

\* "threw": the result is one the parsers of session.cpp refuse, such as a
\* location whose URI is no file URI.
SrvAnswer ==
    /\ \E req \in srvPending, status \in {"ok", "error", "threw"} :
         /\ SrvSay(Answer(req, status, TextFor(req)))
         /\ srvPending' = srvPending \ {req}
         /\ srvPhase' = IF req.kind = "initialize" /\ srvPhase = "new"
                        THEN "ready" ELSE srvPhase
    /\ UNCHANGED <<clientVars, toServer, alive, srvDocs, srvAsked, unprompted,
                   disk, edits>>

SrvUnprompted ==
    /\ unprompted < MaxUnprompted /\ unprompted' = unprompted + 1
    /\ \E kind \in {"ask", "notify", "garbage"} :
         /\ SrvSay(Unprompted(kind, unprompted'))
         /\ srvAsked' = IF kind = "ask" THEN srvAsked \cup {unprompted'} ELSE srvAsked
    /\ UNCHANGED <<clientVars, toServer, alive, srvPhase, srvDocs, srvPending, disk, edits>>

\* What it had not read is lost; what it had written can still be read.
SrvCrash ==
    /\ alive /\ alive' = FALSE
    /\ toServer' = <<>>
    /\ UNCHANGED <<clientVars, toClient, serverVars, disk, edits>>

\* Somebody edits, deletes or restores a file.
EditDisk ==
    /\ edits < MaxEdits /\ edits' = edits + 1
    /\ \E u \in Uris, t \in Texts \cup {NoText} :
         t # disk[u] /\ disk' = [disk EXCEPT ![u] = t]
    /\ UNCHANGED <<clientVars, toServer, toClient, alive, serverVars>>

-----------------------------------------------------------------------------
Invoke ==
    \/ Initialize \/ Initialized
    \/ Lookup
    \/ \E u \in Uris : DocumentQuery(u) \/ SyncMemory(u) \/ SyncDisk(u) \/ CloseFile(u)
    \/ ShutdownAndExit

\* The steps the client's thread takes inside a call it has begun.
Progress ==
    \/ EnsureOpen \/ SendRequest \/ TakeResponse
    \/ PumpAnswer \/ PumpAsk \/ PumpNotification \/ PumpGarbage \/ PumpEof
    \/ SendExit \/ Wait

SrvRead ==
    SrvReadDoc \/ SrvReadRequest \/ SrvReadInitialized \/ SrvReadReply \/ SrvReadExit

\* The session is over: nothing is left to do.
Over == phase = "closed" /\ UNCHANGED vars

Next ==
    \/ Invoke \/ Progress
    \/ SrvRead \/ SrvAnswer \/ SrvUnprompted \/ SrvCrash
    \/ EditDisk
    \/ Over

Spec == Init /\ [][Next]_vars

(* The client's thread runs while it can.  A server that lives reads what it *)
(* is sent and answers, but may hold every answer back until the requests   *)
(* it made itself have been replied to.                                    *)
AnswerUnlessWaiting == srvAsked = {} /\ SrvAnswer

Fairness ==
    /\ WF_vars(Progress)
    /\ WF_vars(SrvRead)
    /\ WF_vars(AnswerUnlessWaiting)

FairSpec == Spec /\ Fairness

-----------------------------------------------------------------------------
(* Properties.                                                             *)

Doc == OpenDocument \cup {Closed}

Queries  == [kind : {"query"}, id : Nat, uri : Uris, doc : {Closed}]
Requests == Queries \cup
            [kind : RequestOps \ {"query"}, id : Nat, uri : {NoUri}, doc : {Closed}]
DocNotes == [kind : DocKinds, id : {0}, uri : Uris, doc : Doc]
Notices  == [kind : {"initialized", "reply", "exit"}, id : Nat, uri : {NoUri}, doc : {Closed}]
Answers  == [kind : {"answer"}, id : Nat, op : RequestOps, uri : Uris \cup {NoUri},
             status : {"ok", "error", "threw"}, text : Texts \cup {NoText}]
Sayings  == [kind : {"ask", "notify", "garbage"}, id : Nat, op : {"none"}, uri : {NoUri},
             status : {"none"}, text : {NoText}]

CallTypeOK ==
    /\ phase \in {"spawned", "initializing", "ready", "failed", "open", "closing",
                  "exiting", "closed"}
    /\ call \in [op : RequestOps \cup {"none"}, uri : Uris \cup {NoUri}, id : Nat,
                 step : {"idle", "ensure", "request", "wait", "exit"}]
    /\ call.step # "idle" => call.op \in RequestOps
    /\ call.step = "ensure" => call.op = "query"
    /\ IF call.op = "query" THEN call.uri \in Uris ELSE call.uri = NoUri
    /\ result \in [op : RequestOps \cup {"none"}, uri : Uris \cup {NoUri},
                   outcome : {"none", "ok", "error", "threw"}, text : Texts \cup {NoText}]

StoreTypeOK ==
    /\ docs \in [Uris -> Doc] /\ sent \in [Uris -> Doc]
    /\ disk \in [Uris -> Texts \cup {NoText}]
    /\ nextId \in Nat /\ calls \in Nat /\ edits \in Nat
    /\ responses \subseteq Answers

PipeTypeOK ==
    /\ toServer \in Seq(Requests \cup DocNotes \cup Notices)
    /\ toClient \in Seq(Answers \cup Sayings)
    /\ alive \in BOOLEAN

ServerTypeOK ==
    /\ srvPhase \in {"new", "ready", "running", "down"}
    /\ srvDocs \in [Uris -> Doc]
    /\ srvPending \subseteq Requests /\ srvAsked \subseteq Nat /\ unprompted \in Nat

\* Every variable holds a value of the kind its declaration says (Session::Impl
\* and the two pipes).
TypeOK == CallTypeOK /\ StoreTypeOK /\ PipeTypeOK /\ ServerTypeOK

About(m, u) == m.kind \in DocKinds /\ m.uri = u

\* Of the first i - 1 messages under way, none is about u; or j is the last one.
Untouched(i, u) == \A j \in 1 .. i - 1 : ~About(toServer[j], u)
Latest(i, u, j) ==
    /\ j \in 1 .. i - 1 /\ About(toServer[j], u)
    /\ \A k \in j + 1 .. i - 1 : ~About(toServer[k], u)

\* What was encoded of a document is the table's, unless the table's text is one
\* that could not be: then it is an earlier version, of a text that could.
Encoded == \A u \in Uris :
    IF docs[u].text \in NotUtf8
    THEN sent[u].text \in Encodable /\ sent[u].version < docs[u].version
    ELSE sent[u] = docs[u]

\* The server's copy will be what was encoded last, once it has read its input.
Mirrored ==
    LET end == Len(toServer) + 1
    IN  alive => \A u \in Uris :
          /\ Untouched(end, u) => srvDocs[u] = sent[u]
          /\ \A j \in DOMAIN toServer : Latest(end, u, j) => toServer[j].doc = sent[u]

\* The server's copy, once it has read all that was sent to it, is the client's
\* table: docs_by_uri is not behind the notes sync_text and close_file wrote,
\* and ahead of them only while its text is one the didChange could not carry.
DocMirror == Encoded /\ Mirrored

\* What the protocol lets the server accept while it holds d for the message's
\* document: no second didOpen, a didChange whose version is higher than the one
\* it holds, no didClose or query of a document that is not open.
Legal(m, d) ==
    CASE m.kind = "didOpen"   -> d = Closed /\ m.doc # Closed
      [] m.kind = "didChange" -> d # Closed /\ m.doc.version > d.version
      [] m.kind = "didClose"  -> d # Closed
      [] m.kind = "query"     -> d # Closed
      [] OTHER -> TRUE

\* Every message under way to the server will be legal when the server reads it:
\* the order in which ensure_query_document_available, sync_text, close_file and
\* the queries write is one an LSP server accepts.
WireLegal ==
    alive => \A i \in DOMAIN toServer : \A u \in Uris : toServer[i].uri = u =>
        /\ Untouched(i, u) => Legal(toServer[i], srvDocs[u])
        /\ \A j \in DOMAIN toServer : Latest(i, u, j) => Legal(toServer[i], toServer[j].doc)

\* The handshake as the server sees it: "initialized" only after it has answered
\* "initialize", documents, queries and lookups only after "initialized", "exit"
\* only after "shutdown", and one "shutdown", after "initialized" too.  One
\* exception: a session on which nothing was called may be shut down earlier,
\* "initialize" answered or not, because with_started_session does so when the
\* handshake throws (create_session_entry, with_started_session).
HandshakeLegal ==
    alive /\ toServer # <<>> =>
        CASE Input.kind = "initialize"  -> srvPhase = "new"
          [] Input.kind = "initialized" -> srvPhase = "ready"
          [] Input.kind = "exit"        -> srvPhase = "down"
          [] Input.kind = "shutdown"    -> \/ srvPhase = "running"
                                           \/ calls = 0 /\ srvPhase \in {"new", "ready"}
          [] Input.kind = "reply"       -> Input.id \in srvAsked
          [] OTHER                      -> srvPhase = "running"

\* While the server lives, each request of its own that it still waits for is
\* in exactly one place: unread by pump_once, or answered and under way.
AsksConserved ==
    LET unread  == {i \in DOMAIN toClient : toClient[i].kind = "ask"}
        replied == {i \in DOMAIN toServer : toServer[i].kind = "reply"}
    IN  alive =>
          /\ srvAsked = {toClient[i].id : i \in unread} \cup {toServer[i].id : i \in replied}
          /\ Cardinality(srvAsked) = Cardinality(unread) + Cardinality(replied)

\* A request call that returns normally returns the answer to the request it
\* made, computed from the text its caller has open, or, while that is a text
\* the didChange could not carry, from the last one before it that could be sent;
\* the answer to a request an earlier call abandoned is never taken for it
\* (request_json_raw, sync_text).
AnswerIsCurrent ==
    [][ call.step = "wait" /\ call'.step # "wait" /\ result'.outcome = "ok" =>
          /\ result'.op = call.op /\ result'.uri = call.uri
          /\ call.op = "query" =>
               result'.text = IF docs[call.uri].text \in NotUtf8
                              THEN sent[call.uri].text ELSE docs[call.uri].text ]_vars

\* Every call ends, by a return or a throw, although no request has a timeout:
\* a server that waits for replies to its own requests gets them from the pump,
\* and one that dies makes the pump see the end of the stream.
CallsEnd == call.step # "idle" ~> call.step = "idle"

\* Once shutdown_and_exit has been called the child is gone in the end and
\* wait() returns.
ShutdownEnds == phase = "closing" ~> phase = "closed"

-----------------------------------------------------------------------------
(* The session implements the service: the table is docs_by_uri's texts,    *)
(* what was told is what was encoded for the server, and a call is over     *)
(* once its result is known (what is left of shutdown_and_exit after that   *)
(* is the session's own business).                                         *)

Service == INSTANCE DocumentService WITH
    table   <- [u \in Uris |-> docs[u].text],
    told    <- [u \in Uris |-> sent[u].text],
    current <- IF call.step \in {"idle", "exit"}
               THEN [op |-> "none", uri |-> NoUri]
               ELSE [op |-> call.op, uri |-> call.uri],
    reply   <- result

\* Seen from the caller, the session with its server, pipes, ids and buffers
\* behaves as a table of documents that answers one query at a time.
ImplementsService == Service!Spec

===============================================================================
