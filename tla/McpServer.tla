------------------------------- MODULE McpServer -------------------------------
(***************************************************************************)
(* The MCP server (tools/clspc_mcp_smoke.cpp): one thread reads a line of   *)
(* JSON-RPC, serves it and writes at most one line back.  Two tools run a   *)
(* server of their own, two share the process-wide LiveSession, which main  *)
(* shuts down when its input ends.  The service is the module Service.     *)
(***************************************************************************)
EXTENDS Naturals, Sequences, FiniteSets

CONSTANTS
    Lines,          \* lines a client may send
    NoId, NullId,   \* no "id" member, and an "id" that is null
    MaxReceived,    \* bound: lines read
    Launches, PipeCap, MaxCalls, MaxAsks, MaxLines    \* of Service

VARIABLES
    phase,      \* what main is doing
    received,   \* every line read
    out,        \* every reply written
    logSet, call, at, thrown, current, entry, procs, calls    \* of Service

service == <<logSet, call, at, thrown, current, entry, procs, calls>>
vars == <<phase, received, out, service>>

S == INSTANCE Service

-----------------------------------------------------------------------------
(* Lines, by what the dispatch tells apart.  The form of a line is           *)
(*   "blank"     an empty line,                                             *)
(*   "garbage"   not JSON,                                                  *)
(*   "illformed" not JSON, and the parser's message quotes bytes of it that *)
(*               are not UTF-8,                                             *)
(*   "foreign"   a JSON object of another version of JSON-RPC,              *)
(*   "mistyped"  JSON of which a member has a type the loop does not expect, *)
(*   "message"   a message with a method, and for tools/call a tool and     *)
(*               its arguments.                                             *)

Methods == {"initialize", "notifications/initialized", "ping", "tools/list",
            "tools/call", "other"}
OneShotTools == {"jdtls_initialize_probe", "jdtls_document_symbols"}
LiveTools == {"jdtls_resolve_anchor", "jdtls_expand_calls"}
Tools == OneShotTools \cup LiveTools \cup {"smoke_echo", "none", "mistyped", "other"}
Directions == {"outgoing", "incoming", "both", "absent", "other"}

LineType ==
    [form : {"blank", "garbage", "illformed", "foreign", "mistyped", "message"},
     id : {l.id : l \in Lines} \cup {NoId, NullId}, method : Methods, tool : Tools,
     launch : Launches, arguments : {"good", "bad"}, direction : Directions]

ASSUME ServiceConstants ==
    /\ Launches # {} /\ PipeCap \in Nat \ {0}
    /\ MaxCalls \in Nat /\ MaxAsks \in Nat /\ MaxLines \in Nat
ASSUME LinesAssumption == Lines \subseteq LineType
ASSUME McpAssumption == MaxReceived \in Nat /\ MaxCalls > MaxReceived

IsRequest(l) == l.id # NoId
IsToolCall(l) == l.form = "message" /\ l.method = "tools/call" /\ IsRequest(l)
CallsService(l) == IsToolCall(l) /\ l.tool \in OneShotTools \cup LiveTools

Serving == received[Len(received)]

Init == phase = "reading" /\ received = <<>> /\ out = <<>> /\ S!Init

-----------------------------------------------------------------------------
Read(l) ==
    /\ phase = "reading" /\ Len(received) < MaxReceived
    /\ received' = Append(received, l)

Reply(id, kind, served) == out' = Append(out, [id |-> id, kind |-> kind, served |-> served])

\* Blank lines, and messages that are not requests.  notifications/initialized
\* is never answered, with an id or without.
Ignore(l) ==
    /\ Read(l)
    /\ \/ l.form = "blank"
       \/ l.form = "message" /\ (~IsRequest(l) \/ l.method = "notifications/initialized")
    /\ UNCHANGED <<phase, out, service>>

\* Not JSON, or not JSON-RPC 2.0: the error names no request, and quotes what the
\* parser says.
Reject(l) ==
    /\ Read(l)
    /\ l.form = "garbage" \/ (l.form = "foreign" /\ l.id \in {NoId, NullId})
    /\ Reply(NullId, "error", {})
    /\ UNCHANGED <<phase, service>>

\* An exception leaves main and the process is gone: the ends of every pipe are
\* closed and no destructor runs.
Terminate ==
    /\ phase' = "aborted"
    /\ procs' = [p \in DOMAIN procs |->
                   [procs[p] EXCEPT !.stdin = FALSE, !.errFd = FALSE, !.drainer = "stopped"]]
    /\ UNCHANGED <<out, logSet, call, at, thrown, current, entry, calls>>

\* nlohmann's value() throws outside the try blocks; so does dump() when the
\* message of the parse error it is to reply with is not UTF-8.
Abort(l) ==
    /\ Read(l)
    /\ \/ l.form \in {"mistyped", "illformed"}
       \/ l.form = "foreign" /\ l.id \notin {NoId, NullId}
       \/ IsToolCall(l) /\ l.tool = "mistyped"
    /\ Terminate

ReplyAtOnce(l) ==
    /\ Read(l) /\ l.form = "message" /\ IsRequest(l)
    /\ \/ /\ l.method \in {"initialize", "ping", "tools/list"}
          /\ Reply(l.id, "result", {})
       \/ /\ l.method = "other" \/ (l.method = "tools/call" /\ l.tool \in {"none", "other"})
          /\ Reply(l.id, "error", {})
       \/ /\ l.method = "tools/call" /\ l.tool = "smoke_echo"
          /\ Reply(l.id, IF l.arguments = "good" THEN "result" ELSE "tool-error", {})
       \/ /\ CallsService(l) /\ l.arguments = "bad"
          /\ Reply(l.id, "tool-error", {})
    /\ UNCHANGED <<phase, service>>

StartTool(l) ==
    /\ Read(l) /\ CallsService(l) /\ l.arguments = "good"
    /\ S!Begin(IF l.tool \in LiveTools THEN "live" ELSE "run", l.launch)
    /\ phase' = "serving"
    /\ UNCHANGED out

\* The direction jdtls_expand_calls_result passes on.
Direction(l) == IF l.direction = "absent" THEN "incoming" ELSE l.direction

\* The trees of the answer.
Trees(l) ==
    CASE l.tool # "jdtls_expand_calls" -> {}
      [] Direction(l) = "both"         -> {"outgoing", "incoming"}
      [] OTHER                         -> {Direction(l)}

RefusesDirection(l) == l.tool = "jdtls_expand_calls" /\ Direction(l) = "other"

\* The service's thread is main's.
ServiceStep ==
    /\ phase \in {"serving", "closing"}
    /\ IF phase = "serving" /\ at = "begin" /\ RefusesDirection(Serving)
       THEN S!Refuse ELSE S!Caller
    /\ UNCHANGED <<phase, received, out>>

\* Defect: an exception of a tool is not turned into a reply.
FinishWithoutError ==
    /\ phase = "serving" /\ at = "idle"
    /\ IF thrown THEN UNCHANGED out ELSE Reply(Serving.id, "result", Trees(Serving))
    /\ phase' = "reading"
    /\ UNCHANGED <<received, service>>

\* The reply to a tool call.  A result of the live tools may hold text of a file,
\* or a path from a URI, that is not UTF-8: dump() throws and it becomes an error.
\* An exception's message may quote such bytes too, of the server or of a path:
\* then dump() throws out of the catch clause.
FinishTool ==
    /\ phase = "serving" /\ at = "idle"
    /\ \/ /\ \/ ~thrown /\ Reply(Serving.id, "result", Trees(Serving))
             \/ /\ thrown \/ Serving.tool \in LiveTools
                /\ Reply(Serving.id, "tool-error", {})
          /\ phase' = "reading" /\ UNCHANGED service
       \/ thrown /\ Terminate
    /\ UNCHANGED received

\* Standard input ends.
EndOfInput ==
    /\ phase = "reading"
    /\ S!Begin("close", call.launch)
    /\ phase' = "closing"
    /\ UNCHANGED <<received, out>>

Exit ==
    /\ phase = "closing" /\ at = "idle"
    /\ phase' = "exited"
    /\ UNCHANGED <<received, out, service>>

ChildStep ==
    /\ \E p \in DOMAIN procs : S!ProcStep(p)
    /\ UNCHANGED <<phase, received, out>>

Over == phase \in {"exited", "aborted"} /\ UNCHANGED vars

Next ==
    \/ \E l \in Lines : Ignore(l) \/ Reject(l) \/ Abort(l) \/ ReplyAtOnce(l) \/ StartTool(l)
    \/ ServiceStep \/ FinishTool
    \/ EndOfInput \/ Exit
    \/ ChildStep
    \/ Over

Spec == Init /\ [][Next]_vars

-----------------------------------------------------------------------------
(* Fairness of the threads and the children, as in Service.                 *)

Fairness ==
    /\ WF_vars(ServiceStep) /\ WF_vars(FinishTool) /\ WF_vars(Exit)
    /\ \A p \in 1 .. MaxCalls :
         /\ WF_vars(p \in DOMAIN procs /\ S!Drainer(p) /\ UNCHANGED <<phase, received, out>>)
         /\ WF_vars(p \in DOMAIN procs /\ S!Answer(p) /\ UNCHANGED <<phase, received, out>>)
         /\ WF_vars(p \in DOMAIN procs /\ S!FinishLine(p) /\ UNCHANGED <<phase, received, out>>)
         /\ WF_vars(p \in DOMAIN procs /\ S!Exit(p) /\ UNCHANGED <<phase, received, out>>)

FairSpec == Spec /\ Fairness

-----------------------------------------------------------------------------
(* Properties.                                                              *)

\* Lines that call for a reply: requests, and what cannot be read as a message.
Owes(l) ==
    \/ l.form \notin {"blank", "message"}
    \/ l.form = "message" /\ IsRequest(l) /\ l.method # "notifications/initialized"

\* The lines the loop is done with: not the one it is in, nor the one it ended in.
Done ==
    1 .. IF phase \in {"serving", "aborted"} THEN Len(received) - 1 ELSE Len(received)
Owed == {n \in Done : Owes(received[n])}

\* The reply to a line, in the order of the lines that are owed one.
Place(n) == Cardinality({m \in Owed : m <= n})
ReplyTo(n) == out[Place(n)]

Address(l) == IF l.form = "message" THEN l.id ELSE NullId

Outcomes(l) ==
    IF l.form # "message" THEN {"error"}
    ELSE IF l.method \in {"initialize", "ping", "tools/list"} THEN {"result"}
    ELSE IF CallsService(l) \/ (l.method = "tools/call" /\ l.tool = "smoke_echo")
         THEN {"result", "tool-error"}
    ELSE {"error"}

\* Every variable has its type; a tool is being served only while the loop is in
\* the line that asked for it, and the process aborts only in a line.
TypeOK ==
    /\ phase \in {"reading", "serving", "closing", "exited", "aborted"}
    /\ received \in Seq(Lines)
    /\ out \in Seq([id : {l.id : l \in Lines} \cup {NullId},
                    kind : {"result", "tool-error", "error"},
                    served : SUBSET {"outgoing", "incoming"}])
    /\ S!TypeOK
    /\ phase = "reading" => at = "idle"
    /\ phase \in {"serving", "aborted"} => received # <<>>
    /\ phase = "serving" => CallsService(Serving)

\* The replies are, in the order of the lines, one to each line that calls for one
\* and that the loop is done with, to nothing else, and to the right id, whatever
\* the service throws; a tool that exists fails with a result marked isError, one
\* that does not with a protocol error (the comment above the "tool not found"
\* reply).  A line in which the process aborts, whatever it asked for, gets no
\* reply, but those before it have theirs.
EveryRequestAnswered ==
    /\ Len(out) = Cardinality(Owed)
    /\ \A n \in Owed : /\ ReplyTo(n).id = Address(received[n])
                      /\ ReplyTo(n).kind \in Outcomes(received[n])

LiveResults == {n \in Owed : /\ CallsService(received[n]) /\ received[n].tool \in LiveTools
                            /\ ReplyTo(n).kind = "result"}

\* "Restart the MCP server before switching workspaces": the answers of the live
\* tools all come from one launch, for as long as the process lives.
BoundForLife == \A m, n \in LiveResults : received[m].launch = received[n].launch

\* A process that ends at the end of its input (not one that aborts) leaves no
\* thread, no descriptor and no child that could still expect input from it.
CleanEnd ==
    phase = "exited" =>
        /\ entry = 0
        /\ \A p \in DOMAIN procs :
             /\ ~procs[p].stdin /\ ~procs[p].errFd
             /\ procs[p].drainer \in {"none", "failed", "stopped"}

\* What the tool's schema says of a missing direction: "default" "outgoing".
DocumentedDefault ==
    \A n \in LiveResults :
        received[n].tool = "jdtls_expand_calls" /\ received[n].direction = "absent" =>
            ReplyTo(n).served = {"outgoing"}

\* A tool call is answered or ends the process, and so does the end of the input,
\* unless the child at work is stuck on a stderr that nobody drains.
ServingEnds ==
    phase \in {"serving", "closing"} ~>
        (phase \in {"reading", "exited", "aborted"} \/ (current # 0 /\ S!Undrained(current)))
===============================================================================
