------------------------------ MODULE MCMcpServer ------------------------------
(* Small instances of McpServer for TLC: one line of each kind the dispatch      *)
(* tells apart, and tool calls for two launches in one workspace.             *)
EXTENDS McpServer

CONSTANT i    \* the id of the requests

TwoLaunches == {[workspace |-> "w", rest |-> r] : r \in {"r1", "r2"}}
OneLaunch == {[workspace |-> "w", rest |-> "r1"]}
One == CHOOSE l \in Launches : TRUE

Blank == [form |-> "blank", id |-> NoId, method |-> "other", tool |-> "none",
          launch |-> One, arguments |-> "good", direction |-> "absent"]

Message(method, id) == [Blank EXCEPT !.form = "message", !.method = method, !.id = id]
Tool(tool, launch) == [Message("tools/call", i) EXCEPT !.tool = tool, !.launch = launch]

ServiceCalls ==
    {Tool("jdtls_document_symbols", One)} \cup {Tool("jdtls_expand_calls", l) : l \in Launches}

EveryLine ==
    {Blank} \cup {[Blank EXCEPT !.form = f] : f \in {"garbage", "illformed", "mistyped"}}
    \cup {[Blank EXCEPT !.form = "foreign", !.id = id] : id \in {NoId, NullId, i}}
    \cup {Message(m, id) : m \in Methods, id \in {NoId, i}}
    \cup {Tool(t, One) : t \in {"smoke_echo", "other", "mistyped", "jdtls_initialize_probe"}}
    \cup {[Tool(t, One) EXCEPT !.arguments = "bad"] : t \in {"smoke_echo", "jdtls_resolve_anchor"}}
    \cup {[Tool("jdtls_expand_calls", One) EXCEPT !.direction = d] : d \in Directions}
    \cup ServiceCalls
===============================================================================
