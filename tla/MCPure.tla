--------------------------------- MODULE MCPure ---------------------------------
(* The pure functions, each over all its inputs, one call in a behaviour: the    *)
(* variables of the other two modules stand still.                            *)
EXTENDS SourceWindow, UriCodec, SymbolSearch

\* A size_t of four bits, and files that are much shorter.
SmallRangeLines == -1 .. 5
SmallPaddings == -5 .. 5

\* '/', '.', '%', '2', 'e', ' ' and a byte above 127; "%2e" is a dot, "%2" nothing.
SmallBytes == {47, 46, 37, 50, 101, 32, 200}

Name(folded, parameters) == [folded |-> folded, parameters |-> parameters]
Asked == Name("run", FALSE)
SmallElements ==
    {[form |-> "symbol", kind |-> "Method", name |-> Name("run", TRUE)],
     [form |-> "symbol", kind |-> "Method", name |-> Name("runner", FALSE)],
     [form |-> "symbol", kind |-> "Class", name |-> Name("run", FALSE)],
     [form |-> "location", kind |-> "Method", name |-> Name("run", FALSE)],
     [form |-> "bare", kind |-> "Method", name |-> Name("run", FALSE)]}

NoWindow == readable = FALSE /\ lines = 0 /\ from = 0 /\ to = 0 /\ before = 0 /\ after = 0
            /\ window = NotYet
NoUri == path = <<Slash>> /\ uri = file_uri_from_path(path) /\ read = NotRead
NoSearch == received \in [{} -> Elements] /\ found = NotSought

PureInit ==
    \/ Init /\ NoUri /\ NoSearch
    \/ NoWindow /\ InitUri /\ NoSearch
    \/ NoWindow /\ NoUri /\ InitSearch

PureNext ==
    \/ Next /\ UNCHANGED <<uriVars, searchVars>>
    \/ ReadUri /\ UNCHANGED <<vars, searchVars>>
    \/ Find /\ UNCHANGED <<vars, uriVars>>

PureSpec == PureInit /\ [][PureNext]_<<vars, uriVars, searchVars>>
===============================================================================
