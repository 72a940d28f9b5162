---------------------------- MODULE WorkspaceManager ----------------------------
(***************************************************************************)
(* WorkspaceManager (src/workspace_manager.cpp): one server for many         *)
(* queries behind start, stop and expand, with a state that decides what a   *)
(* call does.  start is also called inside expand, and stop inside start; a  *)
(* failure is reported as an exception by start, in the response by expand,  *)
(* and swallowed by stop.  What an expansion finds is in Expansion; here a   *)
(* step of it succeeds or throws.                                           *)
(***************************************************************************)
EXTENDS Naturals, Sequences

CONSTANTS
    Probes,     \* configured warm-up directions; "none" when there is no probe
    Requests,   \* requests put to expand
    MaxCalls    \* bound: calls of the manager

Directions == {"outgoing", "incoming", "both"}

ASSUME ProbesAssumption == Probes \subseteq Directions \cup {"none"}
ASSUME RequestsAssumption ==
    Requests \subseteq [kind : {"class", "file"}, direction : Directions, complete : BOOLEAN]
ASSUME CallsAssumption == MaxCalls \in Nat

VARIABLES
    valid, probe,   \* the configuration: its paths are given, its warm-up probe
    status,         \* the manager's status
    session,        \* the child behind impl_->session, 0 when there is none
    procs,          \* the children spawned
    call, at,       \* the call under way and the point it has reached
    request, todo,  \* the expansion under way and its steps still to come
    work,           \* what the steps have found
    response,       \* what the last expand answered
    calls           \* calls so far

config == <<valid, probe>>
run == <<request, todo, work>>
vars == <<config, status, session, procs, call, at, run, response, calls>>

Status(state) ==
    [state |-> state, initialized |-> FALSE, warmup_complete |-> FALSE, failed |-> FALSE]

NoWork == {}    \* a set of "anchor", "outgoing", "incoming"
NoRequest == [kind |-> "none"]
Response(result, found) == [status |-> result, found |-> found]

Init ==
    /\ valid \in BOOLEAN /\ probe \in Probes
    /\ status = Status("Stopped") /\ session = 0 /\ procs = <<>>
    /\ call = "none" /\ at = "idle" /\ calls = 0
    /\ request = NoRequest /\ todo = <<>> /\ work = NoWork
    /\ response = Response("none", {})

-----------------------------------------------------------------------------
(* The calls.                                                               *)

Begin(operation, place) ==
    /\ at = "idle" /\ calls < MaxCalls
    /\ call' = operation /\ at' = place /\ calls' = calls + 1
    /\ response' = Response("none", {})
    /\ UNCHANGED <<config, status, session, procs>>

CallStart == Begin("start", "start") /\ UNCHANGED run
CallStop == Begin("stop", "stop") /\ UNCHANGED run

\* expand starts a manager that is stopped.
CallExpand ==
    /\ Begin("expand", IF status.state = "Stopped" THEN "start" ELSE "query")
    /\ \E r \in Requests : request' = r
    /\ UNCHANGED <<todo, work>>

\* Where start leads when it is done: back to its caller.
Started == IF call = "expand" THEN "query" ELSE "idle"

\* An exception: start puts the manager into the state Error unless only the
\* configuration was looked at, expand always does, stop swallows it.
Throw ==
    /\ status' = IF call = "expand" \/ at # "validate"
                 THEN [status EXCEPT !.state = "Error", !.failed = TRUE]
                 ELSE status
    /\ response' = IF call = "expand" THEN Response("Error", {}) ELSE response
    /\ at' = "idle"
    /\ UNCHANGED <<config, session, procs, call, run, calls>>

-----------------------------------------------------------------------------
(* start                                                                    *)

\* Defect: a server that failed is left where it is.
StartOver ==
    /\ at = "start"
    /\ at' = IF status.state = "Ready" THEN Started ELSE "validate"
    /\ UNCHANGED <<config, status, session, procs, call, run, response, calls>>

\* The third way out, for a manager that is just starting, would need a second
\* caller at the same time.
Start ==
    /\ at = "start"
    /\ \/ status.state = "Ready" /\ at' = Started
       \/ status.state = "Stopped" /\ at' = "validate"
       \/ status.state = "Error" /\ at' = "stop"
    /\ UNCHANGED <<config, status, session, procs, call, run, response, calls>>

Validate ==
    /\ at = "validate"
    /\ \/ ~valid /\ Throw
       \/ /\ valid
          /\ status' = Status("Starting") /\ at' = "spawn"
          /\ UNCHANGED <<config, session, procs, call, run, response, calls>>

NewProc == [alive |-> TRUE, handshake |-> "none", told |-> "no", released |-> FALSE]

\* jdtls::spawn, and the Session that takes the child; one that is there already
\* is destroyed by the assignment.
Spawn ==
    /\ at = "spawn"
    /\ procs' = Append([k \in DOMAIN procs |->
                           [procs[k] EXCEPT !.released = @ \/ k = session]], NewProc)
    /\ session' = Len(procs) + 1
    /\ status' = [status EXCEPT !.state = "Initializing"] /\ at' = "initialize"
    /\ UNCHANGED <<config, call, run, response, calls>>

Serves == procs[session].alive
Shake(progress) == procs' = [procs EXCEPT ![session].handshake = progress]

Initialize ==
    /\ at = "initialize" /\ Serves
    /\ Shake("answered") /\ at' = "initialized"
    /\ UNCHANGED <<config, status, session, call, run, response, calls>>

Steps(kind, direction) ==
    (IF kind = "class" THEN <<"resolve">> ELSE <<>>)
    \o (IF direction \in {"outgoing", "both"} THEN <<"outgoing">> ELSE <<>>)
    \o (IF direction \in {"incoming", "both"} THEN <<"incoming">> ELSE <<>>)

\* The initialized notification, then the warm-up probe if there is one.
Initialized ==
    /\ at = "initialized" /\ Serves
    /\ Shake("complete")
    /\ status' = [status EXCEPT !.initialized = TRUE,
                      !.state = IF probe = "none" THEN "Ready" ELSE "WarmingUp"]
    /\ at' = IF probe = "none" THEN Started ELSE "run"
    /\ todo' = IF probe = "none" THEN <<>> ELSE Steps("class", probe)
    /\ work' = NoWork
    /\ UNCHANGED <<config, session, call, request, response, calls>>

\* Defect: the probe's failure is taken as its end.
WarmedUpAnyway ==
    /\ at = "run" /\ status.state = "WarmingUp"
    /\ status' = [status EXCEPT !.state = "Ready"]
    /\ at' = Started
    /\ UNCHANGED <<config, session, procs, call, run, response, calls>>

WarmedUp ==
    /\ at = "run" /\ todo = <<>> /\ status.state = "WarmingUp"
    /\ status' = [status EXCEPT !.state = "Ready", !.warmup_complete = TRUE]
    /\ at' = Started
    /\ UNCHANGED <<config, session, procs, call, run, response, calls>>

-----------------------------------------------------------------------------
(* expand                                                                   *)

\* Defect: the anchor is only taken from the class.
StepWithoutAnchor ==
    /\ at = "run" /\ todo # <<>> /\ Serves
    /\ work' = work \cup (IF Head(todo) = "resolve" THEN {"anchor"} ELSE {Head(todo)})
    /\ todo' = Tail(todo)
    /\ UNCHANGED <<config, status, session, procs, call, at, request, response, calls>>

\* run_expand: resolving a class finds the anchor, and so does the first expansion
\* when the file was given.
Step ==
    /\ at = "run" /\ todo # <<>> /\ Serves
    /\ work' = work \cup {"anchor"} \cup (IF Head(todo) = "resolve" THEN {} ELSE {Head(todo)})
    /\ todo' = Tail(todo)
    /\ UNCHANGED <<config, status, session, procs, call, at, request, response, calls>>

RequestThrows ==
    /\ at \in {"spawn", "initialize", "initialized"} \/ (at = "run" /\ todo # <<>>)
    /\ Throw

Answer(result, found) ==
    /\ response' = Response(result, found) /\ at' = "idle"
    /\ UNCHANGED <<config, status, session, procs, call, run, calls>>

Ready == status.state = "Ready" /\ session # 0

Query ==
    /\ at = "query"
    /\ \/ ~Ready /\ Answer("NotReady", {})
       \/ Ready /\ ~request.complete /\ Answer("InvalidArgument", {})
       \/ /\ Ready /\ request.complete
          /\ todo' = Steps(request.kind, request.direction) /\ work' = NoWork /\ at' = "run"
          /\ UNCHANGED <<config, status, session, procs, call, request, response, calls>>

Expanded ==
    /\ at = "run" /\ todo = <<>> /\ status.state = "Ready"
    /\ Answer("Ok", work)

-----------------------------------------------------------------------------
(* stop, and the destructor                                                 *)

Stop ==
    /\ at = "stop"
    /\ at' = IF session = 0 THEN "stopped" ELSE "shutdown"
    /\ UNCHANGED <<config, status, session, procs, call, run, response, calls>>

\* shutdown_and_exit; when it throws nobody waits for the child.
Shutdown ==
    /\ at = "shutdown"
    /\ \/ /\ Serves /\ procs' = [procs EXCEPT ![session].told = "yes"] /\ at' = "wait"
       \/ procs' = [procs EXCEPT ![session].told = "failed"] /\ at' = "stopped"
    /\ UNCHANGED <<config, status, session, call, run, response, calls>>

Wait ==
    /\ at = "wait" /\ ~Serves
    /\ at' = "stopped"
    /\ UNCHANGED <<config, status, session, procs, call, run, response, calls>>

Release ==
    IF session = 0 THEN procs
    ELSE [procs EXCEPT ![session].released = TRUE]

\* session.reset(); start goes on with a new server.
Stopped ==
    /\ at = "stopped"
    /\ procs' = Release /\ session' = 0 /\ status' = Status("Stopped")
    /\ at' = IF call = "stop" THEN "idle" ELSE "validate"
    /\ UNCHANGED <<config, call, run, response, calls>>

\* The destructor drops the session without a shutdown.
Destroy ==
    /\ at = "idle"
    /\ procs' = Release /\ session' = 0 /\ at' = "gone"
    /\ UNCHANGED <<config, status, call, run, response, calls>>

-----------------------------------------------------------------------------
ChildEnds ==
    /\ \E k \in DOMAIN procs :
         procs[k].alive /\ procs' = [procs EXCEPT ![k].alive = FALSE]
    /\ UNCHANGED <<config, status, session, call, at, run, response, calls>>

Over == at = "gone" /\ UNCHANGED vars

Next ==
    \/ CallStart \/ CallStop \/ CallExpand
    \/ Start \/ Validate \/ Spawn \/ Initialize \/ Initialized \/ WarmedUp
    \/ Step \/ RequestThrows \/ Query \/ Expanded
    \/ Stop \/ Shutdown \/ Wait \/ Stopped \/ Destroy
    \/ ChildEnds \/ Over

Spec == Init /\ [][Next]_vars

-----------------------------------------------------------------------------
(* Properties.                                                              *)

States == {"Stopped", "Starting", "Initializing", "WarmingUp", "Ready", "Error"}
Places == {"idle", "start", "validate", "spawn", "initialize", "initialized", "run", "query",
           "stop", "shutdown", "wait", "stopped", "gone"}

\* Every variable has its type.
TypeOK ==
    /\ valid \in BOOLEAN /\ probe \in Probes
    /\ status \in [state : States, initialized : BOOLEAN, warmup_complete : BOOLEAN,
                   failed : BOOLEAN]
    /\ procs \in Seq([alive : BOOLEAN, handshake : {"none", "answered", "complete"},
                      told : {"no", "yes", "failed"}, released : BOOLEAN])
    /\ session \in 0 .. Len(procs)
    /\ call \in {"none", "start", "stop", "expand"} /\ at \in Places
    /\ request \in Requests \cup {NoRequest}
    /\ todo \in Seq({"resolve", "outgoing", "incoming"})
    /\ work \subseteq {"anchor", "outgoing", "incoming"}
    /\ response.found \subseteq {"anchor", "outgoing", "incoming"}
    /\ calls \in 0 .. MaxCalls

\* There is one server at a time, whatever fails and however start, expand and
\* stop call each other, and the manager lets go of one only after it has told it
\* to exit or found that it cannot; only the destructor does so without a word.
OneServer ==
    \A k \in DOMAIN procs :
        /\ procs[k].released <=> k # session
        /\ k # session /\ procs[k].told = "no" => at = "gone" /\ k = Len(procs)

\* Between calls the state tells the truth: no call ever meets a manager that is
\* starting or warming up; one that is ready has a server whose handshake is
\* complete and whose warm-up, if there is to be one, has succeeded; one that is
\* stopped has none.
StateIsTrue ==
    at = "idle" =>
        /\ status.state \in {"Stopped", "Ready", "Error"}
        /\ status.state = "Stopped" => session = 0
        /\ status.state = "Ready" =>
             /\ session # 0 /\ status.initialized
             /\ procs[session].handshake = "complete" /\ procs[session].told = "no"
             /\ status.warmup_complete <=> probe # "none"

\* A response that says Ok has the anchor, for a class as for a file, and the trees
\* of the directions asked for, each from the request it answers and not from the
\* warm-up before it; any other has none.
AnchorOnSuccess ==
    response.found =
        IF response.status # "Ok" THEN {}
        ELSE {"anchor"} \cup {d \in {"outgoing", "incoming"} : request.direction \in {d, "both"}}
===============================================================================
