------------------------ MODULE WorkspaceManagerProofs ------------------------
(***************************************************************************)
(* One server at a time and a state that tells the truth, for any            *)
(* configuration, requests and number of calls.                             *)
(*                                                                         *)
(* The argument: the points a call passes are the manager's real state.      *)
(* Between them the reported state may lag behind, but at each point one     *)
(* knows whether there is a server (HasServer), what it has been told (Told), *)
(* and what may be reported (Truth), and every way out of a call, failures   *)
(* included, ends at a point where that is StateIsTrue.                      *)
(***************************************************************************)
EXTENDS WorkspaceManager, TLAPS

Children == [alive : BOOLEAN, handshake : {"none", "answered", "complete"},
             told : {"no", "yes", "failed"}, released : BOOLEAN]
Finds == {"anchor", "outgoing", "incoming"}
Responses == [status : {"none", "Ok", "NotReady", "InvalidArgument", "Error"},
              found : SUBSET Finds]

Names == {"resolve", "outgoing", "incoming"}
Those(s) == {s[k] : k \in DOMAIN s}

\* What a request asks for.
Wanted(r) == {"anchor"} \cup {d \in {"outgoing", "incoming"} : r.direction \in {d, "both"}}

\* Where there is a server, and where there is none; it is the last one spawned.
HasServer ==
    /\ session # 0 => session = Len(procs)
    /\ at \in {"validate", "spawn", "gone"} => session = 0
    /\ at \in {"initialize", "initialized", "run", "shutdown", "wait"} => session # 0

\* What the server has been told.
Told ==
    /\ session # 0 /\ at \notin {"wait", "stopped"} => procs[session].told = "no"
    /\ session # 0 /\ at = "stopped" => procs[session].told # "no"
    /\ at = "wait" => procs[session].told # "no"

\* A server that is ready.
IsReady ==
    /\ session # 0 /\ status.initialized
    /\ procs[session].handshake = "complete"
    /\ status.warmup_complete <=> probe # "none"

\* What the state may be at each point, and what it then means.
Truth ==
    /\ at \in {"idle", "start", "query"} =>
         /\ status.state \in {"Stopped", "Ready", "Error"}
         /\ status.state = "Stopped" => session = 0
         /\ status.state = "Ready" => IsReady
    /\ at = "validate" => status.state = "Stopped"
    /\ at \in {"spawn", "initialize", "initialized"} => ~status.warmup_complete
    /\ at = "run" =>
         /\ status.state \in {"WarmingUp", "Ready"} /\ status.initialized
         /\ procs[session].handshake = "complete"
         /\ status.state = "WarmingUp" => probe # "none"
         /\ status.state = "Ready" => IsReady

\* An expansion has, or will have come to, what its request asks for.
Work ==
    /\ call = "expand" \/ at = "query" => request \in Requests
    /\ at = "run" /\ status.state = "Ready" =>
         /\ request \in Requests
         /\ {"anchor"} \cup work \cup (Those(todo) \ {"resolve"}) = Wanted(request)
         /\ todo = <<>> => "anchor" \in work

ManagerInv ==
    /\ TypeOK /\ response \in Responses
    /\ OneServer /\ HasServer /\ Told /\ Truth /\ Work /\ AnchorOnSuccess

-----------------------------------------------------------------------------
(* Sequences: the one child that changes, and the steps of an expansion.    *)

LEMMA ChildFacts ==
    ASSUME procs \in Seq(Children), session \in 0 .. Len(procs)
    PROVE  /\ Len(procs) \in Nat /\ DOMAIN procs = 1 .. Len(procs)
           /\ \A k \in DOMAIN procs : procs[k] \in Children
           /\ session # 0 => session \in DOMAIN procs
OBVIOUS

LEMMA OneChild ==
    ASSUME procs \in Seq(Children), NEW k \in DOMAIN procs, NEW c \in Children,
           procs' = [procs EXCEPT ![k] = c]
    PROVE  /\ procs' \in Seq(Children) /\ Len(procs') = Len(procs)
           /\ DOMAIN procs' = DOMAIN procs
           /\ procs'[k] = c
           /\ \A j \in DOMAIN procs : j # k => procs'[j] = procs[j]
OBVIOUS

LEMMA Joined ==
    ASSUME NEW a \in Seq(Names), NEW b \in Seq(Names)
    PROVE  a \o b \in Seq(Names) /\ Those(a \o b) = Those(a) \cup Those(b)
<1>1. /\ Len(a) \in Nat /\ Len(b) \in Nat /\ DOMAIN a = 1 .. Len(a) /\ DOMAIN b = 1 .. Len(b)
      /\ a \o b \in Seq(Names) /\ DOMAIN (a \o b) = 1 .. Len(a) + Len(b)
  OBVIOUS
<1>2. \A k \in 1 .. Len(a) + Len(b) :
        (a \o b)[k] = IF k <= Len(a) THEN a[k] ELSE b[k - Len(a)]
  BY <1>1
<1>3. ASSUME NEW k \in 1 .. Len(a) + Len(b)
      PROVE  (a \o b)[k] \in Those(a) \cup Those(b)
  <2>1. CASE k <= Len(a)
    BY <2>1, <1>1, <1>2 DEF Those
  <2>2. CASE k > Len(a)
    <3>1. k - Len(a) \in DOMAIN b /\ (a \o b)[k] = b[k - Len(a)]
      BY <2>2, <1>1, <1>2
    <3> QED
      BY <3>1 DEF Those
  <2> QED
    BY <2>1, <2>2, <1>1
<1>4. ASSUME NEW k \in DOMAIN a PROVE k \in 1 .. Len(a) + Len(b) /\ a[k] = (a \o b)[k]
  BY <1>1, <1>2
<1>5. ASSUME NEW k \in DOMAIN b
      PROVE  k + Len(a) \in 1 .. Len(a) + Len(b) /\ b[k] = (a \o b)[k + Len(a)]
  BY <1>1, <1>2
<1>6. Those(a \o b) \subseteq Those(a) \cup Those(b)
  BY <1>1, <1>3 DEF Those
<1>7. Those(a) \subseteq Those(a \o b) /\ Those(b) \subseteq Those(a \o b)
  BY <1>1, <1>4, <1>5 DEF Those
<1> QED
  BY <1>1, <1>6, <1>7

LEMMA Optional ==
    ASSUME NEW c \in BOOLEAN, NEW x \in Names, NEW s, s = IF c THEN <<x>> ELSE <<>>
    PROVE  s \in Seq(Names) /\ Those(s) = IF c THEN {x} ELSE {}
BY DEF Those

LEMMA StepsNamed ==
    ASSUME NEW kind, NEW direction \in Directions
    PROVE  /\ Steps(kind, direction) \in Seq(Names)
           /\ Those(Steps(kind, direction)) \ {"resolve"}
                = {d \in {"outgoing", "incoming"} : direction \in {d, "both"}}
           /\ Steps(kind, direction) # <<>>
<1> DEFINE a == IF kind = "class" THEN <<"resolve">> ELSE <<>>
           b == IF direction \in {"outgoing", "both"} THEN <<"outgoing">> ELSE <<>>
           c == IF direction \in {"incoming", "both"} THEN <<"incoming">> ELSE <<>>
<1>1. a \in Seq(Names) /\ Those(a) = IF kind = "class" THEN {"resolve"} ELSE {}
  BY Optional DEF Names
<1>2. b \in Seq(Names) /\ Those(b) = IF direction \in {"outgoing", "both"} THEN {"outgoing"} ELSE {}
  BY Optional DEF Names
<1>3. c \in Seq(Names) /\ Those(c) = IF direction \in {"incoming", "both"} THEN {"incoming"} ELSE {}
  BY Optional DEF Names
<1>4. (a \o b) \o c \in Seq(Names)
      /\ Those((a \o b) \o c) = Those(a) \cup Those(b) \cup Those(c)
  <2> HIDE DEF a, b, c
  <2>1. a \o b \in Seq(Names) /\ Those(a \o b) = Those(a) \cup Those(b)
    BY <1>1, <1>2, Joined
  <2> QED
    BY <2>1, <1>3, Joined
<1>5. Steps(kind, direction) = (a \o b) \o c
  BY DEF Steps
<1>6. Those((a \o b) \o c) \ {"resolve"}
        = {d \in {"outgoing", "incoming"} : direction \in {d, "both"}}
  <2> HIDE DEF a, b, c
  <2> QED
    BY <1>1, <1>2, <1>3, <1>4 DEF Directions
<1>7. (a \o b) \o c # <<>>
  <2> HIDE DEF a, b, c
  <2>1. Those((a \o b) \o c) # {}
    BY <1>1, <1>2, <1>3, <1>4 DEF Directions
  <2> QED
    BY <2>1 DEF Those
<1> QED
  BY <1>4, <1>5, <1>6, <1>7

LEMMA TakeStep ==
    ASSUME NEW s \in Seq(Names), s # <<>>
    PROVE  /\ Tail(s) \in Seq(Names) /\ Head(s) \in Names
           /\ Those(s) = {Head(s)} \cup Those(Tail(s))
<1>1. Len(s) \in Nat \ {0} /\ DOMAIN s = 1 .. Len(s)
  OBVIOUS
<1>2. DOMAIN Tail(s) = 1 .. Len(s) - 1 /\ \A k \in 1 .. Len(s) - 1 : Tail(s)[k] = s[k + 1]
  BY <1>1
<1>3. \A k \in DOMAIN s : k = 1 \/ (k - 1 \in DOMAIN Tail(s) /\ s[k] = Tail(s)[k - 1])
  BY <1>1, <1>2
<1>4. \A k \in DOMAIN Tail(s) : k + 1 \in DOMAIN s /\ Tail(s)[k] = s[k + 1]
  BY <1>1, <1>2
<1>5. Head(s) = s[1] /\ 1 \in DOMAIN s
  BY <1>1
<1>6. Those(s) \subseteq {Head(s)} \cup Those(Tail(s))
  <2>1. SUFFICES ASSUME NEW k \in DOMAIN s PROVE s[k] \in {Head(s)} \cup Those(Tail(s))
    BY DEF Those
  <2> QED
    BY <1>3, <1>5 DEF Those
<1>7. {Head(s)} \cup Those(Tail(s)) \subseteq Those(s)
  BY <1>4, <1>5 DEF Those
<1>8. Tail(s) \in Seq(Names) /\ Head(s) \in Names
  BY <1>1, <1>5
<1> QED
  BY <1>6, <1>7, <1>8

-----------------------------------------------------------------------------
(* The initial state, and the steps that leave the children alone.          *)

LEMMA InitInv == Init => ManagerInv
<1> SUFFICES ASSUME Init PROVE ManagerInv
  OBVIOUS
<1>1. TypeOK /\ response \in Responses
  BY CallsAssumption DEF Init, TypeOK, Status, NoWork, NoRequest, Response, Responses, States,
    Places, config, run
<1> QED
  BY <1>1 DEF Init, ManagerInv, OneServer, HasServer, Told, Truth, Work, AnchorOnSuccess, Status,
    Response

\* What every step that does not touch the children leaves to be shown.
LEMMA SameChildren ==
    ASSUME ManagerInv, UNCHANGED <<session, procs>>, at # "gone"
    PROVE  OneServer'
BY DEF ManagerInv, OneServer

LEMMA CallsInv ==
    ASSUME ManagerInv, CallStart \/ CallStop \/ CallExpand
    PROVE  ManagerInv'
<1> USE DEF ManagerInv, run, config
<1>1. /\ at = "idle" /\ calls < MaxCalls /\ calls' = calls + 1
      /\ response' = [status |-> "none", found |-> {}]
      /\ UNCHANGED <<valid, probe, status, session, procs, todo, work>>
      /\ \/ call' \in {"start", "stop"} /\ at' = call' /\ request' = request
         \/ /\ call' = "expand" /\ request' \in Requests
            /\ at' = IF status.state = "Stopped" THEN "start" ELSE "query"
  BY DEF CallStart, CallStop, CallExpand, Begin, Response
<1>2. OneServer'
  BY <1>1, SameChildren
<1>3. TypeOK'
  <2>1. calls' \in 0 .. MaxCalls
    BY <1>1, CallsAssumption DEF TypeOK
  <2>2. call' \in {"start", "stop", "expand"} /\ at' \in {"start", "stop", "query"}
        /\ request' \in Requests \cup {NoRequest}
    BY <1>1 DEF TypeOK
  <2> QED
    BY <1>1, <2>1, <2>2 DEF TypeOK, Places
<1>4. (response \in Responses)'
  BY <1>1 DEF Responses
<1>5. HasServer' /\ Told' /\ Truth'
  BY <1>1 DEF HasServer, Told, Truth, IsReady
<1>6. Work' /\ AnchorOnSuccess'
  BY <1>1 DEF Work, AnchorOnSuccess
<1> QED
  BY <1>2, <1>3, <1>4, <1>5, <1>6

LEMMA ThrowInv ==
    ASSUME ManagerInv, Throw, at \in {"validate", "spawn", "initialize", "initialized", "run"}
    PROVE  ManagerInv'
<1> USE DEF Throw, ManagerInv, run, config
<1>1. OneServer'
  BY SameChildren
<1>2. TypeOK' /\ (response \in Responses)'
  BY DEF TypeOK, Response, Responses, Places, States
<1>3. HasServer' /\ Told' /\ Truth'
  BY DEF HasServer, Told, Truth, IsReady, TypeOK
<1>4. Work' /\ AnchorOnSuccess'
  BY DEF Work, AnchorOnSuccess, Response, Truth
<1> QED
  BY <1>1, <1>2, <1>3, <1>4

LEMMA StartInv ==
    ASSUME ManagerInv, Start \/ Stop
    PROVE  ManagerInv'
<1> USE DEF Start, Stop, Started, ManagerInv, run, config
<1>1. OneServer'
  BY SameChildren
<1>2. TypeOK' /\ (response \in Responses)'
  BY DEF TypeOK, Places
<1>3. HasServer' /\ Told' /\ Truth'
  BY DEF HasServer, Told, Truth, IsReady, TypeOK
<1>4. Work' /\ AnchorOnSuccess'
  BY DEF Work, AnchorOnSuccess
<1> QED
  BY <1>1, <1>2, <1>3, <1>4

LEMMA ValidateInv ==
    ASSUME ManagerInv, Validate
    PROVE  ManagerInv'
<1>1. CASE ~valid /\ Throw
  BY <1>1, ThrowInv DEF Validate
<1>2. CASE valid /\ ~(~valid /\ Throw)
  <2>0. /\ at = "validate" /\ at' = "spawn"
        /\ status' = [state |-> "Starting", initialized |-> FALSE, warmup_complete |-> FALSE,
                      failed |-> FALSE]
        /\ UNCHANGED <<valid, probe, session, procs, call, request, todo, work, response, calls>>
    BY <1>2 DEF Validate, Status, run, config
  <2> USE <2>0 DEF ManagerInv
  <2>1. OneServer'
    BY SameChildren
  <2>2. TypeOK' /\ (response \in Responses)'
    <3>1. status' \in [state : States, initialized : BOOLEAN, warmup_complete : BOOLEAN,
                       failed : BOOLEAN]
      BY DEF States
    <3> QED
      BY <3>1 DEF TypeOK, Places
  <2>3. HasServer' /\ Told' /\ Truth'
    BY DEF HasServer, Told, Truth
  <2>4. Work' /\ AnchorOnSuccess'
    BY DEF Work, AnchorOnSuccess
  <2> QED
    BY <2>1, <2>2, <2>3, <2>4
<1> QED
  BY <1>1, <1>2 DEF Validate

LEMMA WarmedUpInv ==
    ASSUME ManagerInv, WarmedUp
    PROVE  ManagerInv'
<1> USE DEF WarmedUp, Started, ManagerInv, run, config
<1>1. OneServer'
  BY SameChildren
<1>2. TypeOK' /\ (response \in Responses)'
  BY DEF TypeOK, Places, States
<1>3. status'.state = "Ready" /\ status'.warmup_complete /\ status'.initialized = status.initialized
  BY DEF TypeOK
<1>4. HasServer' /\ Told' /\ Truth'
  BY <1>3 DEF HasServer, Told, Truth, IsReady
<1>5. Work' /\ AnchorOnSuccess'
  BY DEF Work, AnchorOnSuccess
<1> QED
  BY <1>1, <1>2, <1>4, <1>5

LEMMA StepInv ==
    ASSUME ManagerInv, Step
    PROVE  ManagerInv'
<1> USE DEF Step, ManagerInv, run, config
<1>1. OneServer'
  BY SameChildren
<1>2. /\ Tail(todo) \in Seq(Names) /\ Head(todo) \in Names
      /\ Those(todo) = {Head(todo)} \cup Those(Tail(todo))
  BY TakeStep DEF TypeOK, Names
<1>3. TypeOK' /\ (response \in Responses)'
  BY <1>2 DEF TypeOK, Names
<1>4. HasServer' /\ Told' /\ Truth'
  BY DEF HasServer, Told, Truth, IsReady
<1>5. Work' /\ AnchorOnSuccess'
  <2>1. {"anchor"} \cup work' \cup (Those(todo') \ {"resolve"})
          = {"anchor"} \cup work \cup (Those(todo) \ {"resolve"})
    BY <1>2
  <2>2. "anchor" \in work'
    OBVIOUS
  <2> QED
    BY <2>1, <2>2 DEF Work, AnchorOnSuccess
<1> QED
  BY <1>1, <1>3, <1>4, <1>5

LEMMA AnswerInv ==
    ASSUME ManagerInv, at \in {"query", "run"},
           NEW result \in {"Ok", "NotReady", "InvalidArgument"}, NEW found \in SUBSET Finds,
           found = (IF result = "Ok" THEN Wanted(request) ELSE {}),
           status.state \in {"Stopped", "Ready", "Error"}, Answer(result, found)
    PROVE  ManagerInv'
<1> USE DEF Answer, ManagerInv, run, config
<1>1. OneServer'
  BY SameChildren
<1>2. response' = [status |-> result, found |-> found]
  BY DEF Response
<1>3. TypeOK' /\ (response \in Responses)'
  BY <1>2 DEF TypeOK, Places, Responses, Finds
<1>4. HasServer' /\ Told' /\ Truth'
  BY DEF HasServer, Told, Truth, IsReady
<1>5. Work'
  BY DEF Work
<1>6. AnchorOnSuccess'
  <2>1. response'.status = result /\ response'.found = found /\ request' = request
    BY <1>2
  <2> QED
    BY <2>1 DEF AnchorOnSuccess, Wanted
<1> QED
  BY <1>1, <1>3, <1>4, <1>5, <1>6

LEMMA QueryInv ==
    ASSUME ManagerInv, Query
    PROVE  ManagerInv'
<1>1. CASE (~Ready /\ Answer("NotReady", {}))
           \/ (Ready /\ ~request.complete /\ Answer("InvalidArgument", {}))
  BY <1>1, AnswerInv DEF Query, ManagerInv, Truth
<1>2. CASE /\ Ready /\ request.complete
           /\ todo' = Steps(request.kind, request.direction) /\ work' = NoWork /\ at' = "run"
           /\ UNCHANGED <<config, status, session, procs, call, request, response, calls>>
  <2> USE <1>2 DEF Query, Ready, NoWork, ManagerInv, run, config
  <2>1. request \in Requests /\ request.direction \in Directions
    BY RequestsAssumption DEF Work
  <2>2. /\ todo' \in Seq(Names) /\ todo' # <<>>
        /\ Those(todo') \ {"resolve"} =
             {d \in {"outgoing", "incoming"} : request.direction \in {d, "both"}}
    BY <2>1, StepsNamed
  <2>3. OneServer'
    BY SameChildren
  <2>4. TypeOK' /\ (response \in Responses)'
    BY <2>2 DEF TypeOK, Names, Places
  <2>5. HasServer' /\ Told' /\ Truth'
    BY DEF HasServer, Told, Truth, IsReady
  <2>6. Work' /\ AnchorOnSuccess'
    <3>1. Work'
      BY <2>1, <2>2 DEF Work, Wanted
    <3> QED
      BY <3>1 DEF AnchorOnSuccess
  <2> QED
    BY <2>3, <2>4, <2>5, <2>6
<1> QED
  BY <1>1, <1>2 DEF Query

LEMMA ExpandedInv ==
    ASSUME ManagerInv, Expanded
    PROVE  ManagerInv'
<1>1. request \in Requests /\ work = Wanted(request)
  <2>1. Those(todo) = {}
    BY DEF Expanded, Those
  <2> QED
    BY <2>1 DEF Expanded, ManagerInv, Work
<1>2. work \in SUBSET Finds
  BY DEF ManagerInv, TypeOK, Finds
<1> QED
  BY <1>1, <1>2, AnswerInv DEF Expanded

LEMMA WaitInv ==
    ASSUME ManagerInv, Wait
    PROVE  ManagerInv'
<1> USE DEF Wait, ManagerInv, run, config
<1>1. OneServer'
  BY SameChildren
<1>2. TypeOK' /\ (response \in Responses)'
  BY DEF TypeOK, Places
<1>3. HasServer' /\ Told' /\ Truth'
  BY DEF HasServer, Told, Truth
<1>4. Work' /\ AnchorOnSuccess'
  BY DEF Work, AnchorOnSuccess
<1> QED
  BY <1>1, <1>2, <1>3, <1>4

-----------------------------------------------------------------------------
(* The steps that change the children.                                      *)

LEMMA Typed == TypeOK => procs \in Seq(Children) /\ session \in 0 .. Len(procs)
BY DEF TypeOK, Children

LEMMA SpawnInv ==
    ASSUME ManagerInv, Spawn
    PROVE  ManagerInv'
<1> DEFINE kept == [k \in DOMAIN procs |-> [procs[k] EXCEPT !.released = @ \/ k = session]]
<1>1. /\ at = "spawn" /\ session = 0 /\ procs' = Append(kept, NewProc)
      /\ session' = Len(procs) + 1 /\ at' = "initialize"
      /\ status' = [status EXCEPT !.state = "Initializing"]
      /\ UNCHANGED <<valid, probe, call, request, todo, work, response, calls>>
  BY DEF Spawn, ManagerInv, HasServer, config, run
<1>2. /\ Len(procs) \in Nat /\ DOMAIN procs = 1 .. Len(procs)
      /\ \A k \in DOMAIN procs : procs[k] \in Children
  BY ChildFacts, Typed DEF ManagerInv
<1>3. kept = procs
  <2>1. ASSUME NEW k \in DOMAIN procs PROVE kept[k] = procs[k]
    BY <1>1, <1>2 DEF Children
  <2> QED
    BY <1>2, <2>1, Typed DEF ManagerInv
<1>4. NewProc \in Children
  BY DEF NewProc, Children
<1>5. /\ procs' \in Seq(Children) /\ Len(procs') = Len(procs) + 1
      /\ DOMAIN procs' = 1 .. Len(procs) + 1
      /\ procs'[Len(procs) + 1] = NewProc
      /\ \A k \in DOMAIN procs : procs'[k] = procs[k]
  <2> HIDE DEF kept
  <2> QED
    BY <1>1, <1>2, <1>3, <1>4, Typed DEF ManagerInv
<1> HIDE DEF kept
<1> USE <1>1 DEF ManagerInv
<1>6. OneServer'
  BY <1>2, <1>5 DEF OneServer, NewProc
<1>7. TypeOK' /\ (response \in Responses)'
  <2>1. status' \in [state : States, initialized : BOOLEAN, warmup_complete : BOOLEAN,
                     failed : BOOLEAN]
    BY DEF TypeOK, States
  <2>2. session' \in 0 .. Len(procs')
    BY <1>2, <1>5
  <2> QED
    BY <1>5, <2>1, <2>2 DEF TypeOK, Children, Places
<1>8. HasServer' /\ Told'
  BY <1>2, <1>5 DEF HasServer, Told, NewProc
<1>9. Truth'
  <2>1. ~status.warmup_complete
    BY DEF Truth
  <2> QED
    BY <2>1 DEF Truth, TypeOK
<1>10. Work' /\ AnchorOnSuccess'
  BY DEF Work, AnchorOnSuccess
<1> QED
  BY <1>6, <1>7, <1>8, <1>9, <1>10

\* A change of the server itself that keeps what others must know of it.
LEMMA ServerChanges ==
    ASSUME ManagerInv, session # 0, NEW c \in Children,
           procs' = [procs EXCEPT ![session] = c], session' = session \/ session' = 0,
           c.released <=> session' = 0,
           session' = 0 => c.told # "no" \/ at' = "gone",
           at # "gone"
    PROVE  OneServer' /\ procs' \in Seq(Children) /\ session' \in 0 .. Len(procs')
           /\ Len(procs') = Len(procs) /\ procs'[session] = c
<1>1. /\ Len(procs) \in Nat /\ DOMAIN procs = 1 .. Len(procs) /\ session \in DOMAIN procs
      /\ session = Len(procs)
  BY ChildFacts, Typed DEF ManagerInv, HasServer
<1>2. /\ procs' \in Seq(Children) /\ Len(procs') = Len(procs) /\ DOMAIN procs' = DOMAIN procs
      /\ procs'[session] = c
      /\ \A j \in DOMAIN procs : j # session => procs'[j] = procs[j]
  BY <1>1, OneChild, Typed DEF ManagerInv
<1>3. OneServer'
  BY <1>1, <1>2 DEF ManagerInv, OneServer
<1> QED
  BY <1>1, <1>2, <1>3

LEMMA InitializeInv ==
    ASSUME ManagerInv, Initialize
    PROVE  ManagerInv'
<1> DEFINE c == [procs[session] EXCEPT !.handshake = "answered"]
<1>1. /\ at = "initialize" /\ at' = "initialized" /\ session # 0
      /\ procs' = [procs EXCEPT ![session] = c]
      /\ UNCHANGED <<valid, probe, status, session, call, request, todo, work, response, calls>>
  BY DEF Initialize, Shake, ManagerInv, HasServer, config, run
<1>2. /\ procs[session] \in Children /\ procs[session].told = "no" /\ ~procs[session].released
  BY <1>1, ChildFacts, Typed DEF ManagerInv, Told, OneServer
<1>3. c \in Children /\ c.told = "no" /\ ~c.released
  BY <1>2 DEF Children
<1> HIDE DEF c
<1>4. /\ OneServer' /\ procs' \in Seq(Children) /\ session' \in 0 .. Len(procs')
      /\ Len(procs') = Len(procs) /\ procs'[session] = c
  BY <1>1, <1>3, ServerChanges
<1> USE <1>1 DEF ManagerInv
<1>5. TypeOK' /\ (response \in Responses)'
  BY <1>4 DEF TypeOK, Children, Places
<1>6. HasServer' /\ Told' /\ Truth'
  BY <1>3, <1>4 DEF HasServer, Told, Truth
<1>7. Work' /\ AnchorOnSuccess'
  BY DEF Work, AnchorOnSuccess
<1> QED
  BY <1>4, <1>5, <1>6, <1>7

LEMMA InitializedInv ==
    ASSUME ManagerInv, Initialized
    PROVE  ManagerInv'
<1> DEFINE c == [procs[session] EXCEPT !.handshake = "complete"]
<1>1. /\ at = "initialized" /\ session # 0
      /\ procs' = [procs EXCEPT ![session] = c]
      /\ status' = [status EXCEPT !.initialized = TRUE,
                        !.state = IF probe = "none" THEN "Ready" ELSE "WarmingUp"]
      /\ at' = (IF probe = "none" THEN Started ELSE "run")
      /\ todo' = (IF probe = "none" THEN <<>> ELSE Steps("class", probe)) /\ work' = {}
      /\ UNCHANGED <<valid, probe, session, call, request, response, calls>>
  BY DEF Initialized, Shake, ManagerInv, HasServer, config, NoWork
<1>2. /\ procs[session] \in Children /\ procs[session].told = "no" /\ ~procs[session].released
  BY <1>1, ChildFacts, Typed DEF ManagerInv, Told, OneServer
<1>3. c \in Children /\ c.told = "no" /\ ~c.released /\ c.handshake = "complete"
  BY <1>2 DEF Children
<1> HIDE DEF c
<1>4. /\ OneServer' /\ procs' \in Seq(Children) /\ session' \in 0 .. Len(procs')
      /\ Len(procs') = Len(procs) /\ procs'[session] = c
  BY <1>1, <1>3, ServerChanges
<1> USE <1>1 DEF ManagerInv
<1>5. /\ status' \in [state : States, initialized : BOOLEAN, warmup_complete : BOOLEAN,
                      failed : BOOLEAN]
      /\ status'.initialized /\ ~status'.warmup_complete
      /\ status'.state = IF probe = "none" THEN "Ready" ELSE "WarmingUp"
  BY DEF TypeOK, States, Truth
<1>6. todo' \in Seq(Names)
  <2>1. CASE probe = "none"
    BY <2>1
  <2>2. CASE probe # "none"
    BY <2>2, StepsNamed, ProbesAssumption DEF TypeOK
  <2> QED
    BY <2>1, <2>2
<1>7. TypeOK' /\ (response \in Responses)'
  BY <1>4, <1>5, <1>6 DEF TypeOK, Children, Places, Names, Started
<1>8. HasServer' /\ Told' /\ Truth'
  BY <1>3, <1>4, <1>5 DEF HasServer, Told, Truth, IsReady, Started
<1>9. Work' /\ AnchorOnSuccess'
  BY <1>5 DEF Work, AnchorOnSuccess, Started
<1> QED
  BY <1>4, <1>7, <1>8, <1>9

LEMMA ShutdownInv ==
    ASSUME ManagerInv, Shutdown
    PROVE  ManagerInv'
<1>1. PICK told \in {"yes", "failed"} :
        procs' = [procs EXCEPT ![session].told = told]
        /\ at' = (IF told = "yes" THEN "wait" ELSE "stopped")
  BY DEF Shutdown
<1> DEFINE c == [procs[session] EXCEPT !.told = told]
<1>2. /\ at = "shutdown" /\ session # 0 /\ at' \in {"wait", "stopped"}
      /\ procs' = [procs EXCEPT ![session] = c]
      /\ UNCHANGED <<valid, probe, status, session, call, request, todo, work, response, calls>>
  BY <1>1 DEF Shutdown, ManagerInv, HasServer, config, run
<1>3. procs[session] \in Children /\ ~procs[session].released
  BY <1>2, ChildFacts, Typed DEF ManagerInv, OneServer
<1>4. c \in Children /\ c.told # "no" /\ ~c.released
  BY <1>3 DEF Children
<1> HIDE DEF c
<1>5. /\ OneServer' /\ procs' \in Seq(Children) /\ session' \in 0 .. Len(procs')
      /\ Len(procs') = Len(procs) /\ procs'[session] = c
  BY <1>2, <1>4, ServerChanges
<1> USE <1>2 DEF ManagerInv
<1>6. TypeOK' /\ (response \in Responses)'
  BY <1>5 DEF TypeOK, Children, Places
<1>7. HasServer' /\ Told' /\ Truth'
  BY <1>4, <1>5 DEF HasServer, Told, Truth
<1>8. Work' /\ AnchorOnSuccess'
  BY DEF Work, AnchorOnSuccess
<1> QED
  BY <1>5, <1>6, <1>7, <1>8

\* The session is dropped, by stop or by the destructor.
LEMMA ReleaseInv ==
    ASSUME ManagerInv, procs' = Release, session' = 0, at # "gone",
           session # 0 => procs[session].told # "no" \/ at' = "gone"
    PROVE  OneServer' /\ procs' \in Seq(Children) /\ session' \in 0 .. Len(procs')
<1>1. CASE session = 0
  <2>1. procs' = procs /\ Len(procs) \in Nat
    BY <1>1, ChildFacts, Typed DEF Release, ManagerInv
  <2> QED
    BY <1>1, <2>1, Typed DEF ManagerInv, OneServer
<1>2. CASE session # 0
  <2> DEFINE c == [procs[session] EXCEPT !.released = TRUE]
  <2>1. procs[session] \in Children
    BY <1>2, ChildFacts, Typed DEF ManagerInv
  <2>2. c \in Children /\ c.released /\ c.told = procs[session].told
    BY <2>1 DEF Children
  <2>3. procs' = [procs EXCEPT ![session] = c]
    BY <1>2 DEF Release
  <2> HIDE DEF c
  <2> QED
    BY <1>2, <2>2, <2>3, ServerChanges
<1> QED
  BY <1>1, <1>2

LEMMA StoppedInv ==
    ASSUME ManagerInv, Stopped
    PROVE  ManagerInv'
<1>1. /\ at = "stopped" /\ procs' = Release /\ session' = 0
      /\ status' = [state |-> "Stopped", initialized |-> FALSE, warmup_complete |-> FALSE,
                    failed |-> FALSE]
      /\ at' \in {"idle", "validate"}
      /\ UNCHANGED <<valid, probe, call, request, todo, work, response, calls>>
  BY DEF Stopped, Status, config, run
<1>2. OneServer' /\ procs' \in Seq(Children) /\ session' \in 0 .. Len(procs')
  BY <1>1, ReleaseInv DEF ManagerInv, Told
<1> USE <1>1 DEF ManagerInv
<1>3. TypeOK' /\ (response \in Responses)'
  <2>1. status' \in [state : States, initialized : BOOLEAN, warmup_complete : BOOLEAN,
                     failed : BOOLEAN]
    BY DEF States
  <2> QED
    BY <1>2, <2>1 DEF TypeOK, Children, Places
<1>4. HasServer' /\ Told' /\ Truth'
  BY DEF HasServer, Told, Truth
<1>5. Work' /\ AnchorOnSuccess'
  BY DEF Work, AnchorOnSuccess
<1> QED
  BY <1>2, <1>3, <1>4, <1>5

LEMMA DestroyInv ==
    ASSUME ManagerInv, Destroy
    PROVE  ManagerInv'
<1>1. /\ at = "idle" /\ procs' = Release /\ session' = 0 /\ at' = "gone"
      /\ UNCHANGED <<valid, probe, status, call, request, todo, work, response, calls>>
  BY DEF Destroy, config, run
<1>2. OneServer' /\ procs' \in Seq(Children) /\ session' \in 0 .. Len(procs')
  BY <1>1, ReleaseInv
<1> USE <1>1 DEF ManagerInv
<1>3. TypeOK' /\ (response \in Responses)'
  BY <1>2 DEF TypeOK, Children, Places
<1>4. HasServer' /\ Told' /\ Truth'
  BY DEF HasServer, Told, Truth
<1>5. Work' /\ AnchorOnSuccess'
  BY DEF Work, AnchorOnSuccess
<1> QED
  BY <1>2, <1>3, <1>4, <1>5

LEMMA ChildEndsInv ==
    ASSUME ManagerInv, ChildEnds
    PROVE  ManagerInv'
<1>1. PICK k \in DOMAIN procs : procs' = [procs EXCEPT ![k].alive = FALSE]
  BY DEF ChildEnds
<1> DEFINE c == [procs[k] EXCEPT !.alive = FALSE]
<1>2. /\ procs' = [procs EXCEPT ![k] = c]
      /\ UNCHANGED <<valid, probe, status, session, call, at, request, todo, work, response, calls>>
  BY <1>1 DEF ChildEnds, config, run
<1>3. /\ Len(procs) \in Nat /\ DOMAIN procs = 1 .. Len(procs)
      /\ \A j \in DOMAIN procs : procs[j] \in Children
      /\ session # 0 => session \in DOMAIN procs
  BY ChildFacts, Typed DEF ManagerInv
<1>4. c \in Children /\ c.handshake = procs[k].handshake /\ c.told = procs[k].told
      /\ c.released = procs[k].released
  BY <1>3 DEF Children
<1> HIDE DEF c
<1>5. /\ procs' \in Seq(Children) /\ Len(procs') = Len(procs) /\ DOMAIN procs' = DOMAIN procs
      /\ \A j \in DOMAIN procs :
           /\ procs'[j].handshake = procs[j].handshake
           /\ procs'[j].told = procs[j].told /\ procs'[j].released = procs[j].released
  BY <1>2, <1>3, <1>4, OneChild, Typed DEF ManagerInv
<1> USE <1>2 DEF ManagerInv
<1>6. OneServer'
  BY <1>3, <1>5 DEF OneServer
<1>7. TypeOK' /\ (response \in Responses)'
  BY <1>5 DEF TypeOK, Children
<1>8. HasServer' /\ Told' /\ Truth'
  BY <1>3, <1>5 DEF HasServer, Told, Truth, IsReady
<1>9. Work' /\ AnchorOnSuccess'
  BY DEF Work, AnchorOnSuccess
<1> QED
  BY <1>6, <1>7, <1>8, <1>9

-----------------------------------------------------------------------------
(* The theorems.                                                            *)

LEMMA StutterInv ==
    ASSUME ManagerInv, UNCHANGED vars
    PROVE  ManagerInv'
<1> USE DEF vars, config, run, ManagerInv
<1>1. TypeOK' /\ (response \in Responses)'
  BY DEF TypeOK
<1>2. OneServer' /\ HasServer' /\ Told'
  BY DEF OneServer, HasServer, Told
<1>3. Truth'
  BY DEF Truth, IsReady
<1>4. Work' /\ AnchorOnSuccess'
  BY DEF Work, AnchorOnSuccess
<1> QED
  BY <1>1, <1>2, <1>3, <1>4

LEMMA ManagerInvariant == Spec => []ManagerInv
<1>1. ManagerInv /\ [Next]_vars => ManagerInv'
  <2> SUFFICES ASSUME ManagerInv, [Next]_vars PROVE ManagerInv'
    OBVIOUS
  <2>1. CASE CallStart \/ CallStop \/ CallExpand
    BY <2>1, CallsInv
  <2>2. CASE Start \/ Stop
    BY <2>2, StartInv
  <2>3. CASE Validate \/ Spawn
    BY <2>3, ValidateInv, SpawnInv
  <2>4. CASE Initialize \/ Initialized \/ WarmedUp
    BY <2>4, InitializeInv, InitializedInv, WarmedUpInv
  <2>5. CASE RequestThrows
    BY <2>5, ThrowInv DEF RequestThrows
  <2>6. CASE Step \/ Query \/ Expanded
    BY <2>6, StepInv, QueryInv, ExpandedInv
  <2>7. CASE Shutdown \/ Wait \/ Stopped \/ Destroy
    BY <2>7, ShutdownInv, WaitInv, StoppedInv, DestroyInv
  <2>8. CASE ChildEnds
    BY <2>8, ChildEndsInv
  <2>9. CASE UNCHANGED vars
    BY <2>9, StutterInv
  <2> QED
    BY <2>1, <2>2, <2>3, <2>4, <2>5, <2>6, <2>7, <2>8, <2>9 DEF Next, Over
<1> QED
  BY InitInv, <1>1, PTL DEF Spec

\* Every variable of the manager keeps its type.
THEOREM ManagerTyped == Spec => []TypeOK
BY ManagerInvariant, PTL DEF ManagerInv

\* However start, stop and expand are called and fail, there is one server at a
\* time, and no server is let go of without a word but by the destructor.
THEOREM OneServerAtATime == Spec => []OneServer
BY ManagerInvariant, PTL DEF ManagerInv

\* Between calls the state the manager reports is true of its server.
THEOREM StateTrue == Spec => []StateIsTrue
<1>1. ManagerInv => StateIsTrue
  BY DEF ManagerInv, Truth, IsReady, Told, StateIsTrue
<1> QED
  BY <1>1, ManagerInvariant, PTL

\* A response holds an anchor and the trees asked for exactly when it says Ok.
THEOREM ResponsesComplete == Spec => []AnchorOnSuccess
BY ManagerInvariant, PTL DEF ManagerInv
===============================================================================
