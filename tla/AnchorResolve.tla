------------------------------ MODULE AnchorResolve ------------------------------
(***************************************************************************)
(* How an anchor is found (src/semantic.cpp): resolve_anchor asks for the    *)
(* symbols of a class, keeps the candidates and tries one file after the    *)
(* other; resolve_method_anchor_in_file tries the one file it is given.     *)
(* Both repeat that, with a pause, until a try succeeds or the deadline has *)
(* passed, because a server that is warming up answers badly or not at all: *)
(* every answer is chosen anew each time it is asked for.  A name is what   *)
(* it is folded to, and whether it carries parameters.                      *)
(***************************************************************************)
EXTENDS Naturals, Sequences, FiniteSets

CONSTANTS
    Symbols,        \* workspace symbols as the server sends them: name, kind, uri, file
    class_name,     \* the class asked for
    Scope,          \* the files under scope_root
    TheFile,        \* the file of the other function
    Positions,      \* where a method of the right name may be declared
    MaxSymbols,     \* bound: symbols in one answer
    ready_timeout,  \* ticks from the call to the deadline
    retry_interval, \* ticks slept between two attempts
    MaxAttempts     \* bound: attempts that fit before the deadline

ASSUME TimesAssumption ==
    ready_timeout \in Nat /\ retry_interval \in Nat /\ MaxAttempts \in Nat /\ MaxSymbols \in Nat
\* "none" is no file's path.
ASSUME SymbolsAssumption ==
    /\ \A s \in Symbols : s.name \in [folded : STRING, parameters : BOOLEAN]
    /\ "none" \notin Scope

VARIABLES
    function,         \* which of the two functions runs
    at,               \* what it does next
    now,              \* ticks since the call, up to the deadline
    attempts,
    candidates,       \* files still to be tried in this attempt
    position,         \* where the file's symbols say the method is
    candidate_count,
    result,           \* the anchor
    answer,           \* the symbols of this attempt's answer
    outcomes          \* what the tries of this attempt came to

vars == <<function, at, now, attempts, candidates, position, candidate_count,
          result, answer, outcomes>>

None == [file |-> "none"]

Answers == UNION {[1 .. n -> Symbols] : n \in 0 .. MaxSymbols}

logical_name(name) == [name EXCEPT !.parameters = FALSE]
iequals_ascii(x, y) == x.folded = y.folded /\ x.parameters = y.parameters
is_type_like_kind(kind) == kind \in {"Class", "Interface", "Enum", "Struct"}

\* parse_workspace_symbols: only a file URI gives a path, and one that names no
\* absolute path makes the whole answer useless.
path(symbol) == IF symbol.uri = "file" THEN symbol.file ELSE "none"
Parses(symbols) == \A k \in DOMAIN symbols : symbols[k].uri # "malformed"

Fits(symbol) ==
    /\ is_type_like_kind(symbol.kind)
    /\ iequals_ascii(logical_name(symbol.name), class_name)
    /\ path(symbol) # "none" /\ path(symbol) \in Scope

\* The candidates keep the order of the answer.
select_anchor_candidates(symbols) ==
    LET kept[n \in 0 .. Len(symbols)] ==
            IF n = 0 THEN <<>>
            ELSE IF Fits(symbols[n]) THEN Append(kept[n - 1], path(symbols[n]))
            ELSE kept[n - 1]
    IN  kept[Len(symbols)]

Init ==
    /\ function \in {"class", "file"}
    /\ at = "loop" /\ now = 0 /\ attempts = 0 /\ candidate_count = 0
    /\ candidates = <<>> /\ position = "none" /\ result = None
    /\ answer = <<>> /\ outcomes = <<>>

-----------------------------------------------------------------------------
Tick ==
    /\ at \notin {"resolved", "failed"} /\ now < ready_timeout
    /\ now' = now + 1
    /\ UNCHANGED <<function, at, attempts, candidates, position, candidate_count,
                   result, answer, outcomes>>

Attempt ==
    /\ at = "loop" /\ now < ready_timeout /\ attempts < MaxAttempts
    /\ attempts' = attempts + 1
    /\ at' = IF function = "class" THEN "search" ELSE "try"
    /\ candidates' = IF function = "class" THEN <<>> ELSE <<TheFile>>
    /\ answer' = <<>> /\ outcomes' = <<>>
    /\ UNCHANGED <<function, now, position, candidate_count, result>>

GiveUp ==
    /\ at = "loop" /\ now = ready_timeout
    /\ at' = "failed"
    /\ UNCHANGED <<function, now, attempts, candidates, position, candidate_count,
                   result, answer, outcomes>>

Search ==
    /\ at = "search"
    /\ \E symbols \in Answers :
         /\ Parses(symbols)
         /\ answer' = symbols
         /\ candidates' = select_anchor_candidates(symbols)
    /\ candidate_count' = IF Len(candidates') > candidate_count
                          THEN Len(candidates') ELSE candidate_count
    /\ at' = "try"
    /\ UNCHANGED <<function, now, attempts, position, result, outcomes>>

\* A request throws: the attempt is over, the candidates after this one included.
AttemptThrows ==
    /\ at \in {"search", "try", "prepare"}
    /\ at = "try" => candidates # <<>>
    /\ at' = "sleep"
    /\ UNCHANGED <<function, now, attempts, candidates, position, candidate_count,
                   result, answer, outcomes>>

\* document_symbols and find_method_symbol.
DocumentSymbols ==
    /\ at = "try" /\ candidates # <<>>
    /\ \/ /\ \E p \in Positions : position' = p
          /\ at' = "prepare"
          /\ UNCHANGED <<candidates, outcomes>>
       \/ /\ candidates' = Tail(candidates) /\ outcomes' = Append(outcomes, "no method")
          /\ UNCHANGED <<at, position>>
    /\ UNCHANGED <<function, now, attempts, candidate_count, result, answer>>

\* prepare_call_hierarchy at the method's position: an item of the method's name.
Prepared ==
    /\ at = "prepare"
    /\ result' = [file |-> Head(candidates), position |-> position]
    /\ outcomes' = Append(outcomes, "anchor")
    /\ at' = "resolved"
    /\ UNCHANGED <<function, now, attempts, candidates, position, candidate_count, answer>>

\* Defect: the next candidate is not reached, the one after it is.
NoItemSkipsNext ==
    /\ at = "prepare"
    /\ candidates' = IF Len(candidates) > 2 THEN Tail(Tail(candidates)) ELSE Tail(candidates)
    /\ outcomes' = Append(outcomes, "no item")
    /\ at' = "try"
    /\ UNCHANGED <<function, now, attempts, position, candidate_count, result, answer>>

\* No item of that name.
NoItem ==
    /\ at = "prepare"
    /\ candidates' = Tail(candidates) /\ outcomes' = Append(outcomes, "no item")
    /\ at' = "try"
    /\ UNCHANGED <<function, now, attempts, position, candidate_count, result, answer>>

\* Defect: out of candidates, the symbols are asked for again at once.
NoneLeftSearchesAgain ==
    /\ at = "try" /\ candidates = <<>>
    /\ at' = (IF function = "class" THEN "search" ELSE "sleep") /\ outcomes' = <<>>
    /\ UNCHANGED <<function, now, attempts, candidates, position, candidate_count,
                   result, answer>>

NoneLeft ==
    /\ at = "try" /\ candidates = <<>>
    /\ at' = "sleep"
    /\ UNCHANGED <<function, now, attempts, candidates, position, candidate_count,
                   result, answer, outcomes>>

Sleep ==
    /\ at = "sleep"
    /\ now' = IF now + retry_interval < ready_timeout THEN now + retry_interval
              ELSE ready_timeout
    /\ at' = "loop"
    /\ UNCHANGED <<function, attempts, candidates, position, candidate_count,
                   result, answer, outcomes>>

Over == at \in {"resolved", "failed"} /\ UNCHANGED vars

Step ==
    \/ Attempt \/ GiveUp
    \/ Search \/ AttemptThrows \/ DocumentSymbols \/ Prepared \/ NoItem \/ NoneLeft
    \/ Sleep

Next == Tick \/ Step \/ Over

Spec == Init /\ [][Next]_vars

\* Time passes and the thread runs.
FairSpec == Spec /\ WF_vars(Tick) /\ WF_vars(Step)

-----------------------------------------------------------------------------
(* Properties.                                                              *)

\* Every variable has its type.
TypeOK ==
    /\ function \in {"class", "file"}
    /\ at \in {"loop", "search", "try", "prepare", "sleep", "resolved", "failed"}
    /\ now \in 0 .. ready_timeout /\ attempts \in 0 .. MaxAttempts
    /\ candidates \in Seq(Scope \cup {TheFile}) /\ answer \in Seq(Symbols)
    /\ candidate_count \in 0 .. MaxSymbols
    /\ result = None <=> at # "resolved"

\* What a symbol of the answer must be: the class asked for, in letters of either
\* case and, as logical_name cuts a name at its first parenthesis, with a parameter
\* list or without, in a local file under the root.
Wanted(k) ==
    /\ answer[k].kind \in {"Class", "Interface", "Enum", "Struct"}
    /\ answer[k].name.folded = class_name.folded
    /\ answer[k].uri = "file" /\ answer[k].file \in Scope

\* The anchor is that of the first wanted symbol, in the order of the last answer,
\* whose file had one: the file of every wanted symbol before it was tried in the
\* same attempt and had no such method or no such item; none was left out.
FirstThatFits ==
    at = "resolved" =>
        /\ outcomes[Len(outcomes)] = "anchor"
        /\ \A n \in 1 .. Len(outcomes) - 1 : outcomes[n] \in {"no method", "no item"}
        /\ function = "file" => result.file = TheFile /\ Len(outcomes) = 1
        /\ function = "class" =>
             \E k \in DOMAIN answer :
                 /\ Wanted(k) /\ result.file = answer[k].file
                 /\ Cardinality({j \in 1 .. k : Wanted(j)}) = Len(outcomes)

\* The search ends, whatever the server answers or refuses: once the deadline has
\* passed no attempt begins.  It may end later than the deadline, which only the
\* heads of the loops look at: an attempt under way is finished first, and its
\* requests have no timeout.
Ends == <>(at \in {"resolved", "failed"})
===============================================================================
