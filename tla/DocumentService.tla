--------------------------- MODULE DocumentService ----------------------------
(***************************************************************************)
(* What a clspc::Session promises its caller (include/clspc/session.h): one *)
(* call at a time against a table of open documents, with no server, pipe, *)
(* request id or buffered answer in sight.  A query that returns normally  *)
(* answers from the text that is open, it may open the document first; any *)
(* call may fail instead, and nothing but the caller's own calls moves the *)
(* table.  One flaw is part of the promise: an open document can be given a *)
(* text that cannot be sent; it is in the table, and the queries answer    *)
(* from the text before it until another one replaces it.                  *)
(***************************************************************************)
CONSTANTS Uris, Texts, NotUtf8, NoUri, NoText

VARIABLES
    table,     \* the text open for each document, NoText if it is not open
    told,      \* the text the queries answer from
    current,   \* the call under way
    reply      \* what the last request call ended with

vars == <<table, told, current, reply>>

NoCall   == [op |-> "none", uri |-> NoUri]
NoReply  == [op |-> "none", uri |-> NoUri, outcome |-> "none", text |-> NoText]

Init ==
    /\ table = [u \in Uris |-> NoText] /\ told = table
    /\ current = NoCall
    /\ reply = NoReply

Invoke ==
    /\ current = NoCall
    /\ \/ \E op \in {"initialize", "lookup", "shutdown"} :
            current' = [op |-> op, uri |-> NoUri]
       \/ \E u \in Uris : current' = [op |-> "query", uri |-> u]
    /\ UNCHANGED <<table, told, reply>>

Set(u, t) == table' = [table EXCEPT ![u] = t] /\ told' = [told EXCEPT ![u] = t]

\* sync_text, sync_disk_file and close_file.
Update ==
    /\ current = NoCall
    /\ \E u \in Uris, t \in (Texts \ NotUtf8) \cup {NoText} : Set(u, t)
    /\ UNCHANGED <<current, reply>>

\* sync_text throws after it has replaced the text of an open document.
UpdateUntold ==
    /\ current = NoCall
    /\ \E u \in Uris, t \in NotUtf8 :
         table[u] # NoText /\ table' = [table EXCEPT ![u] = t]
    /\ UNCHANGED <<told, current, reply>>

OpenForQuery ==
    /\ current.op = "query" /\ table[current.uri] = NoText
    /\ \E t \in Texts \ NotUtf8 : Set(current.uri, t)
    /\ UNCHANGED <<current, reply>>

End(outcome, text) ==
    /\ current # NoCall
    /\ reply' = [op |-> current.op, uri |-> current.uri,
                 outcome |-> outcome, text |-> text]
    /\ current' = NoCall
    /\ UNCHANGED <<table, told>>

Return ==
    IF current.op = "query"
    THEN table[current.uri] # NoText /\ End("ok", told[current.uri])
    ELSE End("ok", NoText)

Fail == \E outcome \in {"error", "threw"}, text \in Texts \cup {NoText} : End(outcome, text)

Next == Invoke \/ Update \/ UpdateUntold \/ OpenForQuery \/ Return \/ Fail

Spec == Init /\ [][Next]_vars
===============================================================================
