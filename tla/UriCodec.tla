-------------------------------- MODULE UriCodec --------------------------------
(***************************************************************************)
(* File URIs (src/uri.cpp): file_uri_from_path, which names a document to    *)
(* the server and is its key in the session's table, and path_from_file_uri, *)
(* which reads the URIs of the server's answers.  The server spells them its *)
(* own way: it may escape more, in small letters, and name the host.  A byte *)
(* is its number; the scheme and the host of a URI are kept apart.           *)
(***************************************************************************)
EXTENDS Integers, Sequences, SequencesExt

CONSTANTS
    Bytes,      \* the bytes that occur in paths
    MaxLength   \* bound: bytes of a path

ASSUME BytesAssumption == Bytes \subseteq 0 .. 255 /\ MaxLength \in Nat

VARIABLES
    path,       \* a file's absolute, normal path
    uri,        \* a URI somebody names it by
    read        \* what path_from_file_uri makes of it

uriVars == <<path, uri, read>>

Slash == 47
Dot == 46
Percent == 37

Throws == <<>>          \* no absolute path is empty
NotRead == <<-1>>

-----------------------------------------------------------------------------
\* std::filesystem::path::lexically_normal of an absolute path: empty and dot
\* segments go, a dot-dot segment takes the one before it along, and a path that
\* ends in one of them keeps its last slash.
lexically_normal(p) ==
    LET slashes == SetToSortSeq({i \in DOMAIN p : p[i] = Slash} \cup {Len(p) + 1}, <)
        segments == [k \in 1 .. Len(slashes) - 1 |-> SubSeq(p, slashes[k] + 1, slashes[k + 1] - 1)]
        Enter(kept, segment) ==
            IF segment \in {<<>>, <<Dot>>} THEN kept
            ELSE IF segment # <<Dot, Dot>> THEN Append(kept, segment)
            ELSE IF kept = <<>> THEN kept ELSE Front(kept)
        kept == FoldLeft(Enter, <<>>, segments)
        open == kept # <<>> /\ Last(segments) \in {<<>>, <<Dot>>, <<Dot, Dot>>}
        Join(joined, segment) == joined \o <<Slash>> \o segment
    IN  IF kept = <<>> THEN <<Slash>>
        ELSE FoldLeft(Join, <<>>, kept) \o (IF open THEN <<Slash>> ELSE <<>>)

Digits == 48 .. 57
Capitals == 65 .. 90
Smalls == 97 .. 122
is_unreserved(c) == c \in Digits \cup Capitals \cup Smalls \cup {45, Dot, 95, 126, Slash}

HexDigit(v, letterA) == IF v < 10 THEN 48 + v ELSE letterA + v - 10
Escape(c, letterA) == <<Percent, HexDigit(c \div 16, letterA), HexDigit(c % 16, letterA)>>

percent_encode(p) ==
    FlattenSeq([k \in DOMAIN p |-> IF is_unreserved(p[k]) THEN <<p[k]>> ELSE Escape(p[k], 65)])

hex_value(c) ==
    IF c \in Digits THEN c - 48
    ELSE IF c \in 65 .. 70 THEN c - 55
    ELSE IF c \in 97 .. 102 THEN c - 87
    ELSE -1

\* Defect: an escape that ends the text is not seen as one.
DecodeAllButLast(s) ==
    LET from[i \in 1 .. Len(s) + 1] ==
            IF i > Len(s) THEN <<>>
            ELSE IF /\ s[i] = Percent /\ i + 2 < Len(s)
                    /\ hex_value(s[i + 1]) >= 0 /\ hex_value(s[i + 2]) >= 0
                 THEN <<16 * hex_value(s[i + 1]) + hex_value(s[i + 2])>> \o from[i + 3]
                 ELSE <<s[i]>> \o from[i + 1]
    IN  from[1]

\* A percent sign that no two hex digits follow stands for itself.
percent_decode(s) ==
    LET from[i \in 1 .. Len(s) + 1] ==
            IF i > Len(s) THEN <<>>
            ELSE IF /\ s[i] = Percent /\ i + 2 <= Len(s)
                    /\ hex_value(s[i + 1]) >= 0 /\ hex_value(s[i + 2]) >= 0
                 THEN <<16 * hex_value(s[i + 1]) + hex_value(s[i + 2])>> \o from[i + 3]
                 ELSE <<s[i]>> \o from[i + 1]
    IN  from[1]

file_uri_from_path(p) == [scheme |-> "file", host |-> "", text |-> percent_encode(p)]

\* With another host, or with "localhost" and nothing after it, what follows the
\* scheme does not begin with a slash.
path_from_file_uri(u) ==
    LET decoded == percent_decode(u.text)
    IN  IF u.scheme # "file" \/ u.host = "other" \/ decoded = <<>> \/ decoded[1] # Slash
        THEN Throws
        ELSE lexically_normal(decoded)

-----------------------------------------------------------------------------
Paths == {p \in UNION {[1 .. n -> Bytes] : n \in 1 .. MaxLength} :
             p[1] = Slash /\ lexically_normal(p) = p}

\* How a byte may be spelled: as it is, unless it is the percent sign, or escaped.
Spellings(c) == {Escape(c, 65), Escape(c, 97)} \cup (IF c = Percent THEN {} ELSE {<<c>>})

\* The ways to spell a path; the slash that begins it is always written as such.
TextsFor(p) ==
    {FlattenSeq(<<<<Slash>>>> \o spelled) :
        spelled \in {t \in [1 .. Len(p) - 1 -> UNION {Spellings(c) : c \in Bytes}] :
                        \A k \in DOMAIN t : t[k] \in Spellings(p[k + 1])}}

\* As the session spells it, as a server may, and a URI that is no file's.
UrisOf(p) ==
    {file_uri_from_path(p)}
    \cup [scheme : {"file"}, host : {"", "localhost", "other"}, text : TextsFor(p)]
    \cup [scheme : {"jdt"}, host : {""}, text : {p}]

InitUri ==
    /\ path \in Paths
    /\ uri \in UrisOf(path)
    /\ read = NotRead

ReadUri ==
    /\ read = NotRead
    /\ read' = path_from_file_uri(uri)
    /\ UNCHANGED <<path, uri>>

UriSpec == InitUri /\ [][ReadUri]_uriVars

-----------------------------------------------------------------------------
(* Properties.                                                              *)

\* From the URI the session makes of a file's path, and from any other that has the
\* slashes of an authority, no host or localhost, and each byte escaped in either
\* case or as it is, the path is read back; with another host, or another scheme,
\* the reading throws.  A percent sign is always escaped in these URIs.
AnySpelling ==
    read # NotRead =>
        read = IF uri.scheme = "file" /\ uri.host # "other" THEN path ELSE Throws
===============================================================================
