---------------------------- MODULE MCAnchorResolve ----------------------------
(* Three symbols that fit, and one for every reason not to.                     *)
EXTENDS AnchorResolve

Name(folded, parameters) == [folded |-> folded, parameters |-> parameters]
Asked == Name("box", FALSE)

Good == [name |-> Asked, kind |-> "Class", uri |-> "file", file |-> "a"]
SmallSymbols ==
    {Good, [Good EXCEPT !.name = Name("box", TRUE), !.kind = "Interface", !.file = "b"],
     [Good EXCEPT !.file = "outside"], [Good EXCEPT !.kind = "Method"],
     [Good EXCEPT !.name = Name("boxer", FALSE)], [Good EXCEPT !.uri = "jdt"],
     [Good EXCEPT !.uri = "malformed"]}
===============================================================================
