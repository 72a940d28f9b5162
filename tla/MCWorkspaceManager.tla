--------------------------- MODULE MCWorkspaceManager ---------------------------
(* Every configuration and every request.                                       *)
EXTENDS WorkspaceManager

EveryProbe == Directions \cup {"none"}
EveryRequest == [kind : {"class", "file"}, direction : Directions, complete : {TRUE}]
                \cup [kind : {"class"}, direction : {"both"}, complete : {FALSE}]
===============================================================================
