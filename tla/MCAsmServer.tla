---------------------------- MODULE MCAsmServer ----------------------------
(***************************************************************************)
(* A client that posts and one that gets the same path, or never sends.    *)
(***************************************************************************)
EXTENDS AsmServer

MCMethod == [c \in {"post", "get"} |-> IF c = "post" THEN "POST" ELSE "GET"]
MCPath == [c \in {"post", "get"} |-> "/a"]
MCBody == [c \in {"post", "get"} |-> IF c = "post" THEN <<1, 2>> ELSE <<>>]
MCOldFile == <<9, 9, 9>>
=============================================================================
