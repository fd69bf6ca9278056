------------------------------ MODULE MCBookmarks ------------------------------
(* Instances of Bookmarks for TLC. *)
EXTENDS Bookmarks

\* two spellings of one path and another path
MCPaths == {"Src", "src", "docs"}
MCFold == [path \in MCPaths |-> IF path = "docs" THEN "docs" ELSE "src"]

\* imported: a bookmark of an old version, one with its identifier and a history
\* out of order, one with a note
MCIncoming ==
    {[key |-> "k", path |-> "Src", note |-> "none", history |-> <<>>,
      last |-> [at |-> 1, label |-> FALSE]],
     [key |-> "k", path |-> "src", note |-> "none", last |-> NoResult,
      history |-> <<[at |-> 1, label |-> TRUE], [at |-> 2, label |-> FALSE]>>],
     [key |-> "", path |-> "docs", note |-> "text", history |-> <<>>, last |-> NoResult]}
===============================================================================
