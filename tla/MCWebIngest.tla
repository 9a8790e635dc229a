----------------------------- MODULE MCWebIngest -----------------------------
\* A small instance of WebIngest: a client that saves the configuration and one
\* that saves a program.
EXTENDS WebIngest, TLC

CONSTANTS cfg1, prog1, heat, start

MCPosts == {cfg1, prog1}
MCKind == (cfg1 :> "config") @@ (prog1 :> "program")
MCTarget == [p \in MCPosts |-> heat]
MCIds == {heat, start}
=============================================================================
