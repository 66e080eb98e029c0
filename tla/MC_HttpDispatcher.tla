------------------------- MODULE MC_HttpDispatcher -------------------------
(* Model-checking instance of HttpDispatcher: the bounds and path sets are *)
(* given in the .cfg files.                                                *)
EXTENDS HttpDispatcher, TLC

\* Both paths: the code as it runs and the dispatch behind the return.
MCPaths == {FALSE, TRUE}

\* Only the code as it runs.
MCPathsLive == {FALSE}

\* Only the dispatch behind the return.
MCPathsDispatch == {TRUE}
=============================================================================
