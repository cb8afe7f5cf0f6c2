---------------------------- MODULE MCResolveApi -----------------------------
(***************************************************************************)
(* Small instances of ResolveApi.                                          *)
(***************************************************************************)
EXTENDS ResolveApi, FiniteSets

\* Where /debug/resolve is used, at most MaxWithDebug submissions are made.
MaxWithDebug == 3

Bounded == OnlyResolve \/ Cardinality({k \in Calls : Made(k)}) <= MaxWithDebug

\* The behaviours of one app, with fairness.
AppSpec == Init /\ [][Next /\ Bounded']_vars /\ Fairness

=============================================================================
