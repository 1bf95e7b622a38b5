-------------------------- MODULE MCPluginRuntime --------------------------
EXTENDS PluginRuntime, TLC

CONSTANTS p1, p2, p3, lock, code

\* One plugin without globs, one interested in code, one in lock files.
MCGlobFiles == (p1 :> {}) @@ (p2 :> {code}) @@ (p3 :> {lock})
=============================================================================
