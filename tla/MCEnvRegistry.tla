---------------------------- MODULE MCEnvRegistry ----------------------------
(* Instance of EnvRegistry for TLC: two or three wrappers on one or two    *)
(* paths, so that a path is opened by one wrapper and adopted by another.  *)
EXTENDS EnvRegistry

CONSTANTS p1, p2

MCPaths == {p1, p2}
MCOnePath == {p1}
=============================================================================
