------------------------------ MODULE MCPipe ------------------------------
(***************************************************************************)
(* Instances of Pipe for TLC.                                              *)
(***************************************************************************)
EXTENDS Pipe

\* Service infos of two keys with up to two bytes, breaks, ended either way.
Info(k, n) == <<<<"next", k>>>> \o [i \in 1..n |-> <<"write", k, i>>]
Force == <<<<"force">>>>
Bodies == {<<>>, Info("k", 1), Info("k", 2) \o Info("l", 1), Info("k", 1) \o Force,
           Info("k", 1) \o Force \o Info("k", 1), Force \o Info("k", 1), Info("k", 0) \o Info("l", 2)}
MCScripts == {s \o <<<<e>>>> : s \in Bodies, e \in {"close", "error"}}
=============================================================================
