----------------------------- MODULE MCWebChat -----------------------------
(* Small instances of WebChat.                                             *)
EXTENDS WebChat, TLC

Symmetric == Permutations(Tabs) \cup Permutations(Names) \cup Permutations(Sockets)
=============================================================================
