----------------------------- MODULE MCWebConns -----------------------------
(* Small instances of WebConns.                                            *)
EXTENDS WebConns, TLC

CONSTANTS ann, bob

Both == {ann, bob}
AnnTalks == ann :> 2 @@ bob :> 0
AnnOnly == ann :> 1 @@ bob :> 0
TwoFds == {1, 2}
=============================================================================
