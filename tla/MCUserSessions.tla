--------------------------- MODULE MCUserSessions ---------------------------
(* UserSessions on a small instance; its clients are interchangeable.        *)
EXTENDS UserSessions, TLC

Identical == Permutations(Clients)
=============================================================================
