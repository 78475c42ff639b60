----------------------------- MODULE MCRequests -----------------------------
(* Requests for TLC, on a Manila that has every version from 2.0 to 2.96.  *)
(* The gates of the client lie at 2.6, 2.45, 2.55, 2.56, 2.63, 2.73, 2.78, *)
(* 2.82, 2.95 and 2.96: each is tried with the version before and after    *)
(* it.                                                                     *)
EXTENDS Requests

MCVersions ==
  {2} \X ((0 .. 1) \cup (5 .. 8) \cup {10} \cup (44 .. 46) \cup (54 .. 57)
           \cup (62 .. 65) \cup (72 .. 74) \cup (77 .. 79) \cup (81 .. 83)
           \cup (94 .. 96))
MCMinVersion == <<2, 0>>
MCMaxVersion == <<2, 96>>
=============================================================================
