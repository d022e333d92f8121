--------------------------- MODULE MCWindowsNotifier ---------------------------
(******************************************************************************)
(* Three services, two of them on one host.                                   *)
(******************************************************************************)
EXTENDS WindowsNotifier, TLC

CONSTANTS s1, s2, s3, h1, h2

MCHostOf == s1 :> h1 @@ s2 :> h1 @@ s3 :> h2
================================================================================
