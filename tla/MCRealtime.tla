----------------------------- MODULE MCRealtime -----------------------------
(* Instance of Realtime: one stream, and notifications of two users. *)
EXTENDS Realtime, TLC

CONSTANTS a, b, c1

MCUserOf == c1 :> a
=============================================================================
