---------------------------- MODULE AbstractFile ----------------------------
(***************************************************************************)
(* What a user of services/storage.rs may rely on about a file, without    *)
(* objects, URLs, requests or a reaper: it is reserved or uploaded, becomes*)
(* readable once, with a size that is within the limit and never changes,  *)
(* and once it is gone it does not come back.                              *)
(***************************************************************************)
EXTENDS Naturals

CONSTANTS Files, SizeLimit

VARIABLES
    life,   \* [Files -> {"none", "reserved", "readable", "gone"}]
    size    \* [Files -> the size a reader is told, 0 when there is none]

fileVars == <<life, size>>

Init ==
    /\ life = [f \in Files |-> "none"]
    /\ size = [f \in Files |-> 0]

Reserve(f) ==
    /\ life[f] = "none"
    /\ life' = [life EXCEPT ![f] = "reserved"]
    /\ UNCHANGED size

\* An upload in one request, or the completion of a reserved one.
Publish(f, n) ==
    /\ life[f] \in {"none", "reserved"}
    /\ life' = [life EXCEPT ![f] = "readable"]
    /\ size' = [size EXCEPT ![f] = n]

\* Deleted, refused or reaped.
Remove(f) ==
    /\ life[f] \in {"reserved", "readable"}
    /\ life' = [life EXCEPT ![f] = "gone"]
    /\ size' = [size EXCEPT ![f] = 0]

Next ==
    \E f \in Files :
        \/ Reserve(f)
        \/ \E n \in 1..SizeLimit : Publish(f, n)
        \/ Remove(f)

Spec == Init /\ [][Next]_fileVars
=============================================================================
