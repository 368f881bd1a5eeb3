----------------------------- MODULE AtomicUpload -----------------------------
(***************************************************************************)
(* What the multipart upload endpoints promise of one upload, without the   *)
(* requests, the locks and the temporary files: parts are accepted once     *)
(* each, the object appears at one instant and consists of accepted parts   *)
(* 1..k, and success is announced in the audit log at most once and only    *)
(* for an object that exists.  MultipartUpload implements it.               *)
(***************************************************************************)
EXTENDS Naturals, Sequences

CONSTANTS Uploads, Contents, MaxPart, None

VARIABLES
    phase,      \* "absent", "open", "completed" or "aborted"
    accepted,   \* part number -> the body accepted for it, or None
    object,     \* the bytes of the object once completed
    announced   \* how many success events name the upload

vars == <<phase, accepted, object, announced>>

Init ==
    /\ phase = [u \in Uploads |-> "absent"]
    /\ accepted = [u \in Uploads |-> [n \in 1..MaxPart |-> None]]
    /\ object = [u \in Uploads |-> <<>>]
    /\ announced = [u \in Uploads |-> 0]

Open(u) ==
    /\ phase[u] = "absent"
    /\ phase' = [phase EXCEPT ![u] = "open"]
    /\ UNCHANGED <<accepted, object, announced>>

\* A request in flight may have its part accepted after the upload closed;
\* the part is then of no consequence.
Accept(u, n, b) ==
    /\ phase[u] # "absent"
    /\ accepted[u][n] = None
    /\ accepted' = [accepted EXCEPT ![u][n] = b]
    /\ UNCHANGED <<phase, object, announced>>

Publish(u, k) ==
    /\ phase[u] = "open"
    /\ \A n \in 1..k : accepted[u][n] # None
    /\ phase' = [phase EXCEPT ![u] = "completed"]
    /\ object' = [object EXCEPT ![u] = [n \in 1..k |-> accepted[u][n]]]
    /\ UNCHANGED <<accepted, announced>>

Drop(u) ==
    /\ phase[u] = "open"
    /\ phase' = [phase EXCEPT ![u] = "aborted"]
    /\ UNCHANGED <<accepted, object, announced>>

Announce(u) ==
    /\ phase[u] = "completed"
    /\ announced[u] = 0
    /\ announced' = [announced EXCEPT ![u] = 1]
    /\ UNCHANGED <<phase, accepted, object>>

Next ==
    \E u \in Uploads :
      \/ Open(u)
      \/ \E n \in 1..MaxPart, b \in Contents : Accept(u, n, b)
      \/ \E k \in 1..MaxPart : Publish(u, k)
      \/ Drop(u)
      \/ Announce(u)

Spec == Init /\ [][Next]_vars
=============================================================================
