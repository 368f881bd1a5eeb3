--------------------------- MODULE MCMultipartUpload ---------------------------
(* Instances of MultipartUpload for TLC. *)
EXTENDS MultipartUpload, TLC

\* Requests are interchangeable, and so are the bodies of parts.
Symmetry == Permutations(Requests) \cup Permutations(Contents)
================================================================================
