---------------------------- MODULE MCObjectPages ----------------------------
(* Three keys, of which the first is the folder itself and the second holds  *)
(* the query, pages of two entries and batches of two.  Archives, which only *)
(* see the newest objects, are made of buckets without versions.             *)
EXTENDS ObjectPages

MCInit == Init /\ (req.op = "archive" => ~versioned)
MCSpec == MCInit /\ [][Next]_vars /\ Fairness
=============================================================================
