---------------------------- MODULE MCBrowserUpload ----------------------------
(* An instance of BrowserUpload for TLC: four parts, three at a time. *)
EXTENDS BrowserUpload

CONSTANTS x, y

MCFile == <<x, y, x, x>>
MCRequests == ClientCalls \cup {Stranger}
================================================================================
