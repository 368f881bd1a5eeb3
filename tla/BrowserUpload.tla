----------------------------- MODULE BrowserUpload -----------------------------
(***************************************************************************)
(* The web client's chunked upload (api.upload in frontend/src/api.ts)      *)
(* composed with the server's handlers: one browser sends one file as parts *)
(* 1..Len(File), in batches of Concurrency parts that travel concurrently,  *)
(* then completes; on a failure after uploadInit it sends DELETE and gives  *)
(* up.  Requests that were sent before a failure still arrive and run, and   *)
(* any call may be refused before it reaches its handler (no session, vault *)
(* locked, rate limit) or get lost.  A second user may abort the upload     *)
(* from the list of open multipart uploads.                                 *)
(***************************************************************************)
EXTENDS MultipartUpload

CONSTANTS
    Browser,       \* the user whose browser uploads
    Concurrency,   \* parts per batch, as uploadInit announced it
    File,          \* the bodies of the file's parts
    ClientUpload,  \* the upload id S3 hands out
    ClientConn     \* the connection the upload goes to

\* The request that carries each of the client's calls.
Call(op) == <<op, 0>>
PartCall(n) == <<"part", n>>
Stranger == <<"stranger", 0>>
ClientCalls == {Call("init"), Call("complete"), Call("delete")}
               \cup {PartCall(n) : n \in DOMAIN File}

ASSUME ClientAssumption ==
    /\ Browser \in Users
    /\ Concurrency \in Nat \ {0}
    /\ File \in Seq(Contents) /\ Len(File) \in PartNumbers
    /\ ClientUpload \in Uploads
    /\ ClientConn \in Connections
    /\ ClientCalls \cup {Stranger} \subseteq Requests

VARIABLES
    client,    \* the state of the promise api.upload returned
    forsaken   \* history: what no call of the client will have removed

clientVars == <<vars, client, forsaken>>

\* next: the first part not yet in a batch; flying: parts whose request was
\* sent and has not reached the server; waiting: parts of the batch whose
\* answer Promise.all awaits.
ClientInit ==
    /\ Init
    /\ client = [pc |-> "start", next |-> 1, flying |-> {}, waiting |-> {}]
    /\ forsaken = {}

In(label) == client.pc = label
Become(label) == client' = [client EXCEPT !.pc = label]

\* The answer to a call that the server has finished.
Answered(call, status) == At(call, "idle") /\ req[call].status = status

\* The entry of s.uploads, the temporary directory and the upload at S3.
Everything == {"entry", "dir", "s3"}
Forsake(things) == forsaken' = forsaken \cup things

Start ==
    /\ In("start")
    /\ InitCreate(Call("init"), Browser, ClientConn, ClientUpload)
    /\ Become("initializing") /\ UNCHANGED forsaken

\* A failed init is rethrown outside the try block: no DELETE follows.
Started ==
    /\ In("initializing")
    /\ \/ Answered(Call("init"), "ok") /\ Become("uploading")
       \/ Answered(Call("init"), "error") /\ Become("failed")
    /\ UNCHANGED <<vars, forsaken>>

\* So it is when its answer is lost: nobody knows the upload's id.
LoseInitAnswer ==
    /\ In("initializing")
    /\ Become("failed") /\ Forsake(Everything)
    /\ Fault
    /\ UNCHANGED <<live, heapVars, diskVars, s3Vars, req, audited>>

Batch ==
    LET last == IF client.next + Concurrency - 1 < Len(File)
                THEN client.next + Concurrency - 1 ELSE Len(File)
    IN
    /\ In("uploading")
    /\ client.waiting = {}
    /\ client.next <= Len(File)
    /\ client' = [client EXCEPT !.next = last + 1,
                    !.flying = @ \cup (client.next..last),
                    !.waiting = client.next..last]
    /\ UNCHANGED <<vars, forsaken>>

\* A part request reaches the server, whatever the client does by then.
PartArrives(n) ==
    /\ n \in client.flying
    /\ PartLookup(PartCall(n), Browser, ClientUpload, n, File[n])
    /\ client' = [client EXCEPT !.flying = @ \ {n}]
    /\ UNCHANGED forsaken

\* Promise.all rejects on the first failed part and leaves the others alone.
PartAnswered(n) ==
    /\ In("uploading")
    /\ n \in client.waiting \ client.flying
    /\ \/ /\ Answered(PartCall(n), "ok")
          /\ client' = [client EXCEPT !.waiting = @ \ {n}]
       \/ Answered(PartCall(n), "error") /\ Become("cleanup")
    /\ UNCHANGED <<vars, forsaken>>

\* By now the client's connection may have been deleted, or edited to lead
\* elsewhere.  The entry is taken all the same: without a connection the
\* directory stays as well, and S3's upload is not found through another.
Finalize ==
    /\ In("uploading")
    /\ client.waiting = {}
    /\ client.next > Len(File)
    /\ \E c \in Connections \cup {None} :
         /\ CompleteTake(Call("complete"), Browser, ClientUpload, c)
         /\ Forsake(IF c = ClientConn THEN {}
                    ELSE IF c = None THEN {"dir", "s3"} ELSE {"s3"})
    /\ Become("finalizing")

Finalized ==
    /\ In("finalizing")
    /\ \/ Answered(Call("complete"), "ok") /\ Become("done")
       \/ Answered(Call("complete"), "error") /\ Become("cleanup")
    /\ UNCHANGED <<vars, forsaken>>

\* The user cancels, or the network loses an answer: a part still on its way
\* may be lost with it, one that arrived keeps running on the server.
LoseAnswer ==
    /\ In("uploading") \/ In("finalizing")
    /\ \E lost \in SUBSET client.flying :
         client' = [client EXCEPT !.pc = "cleanup", !.flying = @ \ lost]
    /\ Fault
    /\ UNCHANGED <<live, heapVars, diskVars, s3Vars, req, audited, forsaken>>

\* A part, or the completion, is refused before it reaches its handler.
CallRefused ==
    /\ In("uploading")
    /\ \/ \E n \in client.flying :
            client' = [client EXCEPT !.pc = "cleanup", !.flying = @ \ {n}]
       \/ client.waiting = {} /\ client.next > Len(File) /\ Become("cleanup")
    /\ UNCHANGED <<vars, forsaken>>

\* The error of the DELETE is ignored, and so is its answer.
Cleanup ==
    /\ In("cleanup")
    /\ AbortTake(Call("delete"), Browser, ClientUpload)
    /\ Become("failed") /\ UNCHANGED forsaken

\* The DELETE is refused or does not arrive; it is not sent again.
CleanupRefused ==
    /\ In("cleanup")
    /\ Become("failed") /\ Forsake(Everything)
    /\ UNCHANGED vars

StrangerAborts ==
    /\ MultipartAbort(Stranger, ClientUpload, ClientConn)
    /\ UNCHANGED <<client, forsaken>>

ServerStep ==
    /\ \E r \in Requests : HandlerStep(r)
    /\ UNCHANGED <<client, forsaken>>

ClientStep ==
    \/ Start \/ Started \/ Batch \/ Finalize \/ Finalized \/ Cleanup
    \/ \E n \in DOMAIN File : PartArrives(n) \/ PartAnswered(n)

\* The promise is settled and no request is left: the only way to stop.
Settled ==
    /\ In("done") \/ In("failed")
    /\ client.flying = {}
    /\ \A r \in Requests : At(r, "idle")
    /\ UNCHANGED clientVars

ClientNext ==
    \/ ClientStep \/ ServerStep \/ StrangerAborts \/ Settled
    \/ LoseInitAnswer \/ LoseAnswer \/ CallRefused \/ CleanupRefused

\* The scheduler runs every goroutine, the browser its promises, and a
\* request that was sent arrives; nobody has to fail, refuse, cancel or interfere.
Fairness ==
    /\ WF_clientVars(ClientStep)
    /\ \A n \in DOMAIN File : WF_clientVars(PartArrives(n))
    /\ \A r \in Requests : WF_clientVars(HandlerStep(r) /\ UNCHANGED <<client, forsaken>>)

ClientSpec == ClientInit /\ [][ClientNext]_clientVars /\ Fairness

-----------------------------------------------------------------------------
(* Properties                                                               *)

\* Whatever fails or is cancelled, an object that appears is the whole file
\* in order, and a success event carries the digest of exactly those bytes:
\* a client that sends each part once cannot see DigestMatchesObject fail.
ObjectIsFile ==
    /\ phase[ClientUpload] = "completed" => object[ClientUpload] = File
    /\ \A i \in DOMAIN audited[ClientUpload] : audited[ClientUpload][i] = File

\* When the client reports success the object is there, the server has
\* forgotten the upload and its temporary directory is gone, unless the disk
\* would not remove it: no late part can be on its way any more.
DoneMeansStored ==
    In("done") => /\ phase[ClientUpload] = "completed"
                  /\ ClientUpload \notin live
                  /\ ClientUpload \in dir => ClientUpload \in stuck

\* A finished client leaves nothing behind for good but what its calls could
\* not remove, however parts, completion and DELETE overtake each other: the
\* entry of s.uploads goes away, the temporary directory as well unless the
\* disk would not remove it or a part file was created under the removal,
\* and without failures so does the upload at S3.
Reclaimed ==
    (In("done") \/ In("failed")) ~>
        /\ ClientUpload \in live => "entry" \in forsaken
        /\ ClientUpload \in dir =>
             "dir" \in forsaken \/ ClientUpload \in late \cup stuck
        /\ phase[ClientUpload] = "open" => "s3" \in forsaken \/ faults > 0

-----------------------------------------------------------------------------
(* The inductive invariant behind the proofs                                *)

ClientOK ==
    /\ client \in [pc : {"start", "initializing", "uploading", "finalizing",
                         "cleanup", "done", "failed"},
                   next : 1..(Len(File) + 1),
                   flying : SUBSET DOMAIN File, waiting : SUBSET DOMAIN File]
    /\ \A n \in client.flying : n < client.next
    /\ In("start") \/ In("initializing") => client.next = 1

CompletionLabels == {"complete_check", "complete_order", "complete_hash",
                     "complete_abort", "complete_reply"}

\* Every request works on the client's upload, on behalf of one of its calls;
\* uploadInit runs before any part is sent, and completions come after.
Role(r) ==
    /\ req[r].pc # "idle" => req[r].upload = ClientUpload
    /\ req[r].pc \in {"init_register", "init_abort"} =>
         /\ r = Call("init") /\ client.next = 1
         /\ In("initializing") \/ In("failed")
    /\ req[r].pc \in PartLabels =>
         /\ req[r].part \in DOMAIN File
         /\ r = PartCall(req[r].part) /\ req[r].body = File[req[r].part]
    /\ req[r].pc \in CompletionLabels => r = Call("complete") /\ client.next > 1
    /\ At(r, "abort_send") => r = Call("delete")
    /\ req[r].pc \in {"remove_files", "remove_dir"} =>
         \/ r = Call("complete") /\ client.next > 1 /\ req[r].status # "ok"
         \/ r = Call("delete") /\ req[r].status # "none"

Roles == \A r \in Requests : Role(r)

\* A part is sent once, so what is recorded of it is its body, and a torn part
\* file belongs to a part that is being written or will never be recorded.
Unsent(n) == n >= client.next \/ n \in client.flying

Once(n) ==
    LET recorded == parts[ClientUpload][n]
        bytes == file[ClientUpload][n]
    IN
    /\ Unsent(n) => At(PartCall(n), "idle") /\ req[PartCall(n)].status # "ok"
    /\ Unsent(n) \/ ~At(PartCall(n), "idle") => recorded = None
    /\ At(PartCall(n), "part_record") => bytes # Torn
    /\ recorded # None => recorded = File[n] /\ bytes # Torn
    /\ Answered(PartCall(n), "ok") => recorded = File[n]
    /\ bytes \in {None, Torn, File[n]}

SentOnce ==
    /\ \A n \in DOMAIN File : Once(n)
    /\ \A n \in PartNumbers \ DOMAIN File : parts[ClientUpload][n] = None

AllRecorded == \A n \in DOMAIN File : parts[ClientUpload][n] = File[n]

\* The client only completes when every part has been answered.
Awaited ==
    /\ In("uploading") => \A n \in DOMAIN File :
         n < client.next /\ n \notin client.waiting => parts[ClientUpload][n] = File[n]
    /\ In("finalizing") \/ ~At(Call("complete"), "idle") => AllRecorded

\* A completion lists the file's parts and hashes them one after the other.
Hashing ==
    LET r == Call("complete") IN
    /\ req[r].pc \in {"complete_check", "complete_order"} => req[r].hashed = <<>>
    /\ At(r, "complete_hash") =>
         /\ req[r].ordered = File
         /\ Len(req[r].hashed) <= Len(File)
         /\ \A i \in 1..Len(req[r].hashed) : req[r].hashed[i] = File[i]
    /\ Completing(r) => req[r].hashed = File

\* When a completion is there, the parts are all at rest: its cleanup cannot
\* be disturbed by a late part file.
Cleared ==
    LET r == Call("complete") IN
    /\ At(r, "remove_dir") => file[ClientUpload] = NoParts
    /\ At(r, "complete_reply") =>
         (ClientUpload \in dir => ClientUpload \in stuck)

\* Success is only answered when the object is there and the rest is gone.
Outcome ==
    /\ ObjectIsFile
    /\ Answered(Call("complete"), "ok") \/ In("done") =>
         /\ client.next > 1
         /\ phase[ClientUpload] = "completed" /\ ClientUpload \notin live
         /\ ClientUpload \in dir => ClientUpload \in stuck

\* What makes ObjectIsFile and DoneMeansStored inductive, together with the
\* server's own IInv.
ClientInv ==
    ClientOK /\ Roles /\ SentOnce /\ Awaited /\ Hashing /\ Cleared /\ Outcome
=============================================================================
