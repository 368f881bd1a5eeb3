--------------------------- MODULE MultipartUpload ---------------------------
(***************************************************************************)
(* The multipart upload handlers of internal/httpapi/server.go: uploadInit, *)
(* uploadPart, uploadComplete, uploadAbort and multipartAbort, run by any   *)
(* number of concurrent HTTP requests over the map s.uploads, the temporary *)
(* directory of each upload and the S3 multipart upload behind it.          *)
(*                                                                          *)
(* A handler is a sequence of steps: one for each stretch that the code     *)
(* runs under uploadMu, one for each call to S3 and one for each file       *)
(* operation, so every interleaving of two handlers at those points is a    *)
(* behaviour.  An uploadState is reached through a pointer a handler keeps  *)
(* after the map entry is gone; owner, conn and parts are that heap.        *)
(*                                                                          *)
(* A part's body is a member of Contents and S3's ETag of a part identifies *)
(* its body, so an ETag is modelled by the body; a SHA-256 digest of some   *)
(* bytes is modelled by the sequence of bodies that was hashed.             *)
(***************************************************************************)
EXTENDS Naturals, Sequences

CONSTANTS
    Users,        \* the user ids of the sessions
    Uploads,      \* the upload ids S3 may hand out
    Requests,     \* the goroutines that serve HTTP requests
    Connections,  \* the connections (endpoint, bucket, credentials)
    Contents,     \* the bodies a client may send as a part
    MaxPart,      \* bound: part numbers are 1..MaxPart
    MaxFaults,    \* bound: failures of S3, of the disk, and crashes
    None,         \* no value
    Torn          \* what a failed os.WriteFile leaves in a part file

ASSUME MaxPartAssumption == MaxPart \in Nat \ {0}
ASSUME MaxFaultsAssumption == MaxFaults \in Nat
ASSUME NoneAssumption ==
    None \notin Users \cup Uploads \cup Connections \cup Contents \cup {Torn}
ASSUME TornAssumption == Torn \notin Contents

VARIABLES
    live,     \* the keys of s.uploads
    owner,    \* uploadState.UserID
    conn,     \* uploadState.Connection, also where S3 holds the upload
    parts,    \* uploadState.Parts: part number -> recorded ETag
    dir,      \* the uploads whose TempDir exists
    file,     \* the part files in TempDir: part number -> bytes
    late,     \* whose TempDir got a part file while it was being removed
    stuck,    \* whose TempDir the disk would not remove
    phase,    \* S3: is the multipart upload absent, open, completed, aborted
    stored,   \* S3: part number -> the bytes of the last UploadPart
    object,   \* S3: the bytes of the completed object
    req,      \* the handler each request is in
    audited,  \* the digests of the object.upload success events, per upload
    faults    \* how many failures have happened

heapVars == <<owner, conn, parts>>
diskVars == <<dir, file, late, stuck>>
s3Vars == <<phase, stored, object>>
vars == <<live, owner, conn, parts, dir, file, late, stuck, phase, stored,
          object, req, audited, faults>>

PartNumbers == 1..MaxPart
NoParts == [n \in PartNumbers |-> None]

\* A request between two HTTP calls; status is the last answer it gave.  A
\* handler that is cleaning up has the answer it is going to give there.
Idle(status) ==
    [pc |-> "idle", user |-> None, upload |-> None, conn |-> None,
     part |-> 1, body |-> None, ordered |-> <<>>, hashed |-> <<>>,
     status |-> status]

Init ==
    /\ live = {}
    /\ owner = [u \in Uploads |-> None]
    /\ conn = [u \in Uploads |-> None]
    /\ parts = [u \in Uploads |-> NoParts]
    /\ dir = {} /\ late = {} /\ stuck = {}
    /\ file = [u \in Uploads |-> NoParts]
    /\ phase = [u \in Uploads |-> "absent"]
    /\ stored = [u \in Uploads |-> NoParts]
    /\ object = [u \in Uploads |-> <<>>]
    /\ req = [r \in Requests |-> Idle("none")]
    /\ audited = [u \in Uploads |-> <<>>]
    /\ faults = 0

-----------------------------------------------------------------------------
(* What the handlers share.                                                 *)

\* One of the failures the environment may inflict; MaxFaults bounds them.
Fault ==
    /\ faults < MaxFaults
    /\ faults' = faults + 1

At(r, label) == req[r].pc = label
Goto(r, label) == req' = [req EXCEPT ![r].pc = label]
Answer(r, status) == req' = [req EXCEPT ![r] = Idle(status)]

\* AbortMultipartUpload at S3, reached through connection c.
S3Abort(u, c) ==
    phase' = [phase EXCEPT ![u] = IF @ = "open" /\ conn[u] = c
                                  THEN "aborted" ELSE @]

\* AbortMultipartUpload whose error the caller ignores.
TryAbort(u, c) ==
    \/ S3Abort(u, c) /\ UNCHANGED faults
    \/ Fault /\ UNCHANGED phase

-----------------------------------------------------------------------------
(* os.RemoveAll(state.TempDir), which completions and aborts end with: it   *)
(* removes the directory at once if it is empty, otherwise the files it     *)
(* lists and then the directory.  Its callers ignore its error.             *)

\* RemoveAll comes next, and then the answer; "none" stands for a completion
\* that writes its audit event first.
CleanUp(r, status) ==
    req' = [req EXCEPT ![r].pc = "remove_files", ![r].status = status]

AfterCleanUp(r) ==
    IF req[r].status = "none" THEN Goto(r, "complete_reply")
                              ELSE Answer(r, req[r].status)

\* A file that cannot be removed keeps the directory.
RemoveFiles(r) ==
    LET u == req[r].upload IN
    /\ At(r, "remove_files")
    /\ file[u] # NoParts
    /\ \/ /\ file' = [file EXCEPT ![u] = NoParts]
          /\ Goto(r, "remove_dir") /\ UNCHANGED <<stuck, faults>>
       \/ /\ stuck' = stuck \cup {u} /\ UNCHANGED file
          /\ AfterCleanUp(r) /\ Fault
    /\ UNCHANGED <<live, heapVars, dir, late, s3Vars, audited>>

\* A part file created since the files were listed keeps the directory, too.
RemoveDir(r) ==
    LET u == req[r].upload IN
    /\ \/ At(r, "remove_dir")
       \/ At(r, "remove_files") /\ file[u] = NoParts
    /\ \/ /\ file[u] = NoParts /\ dir' = dir \ {u}
          /\ UNCHANGED <<late, stuck, faults>>
       \/ /\ file[u] # NoParts /\ late' = late \cup {u}
          /\ UNCHANGED <<dir, stuck, faults>>
       \/ /\ stuck' = stuck \cup {u} /\ UNCHANGED <<dir, late>>
          /\ Fault
    /\ AfterCleanUp(r)
    /\ UNCHANGED <<live, heapVars, file, s3Vars, audited>>

-----------------------------------------------------------------------------
(* uploadInit                                                               *)

\* CreateMultipartUpload.  When S3 created the upload but its answer is lost,
\* the handler fails without knowing the id.
InitCreate(r, usr, c, u) ==
    /\ At(r, "idle")
    /\ phase[u] = "absent"
    /\ phase' = [phase EXCEPT ![u] = "open"]
    /\ conn' = [conn EXCEPT ![u] = c]
    /\ \/ /\ req' = [req EXCEPT ![r] = [Idle("none") EXCEPT
                         !.pc = "init_register", !.user = usr,
                         !.upload = u, !.conn = c]]
          /\ UNCHANGED faults
       \/ Answer(r, "error") /\ Fault
    /\ UNCHANGED <<live, owner, parts, diskVars, stored, object, audited>>

\* MkdirTemp and the insertion into s.uploads, both under uploadMu.
InitRegister(r) ==
    LET u == req[r].upload IN
    /\ At(r, "init_register")
    /\ live' = live \cup {u}
    /\ owner' = [owner EXCEPT ![u] = req[r].user]
    /\ dir' = dir \cup {u}
    /\ Answer(r, "ok")
    /\ UNCHANGED <<conn, parts, file, late, stuck, s3Vars, audited, faults>>

\* MkdirTemp fails: the handler goes on to abort what it just created.
InitNoTempDir(r) ==
    /\ At(r, "init_register")
    /\ Fault
    /\ Goto(r, "init_abort")
    /\ UNCHANGED <<live, heapVars, diskVars, s3Vars, audited>>

InitAbort(r) ==
    /\ At(r, "init_abort")
    /\ TryAbort(req[r].upload, req[r].conn)
    /\ Answer(r, "error")
    /\ UNCHANGED <<live, heapVars, diskVars, stored, object, audited>>

-----------------------------------------------------------------------------
(* uploadPart                                                               *)

\* The lookup under uploadMu.  The lock is released before the body is read.
PartLookup(r, usr, u, n, b) ==
    /\ At(r, "idle")
    /\ \/ /\ u \in live /\ owner[u] = usr
          /\ req' = [req EXCEPT ![r] = [Idle("none") EXCEPT
                         !.pc = "part_send", !.user = usr, !.upload = u,
                         !.part = n, !.body = b]]
       \/ ~(u \in live /\ owner[u] = usr) /\ Answer(r, "error")
    /\ UNCHANGED <<live, heapVars, diskVars, s3Vars, audited, faults>>

\* UploadPart at S3: it replaces an earlier body of the same part number,
\* and it fails once the upload is completed or aborted.  A failed call may
\* nevertheless have stored the body.
PartSend(r) ==
    LET u == req[r].upload
        put == [stored EXCEPT ![u][req[r].part] = req[r].body]
    IN
    /\ At(r, "part_send")
    /\ \/ /\ phase[u] = "open" /\ stored' = put
          /\ Goto(r, "part_open") /\ UNCHANGED faults
       \/ /\ phase[u] # "open" /\ UNCHANGED <<stored, faults>>
          /\ Answer(r, "error")
       \/ /\ phase[u] = "open" /\ stored' \in {stored, put}
          /\ Answer(r, "error") /\ Fault
    /\ UNCHANGED <<live, heapVars, diskVars, phase, object, audited>>

\* os.WriteFile creates or truncates the part file and then writes it, so in
\* between, and after a failure, the file is torn; it fails when the directory
\* is gone.
PartOpen(r) ==
    LET u == req[r].upload
        torn == [file EXCEPT ![u][req[r].part] = Torn]
    IN
    /\ At(r, "part_open")
    /\ \/ /\ u \in dir /\ file' = torn
          /\ Goto(r, "part_write") /\ UNCHANGED faults
       \/ /\ u \notin dir /\ UNCHANGED <<file, faults>>
          /\ Answer(r, "error")
       \/ /\ u \in dir /\ file' \in {file, torn}
          /\ Answer(r, "error") /\ Fault
    /\ UNCHANGED <<live, heapVars, dir, late, stuck, s3Vars, audited>>

\* The part's bytes, as far as the file still has a name in the directory.
Written(r) ==
    IF file[req[r].upload][req[r].part] = None THEN file
    ELSE [file EXCEPT ![req[r].upload][req[r].part] = req[r].body]

\* Mutant of PartWrite: the error of os.WriteFile is not looked at.
PartWriteIgnoresError(r) ==
    /\ At(r, "part_write")
    /\ \/ file' = Written(r) /\ UNCHANGED faults
       \/ UNCHANGED file /\ Fault
    /\ Goto(r, "part_record")
    /\ UNCHANGED <<live, heapVars, dir, late, stuck, s3Vars, audited>>

\* Of two requests that write one part file at a time, one has the last word.
PartWrite(r) ==
    /\ At(r, "part_write")
    /\ \/ file' = Written(r) /\ Goto(r, "part_record") /\ UNCHANGED faults
       \/ UNCHANGED file /\ Answer(r, "error") /\ Fault
    /\ UNCHANGED <<live, heapVars, dir, late, stuck, s3Vars, audited>>

\* Mutants of PartRecord: no duplicate check; the ETag taken from the file.
PartRecordOverwrites(r) ==
    /\ At(r, "part_record")
    /\ parts' = [parts EXCEPT ![req[r].upload][req[r].part] = req[r].body]
    /\ Answer(r, "ok")
    /\ UNCHANGED <<live, owner, conn, diskVars, s3Vars, audited, faults>>

PartRecordFromFile(r) ==
    LET u == req[r].upload
        n == req[r].part
    IN
    /\ At(r, "part_record")
    /\ parts[u][n] = None
    /\ parts' = [parts EXCEPT ![u][n] = file[u][n]]
    /\ Answer(r, "ok")
    /\ UNCHANGED <<live, owner, conn, diskVars, s3Vars, audited, faults>>

\* The duplicate check and the recording, under uploadMu again.
PartRecord(r) ==
    LET u == req[r].upload
        n == req[r].part
    IN
    /\ At(r, "part_record")
    /\ \/ /\ parts[u][n] = None
          /\ parts' = [parts EXCEPT ![u][n] = req[r].body]
          /\ Answer(r, "ok")
       \/ parts[u][n] # None /\ UNCHANGED parts /\ Answer(r, "error")
    /\ UNCHANGED <<live, owner, conn, diskVars, s3Vars, audited, faults>>

-----------------------------------------------------------------------------
(* uploadComplete                                                           *)

\* Mutant of CompleteTake: the entry is looked up and left in the map.
CompleteTakeKeepsEntry(r, usr, u, c) ==
    /\ At(r, "idle")
    /\ u \in live
    /\ req' = [req EXCEPT ![r] = [Idle("none") EXCEPT
                  !.pc = "complete_check", !.user = usr,
                  !.upload = u, !.conn = c]]
    /\ UNCHANGED <<live, heapVars, diskVars, s3Vars, audited, faults>>

\* The entry leaves the map before anything is checked.  c is what the
\* request's connection id resolves to, None when it resolves to nothing.
CompleteTake(r, usr, u, c) ==
    /\ At(r, "idle")
    /\ live' = live \ {u}
    /\ \/ /\ u \in live
          /\ req' = [req EXCEPT ![r] = [Idle("none") EXCEPT
                         !.pc = "complete_check", !.user = usr,
                         !.upload = u, !.conn = c]]
       \/ u \notin live /\ Answer(r, "error")
    /\ UNCHANGED <<heapVars, diskVars, s3Vars, audited, faults>>

\* Mutant of CompleteCheck: anyone's complete request is carried out.
CompleteCheckAnyUser(r) ==
    LET accepted == parts[req[r].upload] # NoParts /\ req[r].conn # None IN
    /\ At(r, "complete_check")
    /\ IF accepted THEN Goto(r, "complete_order") ELSE Answer(r, "error")
    /\ UNCHANGED <<live, heapVars, diskVars, s3Vars, audited, faults>>

\* Owner, non-empty and connection checks, outside the lock.  Their early
\* returns leave the temporary directory and the S3 upload behind.
CompleteCheck(r) ==
    LET u == req[r].upload
        accepted == /\ owner[u] = req[r].user
                    /\ parts[u] # NoParts
                    /\ req[r].conn # None
    IN
    /\ At(r, "complete_check")
    /\ \/ accepted /\ Goto(r, "complete_order")
       \/ ~accepted /\ Answer(r, "error")
    /\ UNCHANGED <<live, heapVars, diskVars, s3Vars, audited, faults>>

\* orderedUploadParts succeeds when the recorded part numbers are 1..k.
Contiguous(p, k) == \A n \in PartNumbers : p[n] # None <=> n <= k
OrderedUploadParts(p, k) == [n \in 1..k |-> p[n]]

CompleteOrder(r) ==
    LET u == req[r].upload IN
    /\ At(r, "complete_order")
    /\ \/ \E k \in PartNumbers :
            /\ Contiguous(parts[u], k)
            /\ req' = [req EXCEPT ![r].pc = "complete_hash",
                         ![r].ordered = OrderedUploadParts(parts[u], k)]
       \/ /\ ~\E k \in PartNumbers : Contiguous(parts[u], k)
          /\ CleanUp(r, "error")
    /\ UNCHANGED <<live, heapVars, diskVars, s3Vars, audited, faults>>

\* One turn of the hashing loop: open, copy and close the next part file.
CompleteHash(r) ==
    LET u == req[r].upload
        next == Len(req[r].hashed) + 1
    IN
    /\ At(r, "complete_hash")
    /\ next <= Len(req[r].ordered)
    /\ \/ /\ file[u][next] # None
          /\ req' = [req EXCEPT ![r].hashed = Append(@, file[u][next])]
          /\ UNCHANGED faults
       \/ Fault /\ CleanUp(r, "error")
    /\ UNCHANGED <<live, heapVars, diskVars, s3Vars, audited>>

\* CompleteMultipartUpload: S3 accepts when it holds the upload under this
\* connection and every listed ETag is that of the part it stores.
S3Accepts(u, c, etags) ==
    /\ phase[u] = "open" /\ conn[u] = c
    /\ \A n \in DOMAIN etags : stored[u][n] = etags[n]

S3Complete(u, etags) ==
    /\ phase' = [phase EXCEPT ![u] = "completed"]
    /\ object' = [object EXCEPT ![u] = etags]

CompleteSend(r) ==
    LET u == req[r].upload
        accepts == S3Accepts(u, req[r].conn, req[r].ordered)
    IN
    /\ At(r, "complete_hash")
    /\ Len(req[r].hashed) = Len(req[r].ordered)
    /\ \/ /\ accepts /\ S3Complete(u, req[r].ordered)
          /\ CleanUp(r, "none") /\ UNCHANGED faults
       \/ /\ ~accepts /\ UNCHANGED <<phase, object, faults>>
          /\ Goto(r, "complete_abort")
       \/ /\ Fault /\ Goto(r, "complete_abort")
          /\ \/ UNCHANGED <<phase, object>>
             \/ accepts /\ S3Complete(u, req[r].ordered)
    /\ UNCHANGED <<live, heapVars, diskVars, stored, audited>>

\* Mutant of CompleteAbort: the error of CompleteMultipart is not answered.
CompleteAbortAnswersOk(r) ==
    /\ At(r, "complete_abort")
    /\ TryAbort(req[r].upload, req[r].conn)
    /\ CleanUp(r, "ok")
    /\ UNCHANGED <<live, heapVars, diskVars, stored, object, audited>>

\* Service.CompleteMultipart aborts on error, then the handler cleans up.
CompleteAbort(r) ==
    /\ At(r, "complete_abort")
    /\ TryAbort(req[r].upload, req[r].conn)
    /\ CleanUp(r, "error")
    /\ UNCHANGED <<live, heapVars, diskVars, stored, object, audited>>

\* Success, after the cleanup: write the audit event, whose error is only
\* logged, and answer.
CompleteReply(r) ==
    LET u == req[r].upload IN
    /\ At(r, "complete_reply")
    /\ Answer(r, "ok")
    /\ \/ /\ audited' = [audited EXCEPT ![u] = Append(@, req[r].hashed)]
          /\ UNCHANGED faults
       \/ Fault /\ UNCHANGED audited
    /\ UNCHANGED <<live, heapVars, diskVars, s3Vars>>

-----------------------------------------------------------------------------
(* uploadAbort and multipartAbort                                           *)

\* The entry leaves the map whoever asks; only its owner goes on to S3.
AbortTake(r, usr, u) ==
    /\ At(r, "idle")
    /\ live' = live \ {u}
    /\ \/ /\ u \in live /\ owner[u] = usr
          /\ req' = [req EXCEPT ![r] = [Idle("none") EXCEPT
                         !.pc = "abort_send", !.user = usr, !.upload = u]]
       \/ ~(u \in live /\ owner[u] = usr) /\ Answer(r, "ok")
    /\ UNCHANGED <<heapVars, diskVars, s3Vars, audited, faults>>

\* Mutant of AbortSend: the temporary directory is forgotten.
AbortSendKeepsDir(r) ==
    /\ At(r, "abort_send")
    /\ TryAbort(req[r].upload, conn[req[r].upload])
    /\ Answer(r, "ok")
    /\ UNCHANGED <<live, heapVars, diskVars, stored, object, audited>>

AbortSend(r) ==
    /\ At(r, "abort_send")
    /\ TryAbort(req[r].upload, conn[req[r].upload])
    /\ CleanUp(r, "ok")
    /\ UNCHANGED <<live, heapVars, diskVars, stored, object, audited>>

\* multipartAbort takes an id from the list of the bucket's open uploads and
\* aborts it at S3, whoever started it; the entry in s.uploads stays.
MultipartAbort(r, u, c) ==
    /\ At(r, "idle")
    /\ phase[u] = "open" /\ conn[u] = c
    /\ S3Abort(u, c)
    /\ Answer(r, "ok")
    /\ UNCHANGED <<live, heapVars, diskVars, stored, object, audited, faults>>

-----------------------------------------------------------------------------
\* The process dies and restarts: s.uploads is empty, every request is lost,
\* S3 and the temporary directories keep what they have.  It also stands for
\* the fatal error Go may raise when PartRecord writes state.Parts while
\* CompleteCheck or CompleteOrder reads it without the lock.
Crash ==
    /\ Fault
    /\ live' = {}
    /\ req' = [r \in Requests |-> Idle("error")]
    /\ UNCHANGED <<heapVars, diskVars, s3Vars, audited>>

\* A step of a request that has been accepted.
HandlerStep(r) ==
    \/ InitRegister(r) \/ InitNoTempDir(r) \/ InitAbort(r)
    \/ PartSend(r) \/ PartOpen(r) \/ PartWrite(r) \/ PartRecord(r)
    \/ CompleteCheck(r) \/ CompleteOrder(r) \/ CompleteHash(r)
    \/ CompleteSend(r) \/ CompleteAbort(r) \/ CompleteReply(r)
    \/ AbortSend(r) \/ RemoveFiles(r) \/ RemoveDir(r)

\* The arrival of a request.
Arrival(r) ==
    \E u \in Uploads :
      \/ \E usr \in Users :
           \/ \E c \in Connections : InitCreate(r, usr, c, u)
           \/ \E n \in PartNumbers, b \in Contents : PartLookup(r, usr, u, n, b)
           \/ \E c \in Connections \cup {None} : CompleteTake(r, usr, u, c)
           \/ AbortTake(r, usr, u)
      \/ \E c \in Connections : MultipartAbort(r, u, c)

Next ==
    \/ \E r \in Requests : Arrival(r) \/ HandlerStep(r)
    \/ Crash

Spec == Init /\ [][Next]_vars

-----------------------------------------------------------------------------
(* Properties                                                               *)

Labels == {"idle", "init_register", "init_abort", "part_send", "part_open",
           "part_write", "part_record", "complete_check", "complete_order",
           "complete_hash", "complete_abort", "complete_reply", "abort_send",
           "remove_files", "remove_dir"}

RequestType ==
    [pc : Labels, user : Users \cup {None}, upload : Uploads \cup {None},
     conn : Connections \cup {None}, part : PartNumbers,
     body : Contents \cup {None}, ordered : Seq(Contents \cup {None}),
     hashed : Seq(Contents \cup {None, Torn}), status : {"none", "ok", "error"}]

\* A request inside a handler knows its upload, and the ordered parts it
\* works on are numbered within bounds.
RequestsOK ==
    /\ req \in [Requests -> RequestType]
    /\ \A r \in Requests :
         /\ req[r].pc # "idle" => req[r].upload \in Uploads
         /\ Len(req[r].ordered) <= MaxPart

\* Every variable of the handlers, the disk and S3 holds a value of its type
\* at all times, and so does what each request carries between its steps.
TypeOK ==
    /\ live \in SUBSET Uploads
    /\ owner \in [Uploads -> Users \cup {None}]
    /\ conn \in [Uploads -> Connections \cup {None}]
    /\ parts \in [Uploads -> [PartNumbers -> Contents \cup {None}]]
    /\ dir \in SUBSET Uploads /\ late \in SUBSET Uploads
    /\ stuck \in SUBSET Uploads
    /\ file \in [Uploads -> [PartNumbers -> Contents \cup {None, Torn}]]
    /\ phase \in [Uploads -> {"absent", "open", "completed", "aborted"}]
    /\ stored \in [Uploads -> [PartNumbers -> Contents \cup {None}]]
    /\ object \in [Uploads -> Seq(Contents \cup {None})]
    /\ RequestsOK
    /\ audited \in [Uploads -> Seq(Seq(Contents \cup {None, Torn}))]
    /\ faults \in 0..MaxFaults

FinishLabels == {"complete_check", "complete_order", "complete_hash",
                 "complete_abort", "complete_reply", "abort_send",
                 "remove_files", "remove_dir"}

Finishes(r, u) == req[r].upload = u /\ req[r].pc \in FinishLabels

\* Two requests never finish the same upload, however completes, aborts and
\* parts interleave, and an upload being finished is not in s.uploads: the
\* deletion of the entry under uploadMu hands it to one request.
OneFinisher ==
    \A u \in Uploads : \A r1, r2 \in Requests :
        Finishes(r1, u) /\ Finishes(r2, u) => r1 = r2 /\ u \notin live

\* An object appears at S3 only through a complete request of the user who
\* started the upload, although the handler drops the entry of an upload
\* before it looks at the owner and lets go of the lock in between.
OnlyOwnerCompletes ==
    [][\A u \in Uploads :
         phase'[u] = "completed" /\ phase[u] # "completed" =>
           \E r \in Requests : /\ At(r, "complete_hash")
                               /\ req[r].upload = u
                               /\ req[r].user = owner[u]]_vars

\* Every upload behaves like an atomic one: a part number is accepted once,
\* the object consists of accepted parts 1..k at the moment it appears, and
\* at most one success event is written, only for an object that exists.
Atomic == INSTANCE AtomicUpload
          WITH accepted <- parts,
               announced <- [u \in Uploads |-> Len(audited[u])]
ImplementsAtomic == Atomic!Spec

\* The README's claim on the audit log: the digest in an object.upload
\* success event is that of the exact bytes of the object.  uploadPart
\* breaks it: the part file is written outside the lock and before the
\* duplicate check.
DigestMatchesObject ==
    \A u \in Uploads : \A i \in DOMAIN audited[u] : audited[u][i] = object[u]

-----------------------------------------------------------------------------
(* The inductive invariant behind the proofs                                *)

\* The labels at which a request alone decides the fate of its upload.
HoldLabels == FinishLabels \cup {"init_register", "init_abort"}
Holds(r, u) == req[r].upload = u /\ req[r].pc \in HoldLabels

\* An upload is in one hand: that of S3 alone (absent), of s.uploads, or of
\* one request; a request only ever names an upload S3 has created.
Custody ==
    \A u \in Uploads :
      /\ \A r \in Requests : Holds(r, u) => u \notin live
      /\ \A r1, r2 \in Requests : Holds(r1, u) /\ Holds(r2, u) => r1 = r2
      /\ phase[u] = "absent" =>
           u \notin live /\ \A r \in Requests : req[r].upload # u

\* What a part request carries is a body, never the absence of one.
PartLabels == {"part_send", "part_open", "part_write", "part_record"}

PartBodies ==
    \A r \in Requests : req[r].pc \in PartLabels => req[r].body \in Contents

\* The ETags a complete request goes to S3 with are still those recorded.
OrderedRecorded ==
    \A r \in Requests :
      At(r, "complete_hash") =>
        /\ Len(req[r].ordered) \in PartNumbers
        /\ \A n \in 1..Len(req[r].ordered) :
             /\ parts[req[r].upload][n] = req[r].ordered[n]
             /\ req[r].ordered[n] # None

\* A completion past its checks is that of the owner, who does not change
\* although only the registration, and not these checks, holds the lock.
OwnerChecked ==
    \A r \in Requests :
      req[r].pc \in {"complete_order", "complete_hash"} =>
        req[r].user = owner[req[r].upload]

\* A completion that S3 has carried out, on its way to the success event.
Completing(r) ==
    \/ At(r, "complete_reply")
    \/ req[r].pc \in {"remove_files", "remove_dir"} /\ req[r].status = "none"

\* The success event comes after the object and ends every hold.
AnnouncedLast ==
    /\ \A r \in Requests : Completing(r) => phase[req[r].upload] = "completed"
    /\ \A u \in Uploads :
         (\/ phase[u] = "absent" \/ u \in live
          \/ \E r \in Requests : Holds(r, u)) => audited[u] = <<>>

\* What holds between any two steps of the handlers, and is enough to prove
\* OneFinisher, OnlyOwnerCompletes and ImplementsAtomic: an upload is in one
\* hand, neither its recorded parts nor its owner change under a completion,
\* and the announcement is the last step.
IInv == /\ TypeOK /\ Custody /\ PartBodies
        /\ OrderedRecorded /\ OwnerChecked /\ AnnouncedLast
=============================================================================
