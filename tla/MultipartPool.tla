----------------------------- MODULE MultipartPool -----------------------------
(***************************************************************************)
(* Service.uploadMultipart of internal/service/s3/service.go: one feeder    *)
(* hands part indexes over an unbuffered channel to a pool of workers that  *)
(* upload them to S3; the first error cancels the rest; the parts are then  *)
(* completed, or the deferred call aborts the upload.  The caller's context *)
(* (the HTTP request's) may be cancelled at any moment.                     *)
(*                                                                          *)
(* An ETag is modelled by the section of the file that was uploaded.        *)
(***************************************************************************)
EXTENDS Integers, Sequences

CONSTANTS
    Concurrency,  \* partConcurrency()
    MaxSize,      \* bound: file sizes are 1..MaxSize
    MaxLimit,     \* bound: part sizes are 1..MaxLimit
    FaultyCalls,  \* the S3 calls that may fail on their own
    MaxFaults     \* bound: how often they do

Calls == {"create", "part", "complete", "abort"}

ASSUME PoolAssumption ==
    /\ Concurrency \in Nat \ {0}
    /\ MaxSize \in Nat \ {0}
    /\ MaxLimit \in Nat \ {0}
    /\ FaultyCalls \subseteq Calls
    /\ MaxFaults \in Nat

VARIABLES
    size,       \* the size of the file, > 0 as Upload only gets here above 100 MiB
    limit,      \* partSizeLimit
    pc,         \* where the calling goroutine is
    next,       \* partIndex of the feeding loop
    worker,     \* worker -> [pc, job]
    callerDone, \* ctx is cancelled
    partDone,   \* partCtx is cancelled
    firstErr,   \* firstErr # nil
    slots,      \* parts: the filled slots, index -> section
    phase,      \* S3: "absent", "open", "completed", "aborted"
    stored,     \* S3: index -> section of the parts it holds
    object,     \* S3: the sections of the completed object, in order
    result,     \* what uploadMultipart returned: "none", "ok", "error"
    faults

inputVars == <<size, limit>>
ctxVars == <<callerDone, partDone, firstErr>>
s3Vars == <<phase, stored, object>>
vars == <<size, limit, pc, next, worker, callerDone, partDone, firstErr,
          slots, phase, stored, object, result, faults>>

-----------------------------------------------------------------------------
(* The arithmetic of the parts.  A section is an offset and a length; Unset *)
(* is the zero CompletedPart of a slot no worker has filled.                *)

PartCount(sz, lim) == (sz + lim - 1) \div lim

\* Mutant of Section: the last section is not cut at the end of the file.
SectionUncut(sz, lim, i) == [offset |-> i * lim, length |-> lim]

Section(sz, lim, i) ==
    LET offset == i * lim
        remaining == sz - offset
    IN  [offset |-> offset, length |-> IF remaining < lim THEN remaining ELSE lim]

Unset == [offset |-> -1, length |-> 0]

Indexes == 0..(PartCount(size, limit) - 1)

\* min(partConcurrency, partCount) workers are started.
Workers == 1..(IF PartCount(size, limit) < Concurrency
               THEN PartCount(size, limit) ELSE Concurrency)

Fault(call) ==
    /\ call \in FaultyCalls
    /\ faults < MaxFaults
    /\ faults' = faults + 1

Init ==
    /\ size \in 1..MaxSize
    /\ limit \in 1..MaxLimit
    /\ pc = "create"
    /\ next = 0
    /\ worker = [w \in 1..Concurrency |-> [pc |-> "receive", job |-> 0]]
    /\ callerDone = FALSE
    /\ partDone = FALSE
    /\ firstErr = FALSE
    /\ slots = [i \in 0..(MaxSize - 1) |-> Unset]
    /\ phase = "absent"
    /\ stored = [i \in 0..(MaxSize - 1) |-> Unset]
    /\ object = <<>>
    /\ result = "none"
    /\ faults = 0

-----------------------------------------------------------------------------
(* The calling goroutine                                                    *)

\* CreateMultipartUpload fails under a cancelled context or on its own, in
\* which case S3 may have created the upload all the same.
Create ==
    /\ pc = "create"
    /\ \/ /\ ~callerDone /\ phase' = "open" /\ pc' = "feed"
          /\ UNCHANGED <<result, faults>>
       \/ /\ pc' = "returned" /\ result' = "error"
          /\ \/ callerDone /\ UNCHANGED <<phase, faults>>
             \/ ~callerDone /\ Fault("create") /\ phase' \in {"absent", "open"}
    /\ UNCHANGED <<inputVars, next, worker, ctxVars, slots, stored, object>>

\* jobs <- partIndex meets a worker's receive.
Handoff(w) ==
    /\ pc = "feed"
    /\ worker[w].pc = "receive"
    /\ worker' = [worker EXCEPT ![w] = [pc |-> "send", job |-> next]]
    /\ pc' = "check"
    /\ UNCHANGED <<inputVars, next, ctxVars, slots, s3Vars, result, faults>>

\* Mutant of FeederSeesDone: the select is entered again.
FeederWaitsOn == pc = "feed" /\ partDone /\ UNCHANGED vars

\* The other case of the select; when both are ready either may be chosen.
FeederSeesDone ==
    /\ pc = "feed"
    /\ partDone
    /\ pc' = "check"
    /\ UNCHANGED <<inputVars, next, worker, ctxVars, slots, s3Vars, result, faults>>

\* Mutant of FeederLoops: the bound of the loop is off by one.
FeederLoopsTooFar ==
    /\ pc = "check"
    /\ IF partDone \/ next \notin Indexes
       THEN pc' = "wait" /\ UNCHANGED next
       ELSE pc' = "feed" /\ next' = next + 1
    /\ UNCHANGED <<inputVars, worker, ctxVars, slots, s3Vars, result, faults>>

\* The loop's check of partCtx.Err() and its condition; close(jobs) at the end.
FeederLoops ==
    /\ pc = "check"
    /\ IF partDone \/ next + 1 \notin Indexes
       THEN pc' = "wait" /\ UNCHANGED next
       ELSE pc' = "feed" /\ next' = next + 1
    /\ UNCHANGED <<inputVars, worker, ctxVars, slots, s3Vars, result, faults>>

\* Mutant of Wait: firstErr is not looked at.
WaitIgnoresError ==
    /\ pc = "wait"
    /\ \A w \in Workers : worker[w].pc = "exit"
    /\ pc' = "complete"
    /\ UNCHANGED <<inputVars, next, worker, ctxVars, slots, s3Vars, result, faults>>

\* workersWG.Wait() returns, then firstErr decides.
Wait ==
    /\ pc = "wait"
    /\ \A w \in Workers : worker[w].pc = "exit"
    /\ pc' = IF firstErr THEN "abort" ELSE "complete"
    /\ UNCHANGED <<inputVars, next, worker, ctxVars, slots, s3Vars, result, faults>>

\* CompleteMultipartUpload lists every slot; S3 takes the list when each
\* entry is the part it stores.
Listed == [n \in 1..PartCount(size, limit) |-> slots[n - 1]]
S3Accepts ==
    /\ phase = "open"
    /\ \A i \in Indexes : slots[i] # Unset /\ stored[i] = slots[i]

\* Mutant of Complete: abort is switched off before the call is known to work.
CompleteForgetsAbort ==
    /\ pc = "complete"
    /\ \/ /\ ~callerDone /\ S3Accepts
          /\ phase' = "completed" /\ object' = Listed /\ result' = "ok"
          /\ UNCHANGED faults
       \/ /\ callerDone \/ ~S3Accepts
          /\ result' = "error" /\ UNCHANGED <<phase, object, faults>>
       \/ /\ ~callerDone /\ Fault("complete")
          /\ result' = "error" /\ UNCHANGED <<phase, object>>
    /\ pc' = "returned"
    /\ UNCHANGED <<inputVars, next, worker, ctxVars, slots, stored>>

Complete ==
    /\ pc = "complete"
    /\ \/ /\ ~callerDone /\ S3Accepts
          /\ phase' = "completed" /\ object' = Listed
          /\ pc' = "returned" /\ result' = "ok"
          /\ UNCHANGED faults
       \/ /\ callerDone \/ ~S3Accepts
          /\ pc' = "abort" /\ UNCHANGED <<phase, object, result, faults>>
       \/ /\ ~callerDone /\ Fault("complete")
          /\ pc' = "abort" /\ UNCHANGED result
          /\ \/ UNCHANGED <<phase, object>>
             \/ S3Accepts /\ phase' = "completed" /\ object' = Listed
    /\ UNCHANGED <<inputVars, next, worker, ctxVars, slots, stored>>

\* The deferred abort runs with the caller's context: once that is
\* cancelled the call never reaches S3.
Abort ==
    /\ pc = "abort"
    /\ \/ /\ ~callerDone
          /\ phase' = IF phase = "open" THEN "aborted" ELSE phase
          /\ UNCHANGED faults
       \/ callerDone /\ UNCHANGED <<phase, faults>>
       \/ ~callerDone /\ Fault("abort") /\ UNCHANGED phase
    /\ pc' = "returned" /\ result' = "error"
    /\ UNCHANGED <<inputVars, next, worker, ctxVars, slots, stored, object>>

-----------------------------------------------------------------------------
(* The workers                                                              *)

\* range jobs ends once the channel is closed.
WorkerExits(w) ==
    /\ worker[w].pc = "receive"
    /\ pc = "wait"
    /\ worker' = [worker EXCEPT ![w].pc = "exit"]
    /\ UNCHANGED <<inputVars, pc, next, ctxVars, slots, s3Vars, result, faults>>

\* errOnce.Do keeps the first error and cancels partCtx; the worker returns.
WorkerFails(w) ==
    /\ worker' = [worker EXCEPT ![w].pc = "exit"]
    /\ firstErr' = TRUE
    /\ partDone' = TRUE

\* UploadPart is not even sent under a cancelled partCtx.
WorkerSends(w) ==
    /\ worker[w].pc = "send"
    /\ \/ /\ ~partDone
          /\ worker' = [worker EXCEPT ![w].pc = "sent"]
          /\ UNCHANGED <<partDone, firstErr>>
       \/ partDone /\ WorkerFails(w)
    /\ UNCHANGED <<inputVars, pc, next, callerDone, slots, s3Vars, result, faults>>

\* UploadPart ends: S3 stored the section and the slot is filled, or the
\* call failed, on its own or by cancellation, with or without effect at S3.
WorkerUploads(w) ==
    LET i == worker[w].job
        put == [stored EXCEPT ![i] = Section(size, limit, i)]
    IN
    /\ worker[w].pc = "sent"
    /\ \/ /\ stored' = put
          /\ slots' = [slots EXCEPT ![i] = Section(size, limit, i)]
          /\ worker' = [worker EXCEPT ![w].pc = "receive"]
          /\ UNCHANGED <<partDone, firstErr, faults>>
       \/ /\ stored' \in {stored, put}
          /\ (partDone /\ UNCHANGED faults) \/ Fault("part")
          /\ WorkerFails(w)
          /\ UNCHANGED slots
    /\ UNCHANGED <<inputVars, pc, next, callerDone, phase, object, result>>

\* The HTTP client goes away: ctx, and partCtx with it, are cancelled.
CallerCancels ==
    /\ ~callerDone
    /\ result = "none"
    /\ callerDone' = TRUE
    /\ partDone' = TRUE
    /\ UNCHANGED <<inputVars, pc, next, worker, firstErr, slots, s3Vars, result, faults>>

Returned == pc = "returned" /\ UNCHANGED vars

CallerStep ==
    \/ Create \/ FeederSeesDone \/ FeederLoops \/ Wait \/ Complete \/ Abort
    \/ \E w \in Workers : Handoff(w)

WorkerStep(w) == WorkerExits(w) \/ WorkerSends(w) \/ WorkerUploads(w)

Next ==
    \/ CallerStep
    \/ \E w \in Workers : WorkerStep(w)
    \/ CallerCancels
    \/ Returned

\* The Go scheduler runs every goroutine and every S3 call ends.
Fairness ==
    /\ WF_vars(CallerStep)
    /\ \A w \in 1..Concurrency : WF_vars(w \in Workers /\ WorkerStep(w))

Spec == Init /\ [][Next]_vars /\ Fairness

-----------------------------------------------------------------------------
(* Properties                                                               *)

SectionType == [offset : Int, length : Int]

\* The goroutines, the slots and S3 hold values of their types, whatever
\* errors and cancellations the pool goes through.
TypeOK ==
    /\ size \in 1..MaxSize /\ limit \in 1..MaxLimit
    /\ pc \in {"create", "feed", "check", "wait", "complete", "abort", "returned"}
    /\ next \in Indexes
    /\ worker \in [1..Concurrency ->
                     [pc : {"receive", "send", "sent", "exit"}, job : Indexes]]
    /\ callerDone \in BOOLEAN /\ partDone \in BOOLEAN /\ firstErr \in BOOLEAN
    /\ slots \in [0..(MaxSize - 1) -> SectionType]
    /\ phase \in {"absent", "open", "completed", "aborted"}
    /\ stored \in [0..(MaxSize - 1) -> SectionType]
    /\ object \in Seq(SectionType)
    /\ result \in {"none", "ok", "error"}
    /\ faults \in 0..MaxFaults

\* Without an error and with a live context, the list sent to S3 has no
\* unfilled slot: no worker can drop a part silently when errors,
\* cancellation and the end of the feeding loop race.
CompleteListIsWhole ==
    pc = "complete" /\ ~callerDone => \A i \in Indexes : slots[i] # Unset

\* The sections of a completed object follow each other without gap or
\* overlap from the first byte of the file to the last, for every size and
\* part size.
ObjectIsFile ==
    phase = "completed" =>
      /\ object # <<>>
      /\ object[1].offset = 0
      /\ \A n \in 1..(Len(object) - 1) :
           object[n + 1].offset = object[n].offset + object[n].length
      /\ object[Len(object)].offset + object[Len(object)].length = size
      /\ \A n \in DOMAIN object : object[n].length \in 1..limit

\* While the caller stays, an upload is left open at S3 only because the
\* very call that creates or aborts it failed, whichever parts or
\* completions failed before.  (A caller who leaves takes the deferred abort
\* along.)
NoOrphan ==
    [][ pc # "returned" /\ pc' = "returned" /\ ~callerDone /\ phase' = "open"
        => pc \in {"create", "abort"} /\ faults' > faults ]_vars

\* The pool always comes to an end: the feeder is never left waiting for
\* workers that have all failed, nor a worker for a channel nobody closes.
Terminates == <>(pc = "returned")

-----------------------------------------------------------------------------
(* The inductive invariant behind the proofs                                *)

\* The indexes handed to a worker so far.
Handed == IF pc \in {"create", "returned"} THEN {}
          ELSE IF pc = "feed" THEN 0..(next - 1) ELSE 0..next

Delivered(i) ==
    \/ slots[i] # Unset
    \/ \E w \in Workers : worker[w].pc \in {"send", "sent"} /\ worker[w].job = i

\* No part is lost silently: as long as nobody failed or gave up, an index
\* that left the feeder is with a worker or in its slot, and the feeder only
\* stops at the last one; a cancelled partCtx always has a reason.
NoSilentLoss ==
    /\ partDone => firstErr \/ callerDone
    /\ firstErr \/ callerDone => partDone
    /\ ~partDone => \A i \in Handed : Delivered(i)
    /\ ~partDone /\ pc \in {"wait", "complete"} => Handed = Indexes
    /\ pc = "create" => next = 0
    /\ pc = "complete" => /\ ~firstErr
                          /\ \A w \in Workers : worker[w].pc = "exit"

\* Whatever fails or is repeated, a filled slot holds the section of its own
\* index, and an object S3 made is the list of the sections 0, 1, ... .
InOrder ==
    /\ \A i \in Indexes : slots[i] \in {Unset, Section(size, limit, i)}
    /\ phase = "completed" =>
         object = [n \in 1..PartCount(size, limit) |-> Section(size, limit, n - 1)]
=============================================================================
