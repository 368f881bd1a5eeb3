------------------------ MODULE MultipartUpload_proofs ------------------------
(***************************************************************************)
(* Proofs about MultipartUpload for every set of users, uploads, requests,  *)
(* connections and bodies, every number of parts and every number of        *)
(* failures; and about BrowserUpload, the same server with one browser that *)
(* sends it a file, for every file and every size of its batches.           *)
(***************************************************************************)
EXTENDS BrowserUpload, SequenceTheorems, TLAPS

(* An idle request and a request that has just entered a handler are typed. *)
LEMMA IdleType ==
    ASSUME NEW status \in {"none", "ok", "error"}
    PROVE  /\ Idle(status) \in RequestType
           /\ Idle(status).pc = "idle"
           /\ Len(Idle(status).ordered) <= MaxPart
  BY MaxPartAssumption DEF Idle, RequestType, Labels, PartNumbers

(* orderedUploadParts returns a sequence of the first k recorded ETags.     *)
LEMMA OrderedType ==
    ASSUME NEW S, NEW p \in [PartNumbers -> S], NEW k \in PartNumbers
    PROVE  /\ OrderedUploadParts(p, k) \in Seq(S)
           /\ Len(OrderedUploadParts(p, k)) = k
           /\ DOMAIN OrderedUploadParts(p, k) = 1..k
           /\ \A n \in 1..k : OrderedUploadParts(p, k)[n] = p[n]
  <1>1. k \in Nat /\ 1..k \subseteq PartNumbers
    BY MaxPartAssumption DEF PartNumbers
  <1>2. OrderedUploadParts(p, k) \in [1..k -> S]
    BY <1>1 DEF OrderedUploadParts
  <1>3. OrderedUploadParts(p, k) \in Seq(S)
    BY <1>1, <1>2, SeqDef
  <1>4. QED
    BY <1>1, <1>2, <1>3 DEF OrderedUploadParts

-----------------------------------------------------------------------------
(* Type correctness *)

LEMMA InitTypeOK == Init => TypeOK
  <1> SUFFICES ASSUME Init PROVE TypeOK
    OBVIOUS
  <1>1. RequestsOK
    BY IdleType DEF Init, RequestsOK
  <1>2. QED
    BY <1>1, MaxFaultsAssumption, EmptySeq
       DEF Init, TypeOK, NoParts, PartNumbers

(* The request's own record stays typed when a handler jumps to another     *)
(* label or answers.                                                        *)
LEMMA GotoType ==
    ASSUME TypeOK, NEW r \in Requests, req[r].pc # "idle",
           NEW label \in Labels, Goto(r, label)
    PROVE  RequestsOK'
  <1>1. /\ req[r] \in RequestType /\ req[r].upload \in Uploads
        /\ Len(req[r].ordered) <= MaxPart
    BY DEF TypeOK, RequestsOK
  <1>2. [req[r] EXCEPT !.pc = label] \in RequestType
    BY <1>1 DEF RequestType
  <1>3. req' = [req EXCEPT ![r] = [req[r] EXCEPT !.pc = label]]
    BY DEF Goto, TypeOK, RequestsOK
  <1>4. /\ [req[r] EXCEPT !.pc = label].upload = req[r].upload
        /\ [req[r] EXCEPT !.pc = label].ordered = req[r].ordered
    BY <1>1 DEF RequestType
  <1>5. QED
    BY <1>1, <1>2, <1>3, <1>4 DEF TypeOK, RequestsOK

LEMMA AnswerType ==
    ASSUME TypeOK, NEW r \in Requests,
           NEW status \in {"none", "ok", "error"}, Answer(r, status)
    PROVE  RequestsOK'
  BY IdleType DEF Answer, TypeOK, RequestsOK

(* A step that may fail keeps the number of failures in bounds.             *)
LEMMA FaultType ==
    ASSUME TypeOK, Fault \/ UNCHANGED faults
    PROVE  faults' \in 0..MaxFaults
  BY MaxFaultsAssumption DEF TypeOK, Fault

(* Replacing one part of one upload.                                        *)
LEMMA PutType ==
    ASSUME NEW S, NEW f \in [Uploads -> [PartNumbers -> S]],
           NEW u \in Uploads, NEW n \in PartNumbers, NEW b \in S
    PROVE  [f EXCEPT ![u][n] = b] \in [Uploads -> [PartNumbers -> S]]
  <1>1. [f[u] EXCEPT ![n] = b] \in [PartNumbers -> S]
    OBVIOUS
  <1>2. QED
    BY <1>1

(* The effect of an abort at S3, whether or not it arrives.                 *)
LEMMA TryAbortType ==
    ASSUME TypeOK, NEW u \in Uploads, NEW c, TryAbort(u, c)
    PROVE  /\ phase' \in [Uploads -> {"absent", "open", "completed", "aborted"}]
           /\ faults' \in 0..MaxFaults
  <1>1. faults' \in 0..MaxFaults
    BY FaultType DEF TryAbort
  <1>2. QED
    BY <1>1 DEF TypeOK, TryAbort, S3Abort

(* A handler that starts its cleanup, and one that goes on after it.        *)
LEMMA CleanUpType ==
    ASSUME TypeOK, NEW r \in Requests, req[r].pc # "idle",
           NEW status \in {"none", "ok", "error"}, CleanUp(r, status)
    PROVE  RequestsOK'
  <1> DEFINE rec == [req[r] EXCEPT !.pc = "remove_files", !.status = status]
  <1>1. /\ req[r] \in RequestType /\ req[r].upload \in Uploads
        /\ Len(req[r].ordered) <= MaxPart
    BY DEF TypeOK, RequestsOK
  <1>2. /\ rec \in RequestType /\ rec.upload = req[r].upload
        /\ rec.ordered = req[r].ordered
    BY <1>1 DEF RequestType, Labels
  <1>3. req' = [req EXCEPT ![r] = rec]
    BY DEF CleanUp, TypeOK, RequestsOK
  <1>4. QED
    BY <1>1, <1>2, <1>3 DEF TypeOK, RequestsOK

LEMMA AfterCleanUpType ==
    ASSUME TypeOK, NEW r \in Requests, req[r].pc # "idle", AfterCleanUp(r)
    PROVE  RequestsOK'
  <1>1. req[r].status \in {"none", "ok", "error"}
    BY DEF TypeOK, RequestsOK, RequestType
  <1>2. QED
    BY <1>1, GotoType, AnswerType DEF AfterCleanUp, Labels

(* Entering a handler: the fields set by an arrival are typed.              *)
LEMMA EnterType ==
    ASSUME TypeOK, NEW r \in Requests, NEW rec \in RequestType,
           rec.upload \in Uploads, Len(rec.ordered) <= MaxPart,
           req' = [req EXCEPT ![r] = rec]
    PROVE  RequestsOK'
  BY DEF TypeOK, RequestsOK

LEMMA ArrivalTypeOK ==
    ASSUME TypeOK, NEW r \in Requests, Arrival(r)
    PROVE  TypeOK'
  <1> PICK u \in Uploads :
        \/ \E usr \in Users :
             \/ \E c \in Connections : InitCreate(r, usr, c, u)
             \/ \E n \in PartNumbers, b \in Contents : PartLookup(r, usr, u, n, b)
             \/ \E c \in Connections \cup {None} : CompleteTake(r, usr, u, c)
             \/ AbortTake(r, usr, u)
        \/ \E c \in Connections : MultipartAbort(r, u, c)
    BY DEF Arrival
  <1>1. ASSUME NEW usr \in Users, NEW c \in Connections, InitCreate(r, usr, c, u)
        PROVE  TypeOK'
    <2> DEFINE rec == [Idle("none") EXCEPT !.pc = "init_register", !.user = usr,
             !.upload = u, !.conn = c]
    <2>1. /\ rec \in RequestType /\ rec.upload = u
          /\ Len(rec.ordered) <= MaxPart
      BY IdleType, MaxPartAssumption DEF RequestType, Labels, Idle
    <2>2. RequestsOK'
      <3>1. req' = [req EXCEPT ![r] = rec] => RequestsOK'
        BY <2>1, EnterType
      <3>2. QED
        BY <1>1, <3>1, AnswerType DEF InitCreate
    <2>3. faults' \in 0..MaxFaults
      BY <1>1, FaultType DEF InitCreate
    <2>4. /\ phase' = [phase EXCEPT ![u] = "open"]
          /\ conn' = [conn EXCEPT ![u] = c]
          /\ UNCHANGED <<live, owner, parts, diskVars, stored, object, audited>>
      BY <1>1 DEF InitCreate
    <2>5. QED
      BY <2>2, <2>3, <2>4 DEF TypeOK, diskVars
  <1>2. ASSUME NEW usr \in Users, NEW n \in PartNumbers, NEW b \in Contents,
               PartLookup(r, usr, u, n, b)
        PROVE  TypeOK'
    <2> DEFINE rec == [Idle("none") EXCEPT !.pc = "part_send", !.user = usr,
             !.upload = u, !.part = n, !.body = b]
    <2>1. /\ rec \in RequestType /\ rec.upload = u
          /\ Len(rec.ordered) <= MaxPart
      BY IdleType, MaxPartAssumption DEF RequestType, Labels, Idle
    <2>2. RequestsOK'
      <3>1. req' = [req EXCEPT ![r] = rec] => RequestsOK'
        BY <2>1, EnterType
      <3>2. QED
        BY <1>2, <3>1, AnswerType DEF PartLookup
    <2>3. QED
      BY <1>2, <2>2 DEF TypeOK, PartLookup, heapVars, diskVars, s3Vars
  <1>3. ASSUME NEW usr \in Users, NEW c \in Connections \cup {None},
               CompleteTake(r, usr, u, c)
        PROVE  TypeOK'
    <2> DEFINE rec == [Idle("none") EXCEPT !.pc = "complete_check", !.user = usr,
             !.upload = u, !.conn = c]
    <2>1. /\ rec \in RequestType /\ rec.upload = u
          /\ Len(rec.ordered) <= MaxPart
      BY IdleType, MaxPartAssumption DEF RequestType, Labels, Idle
    <2>2. RequestsOK'
      <3>1. req' = [req EXCEPT ![r] = rec] => RequestsOK'
        BY <2>1, EnterType
      <3>2. QED
        BY <1>3, <3>1, AnswerType DEF CompleteTake
    <2>3. QED
      BY <1>3, <2>2 DEF TypeOK, CompleteTake, heapVars, diskVars, s3Vars
  <1>4. ASSUME NEW usr \in Users, AbortTake(r, usr, u)
        PROVE  TypeOK'
    <2> DEFINE rec == [Idle("none") EXCEPT !.pc = "abort_send", !.user = usr,
             !.upload = u]
    <2>1. /\ rec \in RequestType /\ rec.upload = u
          /\ Len(rec.ordered) <= MaxPart
      BY IdleType, MaxPartAssumption DEF RequestType, Labels, Idle
    <2>2. RequestsOK'
      <3>1. req' = [req EXCEPT ![r] = rec] => RequestsOK'
        BY <2>1, EnterType
      <3>2. QED
        BY <1>4, <3>1, AnswerType DEF AbortTake
    <2>3. QED
      BY <1>4, <2>2 DEF TypeOK, AbortTake, heapVars, diskVars, s3Vars
  <1>5. ASSUME NEW c \in Connections, MultipartAbort(r, u, c)
        PROVE  TypeOK'
    <2>1. RequestsOK'
      BY <1>5, AnswerType DEF MultipartAbort
    <2>2. QED
      BY <1>5, <2>1 DEF TypeOK, MultipartAbort, S3Abort, heapVars, diskVars
  <1>6. QED
    BY <1>1, <1>2, <1>3, <1>4, <1>5

LEMMA HandlerStepTypeOK ==
    ASSUME TypeOK, NEW r \in Requests, HandlerStep(r)
    PROVE  TypeOK'
  <1> DEFINE u == req[r].upload
  <1>0. req[r].pc # "idle"
    BY DEF HandlerStep, InitRegister, InitNoTempDir, InitAbort, PartSend,
           PartOpen, PartWrite, PartRecord, CompleteCheck, CompleteOrder, CompleteHash,
           CompleteSend, CompleteAbort, CompleteReply, AbortSend, RemoveFiles, RemoveDir, At
  <1>u. u \in Uploads /\ req[r] \in RequestType
    BY <1>0 DEF TypeOK, RequestsOK
  <1>1. CASE InitRegister(r)
    BY <1>1, <1>u, AnswerType
       DEF TypeOK, InitRegister, RequestType, s3Vars
  <1>2. CASE InitNoTempDir(r)
    <2>1. RequestsOK'
      BY <1>0, <1>2, GotoType DEF InitNoTempDir, Labels
    <2>2. faults' \in 0..MaxFaults
      BY <1>2, FaultType DEF InitNoTempDir
    <2>3. QED
      BY <1>2, <2>1, <2>2 DEF TypeOK, InitNoTempDir, heapVars, diskVars, s3Vars
  <1>3. CASE InitAbort(r)
    <2>1. RequestsOK'
      BY <1>3, AnswerType DEF InitAbort
    <2>2. QED
      BY <1>3, <1>u, <2>1, TryAbortType
         DEF TypeOK, InitAbort, heapVars, diskVars
  <1>4. CASE PartSend(r)
    <2>1. RequestsOK'
      BY <1>0, <1>4, GotoType, AnswerType DEF PartSend, Labels
    <2>2. [stored EXCEPT ![u][req[r].part] = req[r].body]
             \in [Uploads -> [PartNumbers -> Contents \cup {None}]]
      BY <1>u, PutType DEF TypeOK, RequestType
    <2>3. stored' \in [Uploads -> [PartNumbers -> Contents \cup {None}]]
      BY <1>4, <2>2 DEF PartSend, TypeOK
    <2>4. faults' \in 0..MaxFaults
      BY <1>4, FaultType DEF PartSend
    <2>5. UNCHANGED <<live, heapVars, diskVars, phase, object, audited>>
      BY <1>4 DEF PartSend
    <2>6. QED
      BY <2>1, <2>3, <2>4, <2>5 DEF TypeOK, heapVars, diskVars
  <1>5. CASE PartOpen(r) \/ PartWrite(r)
    <2>1. RequestsOK'
      BY <1>0, <1>5, GotoType, AnswerType DEF PartOpen, PartWrite, Labels
    <2>2. \A b \in {req[r].body, Torn} :
             [file EXCEPT ![u][req[r].part] = b]
               \in [Uploads -> [PartNumbers -> Contents \cup {None, Torn}]]
      BY <1>u, PutType DEF TypeOK, RequestType
    <2>3. file' \in [Uploads -> [PartNumbers -> Contents \cup {None, Torn}]]
      BY <1>5, <2>2 DEF PartOpen, PartWrite, Written, TypeOK
    <2>4. faults' \in 0..MaxFaults
      BY <1>5, FaultType DEF PartOpen, PartWrite
    <2>5. UNCHANGED <<live, heapVars, dir, late, stuck, s3Vars, audited>>
      BY <1>5 DEF PartOpen, PartWrite
    <2>6. QED
      BY <2>1, <2>3, <2>4, <2>5 DEF TypeOK, heapVars, s3Vars
  <1>6. CASE PartRecord(r)
    <2>1. RequestsOK'
      BY <1>6, AnswerType DEF PartRecord
    <2>2. [parts EXCEPT ![u][req[r].part] = req[r].body]
             \in [Uploads -> [PartNumbers -> Contents \cup {None}]]
      BY <1>u, PutType DEF TypeOK, RequestType
    <2>3. parts' \in [Uploads -> [PartNumbers -> Contents \cup {None}]]
      BY <1>6, <2>2 DEF PartRecord, TypeOK
    <2>4. UNCHANGED <<live, owner, conn, diskVars, s3Vars, audited, faults>>
      BY <1>6 DEF PartRecord
    <2>5. QED
      BY <2>1, <2>3, <2>4 DEF TypeOK, diskVars, s3Vars
  <1>7. CASE CompleteCheck(r)
    <2>1. RequestsOK'
      BY <1>0, <1>7, GotoType, AnswerType DEF CompleteCheck, Labels
    <2>2. QED
      BY <1>7, <2>1 DEF TypeOK, CompleteCheck, heapVars, diskVars, s3Vars
  <1>8. CASE CompleteOrder(r)
    <2>1. ASSUME NEW k \in PartNumbers,
                 req' = [req EXCEPT ![r].pc = "complete_hash",
                           ![r].ordered = OrderedUploadParts(parts[u], k)]
          PROVE  RequestsOK'
      <3>1. OrderedUploadParts(parts[u], k) \in Seq(Contents \cup {None})
        BY <1>u, OrderedType DEF TypeOK
      <3> DEFINE rec == [req[r] EXCEPT !.pc = "complete_hash",
                           !.ordered = OrderedUploadParts(parts[u], k)]
      <3>2. rec \in RequestType /\ rec.upload = u
        BY <1>u, <3>1 DEF RequestType, Labels
      <3>3. req' = [req EXCEPT ![r] = rec]
        BY <2>1 DEF TypeOK, RequestsOK
      <3>4. Len(rec.ordered) <= MaxPart
        <4>1. parts[u] \in [PartNumbers -> Contents \cup {None}]
          BY <1>u DEF TypeOK
        <4>2. Len(OrderedUploadParts(parts[u], k)) = k
          BY <4>1, OrderedType
        <4>3. rec.ordered = OrderedUploadParts(parts[u], k)
          BY <1>u DEF RequestType
        <4>4. QED
          BY <4>2, <4>3, MaxPartAssumption DEF PartNumbers
      <3>5. QED
        BY <1>u, <3>2, <3>3, <3>4, EnterType
    <2>2. RequestsOK'
      BY <1>0, <1>8, <2>1, CleanUpType DEF CompleteOrder
    <2>3. QED
      BY <1>8, <2>2 DEF TypeOK, CompleteOrder, heapVars, diskVars, s3Vars
  <1>9. CASE CompleteHash(r)
    <2> DEFINE next == Len(req[r].hashed) + 1
    <2>1. ASSUME next <= Len(req[r].ordered),
                 req' = [req EXCEPT ![r].hashed = Append(@, file[u][next])]
          PROVE  RequestsOK'
      <3> DEFINE rec == [req[r] EXCEPT !.hashed = Append(@, file[u][next])]
      <3>1. next \in PartNumbers
        BY <1>0, <1>u, <2>1, MaxPartAssumption
           DEF TypeOK, RequestsOK, RequestType, PartNumbers
      <3>2. Append(req[r].hashed, file[u][next]) \in Seq(Contents \cup {None, Torn})
        BY <1>u, <3>1 DEF TypeOK, RequestType
      <3>3. /\ rec \in RequestType /\ rec.upload = u
            /\ rec.ordered = req[r].ordered
        BY <1>u, <3>2 DEF RequestType
      <3>4. req' = [req EXCEPT ![r] = rec]
        BY <2>1 DEF TypeOK, RequestsOK
      <3>5. QED
        BY <1>u, <3>3, <3>4, EnterType DEF TypeOK, RequestsOK
    <2>2. RequestsOK'
      BY <1>0, <1>9, <2>1, CleanUpType DEF CompleteHash
    <2>3. faults' \in 0..MaxFaults
      BY <1>9, FaultType DEF CompleteHash
    <2>4. QED
      BY <1>9, <2>2, <2>3
         DEF TypeOK, CompleteHash, heapVars, diskVars, s3Vars
  <1>10. CASE CompleteSend(r)
    <2>1. RequestsOK'
      BY <1>0, <1>10, GotoType, CleanUpType DEF CompleteSend, Labels
    <2>2. faults' \in 0..MaxFaults
      BY <1>10, FaultType DEF CompleteSend
    <2>3. \/ S3Complete(u, req[r].ordered)
          \/ UNCHANGED <<phase, object>>
      BY <1>10 DEF CompleteSend
    <2>4. /\ phase' \in [Uploads -> {"absent", "open", "completed", "aborted"}]
          /\ object' \in [Uploads -> Seq(Contents \cup {None})]
      BY <1>u, <2>3 DEF TypeOK, S3Complete, RequestType
    <2>5. UNCHANGED <<live, heapVars, diskVars, stored, audited>>
      BY <1>10 DEF CompleteSend
    <2>6. QED
      BY <2>1, <2>2, <2>4, <2>5 DEF TypeOK, heapVars, diskVars
  <1>11. CASE CompleteAbort(r)
    <2>1. RequestsOK'
      BY <1>0, <1>11, CleanUpType DEF CompleteAbort
    <2>2. QED
      BY <1>11, <1>u, <2>1, TryAbortType
         DEF TypeOK, CompleteAbort, heapVars, diskVars
  <1>12. CASE CompleteReply(r)
    <2>1. RequestsOK'
      BY <1>12, AnswerType DEF CompleteReply
    <2>2. faults' \in 0..MaxFaults
      BY <1>12, FaultType DEF CompleteReply
    <2>3. Append(audited[u], req[r].hashed)
             \in Seq(Seq(Contents \cup {None, Torn}))
      BY <1>u DEF TypeOK, RequestType
    <2>4. audited' \in [Uploads -> Seq(Seq(Contents \cup {None, Torn}))]
      BY <1>12, <2>3 DEF CompleteReply, TypeOK
    <2>5. UNCHANGED <<live, heapVars, diskVars, s3Vars>>
      BY <1>12 DEF CompleteReply
    <2>6. QED
      BY <2>1, <2>2, <2>4, <2>5 DEF TypeOK, heapVars, diskVars, s3Vars
  <1>13. CASE AbortSend(r)
    <2>1. RequestsOK'
      BY <1>0, <1>13, CleanUpType DEF AbortSend
    <2>2. QED
      BY <1>13, <1>u, <2>1, TryAbortType
         DEF TypeOK, AbortSend, heapVars, diskVars
  <1>14. CASE RemoveFiles(r) \/ RemoveDir(r)
    <2>1. RequestsOK'
      BY <1>0, <1>14, GotoType, AfterCleanUpType DEF RemoveFiles, RemoveDir, Labels
    <2>2. faults' \in 0..MaxFaults
      BY <1>14, FaultType DEF RemoveFiles, RemoveDir
    <2>3. /\ file' \in [Uploads -> [PartNumbers -> Contents \cup {None, Torn}]]
          /\ dir' \in SUBSET Uploads /\ late' \in SUBSET Uploads
          /\ stuck' \in SUBSET Uploads
      <3>1. CASE RemoveFiles(r)
        <4>1. NoParts \in [PartNumbers -> Contents \cup {None, Torn}]
          BY DEF NoParts
        <4>2. /\ file' = [file EXCEPT ![u] = NoParts] \/ file' = file
              /\ stuck' = stuck \/ stuck' = stuck \cup {u}
              /\ dir' = dir /\ late' = late
          BY <3>1 DEF RemoveFiles
        <4>3. /\ file \in [Uploads -> [PartNumbers -> Contents \cup {None, Torn}]]
              /\ stuck \in SUBSET Uploads /\ dir \in SUBSET Uploads
              /\ late \in SUBSET Uploads /\ u \in Uploads
          BY <1>u DEF TypeOK
        <4> HIDE DEF u
        <4>4. file' \in [Uploads -> [PartNumbers -> Contents \cup {None, Torn}]]
          BY <4>1, <4>2, <4>3
        <4>5. QED
          BY <4>2, <4>3, <4>4
      <3>2. CASE RemoveDir(r)
        BY <1>u, <3>2 DEF RemoveDir, TypeOK
      <3>3. QED
        BY <1>14, <3>1, <3>2
    <2>4. UNCHANGED <<live, heapVars, s3Vars, audited>>
      BY <1>14 DEF RemoveFiles, RemoveDir
    <2>5. QED
      BY <2>1, <2>2, <2>3, <2>4 DEF TypeOK, heapVars, s3Vars
  <1>15. QED
    BY <1>1, <1>2, <1>3, <1>4, <1>5, <1>6, <1>7, <1>8, <1>9, <1>10, <1>11,
       <1>12, <1>13, <1>14 DEF HandlerStep

LEMMA CrashTypeOK ==
    ASSUME TypeOK, Crash
    PROVE  TypeOK'
  <1>1. RequestsOK'
    BY IdleType DEF Crash, RequestsOK
  <1>2. faults' \in 0..MaxFaults
    BY FaultType DEF Crash
  <1>3. QED
    BY <1>1, <1>2 DEF TypeOK, Crash, heapVars, diskVars, s3Vars

LEMMA StepTypeOK == TypeOK /\ [Next]_vars => TypeOK'
  <1> SUFFICES ASSUME TypeOK, [Next]_vars PROVE TypeOK'
    OBVIOUS
  <1>1. CASE UNCHANGED vars
    BY <1>1 DEF TypeOK, RequestsOK, vars
  <1>2. QED
    BY <1>1, ArrivalTypeOK, HandlerStepTypeOK, CrashTypeOK DEF Next

(* The variables of the handlers, the disk and S3 keep their types.         *)
THEOREM TypeCorrect == Spec => []TypeOK
  BY InitTypeOK, StepTypeOK, PTL DEF Spec

-----------------------------------------------------------------------------
(* What a step does to the requests *)

OrderedLabels == {"complete_hash"}

(* A handler step touches its own request only, which ends or stays with    *)
(* its upload and within its handler.                                       *)
LEMMA HandlerShape ==
    ASSUME TypeOK, NEW r \in Requests, HandlerStep(r)
    PROVE  /\ \A q \in Requests \ {r} : req'[q] = req[q]
           /\ req[r].upload \in Uploads
           /\ \/ /\ req'[r].pc = "idle" /\ req'[r].upload = None
              \/ /\ req'[r].upload = req[r].upload
                 /\ req[r].pc \in HoldLabels <=> req'[r].pc \in HoldLabels
                 /\ req[r].pc \in PartLabels <=> req'[r].pc \in PartLabels
                 /\ req'[r].body = req[r].body
                 /\ \/ At(r, "complete_order")
                    \/ /\ req'[r].pc \in OrderedLabels => req[r].pc \in OrderedLabels
                       /\ req'[r].ordered = req[r].ordered
                 /\ Completing(r)' =>
                      Completing(r) \/ phase'[req[r].upload] = "completed"
  <1> USE DEF HoldLabels, FinishLabels, PartLabels, OrderedLabels, Completing, At
  <1>1. /\ req \in [Requests -> RequestType]
        /\ req[r].pc # "idle" => req[r].upload \in Uploads
        /\ phase \in [Uploads -> {"absent", "open", "completed", "aborted"}]
    BY DEF TypeOK, RequestsOK
  <1>2. req[r] \in RequestType
    BY <1>1
  <1>3. ASSUME NEW status, Answer(r, status)
        PROVE  /\ \A q \in Requests \ {r} : req'[q] = req[q]
               /\ req'[r].pc = "idle" /\ req'[r].upload = None
    BY <1>1, <1>3 DEF Answer, Idle
  <1>4. ASSUME NEW label, Goto(r, label)
        PROVE  /\ \A q \in Requests \ {r} : req'[q] = req[q]
               /\ req'[r].pc = label
               /\ req'[r].upload = req[r].upload
               /\ req'[r].body = req[r].body
               /\ req'[r].ordered = req[r].ordered
               /\ req'[r].status = req[r].status
    BY <1>1, <1>2, <1>4 DEF Goto, RequestType
  <1>c. ASSUME NEW status, CleanUp(r, status)
        PROVE  /\ \A q \in Requests \ {r} : req'[q] = req[q]
               /\ req'[r].pc = "remove_files"
               /\ req'[r].upload = req[r].upload
               /\ req'[r].body = req[r].body
               /\ req'[r].ordered = req[r].ordered
               /\ req'[r].status = status
    BY <1>1, <1>2, <1>c DEF CleanUp, RequestType
  <1>5. CASE InitRegister(r)
    BY <1>1, <1>3, <1>5 DEF InitRegister
  <1>6. CASE InitNoTempDir(r)
    BY <1>1, <1>4, <1>6 DEF InitNoTempDir
  <1>7. CASE InitAbort(r)
    BY <1>1, <1>3, <1>7 DEF InitAbort
  <1>8. CASE PartSend(r)
    BY <1>1, <1>3, <1>4, <1>8 DEF PartSend
  <1>9. CASE PartOpen(r) \/ PartWrite(r)
    BY <1>1, <1>3, <1>4, <1>9 DEF PartOpen, PartWrite
  <1>10. CASE PartRecord(r)
    BY <1>1, <1>3, <1>10 DEF PartRecord
  <1>11. CASE CompleteCheck(r)
    BY <1>1, <1>3, <1>4, <1>11 DEF CompleteCheck
  <1>12. CASE CompleteOrder(r)
    <2>1. ASSUME NEW ordered,
                 req' = [req EXCEPT ![r].pc = "complete_hash",
                                    ![r].ordered = ordered]
          PROVE  /\ \A q \in Requests \ {r} : req'[q] = req[q]
                 /\ req'[r].pc = "complete_hash"
                 /\ req'[r].upload = req[r].upload
                 /\ req'[r].body = req[r].body
      BY <1>1, <1>2, <2>1 DEF RequestType
    <2>2. QED
      BY <1>1, <1>c, <1>12, <2>1 DEF CompleteOrder
  <1>13. CASE CompleteHash(r)
    <2>1. ASSUME NEW hashed, req' = [req EXCEPT ![r].hashed = hashed]
          PROVE  /\ \A q \in Requests \ {r} : req'[q] = req[q]
                 /\ req'[r].pc = req[r].pc
                 /\ req'[r].upload = req[r].upload
                 /\ req'[r].body = req[r].body
                 /\ req'[r].ordered = req[r].ordered
      BY <1>1, <1>2, <2>1 DEF RequestType
    <2>2. \/ req' = [req EXCEPT ![r].hashed =
                        Append(req[r].hashed, file[req[r].upload][Len(req[r].hashed) + 1])]
          \/ CleanUp(r, "error")
      BY <1>13 DEF CompleteHash
    <2>3. CASE CleanUp(r, "error")
      BY <1>1, <1>c, <1>13, <2>3 DEF CompleteHash
    <2>4. CASE ~CleanUp(r, "error")
      <3>1. /\ req'[r].pc = req[r].pc /\ req'[r].upload = req[r].upload
            /\ req'[r].body = req[r].body /\ req'[r].ordered = req[r].ordered
            /\ \A q \in Requests \ {r} : req'[q] = req[q]
        BY <2>1, <2>2, <2>4
      <3>2. req[r].pc = "complete_hash"
        BY <1>13 DEF CompleteHash
      <3>3. QED
        BY <1>1, <3>1, <3>2
    <2>5. QED
      BY <2>3, <2>4
  <1>14. CASE CompleteSend(r)
    BY <1>1, <1>4, <1>c, <1>14 DEF CompleteSend, S3Complete
  <1>15. CASE CompleteAbort(r)
    BY <1>1, <1>c, <1>15 DEF CompleteAbort
  <1>16. CASE CompleteReply(r)
    BY <1>1, <1>3, <1>16 DEF CompleteReply
  <1>17. CASE AbortSend(r)
    BY <1>1, <1>c, <1>17 DEF AbortSend
  <1>18. CASE RemoveFiles(r) \/ RemoveDir(r)
    BY <1>1, <1>3, <1>4, <1>18 DEF RemoveFiles, RemoveDir, AfterCleanUp
  <1>19. QED
    BY <1>5, <1>6, <1>7, <1>8, <1>9, <1>10, <1>11, <1>12, <1>13, <1>14,
       <1>15, <1>16, <1>17, <1>18 DEF HandlerStep

(* An arriving request was idle; it is answered at once, or it creates an   *)
(* upload, or it starts a part of one in s.uploads, or takes one out.       *)
Creates(r, u) ==
    /\ phase[u] = "absent" /\ phase'[u] = "open"
    /\ req'[r].upload = u /\ req'[r].pc = "init_register"
    /\ live' = live
StartsPart(r, u) ==
    /\ u \in live /\ live' = live /\ phase' = phase
    /\ req'[r].upload = u /\ req'[r].pc = "part_send"
    /\ req'[r].body \in Contents
Takes(r, u) ==
    /\ u \in live /\ live' = live \ {u} /\ phase' = phase
    /\ req'[r].upload = u /\ req'[r].pc \in {"complete_check", "abort_send"}
Refused(r) ==
    /\ live' \subseteq live
    /\ req'[r].upload = None /\ req'[r].pc = "idle"

LEMMA ArrivalShape ==
    ASSUME TypeOK, NEW r \in Requests, Arrival(r)
    PROVE  /\ \A q \in Requests \ {r} : req'[q] = req[q]
           /\ UNCHANGED <<parts, audited>>
           /\ \/ Refused(r)
              \/ \E u \in Uploads : Creates(r, u) \/ StartsPart(r, u) \/ Takes(r, u)
  <1> USE DEF At
  <1>1. /\ req \in [Requests -> RequestType]
        /\ phase \in [Uploads -> {"absent", "open", "completed", "aborted"}]
    BY DEF TypeOK, RequestsOK
  <1>2. ASSUME NEW status, Answer(r, status)
        PROVE  /\ \A q \in Requests \ {r} : req'[q] = req[q]
               /\ req'[r].pc = "idle" /\ req'[r].upload = None
    BY <1>1, <1>2 DEF Answer, Idle
  <1> PICK u \in Uploads :
        \/ \E usr \in Users :
             \/ \E c \in Connections : InitCreate(r, usr, c, u)
             \/ \E n \in PartNumbers, b \in Contents : PartLookup(r, usr, u, n, b)
             \/ \E c \in Connections \cup {None} : CompleteTake(r, usr, u, c)
             \/ AbortTake(r, usr, u)
        \/ \E c \in Connections : MultipartAbort(r, u, c)
    BY DEF Arrival
  <1>3. ASSUME NEW usr \in Users, NEW c \in Connections, InitCreate(r, usr, c, u)
        PROVE  /\ \A q \in Requests \ {r} : req'[q] = req[q]
               /\ UNCHANGED <<parts, audited>>
               /\ Refused(r) \/ Creates(r, u)
    BY <1>1, <1>2, <1>3 DEF InitCreate, Idle, Refused, Creates
  <1>4. ASSUME NEW usr \in Users, NEW n \in PartNumbers, NEW b \in Contents,
               PartLookup(r, usr, u, n, b)
        PROVE  /\ \A q \in Requests \ {r} : req'[q] = req[q]
               /\ UNCHANGED <<parts, audited>>
               /\ Refused(r) \/ StartsPart(r, u)
    BY <1>1, <1>2, <1>4 DEF PartLookup, Idle, Refused, StartsPart, heapVars, s3Vars
  <1>5. ASSUME NEW usr \in Users, NEW c \in Connections \cup {None},
               CompleteTake(r, usr, u, c)
        PROVE  /\ \A q \in Requests \ {r} : req'[q] = req[q]
               /\ UNCHANGED <<parts, audited>>
               /\ Refused(r) \/ Takes(r, u)
    BY <1>1, <1>2, <1>5 DEF CompleteTake, Idle, Refused, Takes, heapVars, s3Vars
  <1>6. ASSUME NEW usr \in Users, AbortTake(r, usr, u)
        PROVE  /\ \A q \in Requests \ {r} : req'[q] = req[q]
               /\ UNCHANGED <<parts, audited>>
               /\ Refused(r) \/ Takes(r, u)
    BY ZenonT(60), <1>1, <1>2, <1>6 DEF AbortTake, Idle, Refused, Takes, heapVars, s3Vars
  <1>7. ASSUME NEW c \in Connections, MultipartAbort(r, u, c)
        PROVE  /\ \A q \in Requests \ {r} : req'[q] = req[q]
               /\ UNCHANGED <<parts, audited>>
               /\ Refused(r)
    BY <1>1, <1>2, <1>7 DEF MultipartAbort, Refused, heapVars
  <1>8. QED
    BY <1>3, <1>4, <1>5, <1>6, <1>7

(* S3 never forgets an upload it created, nor an object it completed.       *)
LEMMA PhaseMonotone ==
    ASSUME TypeOK, [Next]_vars, NEW u \in Uploads
    PROVE  /\ phase'[u] = "absent" => phase[u] = "absent"
           /\ phase[u] = "completed" => phase'[u] = "completed"
  <1>1. phase \in [Uploads -> {"absent", "open", "completed", "aborted"}]
    BY DEF TypeOK
  <1>2. ASSUME NEW r \in Requests, Arrival(r)
        PROVE  /\ phase'[u] = "absent" => phase[u] = "absent"
               /\ phase[u] = "completed" => phase'[u] = "completed"
    BY ZenonT(60), <1>1, <1>2
    DEF Arrival, InitCreate, PartLookup, CompleteTake, AbortTake, MultipartAbort,
        S3Abort, s3Vars
  <1>3. ASSUME NEW r \in Requests, HandlerStep(r)
        PROVE  /\ phase'[u] = "absent" => phase[u] = "absent"
               /\ phase[u] = "completed" => phase'[u] = "completed"
    BY ZenonT(60), <1>1, <1>3 DEF HandlerStep, InitRegister, InitNoTempDir, InitAbort,
         PartSend, PartOpen, PartWrite, PartRecord, CompleteCheck, CompleteOrder,
         CompleteHash, CompleteSend, CompleteAbort, CompleteReply, AbortSend, RemoveFiles, RemoveDir,
         TryAbort, S3Abort, S3Accepts, S3Complete, s3Vars
  <1>4. QED
    BY <1>1, <1>2, <1>3 DEF Next, Crash, vars, s3Vars

-----------------------------------------------------------------------------
(* An upload is in one hand *)

LEMMA StepCustody ==
    ASSUME TypeOK, Custody, [Next]_vars
    PROVE  Custody'
  <1> USE DEF Custody, Holds
  <1>1. ASSUME NEW r \in Requests, Arrival(r)
        PROVE  Custody'
    <2> USE DEF HoldLabels, FinishLabels
    <2>1. \A q \in Requests \ {r} : req'[q] = req[q]
      BY <1>1, ArrivalShape
    <2>2. CASE Refused(r)
      BY <2>1, <2>2, PhaseMonotone, NoneAssumption DEF Refused
    <2>3. ASSUME NEW u \in Uploads, Creates(r, u)
          PROVE  Custody'
      BY <2>1, <2>3, PhaseMonotone DEF Creates
    <2>4. ASSUME NEW u \in Uploads, StartsPart(r, u)
          PROVE  Custody'
      BY <2>1, <2>4, PhaseMonotone DEF StartsPart
    <2>5. ASSUME NEW u \in Uploads, Takes(r, u)
          PROVE  Custody'
      BY <2>1, <2>5, PhaseMonotone DEF Takes
    <2>6. QED
      BY <1>1, <2>2, <2>3, <2>4, <2>5, ArrivalShape
  <1>2. ASSUME NEW r \in Requests, HandlerStep(r)
        PROVE  Custody'
    <2>1. CASE InitRegister(r)
      <3>1. /\ live' = live \cup {req[r].upload}
            /\ Holds(r, req[r].upload)
            /\ UNCHANGED phase
        BY <2>1 DEF InitRegister, At, HoldLabels, s3Vars
      <3>2. req'[r].pc = "idle" /\ req'[r].upload = None
        BY <2>1 DEF InitRegister, Answer, Idle, TypeOK, RequestsOK
      <3>3. QED
        BY <1>2, <3>1, <3>2, HandlerShape, NoneAssumption
           DEF HoldLabels, FinishLabels
    <2>2. CASE ~InitRegister(r)
      <3>1. live' = live
        BY <1>2, <2>2 DEF HandlerStep, InitNoTempDir, InitAbort, PartSend,
             PartOpen, PartWrite, PartRecord, CompleteCheck, CompleteOrder, CompleteHash,
             CompleteSend, CompleteAbort, CompleteReply, AbortSend, RemoveFiles, RemoveDir
      <3>2. QED
        BY SMTT(30), <1>2, <3>1, HandlerShape, PhaseMonotone, NoneAssumption
           DEF HoldLabels, FinishLabels
    <2>3. QED
      BY <2>1, <2>2
  <1>3. CASE Crash
    BY <1>3, NoneAssumption
       DEF Crash, Idle, HoldLabels, FinishLabels, s3Vars
  <1>4. CASE UNCHANGED vars
    BY <1>4 DEF vars
  <1>5. QED
    BY <1>1, <1>2, <1>3, <1>4 DEF Next

-----------------------------------------------------------------------------
(* Recorded parts do not change, and completions work on recorded parts     *)

LEMMA RecordedOnce ==
    ASSUME TypeOK, [Next]_vars, NEW u \in Uploads, NEW n \in PartNumbers,
           parts[u][n] # None
    PROVE  parts'[u][n] = parts[u][n]
  <1>1. ASSUME NEW r \in Requests, PartRecord(r)
        PROVE  parts'[u][n] = parts[u][n]
    <2>1. parts \in [Uploads -> [PartNumbers -> Contents \cup {None}]]
      BY DEF TypeOK
    <2>2. \/ UNCHANGED parts
          \/ /\ parts[req[r].upload][req[r].part] = None
             /\ parts' = [parts EXCEPT ![req[r].upload] =
                            [parts[req[r].upload] EXCEPT ![req[r].part] = req[r].body]]
      BY <1>1 DEF PartRecord
    <2>3. QED
      BY <2>1, <2>2
  <1>2. ASSUME NEW r \in Requests, HandlerStep(r), ~PartRecord(r)
        PROVE  parts' = parts
    BY <1>2 DEF HandlerStep, InitRegister, InitNoTempDir, InitAbort,
         PartSend, PartOpen, PartWrite, CompleteCheck, CompleteOrder, CompleteHash,
         CompleteSend, CompleteAbort, CompleteReply, AbortSend, RemoveFiles, RemoveDir, heapVars
  <1>3. ASSUME NEW r \in Requests, Arrival(r)
        PROVE  parts' = parts
    BY <1>3, ArrivalShape
  <1>4. QED
    BY <1>1, <1>2, <1>3 DEF Next, Crash, heapVars, vars

LEMMA StepPartBodies ==
    ASSUME TypeOK, PartBodies, [Next]_vars
    PROVE  PartBodies'
  <1> USE DEF PartBodies, PartLabels
  <1>1. ASSUME NEW r \in Requests, Arrival(r)
        PROVE  PartBodies'
    BY <1>1, ArrivalShape DEF Refused, Creates, StartsPart, Takes
  <1>2. ASSUME NEW r \in Requests, HandlerStep(r)
        PROVE  PartBodies'
    BY <1>2, HandlerShape
  <1>3. QED
    BY <1>1, <1>2 DEF Next, Crash, Idle, vars

LEMMA StepOrderedRecorded ==
    ASSUME TypeOK, Custody, OrderedRecorded, [Next]_vars
    PROVE  OrderedRecorded'
  <1> DEFINE Good(q) ==
        /\ Len(req[q].ordered) \in PartNumbers
        /\ \A n \in 1..Len(req[q].ordered) :
             /\ parts[req[q].upload][n] = req[q].ordered[n]
             /\ req[q].ordered[n] # None
  <1>1. OrderedRecorded <=> \A q \in Requests : req[q].pc \in OrderedLabels => Good(q)
    BY DEF OrderedRecorded, OrderedLabels, At
  <1>2. OrderedRecorded' <=>
          \A q \in Requests : req'[q].pc \in OrderedLabels => Good(q)'
    BY DEF OrderedRecorded, OrderedLabels, At
  <1>3. ASSUME NEW q \in Requests, req[q].pc \in OrderedLabels,
               req'[q].upload = req[q].upload,
               req'[q].ordered = req[q].ordered
        PROVE  Good(q)'
    <2>1. Good(q) /\ req[q].upload \in Uploads
      BY <1>1, <1>3 DEF TypeOK, RequestsOK, OrderedLabels
    <2>2. 1..Len(req[q].ordered) \subseteq PartNumbers
      BY <2>1, MaxPartAssumption DEF PartNumbers
    <2>3. \A n \in 1..Len(req[q].ordered) :
            parts'[req[q].upload][n] = parts[req[q].upload][n]
      BY <2>1, <2>2, RecordedOnce
    <2>4. QED
      BY <1>3, <2>1, <2>3
  <1> HIDE DEF Good
  <1>4. ASSUME NEW r \in Requests, Arrival(r)
        PROVE  OrderedRecorded'
    <2>1. req'[r].pc \notin OrderedLabels
      BY <1>4, ArrivalShape
         DEF Refused, Creates, StartsPart, Takes, OrderedLabels
    <2>2. \A q \in Requests \ {r} : req'[q] = req[q]
      BY <1>4, ArrivalShape
    <2>3. QED
      BY <1>1, <1>2, <1>3, <2>1, <2>2
  <1>5. ASSUME NEW r \in Requests, CompleteOrder(r)
        PROVE  OrderedRecorded'
    <2> DEFINE u == req[r].upload
    <2>0. /\ u \in Uploads /\ req[r] \in RequestType
          /\ parts[u] \in [PartNumbers -> Contents \cup {None}]
      BY <1>5 DEF CompleteOrder, At, TypeOK, RequestsOK
    <2>1. \A q \in Requests \ {r} : req'[q] = req[q]
      BY <1>5, HandlerShape DEF HandlerStep
    <2>2. ASSUME NEW k \in PartNumbers, Contiguous(parts[u], k),
                 req' = [req EXCEPT ![r].pc = "complete_hash",
                           ![r].ordered = OrderedUploadParts(parts[u], k)]
          PROVE  Good(r)'
      <3>1. parts' = parts
        BY <1>5 DEF CompleteOrder, heapVars
      <3>2. /\ req'[r].ordered = OrderedUploadParts(parts[u], k)
            /\ req'[r].upload = u
        BY <2>0, <2>2 DEF TypeOK, RequestsOK, RequestType
      <3>3. /\ Len(OrderedUploadParts(parts[u], k)) = k
            /\ \A n \in 1..k : OrderedUploadParts(parts[u], k)[n] = parts[u][n]
        BY <2>0, OrderedType
      <3>4. k \in Nat /\ 1..k \subseteq PartNumbers
        BY MaxPartAssumption DEF PartNumbers
      <3>5. \A n \in 1..k : parts[u][n] # None
        BY <2>2, <3>4 DEF Contiguous
      <3>6. QED
        BY <3>1, <3>2, <3>3, <3>5 DEF Good
    <2>3. \/ req'[r].pc \notin OrderedLabels
          \/ Good(r)'
      <3>1. ASSUME CleanUp(r, "error") PROVE req'[r].pc \notin OrderedLabels
        BY <2>0, <3>1 DEF CleanUp, TypeOK, RequestsOK, RequestType, OrderedLabels
      <3>2. QED
        BY <1>5, <2>2, <3>1 DEF CompleteOrder
    <2>4. QED
      BY <1>1, <1>2, <1>3, <2>1, <2>3
  <1>6. ASSUME NEW r \in Requests, HandlerStep(r), ~CompleteOrder(r)
        PROVE  OrderedRecorded'
    <2>1. \A q \in Requests \ {r} : req'[q] = req[q]
      BY <1>6, HandlerShape
    <2>2. ~At(r, "complete_order")
      BY <1>6 DEF HandlerStep, At, InitRegister, InitNoTempDir, InitAbort,
           PartSend, PartOpen, PartWrite, PartRecord, CompleteCheck, CompleteHash,
           CompleteSend, CompleteAbort, CompleteReply, AbortSend, RemoveFiles, RemoveDir
    <2>3. req'[r].pc \in OrderedLabels =>
            /\ req[r].pc \in OrderedLabels
            /\ req'[r].upload = req[r].upload
            /\ req'[r].ordered = req[r].ordered
      BY <1>6, <2>2, HandlerShape DEF OrderedLabels
    <2>4. QED
      BY <1>1, <1>2, <1>3, <2>1, <2>3
  <1>7. CASE Crash
    BY <1>2, <1>7 DEF Crash, Idle, OrderedLabels
  <1>8. CASE UNCHANGED vars
    BY <1>8 DEF vars, OrderedRecorded, At
  <1>9. QED
    BY <1>4, <1>5, <1>6, <1>7, <1>8 DEF Next

-----------------------------------------------------------------------------
(* The announcement is the last step of an upload *)

LEMMA StepAnnouncedLast ==
    ASSUME TypeOK, Custody, AnnouncedLast, [Next]_vars
    PROVE  AnnouncedLast'
  <1> DEFINE Unfinished(u) == \/ phase[u] = "absent" \/ u \in live
                              \/ \E r \in Requests : Holds(r, u)
             Replies == \A q \in Requests : Completing(q) =>
                          phase[req[q].upload] = "completed"
             Unannounced == \A u \in Uploads : Unfinished(u) => audited[u] = <<>>
  <1>0. /\ AnnouncedLast <=> Replies /\ Unannounced
        /\ AnnouncedLast' <=> Replies' /\ Unannounced'
    BY DEF AnnouncedLast
  <1>a. \A q \in Requests : req[q].pc # "idle" => req[q].upload \in Uploads
    BY DEF TypeOK, RequestsOK
  <1>b. /\ \A q \in Requests : Completing(q) => req[q].pc # "idle"
        /\ \A q \in Requests : req'[q] = req[q] => (Completing(q)' <=> Completing(q))
        /\ \A q \in Requests : req'[q].pc = "idle" => ~Completing(q)'
    BY DEF Completing, At
  <1>1. ASSUME NEW r \in Requests, Arrival(r)
        PROVE  AnnouncedLast'
    <2>1. /\ \A q \in Requests \ {r} : req'[q] = req[q]
          /\ audited' = audited
          /\ ~Completing(r)'
      BY <1>1, ArrivalShape DEF Refused, Creates, StartsPart, Takes, Completing, At
    <2>2. Replies'
      BY <1>0, <1>a, <1>b, <2>1, PhaseMonotone
    <2>3. ASSUME NEW u \in Uploads, Unfinished(u)'
          PROVE  Unfinished(u)
      <3> USE DEF Holds, HoldLabels, FinishLabels
      <3>1. CASE Refused(r)
        BY <2>1, <2>3, <3>1, PhaseMonotone DEF Refused
      <3>2. ASSUME NEW v \in Uploads, Creates(r, v)
            PROVE  Unfinished(u)
        BY <2>1, <2>3, <3>2, PhaseMonotone DEF Creates
      <3>3. ASSUME NEW v \in Uploads, StartsPart(r, v)
            PROVE  Unfinished(u)
        BY <2>1, <2>3, <3>3, PhaseMonotone DEF StartsPart
      <3>4. ASSUME NEW v \in Uploads, Takes(r, v)
            PROVE  Unfinished(u)
        BY <2>1, <2>3, <3>4, PhaseMonotone DEF Takes
      <3>5. QED
        BY <1>1, <3>1, <3>2, <3>3, <3>4, ArrivalShape
    <2>4. QED
      BY <1>0, <2>1, <2>2, <2>3
  <1>2. ASSUME NEW r \in Requests, HandlerStep(r)
        PROVE  AnnouncedLast'
    <2>1. /\ \A q \in Requests \ {r} : req'[q] = req[q]
          /\ req[r].upload \in Uploads
      BY <1>2, HandlerShape
    <2>2. Replies'
      <3>1. ASSUME NEW q \in Requests \ {r}, Completing(q)'
            PROVE  phase'[req'[q].upload] = "completed"
        BY <1>0, <1>a, <1>b, <2>1, <3>1, PhaseMonotone
      <3>2. ASSUME Completing(r)'
            PROVE  phase'[req'[r].upload] = "completed"
        <4>1. /\ req'[r].upload = req[r].upload
              /\ Completing(r) \/ phase'[req[r].upload] = "completed"
          BY <1>2, <1>b, <3>2, HandlerShape
        <4>2. QED
          BY <1>0, <2>1, <4>1, PhaseMonotone
      <3>3. QED
        BY <3>1, <3>2
    <2>3. ASSUME NEW u \in Uploads, Unfinished(u)'
          PROVE  Unfinished(u)
      <3>1. live' = live \/ (live' = live \cup {req[r].upload}
                             /\ Holds(r, req[r].upload))
        BY <1>2 DEF HandlerStep, InitRegister, InitNoTempDir, InitAbort,
             PartSend, PartOpen, PartWrite, PartRecord, CompleteCheck, CompleteOrder,
             CompleteHash, CompleteSend, CompleteAbort, CompleteReply,
             AbortSend, RemoveFiles, RemoveDir, At, Holds, HoldLabels
      <3>2. \A q \in Requests : Holds(q, u)' => Holds(q, u)
        BY <1>2, HandlerShape DEF Holds, HoldLabels, FinishLabels
      <3>3. QED
        BY SMTT(30), <2>3, <3>1, <3>2, PhaseMonotone
    <2>4. CASE ~CompleteReply(r)
      <3>1. audited' = audited
        BY <1>2, <2>4 DEF HandlerStep, InitRegister, InitNoTempDir, InitAbort,
             PartSend, PartOpen, PartWrite, PartRecord, CompleteCheck, CompleteOrder,
             CompleteHash, CompleteSend, CompleteAbort, AbortSend, RemoveFiles, RemoveDir
      <3>2. QED
        BY <1>0, <2>2, <2>3, <3>1
    <2>5. CASE CompleteReply(r)
      <3> PICK v \in Uploads : v = req[r].upload
        BY <2>1
      <3>1. ~Unfinished(v)'
        <4>1. Holds(r, v) /\ Completing(r)
          BY <2>5 DEF CompleteReply, At, Holds, HoldLabels, FinishLabels, Completing
        <4>2. phase[v] = "completed" /\ v \notin live
          BY <1>0, <2>1, <4>1 DEF Custody
        <4>3. phase' = phase /\ live' = live
          BY <2>5 DEF CompleteReply, s3Vars
        <4>4. \A q \in Requests : ~Holds(q, v)'
          <5>1. req'[r].pc = "idle"
            BY <2>5 DEF CompleteReply, Answer, Idle, TypeOK, RequestsOK
          <5>2. \A q \in Requests \ {r} : ~Holds(q, v)
            BY <2>1, <4>1 DEF Custody
          <5>3. QED
            BY <2>1, <5>1, <5>2 DEF Holds, HoldLabels, FinishLabels
        <4>5. QED
          BY <4>2, <4>3, <4>4
      <3>2. \A u \in Uploads \ {v} : audited'[u] = audited[u]
        BY <2>1, <2>5 DEF CompleteReply, TypeOK
      <3>3. QED
        BY <1>0, <2>2, <2>3, <3>1, <3>2
    <2>6. QED
      BY <2>4, <2>5
  <1>3. CASE Crash
    <2>1. /\ \A q \in Requests : req'[q].pc = "idle"
          /\ live' = {} /\ UNCHANGED <<phase, audited>>
      BY <1>3 DEF Crash, Idle, s3Vars
    <2>2. QED
      BY <1>0, <1>b, <2>1 DEF Holds, HoldLabels, FinishLabels
  <1>4. CASE UNCHANGED vars
    BY <1>4 DEF vars, AnnouncedLast, Completing, At, Holds
  <1>5. QED
    BY <1>1, <1>2, <1>3, <1>4 DEF Next

-----------------------------------------------------------------------------
(* The inductive invariant and the safety theorem *)

-----------------------------------------------------------------------------
(* A completion past its checks stays the owner's *)

CheckedLabels == {"complete_order", "complete_hash"}

(* Only a registration writes an owner, and it has the upload to itself.    *)
LEMMA OwnerKept ==
    ASSUME TypeOK, Custody, [Next]_vars, NEW q \in Requests,
           req[q].pc \in CheckedLabels, req'[q] = req[q]
    PROVE  owner'[req[q].upload] = owner[req[q].upload]
  <1>1. ASSUME NEW r \in Requests, InitRegister(r)
        PROVE  owner'[req[q].upload] = owner[req[q].upload]
    <2>1. /\ Holds(q, req[q].upload) /\ Holds(r, req[r].upload)
          /\ req[r].upload \in Uploads /\ req[q].upload \in Uploads
          /\ req[q].pc # req[r].pc
      BY <1>1 DEF InitRegister, At, Holds, HoldLabels, FinishLabels,
                  CheckedLabels, TypeOK, RequestsOK
    <2>2. req[q].upload # req[r].upload
      BY <2>1 DEF Custody
    <2>3. QED
      BY <1>1, <2>1, <2>2 DEF InitRegister, TypeOK
  <1>2. CASE ~\E r \in Requests : InitRegister(r)
    <2>1. ASSUME NEW r \in Requests, Arrival(r)
          PROVE  owner' = owner
      BY <2>1 DEF Arrival, InitCreate, PartLookup, CompleteTake, AbortTake,
                  MultipartAbort, heapVars
    <2>2. ASSUME NEW r \in Requests, HandlerStep(r)
          PROVE  owner' = owner
      BY <1>2, <2>2 DEF HandlerStep, InitNoTempDir, InitAbort, PartSend,
           PartOpen, PartWrite, PartRecord, CompleteCheck, CompleteOrder, CompleteHash,
           CompleteSend, CompleteAbort, CompleteReply, AbortSend, RemoveFiles, RemoveDir, heapVars
    <2>3. QED
      BY SMTT(30), <2>1, <2>2 DEF Next, Crash, vars, heapVars
  <1>3. QED
    BY <1>1, <1>2

(* A handler gets to these labels through CompleteCheck or from one of them. *)
LEMMA OwnerStep ==
    ASSUME TypeOK, OwnerChecked, NEW r \in Requests, HandlerStep(r),
           req'[r].pc \in CheckedLabels
    PROVE  req'[r].user = owner'[req'[r].upload]
  <1> USE DEF CheckedLabels, At
  <1>1. req \in [Requests -> RequestType] /\ req[r] \in RequestType
    BY DEF TypeOK, RequestsOK
  <1>2. ASSUME NEW label, Goto(r, label)
        PROVE  /\ req'[r].pc = label
               /\ req'[r].upload = req[r].upload
               /\ req'[r].user = req[r].user
    BY <1>1, <1>2 DEF Goto, RequestType
  <1>3. ASSUME NEW status, Answer(r, status)
        PROVE  FALSE
    BY <1>1, <1>3 DEF Answer, Idle
  <1>c. ASSUME NEW status, CleanUp(r, status)
        PROVE  FALSE
    BY <1>1, <1>c DEF CleanUp, RequestType
  <1>4. CASE CompleteCheck(r)
    BY <1>2, <1>3, <1>4 DEF CompleteCheck, heapVars
  <1>5. CASE CompleteOrder(r)
    <2>1. PICK ordered : req' = [req EXCEPT ![r].pc = "complete_hash",
                                            ![r].ordered = ordered]
      BY <1>c, <1>5 DEF CompleteOrder
    <2>2. req'[r].upload = req[r].upload /\ req'[r].user = req[r].user
      BY <1>1, <2>1 DEF RequestType
    <2>3. QED
      BY <1>5, <2>2 DEF CompleteOrder, OwnerChecked, heapVars
  <1>6. CASE CompleteHash(r)
    <2>1. PICK hashed : req' = [req EXCEPT ![r].hashed = hashed]
      BY <1>c, <1>6 DEF CompleteHash
    <2>2. req'[r].upload = req[r].upload /\ req'[r].user = req[r].user
      BY <1>1, <2>1 DEF RequestType
    <2>3. QED
      BY <1>6, <2>2 DEF CompleteHash, OwnerChecked, heapVars
  <1>7. QED
    BY <1>2, <1>3, <1>c, <1>4, <1>5, <1>6
       DEF AfterCleanUp, HandlerStep, InitRegister, InitNoTempDir, InitAbort, PartSend,
           PartOpen, PartWrite, PartRecord, CompleteSend, CompleteAbort, CompleteReply,
           AbortSend, RemoveFiles, RemoveDir

LEMMA StepOwnerChecked ==
    ASSUME TypeOK, Custody, OwnerChecked, [Next]_vars
    PROVE  OwnerChecked'
  <1> SUFFICES ASSUME NEW q \in Requests, req'[q].pc \in CheckedLabels
               PROVE  req'[q].user = owner'[req'[q].upload]
    BY DEF OwnerChecked, CheckedLabels
  <1>1. CASE req'[q] = req[q]
    BY <1>1, OwnerKept DEF OwnerChecked, CheckedLabels
  <1>2. ASSUME NEW r \in Requests, Arrival(r), req'[q] # req[q]
        PROVE  FALSE
    BY <1>2, ArrivalShape
       DEF CheckedLabels, Refused, Creates, StartsPart, Takes
  <1>3. ASSUME NEW r \in Requests, HandlerStep(r), req'[q] # req[q]
        PROVE  req'[q].user = owner'[req'[q].upload]
    BY <1>3, HandlerShape, OwnerStep
  <1>4. CASE Crash
    BY <1>4 DEF Crash, Idle, CheckedLabels
  <1>5. QED
    BY <1>1, <1>2, <1>3, <1>4 DEF Next, vars

LEMMA InitIInv == Init => IInv
  <1> SUFFICES ASSUME Init PROVE IInv
    OBVIOUS
  <1>1. TypeOK
    BY InitTypeOK
  <1>2. \A r \in Requests : req[r].pc = "idle" /\ req[r].upload = None
    BY DEF Init, Idle
  <1>3. Custody /\ PartBodies /\ OrderedRecorded /\ OwnerChecked /\ AnnouncedLast
    BY <1>2, NoneAssumption
       DEF Init, Custody, PartBodies, OrderedRecorded, OwnerChecked, AnnouncedLast, At,
           Holds, HoldLabels, FinishLabels, PartLabels, Completing
  <1>4. QED
    BY <1>1, <1>3 DEF IInv

LEMMA StepIInv == IInv /\ [Next]_vars => IInv'
  BY StepTypeOK, StepCustody, StepPartBodies, StepOrderedRecorded,
     StepOwnerChecked, StepAnnouncedLast DEF IInv

LEMMA Invariance == Spec => []IInv
  BY InitIInv, StepIInv, PTL DEF Spec

(* For any number of requests, two of them never finish the same upload,    *)
(* and an upload being finished has left s.uploads: the deletion of the map *)
(* entry under uploadMu hands it over exactly once.                         *)
THEOREM FinishedOnce == Spec => []OneFinisher
  <1>1. IInv => OneFinisher
    BY DEF IInv, Custody, OneFinisher, Finishes, Holds, HoldLabels
  <1>2. QED
    BY <1>1, Invariance, PTL

(* For any number of users and requests, an object appears at S3 only       *)
(* through a completion of the user who started the upload.                 *)
THEOREM OwnerCompletes == Spec => OnlyOwnerCompletes
  <1> DEFINE Owned ==
        \A u \in Uploads :
          phase'[u] = "completed" /\ phase[u] # "completed" =>
            \E r \in Requests : /\ At(r, "complete_hash")
                                /\ req[r].upload = u
                                /\ req[r].user = owner[u]
  <1>1. ASSUME IInv, [Next]_vars PROVE Owned
    <2> SUFFICES ASSUME NEW u \in Uploads,
                        phase'[u] = "completed", phase[u] # "completed"
                 PROVE  \E r \in Requests : /\ At(r, "complete_hash")
                                            /\ req[r].upload = u
                                            /\ req[r].user = owner[u]
      OBVIOUS
    <2>1. phase \in [Uploads -> {"absent", "open", "completed", "aborted"}]
      BY <1>1 DEF IInv, TypeOK
    <2>2. PICK r \in Requests : CompleteSend(r)
      <3>1. ASSUME NEW q \in Requests, Arrival(q)
            PROVE  FALSE
        BY <2>1, <3>1
           DEF Arrival, InitCreate, PartLookup, CompleteTake, AbortTake,
               MultipartAbort, S3Abort, s3Vars
      <3>2. ASSUME NEW q \in Requests, HandlerStep(q)
            PROVE  CompleteSend(q)
        BY <2>1, <3>2
           DEF HandlerStep, InitRegister, InitNoTempDir, InitAbort, PartSend,
               PartOpen, PartWrite, PartRecord, CompleteCheck, CompleteOrder,
               CompleteHash, CompleteAbort, CompleteReply, AbortSend, RemoveFiles, RemoveDir,
               TryAbort, S3Abort, s3Vars
      <3>3. QED
        BY SMTT(30), <1>1, <3>1, <3>2 DEF Next, Crash, vars, s3Vars
    <2>3. At(r, "complete_hash") /\ req[r].upload = u
      BY <2>1, <2>2 DEF CompleteSend, S3Complete
    <2>4. req[r].user = owner[u]
      BY <1>1, <2>3 DEF IInv, OwnerChecked, At
    <2>5. QED
      BY <2>3, <2>4
  <1>2. QED
    BY <1>1, Invariance, PTL DEF Spec, OnlyOwnerCompletes

-----------------------------------------------------------------------------
(* MultipartUpload implements AtomicUpload *)

(* A step that leaves S3, the recorded parts and the audit log alone is a   *)
(* stutter of the atomic upload.                                            *)
LEMMA AtomicStutter ==
    ASSUME UNCHANGED <<phase, parts, object, audited>>
    PROVE  UNCHANGED Atomic!vars
  BY DEF Atomic!vars

(* An abort that reaches S3 drops an open upload and no other.              *)
LEMMA AtomicAbort ==
    ASSUME TypeOK, NEW u \in Uploads, NEW c, TryAbort(u, c),
           UNCHANGED <<parts, object, audited>>
    PROVE  Atomic!Drop(u) \/ UNCHANGED Atomic!vars
  <1>1. phase \in [Uploads -> {"absent", "open", "completed", "aborted"}]
    BY DEF TypeOK
  <1>2. CASE phase[u] = "open" /\ phase' = [phase EXCEPT ![u] = "aborted"]
    BY <1>2 DEF Atomic!Drop
  <1>3. CASE phase' = phase
    BY <1>3, AtomicStutter
  <1>4. QED
    BY <1>1, <1>2, <1>3 DEF TryAbort, S3Abort

LEMMA InitAtomic == Init => Atomic!Init
  BY EmptySeq DEF Init, NoParts, PartNumbers, Atomic!Init

LEMMA StepAtomic == IInv /\ [Next]_vars => [Atomic!Next]_Atomic!vars
  <1> SUFFICES ASSUME IInv, [Next]_vars
               PROVE  Atomic!Next \/ UNCHANGED Atomic!vars
    OBVIOUS
  <1>t. /\ TypeOK
        /\ phase \in [Uploads -> {"absent", "open", "completed", "aborted"}]
        /\ parts \in [Uploads -> [PartNumbers -> Contents \cup {None}]]
        /\ object \in [Uploads -> Seq(Contents \cup {None})]
        /\ audited \in [Uploads -> Seq(Seq(Contents \cup {None, Torn}))]
        /\ \A r \in Requests : /\ req[r] \in RequestType
                               /\ req[r].pc # "idle" => req[r].upload \in Uploads
    BY DEF IInv, TypeOK, RequestsOK
  <1>1. ASSUME NEW r \in Requests, Arrival(r)
        PROVE  Atomic!Next \/ UNCHANGED Atomic!vars
    <2> PICK u \in Uploads :
          \/ \E usr \in Users :
               \/ \E c \in Connections : InitCreate(r, usr, c, u)
               \/ \E n \in PartNumbers, b \in Contents : PartLookup(r, usr, u, n, b)
               \/ \E c \in Connections \cup {None} : CompleteTake(r, usr, u, c)
               \/ AbortTake(r, usr, u)
          \/ \E c \in Connections : MultipartAbort(r, u, c)
      BY <1>1 DEF Arrival
    <2>1. ASSUME NEW usr \in Users, NEW c \in Connections, InitCreate(r, usr, c, u)
          PROVE  Atomic!Open(u)
      BY <2>1 DEF InitCreate, Atomic!Open
    <2>2. ASSUME NEW usr \in Users, NEW n \in PartNumbers, NEW b \in Contents,
                 PartLookup(r, usr, u, n, b)
          PROVE  UNCHANGED Atomic!vars
      BY <2>2, AtomicStutter DEF PartLookup, heapVars, s3Vars
    <2>3. ASSUME NEW usr \in Users, NEW c \in Connections \cup {None},
                 CompleteTake(r, usr, u, c)
          PROVE  UNCHANGED Atomic!vars
      BY <2>3, AtomicStutter DEF CompleteTake, heapVars, s3Vars
    <2>4. ASSUME NEW usr \in Users, AbortTake(r, usr, u)
          PROVE  UNCHANGED Atomic!vars
      BY <2>4, AtomicStutter DEF AbortTake, heapVars, s3Vars
    <2>5. ASSUME NEW c \in Connections, MultipartAbort(r, u, c)
          PROVE  Atomic!Drop(u) \/ UNCHANGED Atomic!vars
      BY <1>t, <2>5, AtomicAbort DEF MultipartAbort, TryAbort, heapVars
    <2>6. QED
      BY <2>1, <2>2, <2>3, <2>4, <2>5 DEF Atomic!Next
  <1>2. ASSUME NEW r \in Requests, HandlerStep(r)
        PROVE  Atomic!Next \/ UNCHANGED Atomic!vars
    <2> PICK u \in Uploads : u = req[r].upload
      BY <1>2, <1>t, HandlerShape
    <2>1. CASE \/ InitRegister(r) \/ InitNoTempDir(r) \/ PartSend(r)
               \/ PartOpen(r) \/ PartWrite(r) \/ CompleteCheck(r)
               \/ CompleteOrder(r) \/ CompleteHash(r) \/ RemoveFiles(r)
               \/ RemoveDir(r)
      <3>1. UNCHANGED <<phase, parts, object, audited>>
        BY <2>1 DEF InitRegister, InitNoTempDir, PartSend, PartOpen, PartWrite,
             CompleteCheck, CompleteOrder, CompleteHash, RemoveFiles, RemoveDir,
             heapVars, s3Vars
      <3>2. QED
        BY <3>1, AtomicStutter
    <2>2. CASE InitAbort(r) \/ CompleteAbort(r) \/ AbortSend(r)
      <3>1. /\ UNCHANGED <<parts, object, audited>>
            /\ \E c : TryAbort(u, c)
        BY <2>2 DEF InitAbort, CompleteAbort, AbortSend, RemoveFiles, RemoveDir, heapVars
      <3>2. QED
        BY <1>t, <3>1, AtomicAbort DEF Atomic!Next
    <2>3. CASE PartRecord(r)
      <3> DEFINE n == req[r].part
      <3>1. CASE parts[u][n] = None /\ parts' = [parts EXCEPT ![u][n] = req[r].body]
        <4>1. n \in 1..MaxPart /\ req[r].body \in Contents
          BY <1>t, <2>3 DEF IInv, PartBodies, PartLabels, PartRecord, At, RequestType,
             PartNumbers
        <4>2. phase[u] # "absent"
          BY DEF IInv, Custody
        <4>3. UNCHANGED <<phase, object, audited>>
          BY <2>3 DEF PartRecord, s3Vars
        <4>4. Atomic!Accept(u, n, req[r].body)
          BY <3>1, <4>2, <4>3 DEF Atomic!Accept
        <4>5. QED
          BY <4>1, <4>4 DEF Atomic!Next
      <3>2. CASE UNCHANGED parts
        BY <2>3, <3>2, AtomicStutter DEF PartRecord, s3Vars
      <3>3. QED
        BY <2>3, <3>1, <3>2 DEF PartRecord
    <2>4. CASE CompleteSend(r)
      <3> DEFINE k == Len(req[r].ordered)
      <3>1. CASE phase[u] = "open" /\ S3Complete(u, req[r].ordered)
        <4>1. /\ k \in 1..MaxPart
              /\ \A n \in 1..k : parts[u][n] = req[r].ordered[n] /\ parts[u][n] # None
          BY <2>4 DEF IInv, OrderedRecorded, CompleteSend, At, PartNumbers
        <4>2. req[r].ordered = [n \in 1..k |-> parts[u][n]]
          <5>1. req[r].ordered \in Seq(Contents \cup {None})
            BY <1>t DEF RequestType
          <5>2. req[r].ordered = [n \in 1..k |-> req[r].ordered[n]]
            BY <5>1
          <5>3. QED
            BY <4>1, <5>2
        <4>3. UNCHANGED <<parts, audited>>
          BY <2>4 DEF CompleteSend, heapVars
        <4>4. Atomic!Publish(u, k)
          BY <3>1, <4>1, <4>2, <4>3 DEF S3Complete, Atomic!Publish
        <4>5. QED
          BY <4>1, <4>4 DEF Atomic!Next
      <3>2. CASE UNCHANGED <<phase, object>>
        BY <2>4, <3>2, AtomicStutter DEF CompleteSend, heapVars
      <3>3. QED
        BY <2>4, <3>1, <3>2 DEF CompleteSend, S3Accepts
    <2>5. CASE CompleteReply(r)
      <3>1. CASE audited' = [audited EXCEPT ![u] = Append(@, req[r].hashed)]
        <4>1. phase[u] = "completed" /\ audited[u] = <<>>
          BY <2>5 DEF IInv, AnnouncedLast, CompleteReply, Completing, At, Holds,
                      HoldLabels, FinishLabels
        <4>2. Len(Append(audited[u], req[r].hashed)) = 1 /\ Len(audited[u]) = 0
          BY <1>t, <4>1 DEF RequestType
        <4>3. UNCHANGED <<phase, parts, object>>
          BY <2>5 DEF CompleteReply, heapVars, s3Vars
        <4>4. [v \in Uploads |-> Len(audited'[v])]
                = [[v \in Uploads |-> Len(audited[v])] EXCEPT ![u] = 1]
          BY <1>t, <3>1, <4>2
        <4>5. Atomic!Announce(u)
          BY <4>1, <4>2, <4>3, <4>4 DEF Atomic!Announce
        <4>6. QED
          BY <4>5 DEF Atomic!Next
      <3>2. CASE UNCHANGED audited
        BY <2>5, <3>2, AtomicStutter DEF CompleteReply, heapVars, s3Vars
      <3>3. QED
        BY <2>5, <3>1, <3>2 DEF CompleteReply
    <2>6. QED
      BY <1>2, <2>1, <2>2, <2>3, <2>4, <2>5 DEF HandlerStep
  <1>3. CASE Crash \/ UNCHANGED vars
    BY <1>3, AtomicStutter DEF Crash, vars, heapVars, s3Vars
  <1>4. QED
    BY <1>1, <1>2, <1>3 DEF Next

(* Every behaviour of the handlers, with any interleaving, failures and     *)
(* restarts, is one of an atomic upload: parts are accepted once, an object *)
(* is a prefix of the accepted parts, and success is announced at most      *)
(* once and only for an object that exists.                                 *)
THEOREM Refinement == Spec => ImplementsAtomic
  BY InitAtomic, StepAtomic, Invariance, PTL
     DEF Spec, ImplementsAtomic, Atomic!Spec

-----------------------------------------------------------------------------
(* The browser's calls and their handlers *)

InitLabels == {"init_register", "init_abort"}
RemoveLabels == {"remove_files", "remove_dir"}

(* The client's calls are requests of their own, one per part.              *)
LEMMA CallFacts ==
    /\ Call("init") \in Requests /\ Call("complete") \in Requests
    /\ Call("delete") \in Requests /\ Stranger \in Requests
    /\ \A n \in DOMAIN File :
         /\ PartCall(n) \in Requests
         /\ PartCall(n) \notin {Call("init"), Call("complete"), Call("delete"), Stranger}
    /\ \A m, n : PartCall(m) = PartCall(n) => m = n
    /\ Call("init") \notin {Call("complete"), Call("delete"), Stranger}
    /\ Call("complete") \notin {Call("delete"), Stranger}
    /\ Call("delete") # Stranger
  BY ClientAssumption DEF ClientCalls, Call, PartCall, Stranger

LEMMA FileFacts ==
    /\ File \in Seq(Contents) /\ Len(File) \in Nat \ {0}
    /\ DOMAIN File = 1..Len(File)
    /\ \A n \in DOMAIN File :
         /\ n \in PartNumbers /\ File[n] \in Contents
         /\ File[n] # None /\ File[n] # Torn
    /\ ClientUpload \in Uploads
  <1>1. /\ File \in Seq(Contents) /\ Len(File) \in PartNumbers
        /\ ClientUpload \in Uploads
    BY ClientAssumption
  <1>2. DOMAIN File = 1..Len(File) /\ Len(File) \in Nat \ {0}
    BY <1>1, MaxPartAssumption DEF PartNumbers
  <1>3. ASSUME NEW n \in DOMAIN File
        PROVE  n \in PartNumbers /\ File[n] \in Contents
    BY <1>1, <1>2, MaxPartAssumption DEF PartNumbers
  <1>4. QED
    BY <1>1, <1>2, <1>3, NoneAssumption, TornAssumption

(* A step of the browser and its server is one of the server's, or leaves   *)
(* the server alone but for the failure it inflicts.                        *)
LEMMA ClientNextIsNext ==
    ASSUME [ClientNext]_clientVars
    PROVE  \/ [Next]_vars
           \/ LoseAnswer \/ LoseInitAnswer
  <1> USE CallFacts, FileFacts, ClientAssumption
  <1>1. CASE Start
    BY <1>1 DEF Start, Next, Arrival
  <1>2. ASSUME NEW n \in DOMAIN File, PartArrives(n)
        PROVE  Next
    <2>1. PartLookup(PartCall(n), Browser, ClientUpload, n, File[n])
      BY <1>2 DEF PartArrives
    <2>2. Arrival(PartCall(n))
      BY <2>1 DEF Arrival
    <2>3. QED
      BY <2>2 DEF Next
  <1>3. CASE Finalize
    <2>1. PICK c \in Connections \cup {None} :
            CompleteTake(Call("complete"), Browser, ClientUpload, c)
      BY <1>3 DEF Finalize
    <2>2. Arrival(Call("complete"))
      BY <2>1 DEF Arrival
    <2>3. QED
      BY <2>2 DEF Next
  <1>4. CASE Cleanup
    <2>1. Arrival(Call("delete"))
      BY <1>4 DEF Cleanup, Arrival
    <2>2. QED
      BY <2>1 DEF Next
  <1>5. CASE StrangerAborts
    <2>1. Arrival(Stranger)
      BY <1>5 DEF StrangerAborts, Arrival
    <2>2. QED
      BY <2>1 DEF Next
  <1>6. CASE ServerStep
    BY <1>6 DEF ServerStep, Next
  <1>7. ASSUME NEW n \in DOMAIN File, PartAnswered(n)
        PROVE  UNCHANGED vars
    BY <1>7 DEF PartAnswered
  <1>8. CASE \/ Started \/ Batch \/ Finalized \/ CallRefused \/ CleanupRefused
             \/ Settled \/ UNCHANGED clientVars
    BY <1>8 DEF Started, Batch, Finalized, CallRefused, CleanupRefused, Settled,
       clientVars
  <1>9. QED
    BY <1>1, <1>2, <1>3, <1>4, <1>5, <1>6, <1>7, <1>8 DEF ClientNext, ClientStep

LEMMA StepServerIInv == IInv /\ [ClientNext]_clientVars => IInv'
  <1>1. ASSUME IInv, LoseAnswer \/ LoseInitAnswer PROVE IInv'
    <2>1. /\ Fault
          /\ UNCHANGED <<live, heapVars, diskVars, s3Vars, req, audited>>
      BY <1>1 DEF LoseAnswer, LoseInitAnswer
    <2>2. TypeOK'
      <3>1. faults' \in 0..MaxFaults
        BY <1>1, <2>1, FaultType DEF IInv
      <3>2. QED
        BY <1>1, <2>1, <3>1 DEF IInv, TypeOK, RequestsOK, heapVars, diskVars, s3Vars
    <2>3. QED
      BY <1>1, <2>1, <2>2 DEF IInv, Custody, PartBodies, OrderedRecorded, OwnerChecked,
         AnnouncedLast, Completing, Holds, At, heapVars, diskVars, s3Vars
  <1>2. QED
    BY <1>1, StepIInv, ClientNextIsNext

(* A handler ends or goes on within its kind, for the same part, until it   *)
(* comes to its cleanup with the answer it will give.                       *)
LEMMA HandlerClass ==
    ASSUME TypeOK, NEW r \in Requests, HandlerStep(r)
    PROVE  /\ \A q \in Requests \ {r} : req'[q] = req[q]
           /\ req[r].pc # "idle"
           /\ req'[r].pc \in {"remove_dir", "complete_reply"} =>
                RemoveFiles(r) \/ RemoveDir(r)
           /\ \/ req'[r].pc = "idle"
              \/ /\ req'[r].upload = req[r].upload /\ req'[r].part = req[r].part
                 /\ req'[r].body = req[r].body
                 /\ req'[r].pc \in InitLabels => req[r].pc \in InitLabels
                 /\ req'[r].pc \in PartLabels => req[r].pc \in PartLabels
                 /\ req'[r].pc \in CompletionLabels =>
                      \/ req[r].pc \in CompletionLabels
                      \/ req[r].pc \in RemoveLabels /\ req[r].status = "none"
                 /\ req'[r].pc \in RemoveLabels =>
                      \/ req[r].pc \in RemoveLabels /\ req'[r].status = req[r].status
                      \/ req[r].pc \in CompletionLabels /\ req'[r].status # "ok"
                      \/ req[r].pc = "abort_send" /\ req'[r].status # "none"
                 /\ req'[r].pc # "abort_send"
  <1> USE DEF InitLabels, PartLabels, CompletionLabels, RemoveLabels, At
  <1>1. req \in [Requests -> RequestType] /\ req[r] \in RequestType
    BY DEF TypeOK, RequestsOK
  <1>2. ASSUME NEW status, Answer(r, status)
        PROVE  /\ \A q \in Requests \ {r} : req'[q] = req[q]
               /\ req'[r].pc = "idle"
    BY <1>1, <1>2 DEF Answer, Idle
  <1>3. ASSUME NEW label, Goto(r, label)
        PROVE  /\ \A q \in Requests \ {r} : req'[q] = req[q]
               /\ req'[r].pc = label /\ req'[r].upload = req[r].upload
               /\ req'[r].part = req[r].part /\ req'[r].body = req[r].body
               /\ req'[r].status = req[r].status
    BY <1>1, <1>3 DEF Goto, RequestType
  <1>c. ASSUME NEW status, CleanUp(r, status)
        PROVE  /\ \A q \in Requests \ {r} : req'[q] = req[q]
               /\ req'[r].pc = "remove_files" /\ req'[r].upload = req[r].upload
               /\ req'[r].part = req[r].part /\ req'[r].body = req[r].body
               /\ req'[r].status = status
    BY <1>1, <1>c DEF CleanUp, RequestType
  <1>4. CASE InitRegister(r) \/ InitNoTempDir(r) \/ InitAbort(r)
    BY <1>2, <1>3, <1>4 DEF InitRegister, InitNoTempDir, InitAbort
  <1>5. CASE PartSend(r) \/ PartOpen(r) \/ PartWrite(r) \/ PartRecord(r)
    BY <1>2, <1>3, <1>5 DEF PartSend, PartOpen, PartWrite, PartRecord
  <1>6. CASE CompleteCheck(r) \/ CompleteSend(r)
    BY <1>2, <1>3, <1>c, <1>6 DEF CompleteCheck, CompleteSend
  <1>7. CASE CompleteOrder(r)
    <2>1. ASSUME NEW ordered,
                 req' = [req EXCEPT ![r].pc = "complete_hash", ![r].ordered = ordered]
          PROVE  /\ \A q \in Requests \ {r} : req'[q] = req[q]
                 /\ req'[r].pc = "complete_hash" /\ req'[r].upload = req[r].upload
                 /\ req'[r].part = req[r].part /\ req'[r].body = req[r].body
      BY <1>1, <2>1 DEF RequestType
    <2>2. QED
      BY <1>c, <1>7, <2>1 DEF CompleteOrder
  <1>8. CASE CompleteHash(r)
    <2>1. ASSUME NEW hashed, req' = [req EXCEPT ![r].hashed = hashed]
          PROVE  /\ \A q \in Requests \ {r} : req'[q] = req[q]
                 /\ req'[r].pc = req[r].pc /\ req'[r].upload = req[r].upload
                 /\ req'[r].part = req[r].part /\ req'[r].body = req[r].body
      BY <1>1, <2>1 DEF RequestType
    <2>2. \/ req' = [req EXCEPT ![r].hashed =
                        Append(req[r].hashed, file[req[r].upload][Len(req[r].hashed) + 1])]
          \/ CleanUp(r, "error")
      BY <1>8 DEF CompleteHash
    <2>3. QED
      BY <1>c, <1>8, <2>1, <2>2 DEF CompleteHash
  <1>9. CASE CompleteAbort(r) \/ CompleteReply(r) \/ AbortSend(r)
    BY <1>2, <1>c, <1>9 DEF CompleteAbort, CompleteReply, AbortSend
  <1>10. CASE RemoveFiles(r) \/ RemoveDir(r)
    <2>1. CASE Goto(r, "remove_dir")
      BY <1>3, <1>10, <2>1 DEF RemoveFiles, RemoveDir
    <2>2. CASE AfterCleanUp(r)
      BY <1>2, <1>3, <1>10, <2>2 DEF RemoveFiles, RemoveDir, AfterCleanUp
    <2>3. QED
      BY <1>10, <2>1, <2>2 DEF RemoveFiles, RemoveDir
  <1>11. QED
    BY <1>4, <1>5, <1>6, <1>7, <1>8, <1>9, <1>10 DEF HandlerStep

-----------------------------------------------------------------------------
(* The steps of the browser's promise *)

LEMMA StepClientOK ==
    ASSUME ClientOK, [ClientNext]_clientVars
    PROVE  ClientOK'
  <1> USE FileFacts DEF ClientOK, In, Become
  <1>1. ASSUME NEW label \in {"initializing", "uploading", "finalizing",
                              "cleanup", "done", "failed"},
               label = "initializing" => In("start"),
               Become(label)
        PROVE  ClientOK'
    BY <1>1
  <1>2. CASE \/ Start \/ Started \/ LoseInitAnswer \/ Finalize \/ Finalized
             \/ Cleanup \/ CleanupRefused
    <2>1. \E label \in {"initializing", "uploading", "finalizing",
                        "cleanup", "done", "failed"} :
            Become(label) /\ (label = "initializing" => In("start"))
      BY <1>2 DEF Start, Started, LoseInitAnswer, Finalize, Finalized, Cleanup,
         CleanupRefused
    <2>2. QED
      BY <1>1, <2>1
  <1>3. CASE Batch
    <2> PICK last : /\ last = IF client.next + Concurrency - 1 < Len(File)
                              THEN client.next + Concurrency - 1 ELSE Len(File)
                    /\ client.pc = "uploading"
                    /\ client.waiting = {} /\ client.next <= Len(File)
                    /\ client' = [client EXCEPT !.next = last + 1,
                            !.flying = client.flying \cup (client.next..last),
                            !.waiting = client.next..last]
      BY <1>3 DEF Batch
    <2>1. /\ client.next \in Nat \ {0} /\ Len(File) \in Nat /\ Concurrency \in Nat \ {0}
          /\ client.flying \subseteq 1..Len(File)
          /\ \A n \in client.flying : n < client.next
      BY ClientAssumption
    <2>2. last \in Nat /\ client.next <= last /\ last <= Len(File)
      BY <2>1
    <2>3. /\ client'.next = last + 1 /\ client'.pc = client.pc
          /\ client'.flying = client.flying \cup (client.next..last)
          /\ client'.waiting = client.next..last
      OBVIOUS
    <2>4. last + 1 \in 1..(Len(File) + 1) /\ client.next..last \subseteq 1..Len(File)
      BY <2>1, <2>2
    <2>5. \A n \in client'.flying : n < client'.next
      BY <2>1, <2>2, <2>3
    <2>6. client' \in [pc : {"start", "initializing", "uploading", "finalizing",
                             "cleanup", "done", "failed"},
                       next : 1..(Len(File) + 1),
                       flying : SUBSET DOMAIN File, waiting : SUBSET DOMAIN File]
      BY <2>1, <2>4
    <2>7. QED
      BY <2>3, <2>5, <2>6
  <1>4. ASSUME NEW n \in DOMAIN File, PartArrives(n) \/ PartAnswered(n)
        PROVE  ClientOK'
    BY <1>1, <1>4 DEF PartArrives, PartAnswered
  <1>5. CASE LoseAnswer \/ CallRefused
    <2>0. CASE Become("cleanup")
      BY <1>1, <2>0
    <2> SUFFICES ASSUME ~Become("cleanup") PROVE ClientOK'
      BY <2>0
    <2> PICK lost \in SUBSET client.flying :
          client' = [client EXCEPT !.pc = "cleanup", !.flying = client.flying \ lost]
      BY <1>5 DEF LoseAnswer, CallRefused
    <2>1. /\ client'.pc = "cleanup" /\ client'.next = client.next
          /\ client'.flying \subseteq client.flying
      OBVIOUS
    <2>2. QED
      BY <2>1
  <1>6. CASE ServerStep \/ StrangerAborts \/ Settled \/ UNCHANGED clientVars
    BY <1>6 DEF ServerStep, StrangerAborts, Settled, clientVars
  <1>7. QED
    BY <1>2, <1>3, <1>4, <1>5, <1>6 DEF ClientNext, ClientStep

(* The steps that move the promise only: the server's variables that        *)
(* ClientInv speaks of do not change.                                       *)
ServerVars == <<live, parts, dir, file, stuck, phase, object, req, audited>>

LEMMA PromiseStep ==
    ASSUME IInv, ClientInv, [ClientNext]_clientVars, UNCHANGED ServerVars,
           client' # client =>
             \/ Started \/ LoseInitAnswer \/ Batch \/ Finalized \/ LoseAnswer
             \/ CallRefused \/ CleanupRefused
             \/ \E n \in DOMAIN File : PartAnswered(n)
    PROVE  ClientInv'
  <1> USE DEF ServerVars, In, At, Answered
  <1>1. ClientOK'
    BY StepClientOK DEF ClientInv
  <1>2. ASSUME UNCHANGED client
        PROVE  ClientInv'
    <2>1. Roles'
      BY <1>2 DEF ClientInv, Roles, Role
    <2>2. SentOnce'
      BY <1>2 DEF ClientInv, SentOnce, Once, Unsent
    <2>3. Awaited' /\ Hashing' /\ Cleared'
      BY <1>2 DEF ClientInv, Awaited, AllRecorded, Hashing, Completing, Cleared
    <2>4. Outcome'
      BY <1>2 DEF ClientInv, Outcome, ObjectIsFile
    <2>5. QED
      BY <1>1, <2>1, <2>2, <2>3, <2>4 DEF ClientInv
  <1>3. ClientOK /\ Roles /\ SentOnce /\ Awaited /\ Hashing /\ Cleared /\ Outcome
    BY DEF ClientInv
  <1>4. Hashing' /\ Cleared' /\ ObjectIsFile'
    BY <1>3 DEF Hashing, Completing, Cleared, Outcome, ObjectIsFile
  <1>5. ASSUME \A n \in DOMAIN File : Unsent(n)' => Unsent(n)
        PROVE  SentOnce'
    BY <1>3, <1>5 DEF SentOnce, Once
  <1>6. ASSUME client.pc # "failed",
               client.pc = "initializing" => At(Call("init"), "idle"),
               client.next > 1 => client'.next > 1
        PROVE  Roles'
    <2>1. \A q \in Requests : req[q].pc \notin {"init_register", "init_abort"}
      BY <1>3, <1>6 DEF Roles, Role
    <2>2. QED
      BY <1>3, <1>6, <2>1 DEF Roles, Role
  <1>7. ASSUME client.next > 1 => client'.next > 1,
               client'.pc = "done" =>
                 client.pc = "done" \/ Answered(Call("complete"), "ok")
        PROVE  Outcome'
    BY <1>3, <1>4, <1>7 DEF Outcome
  <1>8. CASE Started \/ LoseInitAnswer
    <2>1. /\ client.pc = "initializing"
          /\ client'.pc \in {"uploading", "failed"} /\ client.next = 1
          /\ client'.next = client.next /\ client'.flying = client.flying
          /\ client'.waiting = client.waiting
      BY <1>3, <1>8 DEF Started, LoseInitAnswer, Become, ClientOK
    <2>2. Roles'
      <3>1. CASE Started
        BY <1>6, <2>1, <3>1 DEF Started
      <3>2. CASE LoseInitAnswer
        <4>1. client'.pc = "failed"
          BY <1>3, <3>2 DEF LoseInitAnswer, Become, ClientOK
        <4>2. QED
          BY <1>3, <2>1, <4>1 DEF Roles, Role
      <3>3. QED
        BY <1>8, <3>1, <3>2
    <2>3. SentOnce'
      BY <1>5, <2>1 DEF Unsent
    <2>4. Awaited'
      BY <1>3, <2>1, FileFacts DEF Awaited, AllRecorded
    <2>5. Outcome'
      BY <1>7, <2>1
    <2>6. QED
      BY <1>1, <1>4, <2>2, <2>3, <2>4, <2>5 DEF ClientInv
  <1>9. CASE Batch
    <2> PICK last : /\ last = IF client.next + Concurrency - 1 < Len(File)
                              THEN client.next + Concurrency - 1 ELSE Len(File)
                    /\ client.pc = "uploading"
                    /\ client.waiting = {} /\ client.next <= Len(File)
                    /\ client' = [client EXCEPT !.next = last + 1,
                            !.flying = client.flying \cup (client.next..last),
                            !.waiting = client.next..last]
      BY <1>9 DEF Batch
    <2>1. /\ client.next \in Nat /\ Len(File) \in Nat /\ Concurrency \in Nat \ {0}
          /\ \A n \in DOMAIN File : n \in Nat
      BY <1>3, FileFacts, ClientAssumption DEF ClientOK
    <2>2. last \in Nat /\ client.next <= last
      BY <2>1
    <2>3. /\ client'.next = last + 1 /\ client'.pc = "uploading"
          /\ client'.flying = client.flying \cup (client.next..last)
          /\ client'.waiting = client.next..last
      BY <1>3 DEF ClientOK
    <2> HIDE DEF ClientInv
    <2>4. ASSUME NEW n \in DOMAIN File
          PROVE  /\ Unsent(n)' => Unsent(n)
                 /\ n < client'.next /\ n \notin client'.waiting => n < client.next
      BY <2>1, <2>2, <2>3 DEF Unsent
    <2>5. client.next > 1 => client'.next > 1
      BY <2>1, <2>2, <2>3
    <2>6. SentOnce' /\ Roles' /\ Outcome'
      BY <1>5, <1>6, <1>7, <2>3, <2>4, <2>5
    <2>7. Awaited'
      BY <1>3, <2>3, <2>4 DEF Awaited, AllRecorded
    <2>8. QED
      BY <1>1, <1>4, <2>6, <2>7 DEF ClientInv
  <1>10. ASSUME NEW n \in DOMAIN File, PartAnswered(n)
         PROVE  ClientInv'
    <2>1. /\ client.pc = "uploading" /\ client'.pc \in {"uploading", "cleanup"}
          /\ client'.next = client.next /\ client'.flying = client.flying
          /\ \/ client'.waiting = client.waiting \ {n} /\ Answered(PartCall(n), "ok")
             \/ client'.pc = "cleanup"
      BY <1>3, <1>10 DEF PartAnswered, Become, ClientOK
    <2>2. Roles' /\ SentOnce' /\ Outcome'
      BY <1>5, <1>6, <1>7, <2>1 DEF Unsent
    <2>3. Awaited'
      BY <1>3, <2>1 DEF Awaited, AllRecorded, SentOnce, Once
    <2>4. QED
      BY <1>1, <1>4, <2>2, <2>3 DEF ClientInv
  <1>11. CASE Finalized
    <2>1. /\ client.pc = "finalizing" /\ client'.pc \in {"done", "cleanup"}
          /\ client'.next = client.next /\ client'.flying = client.flying
          /\ client'.pc = "done" => Answered(Call("complete"), "ok")
      BY <1>3, <1>11 DEF Finalized, Become, ClientOK
    <2>2. Roles' /\ SentOnce' /\ Outcome'
      BY <1>5, <1>6, <1>7, <2>1 DEF Unsent
    <2>3. Awaited'
      BY <1>3, <2>1 DEF Awaited, AllRecorded
    <2>4. QED
      BY <1>1, <1>4, <2>2, <2>3 DEF ClientInv
  <1>12. CASE LoseAnswer \/ CallRefused \/ CleanupRefused
    <2>1. /\ client.pc \in {"uploading", "finalizing", "cleanup"}
          /\ client'.pc \in {"cleanup", "failed"}
          /\ client'.next = client.next /\ client'.flying \subseteq client.flying
      BY <1>3, <1>12 DEF LoseAnswer, CallRefused, CleanupRefused, Become, ClientOK
    <2>2. Roles' /\ SentOnce' /\ Outcome'
      BY <1>5, <1>6, <1>7, <2>1 DEF Unsent
    <2>3. Awaited'
      BY <1>3, <2>1 DEF Awaited, AllRecorded
    <2>4. QED
      BY <1>1, <1>4, <2>2, <2>3 DEF ClientInv
  <1>13. QED
    BY <1>2, <1>8, <1>9, <1>10, <1>11, <1>12

-----------------------------------------------------------------------------
(* The steps of the handlers *)

LEMMA HandlerRoles ==
    ASSUME IInv, ClientInv, NEW r \in Requests, HandlerStep(r), UNCHANGED client
    PROVE  Roles'
  <1>1. Role(r) /\ \A q \in Requests : Role(q)
    BY DEF ClientInv, Roles
  <1>2. ASSUME NEW q \in Requests \ {r}
        PROVE  Role(q)'
    <2>1. req'[q] = req[q]
      BY HandlerClass DEF IInv
    <2>2. QED
      BY <1>1, <2>1 DEF Role, In, At
  <1>3. Role(r)'
    <2>1. CASE req'[r].pc = "idle"
      BY <2>1 DEF Role, PartLabels, CompletionLabels, At
    <2>2. CASE req'[r].pc # "idle"
      <3> USE DEF InitLabels, PartLabels, CompletionLabels, RemoveLabels
      <3>1. /\ req[r].pc # "idle"
            /\ req'[r].upload = req[r].upload /\ req'[r].part = req[r].part
            /\ req'[r].body = req[r].body
            /\ req'[r].pc # "abort_send"
        BY <2>2, HandlerClass DEF IInv
      <3>2. CASE req'[r].pc \in InitLabels
        BY <1>1, <2>2, <3>1, <3>2, HandlerClass DEF IInv, Role, In, At
      <3>3. CASE req'[r].pc \in PartLabels
        BY <1>1, <2>2, <3>1, <3>3, HandlerClass DEF IInv, Role, In, At
      <3>4. CASE req'[r].pc \in CompletionLabels
        <4>1. \/ req[r].pc \in CompletionLabels
              \/ req[r].pc \in RemoveLabels /\ req[r].status = "none"
          BY <2>2, <3>4, HandlerClass DEF IInv
        <4>2. r = Call("complete") /\ client.next > 1
          BY <1>1, <4>1 DEF Role
        <4>3. QED
          BY <1>1, <3>1, <3>4, <4>2 DEF Role, In, At
      <3>5. CASE req'[r].pc \in RemoveLabels
        <4>1. \/ req[r].pc \in RemoveLabels /\ req'[r].status = req[r].status
              \/ req[r].pc \in CompletionLabels /\ req'[r].status # "ok"
              \/ req[r].pc = "abort_send" /\ req'[r].status # "none"
          BY <2>2, <3>5, HandlerClass DEF IInv
        <4>2. \/ r = Call("complete") /\ client.next > 1 /\ req'[r].status # "ok"
              \/ r = Call("delete") /\ req'[r].status # "none"
          BY <1>1, <4>1 DEF Role, At
        <4>3. QED
          BY <1>1, <3>1, <3>5, <4>2 DEF Role, In, At
      <3>6. CASE req'[r].pc \notin InitLabels \cup PartLabels \cup CompletionLabels
                                    \cup RemoveLabels
        BY <1>1, <2>2, <3>1, <3>6 DEF Role, In, At
      <3>7. QED
        BY <3>2, <3>3, <3>4, <3>5, <3>6
    <2>3. QED
      BY <2>1, <2>2
  <1>4. QED
    BY <1>2, <1>3 DEF Roles

(* Outside the handler of a part nothing is recorded, and a part file can   *)
(* only go away.                                                            *)
LEMMA OtherHandlersKeep ==
    ASSUME TypeOK, NEW r \in Requests, HandlerStep(r), req[r].pc \notin PartLabels
    PROVE  /\ parts' = parts
           /\ \A u \in Uploads : file'[u] \in {file[u], NoParts}
  <1>1. file \in [Uploads -> [PartNumbers -> Contents \cup {None, Torn}]]
    BY DEF TypeOK
  <1>2. CASE \/ InitRegister(r) \/ InitNoTempDir(r) \/ InitAbort(r)
             \/ CompleteCheck(r) \/ CompleteOrder(r) \/ CompleteHash(r)
             \/ CompleteSend(r)
    BY <1>2 DEF InitRegister, InitNoTempDir, InitAbort, CompleteCheck, CompleteOrder,
       CompleteHash, CompleteSend, heapVars, diskVars
  <1>3. CASE CompleteAbort(r) \/ CompleteReply(r) \/ AbortSend(r)
    BY <1>3 DEF CompleteAbort, CompleteReply, AbortSend, heapVars, diskVars
  <1>4. CASE RemoveFiles(r) \/ RemoveDir(r)
    BY <1>1, <1>4 DEF RemoveFiles, RemoveDir, heapVars
  <1>5. ~PartSend(r) /\ ~PartOpen(r) /\ ~PartWrite(r) /\ ~PartRecord(r)
    BY DEF PartSend, PartOpen, PartWrite, PartRecord, At, PartLabels
  <1>6. QED
    BY <1>2, <1>3, <1>4, <1>5 DEF HandlerStep

LEMMA HandlerSentOnce ==
    ASSUME IInv, ClientInv, NEW r \in Requests, HandlerStep(r), UNCHANGED client
    PROVE  SentOnce'
  <1>1. /\ TypeOK /\ Roles /\ SentOnce /\ ClientUpload \in Uploads
        /\ \A n \in DOMAIN File : PartCall(n) \in Requests /\ File[n] # None /\ File[n] # Torn
        /\ \A q \in Requests \ {r} : req'[q] = req[q]
        /\ DOMAIN File \subseteq PartNumbers
        /\ None # Torn
    BY FileFacts, CallFacts, HandlerClass, NoneAssumption DEF IInv, ClientInv
  <1>2. /\ parts \in [Uploads -> [PartNumbers -> Contents \cup {None}]]
        /\ file \in [Uploads -> [PartNumbers -> Contents \cup {None, Torn}]]
        /\ req \in [Requests -> RequestType]
    BY <1>1 DEF TypeOK, RequestsOK
  <1>3. ASSUME NEW m \in DOMAIN File, PartCall(m) # r,
               parts'[ClientUpload][m] = parts[ClientUpload][m],
               file'[ClientUpload][m] \in {file[ClientUpload][m], None}
        PROVE  Once(m)'
    <2>1. Once(m)
      BY <1>1 DEF SentOnce
    <2>2. req'[PartCall(m)] = req[PartCall(m)]
      BY <1>1, <1>3
    <2>3. QED
      BY <1>1, <1>3, <2>1, <2>2 DEF Once, Unsent, At, Answered
  <1>4. CASE req[r].pc \notin PartLabels
    <2>1. /\ parts' = parts
          /\ file'[ClientUpload] \in {file[ClientUpload], NoParts}
      BY <1>1, <1>4, OtherHandlersKeep
    <2>2. ASSUME NEW m \in DOMAIN File
          PROVE  PartCall(m) # r
      <3>1. Role(r) /\ req[r].pc # "idle" /\ req[r].pc \in Labels
        BY <1>1, <1>2, HandlerClass DEF Roles, RequestType
      <3>2. r \in {Call("init"), Call("complete"), Call("delete")}
        BY <1>4, <3>1 DEF Role, PartLabels, CompletionLabels, Labels, At
      <3>3. QED
        BY <3>2, CallFacts
    <2>3. \A m \in DOMAIN File : file'[ClientUpload][m] \in {file[ClientUpload][m], None}
      BY <1>1, <2>1 DEF NoParts
    <2>4. \A m \in DOMAIN File : Once(m)'
      BY <1>3, <2>1, <2>2, <2>3
    <2>5. QED
      BY <1>1, <2>1, <2>4 DEF SentOnce
  <1>5. CASE req[r].pc \in PartLabels
    <2> PICK n \in DOMAIN File :
          /\ req[r].part = n /\ r = PartCall(n) /\ req[r].body = File[n]
          /\ req[r].upload = ClientUpload /\ req[r].pc # "idle"
      BY <1>1, <1>5 DEF Roles, Role, PartLabels
    <2>1. /\ Once(n) /\ ~Unsent(n) /\ ~Unsent(n)'
          /\ parts[ClientUpload][n] = None
          /\ file[ClientUpload][n] \in {None, Torn, File[n]}
      <3>1. Once(n)
        BY <1>1 DEF SentOnce
      <3>2. ~Unsent(n)
        BY <3>1 DEF Once, At
      <3>3. QED
        BY <3>1, <3>2 DEF Once, Unsent, At
    <2>2. \A m \in DOMAIN File : m # n => PartCall(m) # r
      BY CallFacts
    <2>3. ASSUME NEW status, Answer(r, status)
          PROVE  req'[r].pc = "idle" /\ req'[r].status = status
      BY <1>2, <2>3 DEF Answer, Idle
    <2>4. ASSUME NEW label, Goto(r, label)
          PROVE  req'[r].pc = label
      BY <1>2, <2>4 DEF Goto, RequestType
    <2>5. ASSUME parts' = parts,
                 \A m \in DOMAIN File : m # n =>
                   file'[ClientUpload][m] = file[ClientUpload][m],
                 file'[ClientUpload][n] \in {None, Torn, File[n]},
                 req'[r].pc = "part_record" => file'[ClientUpload][n] # Torn,
                 \/ req'[r].pc # "idle"
                 \/ req'[r].pc = "idle" /\ req'[r].status = "error"
          PROVE  SentOnce'
      <3>1. Once(n)'
        BY <1>1, <2>1, <2>5 DEF Once, At, Answered
      <3>2. \A m \in DOMAIN File : m # n => Once(m)'
        BY <1>3, <2>2, <2>5
      <3>3. QED
        BY <1>1, <2>5, <3>1, <3>2 DEF SentOnce
    <2>6. CASE PartSend(r)
      <3>1. parts' = parts /\ file' = file
        BY <2>6 DEF PartSend, heapVars, diskVars
      <3>2. Goto(r, "part_open") \/ Answer(r, "error")
        BY <2>6 DEF PartSend
      <3>3. QED
        BY <2>1, <2>3, <2>4, <2>5, <3>1, <3>2
    <2>7. CASE PartOpen(r) \/ PartWrite(r)
      <3>1. parts' = parts
        BY <2>7 DEF PartOpen, PartWrite, heapVars
      <3>2. ASSUME NEW bytes \in {File[n], Torn},
                   file' = [file EXCEPT ![ClientUpload] = [file[ClientUpload] EXCEPT ![n] = bytes]]
            PROVE  /\ file'[ClientUpload][n] = bytes
                   /\ \A m \in DOMAIN File : m # n =>
                        file'[ClientUpload][m] = file[ClientUpload][m]
        BY <1>1, <1>2, <3>2
      <3>3. CASE PartOpen(r)
        <4>1. /\ Goto(r, "part_write") \/ Answer(r, "error")
              /\ \/ file' = file
                 \/ file' = [file EXCEPT ![ClientUpload] = [file[ClientUpload] EXCEPT ![n] = Torn]]
          BY <3>3 DEF PartOpen
        <4>2. QED
          BY <2>1, <2>3, <2>4, <2>5, <3>1, <3>2, <4>1
      <3>4. CASE PartWrite(r)
        <4>1. \/ /\ file' = file /\ file[ClientUpload][n] = None
                 /\ Goto(r, "part_record")
              \/ /\ file' = [file EXCEPT ![ClientUpload] = [file[ClientUpload] EXCEPT ![n] = File[n]]]
                 /\ Goto(r, "part_record")
              \/ file' = file /\ Answer(r, "error")
          BY <3>4 DEF PartWrite, Written
        <4>2. QED
          BY <1>1, <2>1, <2>3, <2>4, <2>5, <3>1, <3>2, <4>1
      <3>5. QED
        BY <2>7, <3>3, <3>4
    <2>8. CASE PartRecord(r)
      <3>1. file' = file
        BY <2>8 DEF PartRecord, diskVars
      <3>2. /\ parts' = [parts EXCEPT ![ClientUpload] =
                           [parts[ClientUpload] EXCEPT ![n] = File[n]]]
            /\ Answer(r, "ok")
        BY <2>1, <2>8 DEF PartRecord
      <3>3. /\ parts'[ClientUpload][n] = File[n]
            /\ \A m \in PartNumbers : m # n =>
                 parts'[ClientUpload][m] = parts[ClientUpload][m]
        BY <1>1, <1>2, <3>2
      <3>4. Once(n)'
        <4>1. file[ClientUpload][n] # Torn
          BY <1>1, <2>1, <2>8 DEF Once, PartRecord
        <4>2. QED
          BY <1>1, <2>1, <2>3, <3>1, <3>2, <3>3, <4>1 DEF Once, At, Answered
      <3>5. \A m \in DOMAIN File : m # n => Once(m)'
        BY <1>1, <1>3, <2>2, <3>1, <3>3
      <3>6. QED
        BY <1>1, <3>3, <3>4, <3>5 DEF SentOnce
    <2>9. PartSend(r) \/ PartOpen(r) \/ PartWrite(r) \/ PartRecord(r)
      BY <1>5 DEF HandlerStep, InitRegister, InitNoTempDir, InitAbort, CompleteCheck,
         CompleteOrder, CompleteHash, CompleteSend, CompleteAbort, CompleteReply,
         AbortSend, RemoveFiles, RemoveDir, At, PartLabels
    <2>10. QED
      BY <2>6, <2>7, <2>8, <2>9
  <1>6. QED
    BY <1>4, <1>5

(* What has been recorded stays, and a completion that has ended does not   *)
(* start again.                                                             *)
LEMMA HandlerAwaited ==
    ASSUME IInv, ClientInv, NEW r \in Requests, HandlerStep(r), UNCHANGED client
    PROVE  Awaited'
  <1>1. ASSUME NEW n \in DOMAIN File, parts[ClientUpload][n] = File[n]
        PROVE  parts'[ClientUpload][n] = File[n]
    <2>1. [Next]_vars
      BY DEF Next
    <2>2. QED
      BY <1>1, <2>1, RecordedOnce, FileFacts DEF IInv
  <1>2. At(Call("complete"), "idle") => At(Call("complete"), "idle")'
    BY HandlerClass, CallFacts DEF IInv, At
  <1>3. QED
    BY <1>1, <1>2 DEF ClientInv, Awaited, AllRecorded, In

(* When every part is recorded, orderedUploadParts lists the whole file.    *)
LEMMA OrderedIsFile ==
    ASSUME TypeOK, SentOnce, AllRecorded, NEW k \in PartNumbers,
           Contiguous(parts[ClientUpload], k)
    PROVE  OrderedUploadParts(parts[ClientUpload], k) = File
  <1>1. k \in Nat /\ PartNumbers = 1..MaxPart /\ k <= MaxPart /\ MaxPart \in Nat
    BY MaxPartAssumption DEF PartNumbers
  <1>2. /\ Len(File) \in Nat /\ DOMAIN File = 1..Len(File) /\ DOMAIN File \subseteq PartNumbers
        /\ \A n \in DOMAIN File : File[n] # None
        /\ File \in Seq(Contents)
    BY FileFacts
  <1>3. \A n \in PartNumbers : n <= k <=> n \in DOMAIN File
    BY <1>2 DEF SentOnce, AllRecorded, Contiguous
  <1>4. 1..k = DOMAIN File
    <2>1. ASSUME NEW n \in 1..k PROVE n \in DOMAIN File
      <3>1. n \in PartNumbers /\ n <= k
        BY <1>1, <2>1
      <3>2. QED
        BY <1>3, <3>1
    <2>2. ASSUME NEW n \in DOMAIN File PROVE n \in 1..k
      <3>1. n \in PartNumbers /\ n <= k
        BY <1>2, <1>3, <2>2
      <3>2. QED
        BY <1>1, <3>1
    <2>3. QED
      BY <2>1, <2>2
  <1>5. File = [n \in DOMAIN File |-> File[n]]
    BY <1>2
  <1>6. [n \in 1..k |-> parts[ClientUpload][n]] = [n \in DOMAIN File |-> File[n]]
    BY <1>4 DEF AllRecorded
  <1>7. QED
    BY <1>5, <1>6 DEF OrderedUploadParts

LEMMA HandlerHashing ==
    ASSUME IInv, ClientInv, NEW r \in Requests, HandlerStep(r), UNCHANGED client
    PROVE  Hashing'
  <1> DEFINE c == Call("complete")
  <1>1. /\ TypeOK /\ Role(r) /\ SentOnce /\ Hashing /\ c \in Requests
        /\ \A q \in Requests \ {r} : req'[q] = req[q]
        /\ req[c].pc # "idle" => AllRecorded
        /\ req \in [Requests -> RequestType] /\ req[r] \in RequestType
    BY HandlerClass, CallFacts
       DEF IInv, TypeOK, RequestsOK, ClientInv, Roles, Awaited, At
  <1>2. CASE r # c
    BY <1>1, <1>2 DEF Hashing, Completing, At
  <1>3. CASE r = c /\ req'[r].pc = "idle"
    BY <1>3 DEF Hashing, Completing, At
  <1>4. CASE r = c /\ req'[r].pc # "idle"
    <2>1. /\ req[c].pc \in CompletionLabels \cup RemoveLabels
          /\ req[c].upload = ClientUpload
          /\ AllRecorded /\ req[c] \in RequestType
      <3>1. req'[r].pc \in Labels
        BY <1>4, StepTypeOK, HandlerClass DEF IInv, Next, TypeOK, RequestsOK, RequestType
      <3>2. req'[r].pc # "abort_send" /\ req[r].pc # "idle" /\ req[r].pc \in Labels
        BY <1>1, <1>4, HandlerClass DEF RequestType
      <3>3. r # Call("init") /\ r # Call("delete") /\ \A n \in DOMAIN File : r # PartCall(n)
        BY <1>4, CallFacts
      <3>4. req[r].pc \in CompletionLabels \cup RemoveLabels
        BY <1>1, <3>2, <3>3 DEF Role, Labels, PartLabels, CompletionLabels, RemoveLabels,
           At
      <3>5. QED
        BY <1>1, <1>4, <3>2, <3>4 DEF Role
    <2>2. ASSUME NEW label, Goto(c, label)
          PROVE  /\ req'[c].pc = label /\ req'[c].ordered = req[c].ordered
                 /\ req'[c].hashed = req[c].hashed
                 /\ req'[c].status = req[c].status
      BY <1>1, <2>1, <2>2 DEF Goto, RequestType
    <2>3. ASSUME NEW status, Answer(c, status)
          PROVE  FALSE
      BY <1>1, <1>4, <2>3 DEF Answer, Idle
    <2>c. ASSUME NEW status, CleanUp(c, status), status # "none" \/ req[c].hashed = File
          PROVE  Hashing'
      <3>1. /\ req'[c].pc = "remove_files" /\ req'[c].status = status
            /\ req'[c].hashed = req[c].hashed
        BY <1>1, <2>1, <2>c DEF CleanUp, RequestType
      <3>2. QED
        BY <2>c, <3>1 DEF Hashing, Completing, At
    <2>4. CASE CompleteCheck(c)
      <3>1. At(c, "complete_check") /\ Goto(c, "complete_order")
        BY <2>3, <2>4 DEF CompleteCheck
      <3>2. QED
        BY <1>1, <2>2, <3>1 DEF Hashing, Completing, At
    <2>5. CASE CompleteOrder(c) /\ ~CleanUp(c, "error")
      <3>1. PICK k \in PartNumbers :
              /\ Contiguous(parts[ClientUpload], k)
              /\ req' = [req EXCEPT ![c].pc = "complete_hash",
                           ![c].ordered = OrderedUploadParts(parts[ClientUpload], k)]
              /\ At(c, "complete_order")
        BY <2>1, <2>5 DEF CompleteOrder
      <3>2. OrderedUploadParts(parts[ClientUpload], k) = File
        BY <1>1, <2>1, <3>1, OrderedIsFile
      <3>3. /\ req'[c].pc = "complete_hash" /\ req'[c].ordered = File
            /\ req'[c].hashed = req[c].hashed
        BY <1>1, <2>1, <3>1, <3>2 DEF RequestType
      <3>4. req[c].hashed = <<>>
        BY <1>1, <3>1 DEF Hashing, At
      <3>5. Len(req'[c].hashed) = 0
        BY <3>3, <3>4
      <3>6. QED
        BY <3>3, <3>5, FileFacts DEF Hashing, Completing, At
    <2>6. CASE CompleteHash(c) /\ ~CleanUp(c, "error")
      <3> DEFINE next == Len(req[c].hashed) + 1
      <3>1. /\ req[c].pc = "complete_hash" /\ req[c].ordered = File
            /\ req[c].hashed \in Seq(Contents \cup {None, Torn})
            /\ \A i \in 1..Len(req[c].hashed) : req[c].hashed[i] = File[i]
            /\ next <= Len(File)
        BY <1>1, <2>1, <2>6 DEF Hashing, CompleteHash, At, RequestType
      <3>2. next \in DOMAIN File /\ next \in PartNumbers /\ Len(req[c].hashed) \in Nat
        BY <3>1, FileFacts
      <3>3. /\ file[ClientUpload][next] # None
            /\ req' = [req EXCEPT ![c].hashed = Append(req[c].hashed, file[ClientUpload][next])]
        BY <2>1, <2>6 DEF CompleteHash
      <3>4. file[ClientUpload][next] = File[next]
        BY <1>1, <2>1, <3>2, <3>3, FileFacts DEF SentOnce, Once, AllRecorded
      <3> HIDE DEF next
      <3>5. /\ req'[c].hashed = Append(req[c].hashed, File[next])
            /\ req'[c].pc = "complete_hash" /\ req'[c].ordered = File
        BY <1>1, <2>1, <3>1, <3>3, <3>4 DEF RequestType
      <3>6. /\ Len(Append(req[c].hashed, File[next])) = next
            /\ \A i \in 1..next : Append(req[c].hashed, File[next])[i] = File[i]
        <4>1. File[next] \in Contents \cup {None, Torn}
          BY <3>2, FileFacts
        <4>2. QED
          BY <3>1, <3>2, <4>1 DEF next
      <3>7. QED
        BY <3>1, <3>5, <3>6 DEF Hashing, Completing, At
    <2>7. CASE CompleteSend(c)
      <3>1. /\ req[c].pc = "complete_hash" /\ req[c].ordered = File
            /\ Len(req[c].hashed) = Len(File)
            /\ CleanUp(c, "none") \/ Goto(c, "complete_abort")
        BY <1>1, <2>7 DEF CompleteSend, At, Hashing
      <3>2. req[c].hashed = File
        <4>1. /\ req[c].hashed \in Seq(Contents \cup {None, Torn}) /\ File \in Seq(Contents)
              /\ \A i \in 1..Len(req[c].hashed) : req[c].hashed[i] = File[i]
          BY <1>1, <2>1, <3>1, FileFacts DEF Hashing, RequestType, At
        <4>2. QED
          BY <3>1, <4>1, SeqEqual
      <3>3. QED
        BY <2>2, <2>c, <3>1, <3>2 DEF Hashing, Completing, At
    <2>8. CASE CompleteAbort(c) \/ CompleteReply(c)
      BY <2>3, <2>c, <2>8 DEF CompleteAbort, CompleteReply
    <2>r. CASE RemoveFiles(c) \/ RemoveDir(c)
      <3>1. /\ req'[c].pc \in {"remove_dir", "complete_reply"}
            /\ req'[c].pc = "complete_reply" => req[c].status = "none"
            /\ req'[c].hashed = req[c].hashed /\ req'[c].status = req[c].status
        BY <2>2, <2>3, <2>r DEF RemoveFiles, RemoveDir, AfterCleanUp
      <3>2. req[c].pc \in RemoveLabels
        BY <2>r DEF RemoveFiles, RemoveDir, RemoveLabels, At
      <3>3. QED
        BY <1>1, <3>1, <3>2 DEF Hashing, Completing, RemoveLabels, At
    <2>9. QED
      BY <1>4, <2>1, <2>c, <2>4, <2>5, <2>6, <2>7, <2>8, <2>r DEF HandlerStep, InitRegister,
         InitNoTempDir, InitAbort, PartSend, PartOpen, PartWrite, PartRecord, AbortSend, At,
         CompletionLabels, RemoveLabels
  <1>5. QED
    BY <1>2, <1>3, <1>4

(* While a completion cleans up no part is being written, and uploadInit is  *)
(* over: what it removes stays removed.                                     *)
LEMMA HandlerCleared ==
    ASSUME IInv, ClientInv, NEW r \in Requests, HandlerStep(r), UNCHANGED client
    PROVE  Cleared'
  <1> DEFINE c == Call("complete")
             u == ClientUpload
  <1> USE DEF At
  <1>1. /\ TypeOK /\ Roles /\ SentOnce /\ Cleared /\ c \in Requests /\ u \in Uploads
        /\ \A q \in Requests \ {r} : req'[q] = req[q]
        /\ req[c].pc # "idle" => AllRecorded
        /\ req[r].pc # "idle" /\ req[r].upload = u
    BY HandlerClass, CallFacts, FileFacts DEF IInv, ClientInv, Roles, Role, Awaited
  <1>2. /\ file \in [Uploads -> [PartNumbers -> Contents \cup {None, Torn}]]
        /\ req \in [Requests -> RequestType] /\ req[r] \in RequestType
    BY <1>1 DEF TypeOK, RequestsOK
  <1>3. CASE r # c
    <2>1. SUFFICES ASSUME req[c].pc \in {"remove_dir", "complete_reply"}
                   PROVE  Cleared'
      BY <1>1, <1>3 DEF Cleared
    <2>2. client.next > 1
      BY <1>1, <2>1, CallFacts DEF Roles, Role, CompletionLabels
    <2>3. req[r].pc \notin PartLabels
      <3>1. SUFFICES ASSUME req[r].pc \in PartLabels PROVE FALSE
        OBVIOUS
      <3>2. PICK n \in DOMAIN File : r = PartCall(n)
        BY <1>1, <3>1 DEF Roles, Role
      <3>3. parts[u][n] = None
        BY <1>1, <3>2 DEF SentOnce, Once
      <3>4. parts[u][n] = File[n] /\ File[n] # None
        BY <1>1, <2>1, FileFacts DEF AllRecorded
      <3>5. QED
        BY <3>3, <3>4
    <2>4. file'[u] \in {file[u], NoParts}
      BY <1>1, <2>3, OtherHandlersKeep
    <2>5. ~InitRegister(r)
      BY <1>1, <2>2 DEF InitRegister, Roles, Role
    <2>6. dir' \subseteq dir /\ stuck \subseteq stuck'
      BY <2>5 DEF HandlerStep, InitNoTempDir, InitAbort, PartSend, PartOpen, PartWrite,
         PartRecord, CompleteCheck, CompleteOrder, CompleteHash, CompleteSend,
         CompleteAbort, CompleteReply, AbortSend, RemoveFiles, RemoveDir, diskVars
    <2>7. QED
      BY <1>1, <1>3, <2>4, <2>6 DEF Cleared
  <1>4. CASE r = c /\ req'[c].pc \in {"remove_dir", "complete_reply"}
    <2>1. ASSUME NEW label, Goto(c, label)
          PROVE  req'[c].pc = label
      BY <1>1, <1>2, <2>1 DEF Goto, RequestType
    <2>2. ASSUME AfterCleanUp(c)
          PROVE  req'[c].pc # "remove_dir"
      BY <1>1, <1>2, <2>1, <2>2 DEF AfterCleanUp, Answer, Idle
    <2>3. CASE RemoveFiles(c)
      <3>1. CASE Goto(c, "remove_dir")
        <4>1. file' = [file EXCEPT ![u] = NoParts] \/ stuck' = stuck \cup {u}
          BY <1>1, <1>4, <2>3 DEF RemoveFiles
        <4>2. CASE file' = [file EXCEPT ![u] = NoParts]
          BY <1>1, <1>2, <2>1, <3>1, <4>2 DEF Cleared
        <4>3. CASE AfterCleanUp(c)
          BY <2>1, <2>2, <3>1, <4>3
        <4>4. QED
          BY <2>3, <4>2, <4>3, <1>1, <1>4 DEF RemoveFiles
      <3>2. CASE AfterCleanUp(c) /\ stuck' = stuck \cup {u}
        BY <2>2, <3>2 DEF Cleared
      <3>3. QED
        BY <1>1, <1>4, <2>3, <3>1, <3>2 DEF RemoveFiles
    <2>4. CASE RemoveDir(c)
      <3>1. file[u] = NoParts /\ AfterCleanUp(c)
        BY <1>1, <1>4, <2>4 DEF RemoveDir, Cleared
      <3>2. dir' = dir \ {u} \/ stuck' = stuck \cup {u}
        BY <1>1, <1>4, <2>4, <3>1 DEF RemoveDir
      <3>3. QED
        BY <2>2, <3>1, <3>2 DEF Cleared
    <2>5. QED
      BY <1>1, <1>4, <2>3, <2>4, HandlerClass
  <1>5. CASE r = c /\ req'[c].pc \notin {"remove_dir", "complete_reply"}
    BY <1>5 DEF Cleared
  <1>6. QED
    BY <1>3, <1>4, <1>5

(* Only CompleteSend makes an object, only CompleteReply announces one.     *)
LEMMA HandlerOutcome ==
    ASSUME IInv, ClientInv, NEW r \in Requests, HandlerStep(r), UNCHANGED client
    PROVE  Outcome'
  <1> DEFINE c == Call("complete")
  <1>1. /\ TypeOK /\ Custody /\ AnnouncedLast /\ Role(r) /\ Hashing /\ Outcome
        /\ Cleared /\ c \in Requests /\ ClientUpload \in Uploads /\ [Next]_vars
        /\ \A q \in Requests \ {r} : req'[q] = req[q]
        /\ req[r].pc # "idle" /\ req[r].upload = ClientUpload
    BY HandlerClass, CallFacts, FileFacts DEF IInv, ClientInv, Roles, Role, Next
  <1>2. /\ object \in [Uploads -> Seq(Contents \cup {None})]
        /\ audited \in [Uploads -> Seq(Seq(Contents \cup {None, Torn}))]
        /\ phase \in [Uploads -> {"absent", "open", "completed", "aborted"}]
        /\ req \in [Requests -> RequestType] /\ req[r] \in RequestType
    BY <1>1 DEF TypeOK, RequestsOK
  <1>3. phase[ClientUpload] = "completed" => phase'[ClientUpload] = "completed"
    BY <1>1, PhaseMonotone
  <1>4. ASSUME ObjectIsFile',
               live' \subseteq live, dir' \subseteq dir, stuck \subseteq stuck',
               req'[c] = req[c] \/ ~Answered(c, "ok")'
        PROVE  Outcome'
    BY <1>1, <1>3, <1>4 DEF Outcome, In, Answered, At
  <1>5. ASSUME UNCHANGED <<phase, object, audited>>
        PROVE  ObjectIsFile'
    BY <1>1, <1>5 DEF Outcome, ObjectIsFile
  <1>6. ASSUME NEW status, Answer(r, status)
        PROVE  req'[r].status = status
    BY <1>2, <1>6 DEF Answer, Idle
  <1>7. ASSUME NEW label, Goto(r, label), label # "idle"
        PROVE  req'[r].pc # "idle"
    BY <1>2, <1>7 DEF Goto, RequestType
  <1>c. ASSUME NEW status, CleanUp(r, status)
        PROVE  req'[r].pc # "idle"
    BY <1>2, <1>c DEF CleanUp, RequestType
  <1>8. CASE InitRegister(r)
    <2>1. r = Call("init") /\ client.next = 1
      BY <1>1, <1>8 DEF InitRegister, At, Role
    <2>2. req'[c] = req[c]
      BY <1>1, <2>1, CallFacts
    <2>3. ObjectIsFile'
      BY <1>5, <1>8 DEF InitRegister, s3Vars
    <2>4. QED
      BY <1>1, <2>1, <2>2, <2>3 DEF Outcome, In, Answered, At
  <1>9. CASE InitNoTempDir(r) \/ InitAbort(r)
    <2>1. r # c
      BY <1>1, <1>9, CallFacts DEF InitNoTempDir, InitAbort, At, Role
    <2>2. UNCHANGED <<live, dir, stuck, object, audited>>
      BY <1>9 DEF InitNoTempDir, InitAbort, diskVars, s3Vars
    <2>3. phase'[ClientUpload] = "completed" => phase[ClientUpload] = "completed"
      BY <1>1, <1>2, <1>9 DEF InitNoTempDir, InitAbort, TryAbort, S3Abort, s3Vars
    <2>4. ObjectIsFile'
      BY <1>1, <2>2, <2>3 DEF Outcome, ObjectIsFile
    <2>5. QED
      BY <1>1, <1>4, <2>1, <2>2, <2>4
  <1>10. CASE PartSend(r) \/ PartOpen(r) \/ PartWrite(r) \/ PartRecord(r)
    <2>1. r # c
      BY <1>1, <1>10, CallFacts DEF PartSend, PartOpen, PartWrite, PartRecord, PartLabels,
         At, Role
    <2>2. UNCHANGED <<live, dir, stuck, phase, object, audited>>
      BY <1>10 DEF PartSend, PartOpen, PartWrite, PartRecord, diskVars, s3Vars
    <2>3. QED
      BY <1>1, <1>4, <1>5, <2>1, <2>2
  <1>11. CASE CompleteCheck(r) \/ CompleteOrder(r) \/ CompleteHash(r)
    <2>1. UNCHANGED <<live, dir, stuck, phase, object, audited>>
      BY <1>11 DEF CompleteCheck, CompleteOrder, CompleteHash, diskVars, s3Vars
    <2>2. ~Answered(r, "ok")'
      <3>1. CASE Goto(r, "complete_order") \/ Answer(r, "error") \/ CleanUp(r, "error")
        BY <1>6, <1>7, <1>c, <3>1 DEF Answered, At
      <3>2. ASSUME NEW ordered,
                   req' = [req EXCEPT ![r].pc = "complete_hash", ![r].ordered = ordered]
            PROVE  req'[r].pc = "complete_hash"
        BY <1>2, <3>2 DEF RequestType
      <3>3. ASSUME NEW hashed, req' = [req EXCEPT ![r].hashed = hashed]
            PROVE  req'[r].pc = req[r].pc
        BY <1>2, <3>3 DEF RequestType
      <3>4. CASE CompleteOrder(r)
        BY <3>1, <3>2, <3>4 DEF CompleteOrder, Answered, At
      <3>5. CASE CompleteHash(r)
        <4>1. \/ req' = [req EXCEPT ![r].hashed =
                           Append(req[r].hashed, file[req[r].upload][Len(req[r].hashed) + 1])]
              \/ CleanUp(r, "error")
          BY <3>5 DEF CompleteHash
        <4>2. QED
          BY <1>1, <3>1, <3>3, <4>1 DEF Answered, At
      <3>6. QED
        BY <1>11, <3>1, <3>4, <3>5 DEF CompleteCheck
    <2>3. QED
      BY <1>1, <1>4, <1>5, <2>1, <2>2
  <1>12. CASE CompleteSend(r)
    <2>1. r = c /\ req[r].ordered = File
      BY <1>1, <1>12 DEF CompleteSend, At, Role, CompletionLabels, Hashing
    <2>2. UNCHANGED <<live, dir, stuck, audited>>
      BY <1>12 DEF CompleteSend, diskVars
    <2>3. ~Answered(r, "ok")'
      BY <1>7, <1>c, <1>12 DEF CompleteSend, Answered, At
    <2>4. \/ UNCHANGED <<phase, object>>
          \/ object' = [object EXCEPT ![ClientUpload] = File]
      BY <1>1, <1>12, <2>1 DEF CompleteSend, S3Complete
    <2>5. ObjectIsFile'
      BY <1>1, <1>2, <2>2, <2>4 DEF Outcome, ObjectIsFile
    <2>6. QED
      BY <1>1, <1>4, <2>2, <2>3, <2>5
  <1>13. CASE CompleteAbort(r) \/ AbortSend(r)
    <2>1. /\ UNCHANGED <<live, dir, stuck, object, audited>>
          /\ TryAbort(ClientUpload, req[r].conn) \/ TryAbort(ClientUpload, conn[ClientUpload])
      BY <1>1, <1>13 DEF CompleteAbort, AbortSend, diskVars
    <2>2. phase'[ClientUpload] = "completed" => phase[ClientUpload] = "completed"
      BY <1>1, <1>2, <2>1 DEF TryAbort, S3Abort
    <2>3. ObjectIsFile'
      BY <1>1, <2>1, <2>2 DEF Outcome, ObjectIsFile
    <2>4. req'[c] = req[c] \/ ~Answered(c, "ok")'
      <3>1. ~Answered(r, "ok")'
        BY <1>c, <1>13 DEF CompleteAbort, AbortSend, Answered, At
      <3>2. QED
        BY <1>1, <3>1
    <2>5. QED
      BY <1>4, <2>1, <2>3, <2>4
  <1>14. CASE CompleteReply(r)
    <2>1. /\ r = c /\ req[r].hashed = File /\ client.next > 1
          /\ ClientUpload \in dir => ClientUpload \in stuck
      BY <1>1, <1>14
         DEF CompleteReply, At, Role, CompletionLabels, Hashing, Completing, Cleared
    <2>2. phase[ClientUpload] = "completed" /\ ClientUpload \notin live
      BY <1>1, <1>14
         DEF CompleteReply, At, AnnouncedLast, Completing, Custody, Holds, HoldLabels,
             FinishLabels
    <2>3. /\ UNCHANGED <<live, dir, stuck, phase, object>>
          /\ \/ audited' = audited
             \/ audited' = [audited EXCEPT ![ClientUpload] = Append(audited[ClientUpload], File)]
      BY <1>1, <1>14, <2>1 DEF CompleteReply, diskVars, s3Vars
    <2>4. \A i \in DOMAIN audited'[ClientUpload] : audited'[ClientUpload][i] = File
      <3>1. /\ audited[ClientUpload] \in Seq(Seq(Contents \cup {None, Torn}))
            /\ File \in Seq(Contents \cup {None, Torn})
            /\ \A i \in DOMAIN audited[ClientUpload] : audited[ClientUpload][i] = File
        BY <1>1, <1>2, <2>1 DEF Outcome, ObjectIsFile, RequestType
      <3>2. CASE audited'[ClientUpload] = Append(audited[ClientUpload], File)
        <4>1. \A i \in 1..(Len(audited[ClientUpload]) + 1) :
                Append(audited[ClientUpload], File)[i] = File
          BY <3>1
        <4>2. DOMAIN Append(audited[ClientUpload], File) = 1..(Len(audited[ClientUpload]) + 1)
          BY <3>1
        <4>3. QED
          BY <3>2, <4>1, <4>2
      <3>3. QED
        BY <1>1, <1>2, <2>3, <3>1, <3>2
    <2>5. ObjectIsFile'
      BY <1>1, <2>2, <2>3, <2>4 DEF Outcome, ObjectIsFile
    <2>6. QED
      BY <2>1, <2>2, <2>3, <2>5 DEF Outcome, In
  <1>15. CASE RemoveFiles(r) \/ RemoveDir(r)
    <2>1. /\ UNCHANGED <<live, phase, object, audited>>
          /\ dir' \subseteq dir /\ stuck \subseteq stuck'
      BY <1>15 DEF RemoveFiles, RemoveDir, s3Vars
    <2>2. req'[c] = req[c] \/ ~Answered(c, "ok")'
      <3>1. CASE r = c
        <4>1. req[r].status # "ok"
          BY <1>1, <1>15, <3>1, CallFacts DEF RemoveFiles, RemoveDir, At, Role
        <4>2. ~Answered(r, "ok")'
          BY <1>6, <1>7, <1>15, <4>1 DEF RemoveFiles, RemoveDir, AfterCleanUp,
             Answered, At
        <4>3. QED
          BY <3>1, <4>2
      <3>2. QED
        BY <1>1, <3>1
    <2>3. QED
      BY <1>4, <1>5, <2>1, <2>2
  <1>16. QED
    BY <1>8, <1>9, <1>10, <1>11, <1>12, <1>13, <1>14, <1>15 DEF HandlerStep

-----------------------------------------------------------------------------
(* The arrivals of the browser's requests *)

(* The record of a request that has just arrived, and what its arrival      *)
(* leaves alone.                                                            *)
ArrivesAs(r, label, status) ==
    /\ At(r, "idle") /\ \A q \in Requests \ {r} : req'[q] = req[q]
    /\ req'[r].pc = label /\ req'[r].status = status /\ req'[r].hashed = <<>>
    /\ label # "idle" => req'[r].upload = ClientUpload
    /\ UNCHANGED <<parts, dir, file, stuck, object, audited>> /\ live' \subseteq live

LEMMA EntersAs ==
    ASSUME NEW r \in Requests, req \in [Requests -> RequestType], At(r, "idle"),
           UNCHANGED <<parts, dir, file, stuck, object, audited>>, live' \subseteq live
    PROVE  /\ \A status : Answer(r, status) => ArrivesAs(r, "idle", status)
           /\ \A rec : /\ req' = [req EXCEPT ![r] = rec]
                       /\ rec.upload = ClientUpload /\ rec.hashed = <<>>
                       => ArrivesAs(r, rec.pc, rec.status) /\ req'[r] = rec
  BY DEF Answer, Idle, ArrivesAs, At

LEMMA ArrivalKeeps ==
    ASSUME ClientInv, NEW r \in Requests, NEW label, NEW status,
           ArrivesAs(r, label, status),
           phase'[ClientUpload] = "completed" <=> phase[ClientUpload] = "completed"
    PROVE  /\ ObjectIsFile'
           /\ r # Call("complete") => Hashing'
           /\ label \notin {"remove_dir", "complete_reply"} => Cleared'
           /\ (/\ client'.next = client.next /\ client'.flying = client.flying
               /\ \A n \in DOMAIN File : r # PartCall(n)) => SentOnce'
           /\ (/\ r # Call("complete") \/ status # "ok" \/ label # "idle"
               /\ client'.pc = "done" => client.pc = "done"
               /\ client'.next = client.next)
              => Outcome'
  <1> USE CallFacts DEF ArrivesAs, ClientInv, At, In
  <1>1. ObjectIsFile'
    BY DEF Outcome, ObjectIsFile
  <1>2. r # Call("complete") => Hashing'
    BY DEF Hashing, Completing
  <1>c. label \notin {"remove_dir", "complete_reply"} => Cleared'
    BY DEF Cleared
  <1>3. ASSUME client'.next = client.next, client'.flying = client.flying,
               \A n \in DOMAIN File : r # PartCall(n)
        PROVE  SentOnce'
    <2>1. \A n \in DOMAIN File : req'[PartCall(n)] = req[PartCall(n)]
      BY <1>3
    <2>2. QED
      BY <1>3, <2>1 DEF SentOnce, Once, Unsent, Answered
  <1>4. ASSUME r # Call("complete") \/ status # "ok" \/ label # "idle",
               client'.pc = "done" => client.pc = "done",
               client'.next = client.next
        PROVE  Outcome'
    <2>1. Answered(Call("complete"), "ok")' => Answered(Call("complete"), "ok")
      BY <1>4 DEF Answered
    <2>2. QED
      BY <1>1, <1>4, <2>1 DEF Outcome
  <1>5. QED
    BY <1>1, <1>2, <1>c, <1>3, <1>4

LEMMA StartInv ==
    ASSUME IInv, ClientInv, Start, ClientOK'
    PROVE  ClientInv'
  <1> DEFINE r == Call("init")
  <1> USE DEF At, In
  <1>1. /\ TypeOK /\ ClientOK /\ Roles /\ Awaited /\ Outcome
        /\ r \in Requests /\ r # Call("complete") /\ r # Call("delete")
        /\ Call("complete") \in Requests /\ ClientUpload \in Uploads
        /\ \A n \in DOMAIN File : r # PartCall(n)
        /\ req \in [Requests -> RequestType]
        /\ phase \in [Uploads -> {"absent", "open", "completed", "aborted"}]
    BY CallFacts, FileFacts DEF IInv, ClientInv, TypeOK, RequestsOK
  <1>2. /\ client.pc = "start" /\ client'.pc = "initializing"
        /\ client'.next = client.next /\ client'.flying = client.flying
        /\ client.next = 1
    BY <1>1 DEF Start, Become, ClientOK
  <1>3. /\ phase[ClientUpload] = "absent" /\ phase'[ClientUpload] = "open"
        /\ \/ ArrivesAs(r, "init_register", "none") \/ ArrivesAs(r, "idle", "error")
    <2> DEFINE rec == [Idle("none") EXCEPT !.pc = "init_register", !.user = Browser,
                         !.upload = ClientUpload, !.conn = ClientConn]
    <2>1. /\ rec.pc = "init_register" /\ rec.status = "none"
          /\ rec.upload = ClientUpload /\ rec.hashed = <<>>
      BY DEF Idle
    <2>2. /\ At(r, "idle") /\ live' \subseteq live
          /\ UNCHANGED <<parts, dir, file, stuck, object, audited>>
          /\ req' = [req EXCEPT ![r] = rec] \/ Answer(r, "error")
          /\ phase[ClientUpload] = "absent" /\ phase'[ClientUpload] = "open"
      BY <1>1 DEF Start, InitCreate, diskVars
    <2> HIDE DEF rec
    <2>3. QED
      BY <1>1, <2>1, <2>2, EntersAs
  <1>4. SentOnce' /\ Hashing' /\ Cleared'
    BY <1>1, <1>2, <1>3, ArrivalKeeps
  <1>5. Roles'
    <2>1. ASSUME NEW q \in Requests \ {r} PROVE Role(q)'
      BY <1>1, <1>2, <1>3 DEF Roles, Role, PartLabels, CompletionLabels, ArrivesAs
    <2>2. Role(r)'
      BY <1>2, <1>3 DEF Role, ArrivesAs, PartLabels, CompletionLabels
    <2>3. QED
      BY <2>1, <2>2 DEF Roles
  <1>6. Awaited'
    BY <1>1, <1>2, <1>3 DEF Awaited, AllRecorded, ArrivesAs
  <1>7. Outcome'
    <2>1. ObjectIsFile'
      BY <1>1, <1>3, ArrivalKeeps
    <2>2. req'[Call("complete")] = req[Call("complete")]
      BY <1>1, <1>3 DEF ArrivesAs
    <2>3. QED
      BY <1>1, <1>2, <1>3, <2>1, <2>2 DEF Outcome, Answered
  <1>8. QED
    BY <1>4, <1>5, <1>6, <1>7 DEF ClientInv

LEMMA PartArrivesInv ==
    ASSUME IInv, ClientInv, NEW n \in DOMAIN File, PartArrives(n), ClientOK'
    PROVE  ClientInv'
  <1> DEFINE r == PartCall(n)
  <1> USE DEF At, In
  <1>1. /\ TypeOK /\ ClientOK /\ Roles /\ SentOnce /\ Awaited /\ r \in Requests
        /\ r # Call("complete") /\ r # Call("delete") /\ r # Call("init")
        /\ Call("complete") \in Requests
        /\ \A m \in DOMAIN File : PartCall(m) \in Requests /\ (m # n => r # PartCall(m))
        /\ req \in [Requests -> RequestType]
    BY CallFacts DEF IInv, ClientInv, TypeOK, RequestsOK
  <1>2. /\ client'.pc = client.pc /\ client'.next = client.next
        /\ client'.flying = client.flying \ {n} /\ client'.waiting = client.waiting
        /\ n \in client.flying /\ n < client.next
    BY <1>1 DEF PartArrives, ClientOK
  <1>3. /\ phase' = phase
        /\ \/ /\ ArrivesAs(r, "part_send", "none")
              /\ req'[r].part = n /\ req'[r].body = File[n]
           \/ ArrivesAs(r, "idle", "error")
    <2> DEFINE rec == [Idle("none") EXCEPT !.pc = "part_send", !.user = Browser,
                         !.upload = ClientUpload, !.part = n, !.body = File[n]]
    <2>1. /\ rec.pc = "part_send" /\ rec.status = "none"
          /\ rec.upload = ClientUpload /\ rec.hashed = <<>>
          /\ rec.part = n /\ rec.body = File[n]
      BY DEF Idle
    <2>2. /\ At(r, "idle") /\ live' \subseteq live
          /\ UNCHANGED <<parts, dir, file, stuck, object, audited, phase>>
          /\ req' = [req EXCEPT ![r] = rec] \/ Answer(r, "error")
      BY <1>1 DEF PartArrives, PartLookup, diskVars, heapVars, s3Vars
    <2> HIDE DEF rec
    <2>3. QED
      BY <1>1, <2>1, <2>2, EntersAs
  <1>4. Hashing' /\ Cleared' /\ Outcome'
    BY <1>1, <1>2, <1>3, ArrivalKeeps
  <1>5. Roles'
    <2>1. ASSUME NEW q \in Requests \ {r} PROVE Role(q)'
      BY <1>1, <1>2, <1>3 DEF Roles, Role, PartLabels, CompletionLabels, ArrivesAs
    <2>2. Role(r)'
      BY <1>3 DEF Role, ArrivesAs, PartLabels, CompletionLabels
    <2>3. QED
      BY <2>1, <2>2 DEF Roles
  <1>6. Awaited'
    BY <1>1, <1>2, <1>3 DEF Awaited, AllRecorded, ArrivesAs
  <1>7. SentOnce'
    <2>1. ASSUME NEW m \in DOMAIN File, m # n PROVE Once(m)'
      BY <1>1, <1>2, <1>3, <2>1 DEF SentOnce, Once, Unsent, Answered, ArrivesAs
    <2>2. Once(n)'
      <3>1. Once(n) /\ Unsent(n)
        BY <1>1, <1>2 DEF SentOnce, Unsent
      <3>2. ~Unsent(n)'
        <4>1. client.next \in Nat /\ n \in Nat
          BY <1>1, FileFacts DEF ClientOK
        <4>2. QED
          BY <1>2, <4>1 DEF Unsent
      <3>3. QED
        BY <1>3, <3>1, <3>2 DEF Once, Answered, ArrivesAs
    <2>3. QED
      BY <1>1, <1>3, <2>1, <2>2 DEF SentOnce, ArrivesAs
  <1>8. QED
    BY <1>4, <1>5, <1>6, <1>7 DEF ClientInv

LEMMA FinalizeInv ==
    ASSUME IInv, ClientInv, Finalize, ClientOK'
    PROVE  ClientInv'
  <1> DEFINE r == Call("complete")
  <1> USE DEF At, In
  <1>1. /\ TypeOK /\ ClientOK /\ Roles /\ Awaited /\ r \in Requests
        /\ r # Call("delete") /\ r # Call("init")
        /\ \A n \in DOMAIN File : r # PartCall(n)
        /\ req \in [Requests -> RequestType]
    BY CallFacts DEF IInv, ClientInv, TypeOK, RequestsOK
  <1>2. /\ client.pc = "uploading" /\ client'.pc = "finalizing"
        /\ client'.next = client.next /\ client'.flying = client.flying
        /\ client.waiting = {} /\ client.next > Len(File)
        /\ client.next > 1
    BY <1>1, FileFacts DEF Finalize, Become, ClientOK
  <1>3. /\ phase' = phase
        /\ ArrivesAs(r, "complete_check", "none") \/ ArrivesAs(r, "idle", "error")
    <2> PICK conn0 \in Connections \cup {None} :
          CompleteTake(Call("complete"), Browser, ClientUpload, conn0)
      BY DEF Finalize
    <2> DEFINE rec == [Idle("none") EXCEPT !.pc = "complete_check", !.user = Browser,
                         !.upload = ClientUpload, !.conn = conn0]
    <2>1. /\ rec.pc = "complete_check" /\ rec.status = "none"
          /\ rec.upload = ClientUpload /\ rec.hashed = <<>>
      BY DEF Idle
    <2>2. /\ At(r, "idle") /\ live' \subseteq live
          /\ UNCHANGED <<parts, dir, file, stuck, object, audited, phase>>
          /\ req' = [req EXCEPT ![r] = rec] \/ Answer(r, "error")
      BY <1>1 DEF CompleteTake, diskVars, heapVars, s3Vars
    <2> HIDE DEF rec
    <2>3. QED
      BY <1>1, <2>1, <2>2, EntersAs
  <1>4. SentOnce' /\ Cleared' /\ Outcome'
    BY <1>1, <1>2, <1>3, ArrivalKeeps
  <1>5. Roles'
    <2>1. ASSUME NEW q \in Requests \ {r} PROVE Role(q)'
      BY <1>1, <1>2, <1>3 DEF Roles, Role, PartLabels, CompletionLabels, ArrivesAs
    <2>2. Role(r)'
      BY <1>2, <1>3 DEF Role, ArrivesAs, PartLabels, CompletionLabels
    <2>3. QED
      BY <2>1, <2>2 DEF Roles
  <1>6. AllRecorded
    <2>1. ASSUME NEW n \in DOMAIN File PROVE n < client.next
      <3>1. n \in Nat /\ n <= Len(File) /\ Len(File) \in Nat /\ client.next \in Nat
        BY <1>1, FileFacts DEF ClientOK
      <3>2. QED
        BY <1>2, <3>1
    <2>2. QED
      BY <1>1, <1>2, <2>1 DEF Awaited, AllRecorded
  <1>7. Awaited'
    BY <1>2, <1>3, <1>6 DEF Awaited, AllRecorded, ArrivesAs
  <1>8. Hashing'
    BY <1>3 DEF Hashing, Completing, ArrivesAs
  <1>9. QED
    BY <1>4, <1>5, <1>7, <1>8 DEF ClientInv

LEMMA CleanupInv ==
    ASSUME IInv, ClientInv, Cleanup, ClientOK'
    PROVE  ClientInv'
  <1> DEFINE r == Call("delete")
  <1> USE DEF At, In
  <1>1. /\ TypeOK /\ ClientOK /\ Roles /\ Awaited /\ r \in Requests
        /\ r # Call("complete") /\ r # Call("init") /\ Call("complete") \in Requests
        /\ \A n \in DOMAIN File : r # PartCall(n)
        /\ req \in [Requests -> RequestType]
    BY CallFacts DEF IInv, ClientInv, TypeOK, RequestsOK
  <1>2. /\ client.pc = "cleanup" /\ client'.pc = "failed"
        /\ client'.next = client.next /\ client'.flying = client.flying
    BY <1>1 DEF Cleanup, Become, ClientOK
  <1>3. /\ phase' = phase
        /\ ArrivesAs(r, "abort_send", "none") \/ ArrivesAs(r, "idle", "ok")
    <2> DEFINE rec == [Idle("none") EXCEPT !.pc = "abort_send", !.user = Browser,
                         !.upload = ClientUpload]
    <2>1. /\ rec.pc = "abort_send" /\ rec.status = "none"
          /\ rec.upload = ClientUpload /\ rec.hashed = <<>>
      BY DEF Idle
    <2>2. /\ At(r, "idle") /\ live' \subseteq live
          /\ UNCHANGED <<parts, dir, file, stuck, object, audited, phase>>
          /\ req' = [req EXCEPT ![r] = rec] \/ Answer(r, "ok")
      BY <1>1 DEF Cleanup, AbortTake, diskVars, heapVars, s3Vars
    <2> HIDE DEF rec
    <2>3. QED
      BY <1>1, <2>1, <2>2, EntersAs
  <1>4. SentOnce' /\ Hashing' /\ Cleared' /\ Outcome'
    BY <1>1, <1>2, <1>3, ArrivalKeeps
  <1>5. Roles'
    <2>1. ASSUME NEW q \in Requests \ {r} PROVE Role(q)'
      BY <1>1, <1>2, <1>3 DEF Roles, Role, PartLabels, CompletionLabels, ArrivesAs
    <2>2. Role(r)'
      BY <1>3 DEF Role, ArrivesAs, PartLabels, CompletionLabels
    <2>3. QED
      BY <2>1, <2>2 DEF Roles
  <1>6. Awaited'
    BY <1>1, <1>2, <1>3 DEF Awaited, AllRecorded, ArrivesAs
  <1>7. QED
    BY <1>4, <1>5, <1>6 DEF ClientInv

LEMMA StrangerInv ==
    ASSUME IInv, ClientInv, StrangerAborts, ClientOK'
    PROVE  ClientInv'
  <1> DEFINE r == Stranger
  <1> USE DEF At, In
  <1>1. /\ TypeOK /\ ClientOK /\ Roles /\ Awaited /\ r \in Requests
        /\ r # Call("complete") /\ Call("complete") \in Requests
        /\ \A n \in DOMAIN File : r # PartCall(n)
        /\ req \in [Requests -> RequestType] /\ ClientUpload \in Uploads
        /\ phase \in [Uploads -> {"absent", "open", "completed", "aborted"}]
    BY CallFacts, FileFacts DEF IInv, ClientInv, TypeOK, RequestsOK
  <1>2. client' = client
    BY DEF StrangerAborts
  <1>3. /\ phase[ClientUpload] = "open" /\ phase'[ClientUpload] # "completed"
        /\ ArrivesAs(r, "idle", "ok")
    BY <1>1 DEF StrangerAborts, MultipartAbort, S3Abort, Answer, Idle, ArrivesAs,
       diskVars, heapVars
  <1>4. SentOnce' /\ Hashing' /\ Cleared' /\ Outcome'
    BY <1>1, <1>2, <1>3, ArrivalKeeps
  <1>5. Roles'
    <2>1. ASSUME NEW q \in Requests \ {r} PROVE Role(q)'
      BY <1>1, <1>2, <1>3 DEF Roles, Role, PartLabels, CompletionLabels, ArrivesAs
    <2>2. Role(r)'
      BY <1>3 DEF Role, ArrivesAs, PartLabels, CompletionLabels
    <2>3. QED
      BY <2>1, <2>2 DEF Roles
  <1>6. Awaited'
    BY <1>1, <1>2, <1>3 DEF Awaited, AllRecorded, ArrivesAs
  <1>7. QED
    BY <1>4, <1>5, <1>6 DEF ClientInv

-----------------------------------------------------------------------------
(* The browser's upload *)

LEMMA InitClientInv == ClientInit => IInv /\ ClientInv
  <1> SUFFICES ASSUME ClientInit PROVE IInv /\ ClientInv
    OBVIOUS
  <1>1. Init /\ IInv
    BY InitIInv DEF ClientInit
  <1>2. /\ client.pc = "start" /\ client.next = 1
        /\ client.flying = {} /\ client.waiting = {}
    BY DEF ClientInit
  <1>3. ClientOK
    BY <1>2, FileFacts DEF ClientInit, ClientOK, In
  <1>4. \A r \in Requests : req[r].pc = "idle" /\ req[r].status = "none"
    BY <1>1 DEF Init, Idle
  <1>5. Roles
    BY <1>4 DEF Roles, Role, PartLabels, CompletionLabels, At
  <1>6. SentOnce
    BY <1>1, <1>4, CallFacts, FileFacts, NoneAssumption
       DEF Init, NoParts, SentOnce, Once, Unsent, At, Answered
  <1>7. Awaited /\ Hashing /\ Cleared
    BY <1>2, <1>4, CallFacts DEF Awaited, Hashing, Completing, Cleared, In, At
  <1>8. Outcome
    BY <1>1, <1>2, <1>4, CallFacts, FileFacts
       DEF Init, Outcome, ObjectIsFile, In, At, Answered
  <1>9. QED
    BY <1>1, <1>3, <1>5, <1>6, <1>7, <1>8 DEF ClientInv

LEMMA StepClientInv ==
    ASSUME IInv, ClientInv, [ClientNext]_clientVars
    PROVE  ClientInv'
  <1>1. ClientOK'
    BY StepClientOK DEF ClientInv
  <1>2. CASE Started \/ Batch \/ Finalized \/ CallRefused \/ CleanupRefused
    BY <1>2, PromiseStep
       DEF Started, Batch, Finalized, CallRefused, CleanupRefused, vars, ServerVars
  <1>3. ASSUME NEW n \in DOMAIN File, PartAnswered(n) PROVE ClientInv'
    BY <1>3, PromiseStep DEF PartAnswered, vars, ServerVars
  <1>4. CASE LoseAnswer \/ LoseInitAnswer
    BY <1>4, PromiseStep
       DEF LoseAnswer, LoseInitAnswer, ServerVars, heapVars, diskVars, s3Vars
  <1>5. CASE Settled \/ UNCHANGED clientVars
    BY <1>5, PromiseStep DEF Settled, clientVars, vars, ServerVars
  <1>6. ASSUME NEW n \in DOMAIN File, PartArrives(n) PROVE ClientInv'
    BY <1>1, <1>6, PartArrivesInv
  <1>7. CASE ServerStep
    <2> PICK r \in Requests : HandlerStep(r) /\ UNCHANGED client
      BY <1>7 DEF ServerStep
    <2>1. QED
      BY <1>1, HandlerRoles, HandlerSentOnce, HandlerAwaited, HandlerHashing,
         HandlerCleared, HandlerOutcome DEF ClientInv
  <1>8. QED
    BY <1>1, <1>2, <1>3, <1>4, <1>5, <1>6, <1>7, StartInv, FinalizeInv, CleanupInv,
       StrangerInv DEF ClientNext, ClientStep

LEMMA ClientInvariance == ClientSpec => [](IInv /\ ClientInv)
  <1>1. IInv /\ ClientInv /\ [ClientNext]_clientVars => (IInv /\ ClientInv)'
    BY StepServerIInv, StepClientInv
  <1>2. QED
    BY <1>1, InitClientInv, PTL DEF ClientSpec

(* For a file of any number of parts, sent in batches of any size, whatever *)
(* S3, the disk, the network, the user or another user does meanwhile: an   *)
(* object that appears is the whole file in order, and a success event      *)
(* carries the digest of exactly those bytes.                               *)
THEOREM BrowserFileArrives == ClientSpec => []ObjectIsFile
  <1>1. ClientInv => ObjectIsFile
    BY DEF ClientInv, Outcome
  <1>2. QED
    BY <1>1, ClientInvariance, PTL

(* For any file and any interleaving of its parts, its completion and the   *)
(* DELETE of a cancelled upload: when the client reports success the object *)
(* is there, and neither the entry of s.uploads nor the temporary directory *)
(* of the upload is left, unless the disk would not remove that.            *)
THEOREM BrowserDone == ClientSpec => []DoneMeansStored
  <1>1. ClientInv => DoneMeansStored
    BY DEF ClientInv, Outcome, DoneMeansStored
  <1>2. QED
    BY <1>1, ClientInvariance, PTL
=============================================================================
