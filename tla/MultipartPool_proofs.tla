------------------------- MODULE MultipartPool_proofs -------------------------
(***************************************************************************)
(* Proofs about MultipartPool for every file size, part size, number of     *)
(* workers and number of failures.                                          *)
(***************************************************************************)
EXTENDS MultipartPool, SequenceTheorems, TLAPS

(* The number of parts is at least one and at most the number of bytes.     *)
LEMMA PartCountBounds ==
    ASSUME NEW sz \in Nat \ {0}, NEW lim \in Nat \ {0}
    PROVE  PartCount(sz, lim) \in 1..sz
  <1> DEFINE q == (sz + lim - 1) \div lim
  <1>1. /\ q \in Int
        /\ lim * q <= sz + lim - 1
        /\ sz + lim - 1 < lim * q + lim
    OBVIOUS
  <1>2. ASSUME q <= 0 PROVE FALSE
    <2>1. lim * q <= 0
      BY <1>1, <1>2
    <2>2. QED
      BY <1>1, <2>1
  <1>3. ASSUME q >= sz + 1 PROVE FALSE
    <2>1. lim * q >= lim * (sz + 1)
      BY <1>1, <1>3
    <2>2. lim * (sz + 1) >= sz + lim
      OBVIOUS
    <2>3. QED
      BY <1>1, <2>1, <2>2
  <1>4. QED
    BY <1>1, <1>2, <1>3 DEF PartCount

(* A section starts within the file, so it is never the zero CompletedPart. *)
LEMMA SectionTyped ==
    ASSUME NEW sz \in Nat, NEW lim \in Nat, NEW i \in Nat
    PROVE  /\ Section(sz, lim, i) \in SectionType
           /\ Section(sz, lim, i) # Unset
  <1>1. i * lim \in Nat
    OBVIOUS
  <1>2. Section(sz, lim, i).offset = i * lim /\ Unset.offset = -1
    BY DEF Section, Unset
  <1>3. Section(sz, lim, i) # Unset
    BY <1>1, <1>2
  <1>4. QED
    BY <1>1, <1>3 DEF Section, SectionType

(* The indexes of the parts fit the slots, and there is a worker.           *)
LEMMA IndexBounds ==
    ASSUME size \in 1..MaxSize, limit \in 1..MaxLimit
    PROVE  /\ PartCount(size, limit) \in Nat \ {0}
           /\ Indexes \subseteq 0..(MaxSize - 1)
           /\ Indexes \subseteq Nat
           /\ 0 \in Indexes
           /\ \A i \in Indexes : i + 1 \notin Indexes => Indexes = 0..i
           /\ Workers \subseteq 1..Concurrency
  <1>1. PartCount(size, limit) \in 1..size
    BY PartCountBounds, PoolAssumption
  <1>2. QED
    BY <1>1, PoolAssumption DEF Indexes, Workers

LEMMA InitTypeOK == Init => TypeOK
  <1> SUFFICES ASSUME Init PROVE TypeOK
    OBVIOUS
  <1>1. 0 \in Indexes
    BY IndexBounds DEF Init
  <1>2. Unset \in SectionType
    BY DEF Unset, SectionType
  <1>3. worker \in [1..Concurrency ->
                      [pc : {"receive", "send", "sent", "exit"}, job : Indexes]]
    BY <1>1 DEF Init
  <1>4. QED
    BY SMTT(30), <1>1, <1>2, <1>3, EmptySeq, PoolAssumption DEF Init, TypeOK

LEMMA StepTypeOK == TypeOK /\ [Next]_vars => TypeOK'
  <1> SUFFICES ASSUME TypeOK, [Next]_vars PROVE TypeOK'
    OBVIOUS
  <1> DEFINE WorkerType == [pc : {"receive", "send", "sent", "exit"}, job : Indexes]
  <1>a. /\ Indexes \subseteq 0..(MaxSize - 1) /\ Indexes \subseteq Nat
        /\ Workers \subseteq 1..Concurrency
        /\ PartCount(size, limit) \in Nat
    BY IndexBounds DEF TypeOK
  <1>b. UNCHANGED inputVars => Indexes' = Indexes
    BY DEF inputVars, Indexes
  <1>c. \A i \in Indexes : Section(size, limit, i) \in SectionType
    BY <1>a, SectionTyped, PoolAssumption DEF TypeOK
  <1>d. ASSUME NEW call, Fault(call) \/ UNCHANGED faults
        PROVE  faults' \in 0..MaxFaults
    BY <1>d, PoolAssumption DEF TypeOK, Fault
  <1>1. CASE Create
    <2>1. faults' \in 0..MaxFaults
      BY <1>1, <1>d DEF Create
    <2>2. QED
      BY <1>1, <1>b, <2>1 DEF TypeOK, Create, inputVars, ctxVars
  <1>2. ASSUME NEW w \in Workers, Handoff(w)
        PROVE  TypeOK'
    <2>1. worker' \in [1..Concurrency -> WorkerType]
      BY <1>2 DEF TypeOK, Handoff
    <2>2. QED
      BY <1>2, <1>b, <2>1 DEF TypeOK, Handoff, inputVars, ctxVars, s3Vars
  <1>3. CASE FeederSeesDone
    BY <1>3, <1>b DEF TypeOK, FeederSeesDone, inputVars, ctxVars, s3Vars
  <1>4. CASE FeederLoops
    BY <1>4, <1>b DEF TypeOK, FeederLoops, inputVars, ctxVars, s3Vars
  <1>5. CASE Wait
    BY <1>5, <1>b DEF TypeOK, Wait, inputVars, ctxVars, s3Vars
  <1>6. CASE Complete
    <2>1. faults' \in 0..MaxFaults
      BY <1>6, <1>d DEF Complete
    <2>2. Listed \in Seq(SectionType)
      <3>1. \A n \in 1..PartCount(size, limit) : n - 1 \in Indexes
        BY <1>a DEF Indexes
      <3>2. Listed \in [1..PartCount(size, limit) -> SectionType]
        BY <1>a, <3>1 DEF Listed, TypeOK
      <3>3. QED
        BY <1>a, <3>2, SeqDef
    <2>3. object' \in Seq(SectionType)
      BY <1>6, <2>2 DEF Complete, TypeOK
    <2>4. /\ phase' \in {phase, "completed"}
          /\ pc' \in {"returned", "abort"} /\ result' \in {"ok", result}
          /\ UNCHANGED <<inputVars, next, worker, ctxVars, slots, stored>>
      BY <1>6 DEF Complete
    <2>5. QED
      BY <1>b, <2>1, <2>3, <2>4 DEF TypeOK, inputVars, ctxVars
  <1>7. CASE Abort
    <2>1. faults' \in 0..MaxFaults
      BY <1>7, <1>d DEF Abort
    <2>2. QED
      BY <1>7, <1>b, <2>1 DEF TypeOK, Abort, inputVars, ctxVars
  <1>8. ASSUME NEW w \in Workers, WorkerExits(w)
        PROVE  TypeOK'
    <2>1. worker' \in [1..Concurrency -> WorkerType]
      BY <1>8, <1>a DEF TypeOK, WorkerExits
    <2>2. QED
      BY <1>8, <1>b, <2>1 DEF TypeOK, WorkerExits, inputVars, ctxVars, s3Vars
  <1>9. ASSUME NEW w \in Workers, WorkerSends(w)
        PROVE  TypeOK'
    <2>1. worker' \in [1..Concurrency -> WorkerType]
      BY ZenonT(60), <1>9, <1>a DEF TypeOK, WorkerSends, WorkerFails
    <2>2. partDone' \in BOOLEAN /\ firstErr' \in BOOLEAN
      BY <1>9 DEF TypeOK, WorkerSends, WorkerFails
    <2>3. QED
      BY <1>9, <1>b, <2>1, <2>2 DEF TypeOK, WorkerSends, inputVars, s3Vars
  <1>10. ASSUME NEW w \in Workers, WorkerUploads(w)
         PROVE  TypeOK'
    <2>1. worker' \in [1..Concurrency -> WorkerType]
      BY <1>10, <1>a DEF TypeOK, WorkerUploads, WorkerFails
    <2>2. partDone' \in BOOLEAN /\ firstErr' \in BOOLEAN
      BY <1>10 DEF TypeOK, WorkerUploads, WorkerFails
    <2>3. /\ stored' \in [0..(MaxSize - 1) -> SectionType]
          /\ slots' \in [0..(MaxSize - 1) -> SectionType]
      BY <1>10, <1>a, <1>c DEF TypeOK, WorkerUploads
    <2>4. faults' \in 0..MaxFaults
      BY <1>10, <1>d DEF WorkerUploads
    <2>5. UNCHANGED <<inputVars, pc, next, callerDone, phase, object, result>>
      BY <1>10 DEF WorkerUploads
    <2>6. QED
      BY <1>b, <2>1, <2>2, <2>3, <2>4, <2>5 DEF TypeOK, inputVars
  <1>11. CASE CallerCancels
    BY <1>11, <1>b DEF TypeOK, CallerCancels, inputVars, s3Vars
  <1>12. CASE UNCHANGED vars
    BY <1>12 DEF TypeOK, vars, Indexes
  <1>13. QED
    BY <1>1, <1>2, <1>3, <1>4, <1>5, <1>6, <1>7, <1>8, <1>9, <1>10, <1>11,
       <1>12 DEF Next, CallerStep, WorkerStep, Returned

(* The pool's variables keep their types, whatever fails or is cancelled.   *)
THEOREM TypeCorrect == Spec => []TypeOK
  BY InitTypeOK, StepTypeOK, PTL DEF Spec

-----------------------------------------------------------------------------
(* No part is lost silently *)

LEMMA InitNoSilentLoss == Init => NoSilentLoss
  BY DEF Init, NoSilentLoss, Handed

LEMMA StepNoSilentLoss == TypeOK /\ NoSilentLoss /\ [Next]_vars => NoSilentLoss'
  <1> SUFFICES ASSUME TypeOK, NoSilentLoss, [Next]_vars PROVE NoSilentLoss'
    OBVIOUS
  <1>a. /\ Indexes \subseteq 0..(MaxSize - 1) /\ Indexes \subseteq Nat
        /\ Workers \subseteq 1..Concurrency
        /\ next \in Indexes
        /\ \A i \in Indexes : i + 1 \notin Indexes => Indexes = 0..i
    BY IndexBounds DEF TypeOK
  <1>b. UNCHANGED inputVars => Indexes' = Indexes /\ Workers' = Workers
    BY DEF inputVars, Indexes, Workers
  <1>1. CASE Create
    BY <1>1, <1>a, <1>b DEF NoSilentLoss, Create, Handed, Delivered, inputVars, ctxVars
  <1>2. ASSUME NEW w \in Workers, Handoff(w)
        PROVE  NoSilentLoss'
    <2>1. /\ Handed' = 0..next /\ Handed = 0..(next - 1)
          /\ UNCHANGED <<inputVars, ctxVars, slots>>
      BY <1>2 DEF Handoff, Handed
    <2>2. /\ worker'[w].pc = "send" /\ worker'[w].job = next
          /\ \A v \in Workers \ {w} : worker'[v] = worker[v]
          /\ worker[w].pc = "receive"
      BY <1>2, <1>a DEF Handoff, TypeOK
    <2>3. \A i \in Handed : Delivered(i) => Delivered(i)'
      BY <1>b, <2>1, <2>2 DEF Delivered
    <2>4. Delivered(next)'
      BY <1>2, <1>b, <2>1, <2>2 DEF Delivered, Handoff
    <2>5. 0..next = 0..(next - 1) \cup {next}
      BY <1>a
    <2>6. QED
      BY <1>2, <2>1, <2>3, <2>4, <2>5 DEF NoSilentLoss, Handoff, ctxVars
  <1>3. CASE FeederSeesDone
    BY <1>3, <1>b DEF NoSilentLoss, FeederSeesDone, ctxVars
  <1>4. CASE FeederLoops
    <2>1. /\ UNCHANGED <<inputVars, ctxVars, slots, worker>>
          /\ Handed = 0..next
      BY <1>4 DEF FeederLoops, Handed
    <2>2. \A i : Delivered(i)' <=> Delivered(i)
      BY <1>b, <2>1 DEF Delivered
    <2>3. Handed' = 0..next
      BY <1>4, <1>a DEF FeederLoops, Handed
    <2>4. ~partDone /\ pc' = "wait" => Handed = Indexes
      BY <1>4, <1>a, <2>1 DEF FeederLoops
    <2>5. pc' \in {"wait", "feed"}
      BY <1>4 DEF FeederLoops
    <2>6. QED
      BY <1>b, <2>1, <2>2, <2>3, <2>4, <2>5 DEF NoSilentLoss, ctxVars
  <1>5. CASE Wait
    BY <1>5, <1>b DEF NoSilentLoss, Wait, Handed, Delivered, ctxVars
  <1>6. CASE Complete \/ Abort
    <2>1. /\ UNCHANGED <<inputVars, ctxVars, slots, worker, next>>
          /\ pc \in {"complete", "abort"} /\ pc' \in {"returned", "abort"}
      BY <1>6 DEF Complete, Abort
    <2>2. Handed' \subseteq Handed
      BY <2>1 DEF Handed
    <2>3. \A i : Delivered(i)' <=> Delivered(i)
      BY <1>b, <2>1 DEF Delivered
    <2>4. QED
      BY <1>b, <2>1, <2>2, <2>3 DEF NoSilentLoss, ctxVars
  <1>8. ASSUME NEW w \in Workers, WorkerExits(w)
        PROVE  NoSilentLoss'
    <2>1. /\ UNCHANGED <<inputVars, ctxVars, slots, pc, next>> /\ pc = "wait"
          /\ \A v \in Workers \ {w} : worker'[v] = worker[v]
          /\ worker[w].pc = "receive"
      BY <1>8, <1>a DEF WorkerExits, TypeOK
    <2>2. \A i : Delivered(i) => Delivered(i)'
      BY <1>b, <2>1 DEF Delivered
    <2>3. QED
      BY <1>b, <2>1, <2>2 DEF NoSilentLoss, ctxVars, Handed
  <1>9. ASSUME NEW w \in Workers, WorkerSends(w)
        PROVE  NoSilentLoss'
    <2>1. /\ UNCHANGED <<inputVars, slots, pc, next, callerDone>>
          /\ \A v \in Workers \ {w} : worker'[v] = worker[v]
          /\ worker[w].pc = "send"
      BY <1>9, <1>a DEF WorkerSends, WorkerFails, TypeOK
    <2>2. CASE ~partDone
      <3>1. /\ worker'[w].pc = "sent" /\ worker'[w].job = worker[w].job
            /\ UNCHANGED <<partDone, firstErr>>
        BY <1>9, <1>a, <2>2 DEF WorkerSends, TypeOK
      <3>2. \A i : Delivered(i) => Delivered(i)'
        BY <1>b, <2>1, <3>1 DEF Delivered
      <3>3. QED
        BY <1>b, <2>1, <3>1, <3>2 DEF NoSilentLoss, Handed
    <2>3. CASE partDone
      <3>1. partDone' /\ firstErr'
        BY <1>9, <2>3 DEF WorkerSends, WorkerFails
      <3>2. pc # "complete"
        BY <1>9 DEF WorkerSends, NoSilentLoss
      <3>3. QED
        BY <2>1, <3>1, <3>2 DEF NoSilentLoss
    <2>4. QED
      BY <2>2, <2>3
  <1>10. ASSUME NEW w \in Workers, WorkerUploads(w)
         PROVE  NoSilentLoss'
    <2>1. /\ UNCHANGED <<inputVars, pc, next, callerDone>>
          /\ \A v \in Workers \ {w} : worker'[v] = worker[v]
          /\ worker[w].pc = "sent" /\ worker[w].job \in Indexes
      BY <1>10, <1>a DEF WorkerUploads, WorkerFails, TypeOK
    <2>2. pc # "complete"
      BY <2>1 DEF NoSilentLoss
    <2>3. CASE WorkerFails(w)
      BY <2>1, <2>2, <2>3 DEF WorkerFails, NoSilentLoss
    <2>4. CASE /\ slots' = [slots EXCEPT ![worker[w].job] =
                             Section(size, limit, worker[w].job)]
               /\ UNCHANGED <<partDone, firstErr>>
      <3>1. Section(size, limit, worker[w].job) # Unset
        <4>1. size \in Nat /\ limit \in Nat
          BY PoolAssumption DEF TypeOK
        <4>2. worker[w].job \in Nat
          BY <1>a, <2>1
        <4>3. QED
          BY <4>1, <4>2, SectionTyped
      <3>2. \A i \in Indexes : Delivered(i) => Delivered(i)'
        BY <1>a, <1>b, <2>1, <2>4, <3>1 DEF Delivered, TypeOK
      <3>3. Handed' = Handed /\ Handed \subseteq Indexes
        <4>1. \A i \in Indexes : 0..i \subseteq Indexes /\ 0..(i - 1) \subseteq Indexes
          BY IndexBounds DEF TypeOK, Indexes
        <4>2. QED
          BY <1>a, <2>1, <4>1 DEF Handed
      <3>4. QED
        BY <1>b, <2>1, <2>2, <2>4, <3>2, <3>3 DEF NoSilentLoss
    <2>5. QED
      BY <1>10, <2>3, <2>4 DEF WorkerUploads
  <1>11. CASE CallerCancels
    BY <1>11, <1>b DEF NoSilentLoss, CallerCancels, Handed, Delivered
  <1>12. CASE UNCHANGED vars
    BY <1>12 DEF NoSilentLoss, vars, Handed, Delivered, Indexes, Workers
  <1>13. QED
    BY <1>1, <1>2, <1>3, <1>4, <1>5, <1>6, <1>8, <1>9, <1>10, <1>11,
       <1>12 DEF Next, CallerStep, WorkerStep, Returned

(* For every file and any number of workers: when CompleteMultipartUpload   *)
(* is sent without an error and under a live context, every slot of the     *)
(* list it carries has been filled by a worker.                             *)
THEOREM WholeList == Spec => []CompleteListIsWhole
  <1>1. TypeOK /\ NoSilentLoss => CompleteListIsWhole
    BY DEF NoSilentLoss, CompleteListIsWhole, Delivered
  <1>2. QED
    BY <1>1, InitTypeOK, StepTypeOK, InitNoSilentLoss, StepNoSilentLoss, PTL
       DEF Spec

-----------------------------------------------------------------------------
(* The object is the file *)

(* Every part but the last is full, and the last one is not empty.          *)
LEMMA PartsCover ==
    ASSUME NEW sz \in Nat \ {0}, NEW lim \in Nat \ {0}
    PROVE  /\ PartCount(sz, lim) \in Nat \ {0}
           /\ (PartCount(sz, lim) - 1) * lim < sz
           /\ sz <= PartCount(sz, lim) * lim
  <1> DEFINE q == (sz + lim - 1) \div lim
  <1>1. /\ q \in Int
        /\ lim * q <= sz + lim - 1
        /\ sz + lim - 1 < lim * q + lim
    OBVIOUS
  <1>2. q \in Nat \ {0}
    BY PartCountBounds DEF PartCount
  <1>3. (q - 1) * lim = lim * q - lim /\ q * lim = lim * q
    BY <1>1
  <1> HIDE DEF q
  <1>4. (q - 1) * lim < sz /\ sz <= q * lim
    BY <1>1, <1>3
  <1>5. QED
    BY <1>2, <1>4 DEF PartCount, q

(* Sections 0, 1, ... follow each other: each starts where the previous one *)
(* ends, none is empty or too long, and the last one ends with the file.    *)
LEMMA SectionsFollow ==
    ASSUME NEW sz \in Nat \ {0}, NEW lim \in Nat \ {0},
           NEW i \in 0..(PartCount(sz, lim) - 1)
    PROVE  /\ Section(sz, lim, i).offset = i * lim
           /\ Section(sz, lim, i).length \in 1..lim
           /\ i + 1 < PartCount(sz, lim) => Section(sz, lim, i).length = lim
           /\ i + 1 = PartCount(sz, lim) =>
                Section(sz, lim, i).offset + Section(sz, lim, i).length = sz
  <1> DEFINE q == PartCount(sz, lim)
  <1>1. q \in Nat \ {0} /\ (q - 1) * lim < sz /\ sz <= q * lim
    BY PartsCover
  <1>2. /\ Section(sz, lim, i).offset = i * lim
        /\ Section(sz, lim, i).length = IF sz - i * lim < lim THEN sz - i * lim ELSE lim
    BY DEF Section
  <1>3. i \in Nat /\ i <= q - 1 /\ i * lim \in Nat
    BY <1>1
  <1> HIDE DEF q
  <1>4. i * lim <= (q - 1) * lim
    BY <1>1, <1>3
  <1>5. i + 1 = q => i * lim + lim = q * lim
    BY <1>1, <1>3
  <1>6. i + 1 < q => i * lim + lim <= (q - 1) * lim
    <2> SUFFICES ASSUME i + 1 <= q - 1 PROVE (i + 1) * lim <= (q - 1) * lim
      BY <1>1, <1>3
    <2>1. QED
      BY <1>1, <1>3
  <1>7. QED
    BY <1>1, <1>2, <1>3, <1>4, <1>5, <1>6 DEF q

LEMMA InitInOrder == Init => InOrder
  <1> SUFFICES ASSUME Init PROVE InOrder
    OBVIOUS
  <1>1. Indexes \subseteq 0..(MaxSize - 1)
    BY IndexBounds DEF Init
  <1>2. QED
    BY <1>1 DEF Init, InOrder

(* S3 only completes a list without an unfilled slot: that of the sections. *)
LEMMA CompletedInOrder ==
    ASSUME TypeOK, InOrder, S3Accepts
    PROVE  Listed = [n \in 1..PartCount(size, limit) |-> Section(size, limit, n - 1)]
  <1>1. PartCount(size, limit) \in Nat
    BY IndexBounds DEF TypeOK
  <1>2. \A n \in 1..PartCount(size, limit) : n - 1 \in Indexes
    BY <1>1 DEF Indexes
  <1>3. \A n \in 1..PartCount(size, limit) : slots[n - 1] = Section(size, limit, n - 1)
    BY <1>2 DEF S3Accepts, InOrder
  <1>4. QED
    BY <1>3 DEF Listed

LEMMA StepInOrder == TypeOK /\ InOrder /\ [Next]_vars => InOrder'
  <1> SUFFICES ASSUME TypeOK, InOrder, [Next]_vars PROVE InOrder'
    OBVIOUS
  <1>1. UNCHANGED inputVars /\ Indexes' = Indexes
    BY DEF Next, CallerStep, WorkerStep, Create, Handoff, FeederSeesDone, FeederLoops,
           Wait, Complete, Abort, WorkerExits, WorkerSends, WorkerUploads, CallerCancels,
           Returned, vars, inputVars, Indexes
  <1>2. CASE Create
    BY <1>1, <1>2 DEF Create, InOrder, inputVars
  <1>3. CASE Complete
    <2>1. phase' = "completed" =>
            object' = [n \in 1..PartCount(size, limit) |-> Section(size, limit, n - 1)]
      BY <1>3, CompletedInOrder DEF Complete, InOrder
    <2>2. QED
      BY <1>1, <1>3, <2>1 DEF Complete, InOrder, inputVars
  <1>4. CASE Abort
    BY <1>1, <1>4 DEF Abort, InOrder, inputVars
  <1>5. ASSUME NEW w \in Workers, WorkerUploads(w) PROVE InOrder'
    <2>1. /\ slots' \in {slots, [slots EXCEPT ![worker[w].job] =
                                    Section(size, limit, worker[w].job)]}
          /\ UNCHANGED <<phase, object>>
      BY <1>5 DEF WorkerUploads
    <2>2. slots \in [0..(MaxSize - 1) -> SectionType] /\ Indexes \subseteq 0..(MaxSize - 1)
      BY IndexBounds DEF TypeOK
    <2> DEFINE sec == Section(size, limit, worker[w].job)
    <2>3. \A i \in Indexes :
            slots'[i] = slots[i] \/ (i = worker[w].job /\ slots'[i] = sec)
      <3> HIDE DEF sec
      <3>1. QED
        BY <2>1, <2>2 DEF sec
    <2>4. \A i \in Indexes : slots'[i] \in {Unset, Section(size, limit, i)}
      BY <2>3 DEF InOrder
    <2>5. QED
      BY <1>1, <2>1, <2>4 DEF InOrder, inputVars
  <1>6. CASE UNCHANGED <<slots, s3Vars>>
    BY <1>1, <1>6 DEF InOrder, inputVars, s3Vars
  <1>7. QED
    BY <1>2, <1>3, <1>4, <1>5, <1>6
       DEF Next, CallerStep, WorkerStep, Handoff, FeederSeesDone, FeederLoops, Wait,
           WorkerExits, WorkerSends, CallerCancels, Returned, vars, s3Vars

(* For every size and part size, and however the workers raced and failed,  *)
(* a completed object is the file: its sections follow each other from the  *)
(* first byte to the last.                                                  *)
THEOREM WholeFile == Spec => []ObjectIsFile
  <1>1. TypeOK /\ InOrder => ObjectIsFile
    <2> SUFFICES ASSUME TypeOK, InOrder, phase = "completed" PROVE ObjectIsFile
      BY DEF ObjectIsFile
    <2> DEFINE q == PartCount(size, limit)
    <2>1. size \in Nat \ {0} /\ limit \in Nat \ {0}
      BY PoolAssumption DEF TypeOK
    <2>2. q \in Nat \ {0}
      BY <2>1, PartsCover
    <2>3. object = [n \in 1..q |-> Section(size, limit, n - 1)]
      BY DEF InOrder
    <2>4. Len(object) = q /\ DOMAIN object = 1..q /\ object # <<>>
      <3>1. object \in Seq(SectionType) /\ DOMAIN object = 1..q
        BY <2>3 DEF TypeOK
      <3>2. Len(object) = q
        BY <2>2, <3>1, LenProperties
      <3>3. QED
        BY <2>2, <3>1, <3>2, EmptySeq
    <2>5. \A n \in 1..q :
            /\ object[n].offset = (n - 1) * limit
            /\ object[n].length \in 1..limit
            /\ n < q => object[n].length = limit
            /\ n = q => object[n].offset + object[n].length = size
      <3> TAKE n \in 1..q
      <3>1. n - 1 \in 0..(q - 1) /\ object[n] = Section(size, limit, n - 1)
        BY <2>2, <2>3
      <3>2. (n - 1) + 1 = n
        OBVIOUS
      <3>3. QED
        BY <2>1, <3>1, <3>2, SectionsFollow
    <2>6. \A n \in 1..(q - 1) : object[n + 1].offset = object[n].offset + object[n].length
      <3> TAKE n \in 1..(q - 1)
      <3>1. n \in 1..q /\ n + 1 \in 1..q /\ n < q
        BY <2>2
      <3>2. /\ object[n].offset = (n - 1) * limit /\ object[n].length = limit
            /\ object[n + 1].offset = ((n + 1) - 1) * limit
        BY <2>5, <3>1
      <3>3. ((n + 1) - 1) * limit = (n - 1) * limit + limit
        BY <2>1, <2>2
      <3>4. QED
        BY <3>2, <3>3
    <2>7. object[1].offset = 0
      <3>1. 1 \in 1..q /\ (1 - 1) * limit = 0
        BY <2>1, <2>2
      <3>2. QED
        BY <2>5, <3>1
    <2>8. object[q].offset + object[q].length = size
      BY <2>2, <2>5
    <2> HIDE DEF q
    <2>9. QED
      BY <2>4, <2>5, <2>6, <2>7, <2>8 DEF ObjectIsFile
  <1>2. QED
    BY <1>1, InitTypeOK, StepTypeOK, InitInOrder, StepInOrder, PTL DEF Spec

-----------------------------------------------------------------------------
(* No upload is left open                                                   *)

(* A step that gives control back to a caller who is still there leaves the *)
(* upload open only if the creating or the aborting call itself failed:     *)
(* every other failure goes through the deferred abort.                     *)
THEOREM NothingLeftOpen == Spec => NoOrphan
  <1>1. ASSUME TypeOK, [Next]_vars, pc # "returned", pc' = "returned", ~callerDone,
               phase' = "open"
        PROVE  pc \in {"create", "abort"} /\ faults' > faults
    <2>1. Create \/ Complete \/ Abort
      BY <1>1 DEF Next, CallerStep, WorkerStep, Handoff, FeederSeesDone, FeederLoops, Wait,
                  WorkerExits, WorkerSends, WorkerUploads, CallerCancels, Returned, vars
    <2>2. faults \in Nat
      BY <1>1, PoolAssumption DEF TypeOK
    <2>3. CASE Create
      BY <1>1, <2>2, <2>3 DEF Create, Fault
    <2>4. ~Complete
      BY <1>1 DEF Complete
    <2>5. CASE Abort
      BY <1>1, <2>2, <2>5 DEF Abort, Fault
    <2>6. QED
      BY <2>1, <2>3, <2>4, <2>5
  <1>2. TypeOK /\ [Next]_vars =>
          [ pc # "returned" /\ pc' = "returned" /\ ~callerDone /\ phase' = "open"
            => pc \in {"create", "abort"} /\ faults' > faults ]_vars
    BY <1>1
  <1>3. QED
    BY <1>2, InitTypeOK, StepTypeOK, PTL DEF Spec, NoOrphan
=============================================================================
