------------------------- MODULE AuditForwarder_proofs -------------------------
(***************************************************************************)
(* Proofs about AuditForwarder for any number of replicas and events, any   *)
(* readings of the clock, any batch size and any number of failures.        *)
(***************************************************************************)
EXTENDS AuditForwarder, FiniteSetTheorems, SequenceTheorems, TLAPS

(* The order of the rows is a strict total order on events.                 *)
LEMMA Order ==
    /\ \A d, e, f \in Event : Before(d, e) /\ Before(e, f) => Before(d, f)
    /\ \A d, e \in Event : Before(d, e) => ~Before(e, d)
    /\ \A d, e \in Event : d = e \/ Before(d, e) \/ Before(e, d)
  BY DEF Event, Before

LEMMA FormatNat == ASSUME NEW t \in Nat PROVE Format(t) \in Nat
  <1> DEFINE second == t \div (Base * Base)
             tenth == (t \div Base) % Base
             hundredth == t % Base
  <1>1. Base \in Nat /\ Base > 0 /\ Base * Base \in Nat /\ Base * Base > 0
    BY AuditAssumption
  <1>2. second \in Nat /\ tenth \in Nat /\ hundredth \in Nat
    BY <1>1
  <1>3. \A s, x, y \in Nat : (s * (Base + 1) + x) * (Base + 1) + y \in Nat
    <2>1. \A s, b \in Nat : s * b \in Nat
      OBVIOUS
    <2>2. Base + 1 \in Nat
      BY <1>1
    <2>3. QED
      BY <2>1, <2>2
  <1>4. CASE tenth = 0 /\ hundredth = 0
    BY <1>1, <1>2, <1>3, <1>4 DEF Format
  <1>5. CASE hundredth = 0 /\ tenth # 0
    BY <1>1, <1>2, <1>3, <1>5 DEF Format
  <1>6. CASE hundredth # 0
    BY <1>1, <1>2, <1>3, <1>6 DEF Format
  <1>7. QED
    BY <1>4, <1>5, <1>6

LEMMA LimitNat == Limit \in Nat \ {0}
  BY AuditAssumption DEF Limit

-----------------------------------------------------------------------------
(* The inductive invariant *)

LEMMA InitIInv == Init => IInv
  <1> SUFFICES ASSUME Init PROVE IInv
    OBVIOUS
  <1>1. Cardinality({}) = 0 /\ IsFiniteSet({})
    BY FS_EmptySet
  <1>2. Forwarded = {}
    BY DEF Init, Forwarded
  <1>3. TypeOK
    BY <1>1, LimitNat, AuditAssumption, EmptySeq DEF Init, TypeOK, Origin, Event
  <1>4. QED
    BY <1>1, <1>2, <1>3 DEF Init, IInv, BatchIsNext, WrittenIsBehind, NoReplay

(* Appending an event to what has been written adds it to Forwarded.        *)
LEMMA ForwardedAppend ==
    ASSUME NEW e, out \in Seq(Event), out' = Append(out, e)
    PROVE  Forwarded' = Forwarded \cup {e}
  BY DEF Forwarded

LEMMA StepIInv == IInv /\ [Next]_vars => IInv'
  <1> SUFFICES ASSUME IInv, [Next]_vars PROVE IInv'
    OBVIOUS
  <1> USE DEF IInv
  <1>a. \A s : s \subseteq table => IsFiniteSet(s)
    BY FS_Subset
  <1>b. UNCHANGED out => Forwarded' = Forwarded
    BY DEF Forwarded
  <1>1. ASSUME NEW r \in Replicas, Stamp(r)
        PROVE  IInv'
    <2>1. logger' \in [Replicas -> SUBSET Event] /\ now' \in {-1} \cup Instants
      BY <1>1, FormatNat, AuditAssumption DEF Stamp, TypeOK, Event
    <2>0. \A q \in Replicas : IsFiniteSet(logger'[q])
      <3>1. PICK e : logger' = [logger EXCEPT ![r] = {e}]
        BY <1>1 DEF Stamp
      <3>2. IsFiniteSet({e})
        BY FS_Singleton
      <3>3. QED
        BY <3>1, <3>2 DEF TypeOK
    <2>2. /\ UNCHANGED <<table, pc, cursor, batch, out, fresh, late, faults>>
      BY <1>1 DEF Stamp
    <2>3. QED
      BY <1>b, <2>0, <2>1, <2>2 DEF TypeOK, BatchIsNext, WrittenIsBehind, NoReplay
  <1>2. ASSUME NEW r \in Replicas, Commit(r)
        PROVE  IInv'
    <2>1. UNCHANGED <<now, pc, cursor, batch, out>>
      BY <1>2 DEF Commit
    <2>0. \A q \in Replicas : IsFiniteSet(logger'[q])
      BY <1>2, FS_EmptySet DEF Commit, TypeOK
    <2>2. CASE UNCHANGED <<table, fresh, late>>
      <3>1. logger' \in [Replicas -> SUBSET Event] /\ faults' \in 0..MaxFaults
        BY <1>2, AuditAssumption DEF Commit, TypeOK, Fault
      <3>2. QED
        BY <1>b, <2>0, <2>1, <2>2, <3>1 DEF TypeOK, BatchIsNext, WrittenIsBehind, NoReplay
    <2>3. CASE /\ table' = table \cup logger[r]
               /\ \/ pc = "down" /\ UNCHANGED <<fresh, late>>
                  \/ /\ pc # "down"
                     /\ fresh' = fresh \cup logger[r]
                     /\ late' = late \cup {e \in logger[r] : Behind(e)}
      <3>1. /\ logger' \in [Replicas -> SUBSET Event]
            /\ logger[r] \subseteq Event
            /\ faults' \in 0..MaxFaults
        BY <1>2, AuditAssumption DEF Commit, TypeOK, Fault
      <3>2. IsFiniteSet(table')
        BY <1>2, <2>3, FS_Union DEF Commit
      <3>3. TypeOK'
        BY <2>1, <2>3, <3>1 DEF TypeOK
      <3>4. \A e \in (fresh' \ late') \ (fresh \ late) :
               Before(cursor, e) /\ \A b \in batch : Before(b, e)
        BY <2>3 DEF Behind, TypeOK
      <3>5. BatchIsNext'
        <4>1. \A e \in fresh' \ late' :
                \/ e \in Forwarded
                \/ e \in batch
                \/ Before(cursor, e) /\ \A b \in batch : Before(b, e)
          BY <3>4 DEF BatchIsNext
        <4>2. pc = "down" => fresh' = {}
          BY <2>3 DEF BatchIsNext
        <4>3. QED
          BY <1>b, <2>1, <4>1, <4>2 DEF BatchIsNext
      <3>6. QED
        BY <1>b, <2>0, <2>1, <2>3, <3>2, <3>3, <3>5 DEF WrittenIsBehind, NoReplay
    <2>4. QED
      BY <1>2, <2>2, <2>3 DEF Commit
  <1>3. CASE Start
    <2>1. UNCHANGED <<trailVars, batch, out>>
      BY <1>3 DEF Start
    <2>2. /\ pc = "down" /\ pc' \in {"down", "poll"} /\ batch = {}
          /\ cursor' \in Event /\ faults' \in 0..MaxFaults
      BY <1>3, AuditAssumption DEF Start, TypeOK, BatchIsNext, Origin, Event, Fault
    <2>3. TypeOK'
      BY <2>1, <2>2 DEF TypeOK, trailVars
    <2>4. pc' # "down" => \A e \in Forwarded : ~Before(cursor', e)
      BY <1>3 DEF Start, WrittenIsBehind
    <2>5. \A e \in fresh \ late : e \in Forwarded
      BY <2>2 DEF BatchIsNext
    <2>6. QED
      BY <1>b, <2>1, <2>2, <2>3, <2>4, <2>5
         DEF BatchIsNext, WrittenIsBehind, NoReplay, trailVars
  <1>4. CASE Poll
    <2>1. UNCHANGED <<trailVars, cursor, out>> /\ pc = "poll" /\ batch = {}
      BY <1>4 DEF Poll, BatchIsNext
    <2>2. CASE pc' = "sleep" /\ UNCHANGED batch
      <3>1. faults' \in 0..MaxFaults
        BY <1>4, AuditAssumption DEF Poll, TypeOK, Fault
      <3>2. QED
        BY <1>b, <2>1, <2>2, <3>1
           DEF TypeOK, BatchIsNext, WrittenIsBehind, NoReplay, trailVars
    <2>3. CASE pc' = "emit" /\ UNCHANGED faults
      <3>1. PICK b \in SUBSET After(cursor) :
              /\ Cardinality(b) <= Limit
              /\ \A e \in b, d \in After(cursor) \ b : Before(e, d)
              /\ batch' = b
        BY <1>4, <2>3 DEF Poll
      <3>2. TypeOK'
        BY <2>1, <2>3, <3>1 DEF TypeOK, After, trailVars
      <3>3. \A e \in fresh \ late : e \in Forwarded \/ e \in After(cursor)
        BY <2>1 DEF BatchIsNext, After, TypeOK
      <3>4. BatchIsNext'
        BY <1>b, <2>1, <2>3, <3>1, <3>3 DEF BatchIsNext, After, trailVars
      <3>5. QED
        BY <1>b, <2>1, <2>3, <3>2, <3>4 DEF WrittenIsBehind, NoReplay, trailVars
    <2>4. QED
      BY <1>4, <2>2, <2>3 DEF Poll
  <1>5. CASE Emit
    <2>1. PICK e \in batch :
            /\ \A b \in batch : ~Before(b, e)
            /\ out' = Append(out, e)
            /\ cursor' = e
            /\ batch' = batch \ {e}
      BY <1>5 DEF Emit
    <2>2. UNCHANGED <<trailVars, pc, faults>> /\ pc = "emit"
      BY <1>5 DEF Emit
    <2>3. e \in Event /\ e \in table /\ Before(cursor, e) /\ cursor \in Event
      BY <2>1 DEF TypeOK, BatchIsNext
    <2>4. Forwarded' = Forwarded \cup {e}
      BY <2>1, <2>3, ForwardedAppend DEF TypeOK
    <2>5. TypeOK'
      <3>1. Cardinality(batch') <= Cardinality(batch)
        BY SMTT(30), <1>a, <2>1, FS_RemoveElement, FS_CardinalityType DEF TypeOK
      <3>2. Cardinality(batch') \in Nat /\ Cardinality(batch) \in Nat
        BY <1>a, <2>1, FS_CardinalityType DEF TypeOK
      <3>3. Cardinality(batch') <= Limit
        BY <3>1, <3>2, LimitNat DEF TypeOK
      <3>4. QED
        BY <2>1, <2>2, <2>3, <3>3 DEF TypeOK, trailVars
    <2>6. \A f \in Forwarded : Before(f, e)
      <3>1. \A f \in Forwarded : f \in Event /\ ~Before(cursor, f)
        BY <2>2 DEF WrittenIsBehind, TypeOK
      <3>2. QED
        BY <2>3, <3>1, Order
    <2>7. \A b \in batch \ {e} : Before(e, b)
      BY <2>1, <2>3, Order DEF TypeOK
    <2>8. BatchIsNext'
      <3>1. \A f \in fresh \ late : 
              \/ f \in Forwarded'
              \/ f \in batch'
              \/ Before(e, f) /\ \A b \in batch' : Before(b, f)
        BY <2>1, <2>4 DEF BatchIsNext
      <3>2. QED
        BY <2>1, <2>2, <2>7, <3>1 DEF BatchIsNext, trailVars
    <2>9. WrittenIsBehind'
      <3>1. ~Before(e, e)
        BY <2>3, Order
      <3>2. \A f \in Forwarded : ~Before(e, f)
        BY <2>3, <2>6, Order DEF WrittenIsBehind, TypeOK
      <3>3. QED
        BY <2>1, <2>2, <2>3, <2>4, <3>1, <3>2 DEF WrittenIsBehind, trailVars
    <2>10. NoReplay'
      <3>1. Len(out') = Len(out) + 1 /\ DOMAIN out = 1..Len(out) /\ Len(out) \in Nat
            /\ DOMAIN out' = 1..(Len(out) + 1)
            /\ \A n \in 1..Len(out) : out'[n] = out[n]
            /\ out'[Len(out) + 1] = e
        BY <2>1, <2>3 DEF TypeOK
      <3>2. \A n \in DOMAIN out : Before(out[n], e)
        BY <2>6 DEF Forwarded
      <3>3. QED
        BY <3>1, <3>2 DEF NoReplay
    <2>11. QED
      BY <2>2, <2>5, <2>8, <2>9, <2>10 DEF trailVars
  <1>6. CASE Emitted \/ Wake
    BY <1>b, <1>6
       DEF Emitted, Wake, TypeOK, BatchIsNext, WrittenIsBehind, NoReplay, trailVars
  <1>7. CASE Die
    <2>1. faults' \in 0..MaxFaults
      BY <1>7, AuditAssumption DEF Die, TypeOK, Fault
    <2>2. Cardinality({}) <= Limit
      BY FS_EmptySet, LimitNat
    <2>3. QED
      BY <1>7, <1>b, <2>1, <2>2
         DEF Die, TypeOK, BatchIsNext, WrittenIsBehind, NoReplay
  <1>8. CASE UNCHANGED vars
    BY <1>b, <1>8 DEF vars, TypeOK, BatchIsNext, WrittenIsBehind, NoReplay
  <1>9. QED
    BY <1>1, <1>2, <1>3, <1>4, <1>5, <1>6, <1>7, <1>8 DEF Next, Forwarder

(* The trail keeps its types, and no batch exceeds the limit of its query.  *)
THEOREM TypeCorrect == Spec => []TypeOK
  <1>1. IInv => TypeOK
    BY DEF IInv
  <1>2. QED
    BY <1>1, InitIInv, StepIInv, PTL DEF Spec

(* Whatever fails and however often the sidecar is restarted, it never      *)
(* writes an event twice or out of the order of the table.                  *)
THEOREM WrittenOnce == Spec => []NoReplay
  <1>1. IInv => NoReplay
    BY DEF IInv
  <1>2. QED
    BY <1>1, InitIInv, StepIInv, PTL DEF Spec

(* For any number of replicas and any timestamps, an event inserted ahead   *)
(* of the sidecar's position is never passed over.                          *)
THEOREM NothingOwedIsLost == Spec => []OwedForwarded
  <1>1. IInv => OwedForwarded
    BY DEF IInv, BatchIsNext, OwedForwarded
  <1>2. QED
    BY <1>1, InitIInv, StepIInv, PTL DEF Spec

-----------------------------------------------------------------------------
(* One replica, and timestamps whose strings are in the order of the clock  *)

InOrder ==
    /\ \A q, r \in Replicas : q = r
    /\ \A s, t \in Instants : s < t => Format(s) < Format(t)

LEMMA InitPunctual == Init => Punctual
  BY DEF Init, Punctual

LEMMA StepPunctual == InOrder /\ IInv /\ Punctual /\ [Next]_vars => Punctual'
  <1> SUFFICES ASSUME InOrder, IInv, Punctual, [Next]_vars PROVE Punctual'
    OBVIOUS
  <1> USE DEF IInv
  <1>1. ASSUME NEW r \in Replicas, Stamp(r)
        PROVE  Punctual'
    <2>1. PICK t \in Instants, i \in Ids :
            /\ t > now
            /\ now' = t
            /\ logger' = [logger EXCEPT ![r] = {[at |-> Format(t), id |-> i]}]
      BY <1>1 DEF Stamp
    <2>2. UNCHANGED <<table, cursor, late>>
      BY <1>1 DEF Stamp
    <2>3. \A q \in Replicas : q = r
      BY DEF InOrder
    <2>4. logger'[r] = {[at |-> Format(t), id |-> i]}
      BY <2>1 DEF TypeOK
    <2>5. t \in Nat /\ now \in Int /\ Format(t) \in Nat
      BY FormatNat, AuditAssumption DEF TypeOK
    <2>6. \A e \in table : \E s \in Instants :
            s \in Nat /\ s < t /\ e.at = Format(s) /\ Format(s) < Format(t)
      <3>1. ASSUME NEW e \in table
            PROVE  \E s \in Instants :
                     s \in Nat /\ s < t /\ e.at = Format(s) /\ Format(s) < Format(t)
        <4>1. PICK s \in Instants : s <= now /\ e.at = Format(s)
          BY DEF Punctual
        <4>2. s \in Nat /\ s < t
          BY <2>1, <2>5, <4>1, AuditAssumption
        <4>3. QED
          BY <4>1, <4>2 DEF InOrder
      <3>2. QED
        BY <3>1
    <2>7. \A e \in logger'[r], d \in table : Before(d, e)
      BY <2>4, <2>6 DEF Before
    <2>8. \A e \in table' \cup UNION {logger'[q] : q \in Replicas} :
            \E s \in Instants : s <= now' /\ e.at = Format(s)
      <3>1. \A e \in logger'[r] : e.at = Format(t) /\ t <= now'
        BY <2>1, <2>4, <2>5
      <3>2. \A e \in table : \E s \in Instants : s <= now' /\ e.at = Format(s)
        BY <2>1, <2>5, <2>6
      <3>3. QED
        BY <2>2, <2>3, <3>1, <3>2
    <2>9. QED
      BY <2>2, <2>3, <2>7, <2>8 DEF Punctual
  <1>2. ASSUME NEW r \in Replicas, Commit(r)
        PROVE  Punctual'
    <2>1. /\ UNCHANGED <<now, cursor, batch>>
          /\ logger' = [logger EXCEPT ![r] = {}]
          /\ table \subseteq table' /\ table' \subseteq table \cup logger[r]
      BY <1>2 DEF Commit
    <2>2. logger'[r] = {} /\ \A q \in Replicas : q = r
      BY <2>1 DEF TypeOK, InOrder
    <2>3. \A e \in logger[r] : ~Behind(e)
      <3>1. ASSUME NEW e \in logger[r]
            PROVE  Before(cursor, e) /\ \A b \in batch : Before(b, e)
        <4>1. \A d \in table : Before(d, e)
          BY DEF Punctual
        <4>2. Before(Origin, e)
          <5>1. PICK t \in Instants : e.at = Format(t)
            BY DEF Punctual
          <5>2. Format(t) \in Nat
            BY FormatNat, AuditAssumption
          <5>3. QED
            BY <5>1, <5>2 DEF Before, Origin
        <4>3. QED
          BY <4>1, <4>2 DEF Punctual, TypeOK
      <3>2. QED
        BY <3>1 DEF Behind
    <2>4. late' = {}
      BY <1>2, <2>3 DEF Commit, Punctual
    <2>5. QED
      BY <2>1, <2>2, <2>4 DEF Punctual
  <1>3. CASE Start
    BY <1>3 DEF Start, Punctual, trailVars
  <1>4. CASE Emit
    <2>1. cursor' \in table /\ UNCHANGED trailVars
      BY <1>4 DEF Emit, TypeOK
    <2>2. QED
      BY <2>1 DEF Punctual, trailVars
  <1>5. CASE Poll \/ Emitted \/ Wake
    BY <1>5 DEF Poll, Emitted, Wake, Punctual, trailVars
  <1>6. CASE Die
    BY <1>6 DEF Die, Punctual
  <1>7. CASE UNCHANGED vars
    BY <1>7 DEF vars, Punctual
  <1>8. QED
    BY <1>1, <1>2, <1>3, <1>4, <1>5, <1>6, <1>7 DEF Next, Forwarder

(* With one replica, and as long as the strings of the clock's readings     *)
(* are in the order of the readings, the sidecar passes over no new event.  *)
THEOREM InOrderNothingIsSkipped ==
    ASSUME InOrder
    PROVE  Spec => []EachNewForwarded
  <1>1. IInv /\ Punctual => EachNewForwarded
    BY DEF IInv, Punctual, BatchIsNext, EachNewForwarded
  <1> DEFINE Both == IInv /\ Punctual
  <1>2. Init => Both
    BY InitIInv, InitPunctual
  <1>3. Both /\ [Next]_vars => Both'
    BY StepIInv, StepPunctual
  <1>4. Both => EachNewForwarded
    BY <1>1
  <1> HIDE DEF Both
  <1>5. QED
    BY <1>2, <1>3, <1>4, PTL DEF Spec
=============================================================================
