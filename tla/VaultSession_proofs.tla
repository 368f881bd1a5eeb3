-------------------------- MODULE VaultSession_proofs --------------------------
(***************************************************************************)
(* Proofs about VaultSession for any number of sessions, passwords,         *)
(* connections and concurrent requests.                                     *)
(***************************************************************************)
EXTENDS VaultSession, TLAPS

LEMMA InitIInv == Init => IInv
  <1> SUFFICES ASSUME Init PROVE IInv
    OBVIOUS
  <1>1. Idle \in Request /\ NoRow \in Row /\ Absent \in Entry
    BY DEF Absent, Entry, NoRow, Row, Idle, Request, Changes
  <1>2. TypeOK
    BY <1>1 DEF Init, TypeOK
  <1>3. \A t \in Threads : Admitted(t) /\ OwnData(t)
    BY DEF Init, Admitted, OwnData, Held, At, Idle
  <1>4. QED
    BY <1>2, <1>3 DEF Init, IInv, KeySeparation, Serial, NoRow

(* What a handler would save is a set of connections.                       *)
LEMMA EffectType ==
    ASSUME IInv, NEW t \in Threads, At(t, "save"), NEW C \in SUBSET Conns
    PROVE  Effect(t, C) \in SUBSET Conns
  BY DEF IInv, Admitted, OwnData, Effect, At, Changes

(* A thread whose request is over holds nothing.                            *)
LEMMA IdleRequest ==
    ASSUME NEW t \in Threads, req'[t] = Idle
    PROVE  Admitted(t)' /\ OwnData(t)'
  BY DEF Idle, Admitted, OwnData, Held, At, NoRow

(* What holds of a thread depends on its request, on the ids handed out and *)
(* on what its connections were created under, which is never changed.      *)
LEMMA OtherRequest ==
    ASSUME IInv, NEW t \in Threads, req'[t] = req[t], issued \subseteq issued',
           \A c \in Conns : under[c] # None => under'[c] = under[c]
    PROVE  Admitted(t)' /\ OwnData(t)'
  <1>1. Admitted(t) /\ OwnData(t) /\ req[t] \in Request
    BY DEF IInv, TypeOK
  <1>2. Admitted(t)'
    BY <1>1 DEF Admitted, At
  <1>3. req[t].password \in Passwords => req[t].password # None
    BY VaultAssumption
  <1>4. Held(t)' = Held(t)
    BY DEF Held, At, Effect
  <1>5. At(t, "save") \/ At(t, "load") => req[t].password # None
    BY <1>1, <1>3 DEF Admitted, At
  <1>6. Held(t) # {} => req[t].password # None
    BY <1>5 DEF Held
  <1>7. \A c \in Held(t) : c \in Conns /\ under'[c] = req[t].password
    BY <1>1, <1>6 DEF OwnData
  <1>8. At(t, "save") => \A c \in req[t].seen.conns : under'[c] = req[t].password
    BY <1>1, <1>5 DEF OwnData, Request, Row
  <1>9. QED
    BY <1>1, <1>2, <1>4, <1>7, <1>8 DEF OwnData, At

(* Starting, expiring and ending sessions.                                  *)
LEMMA SessionStep ==
    ASSUME IInv, NEW s \in Sids, StartSession(s) \/ Expire(s) \/ Logout(s)
    PROVE  IInv'
  <1>1. TypeOK'
    BY DEF StartSession, Expire, Logout, Accepted, IInv, TypeOK, Entry, Absent,
           Row, NoRow, historyVars
  <1>2. UNCHANGED <<row, req, under, promised, stale>> /\ issued \subseteq issued'
    BY DEF StartSession, Expire, Logout, historyVars
  <1>3. \A t \in Threads : Admitted(t)' /\ OwnData(t)'
    BY <1>2, OtherRequest
  <1>4. QED
    BY <1>1, <1>2, <1>3 DEF IInv, KeySeparation, Serial

LEMMA RestartStep == IInv /\ Restart => IInv'
  <1> SUFFICES ASSUME IInv, Restart PROVE IInv'
    OBVIOUS
  <1>1. TypeOK'
    BY VaultAssumption
       DEF Restart, IInv, TypeOK, Entry, Absent, Row, NoRow, Idle, Request, Changes,
           historyVars
  <1>2. \A t \in Threads : req'[t] = Idle
    BY DEF Restart
  <1>3. QED
    BY <1>1, <1>2, IdleRequest
       DEF IInv, Restart, KeySeparation, Serial, historyVars

(* A step of one thread that leaves the row alone.                          *)
LEMMA ThreadStep ==
    ASSUME IInv, NEW t \in Threads, NEW q \in Request,
           req' = [req EXCEPT ![t] = q], UNCHANGED <<row, issued, promised, stale, destroyed>>,
           sessions' \in [Sids -> Entry],
           \A s \in Sids \ issued : sessions'[s] = sessions[s],
           under' \in [Conns -> Passwords \cup {None}],
           \A c \in Conns : under[c] # None => under'[c] = under[c],
           Admitted(t)' /\ OwnData(t)'
    PROVE  IInv'
  <1>1. req' \in [Threads -> Request]
    BY DEF IInv, TypeOK
  <1>2. TypeOK'
    BY <1>1 DEF IInv, TypeOK
  <1>3. \A u \in Threads \ {t} : req'[u] = req[u]
    BY DEF IInv, TypeOK
  <1>4. \A u \in Threads : Admitted(u)' /\ OwnData(u)'
    BY <1>3, OtherRequest
  <1>5. \A c \in row.conns : under[c] = row.key /\ row.key # None
    BY DEF IInv, TypeOK, KeySeparation, NoRow
  <1>6. KeySeparation'
    BY <1>5 DEF IInv, TypeOK, KeySeparation, Row
  <1>7. Serial'
    BY DEF IInv, Serial
  <1>8. QED
    BY <1>2, <1>4, <1>6, <1>7 DEF IInv

(* A request that ends without an effect.                                   *)
LEMMA FinishStep ==
    ASSUME IInv, NEW t \in Threads, Finish(t), UNCHANGED <<row, historyVars>>,
           sessions' \in [Sids -> Entry],
           \A s \in Sids \ issued : sessions'[s] = sessions[s]
    PROVE  IInv'
  <1>1. Idle \in Request
    BY DEF Idle, Request, Changes, Row, NoRow
  <1>2. req'[t] = Idle
    BY DEF Finish, IInv, TypeOK
  <1>3. Admitted(t)' /\ OwnData(t)'
    BY <1>2, IdleRequest
  <1>4. QED
    BY <1>1, <1>3, ThreadStep DEF Finish, historyVars, IInv, TypeOK

LEMMA ArriveStep == ASSUME IInv, NEW t \in Threads, Arrive(t) PROVE IInv'
  <1>1. PICK s \in Sids :
          /\ Accepted(s)
          /\ \/ \E p \in Passwords : Handle(t, "unlock", "load", s, p, None)
             \/ Handle(t, "lock", "lock", s, None, None)
             \/ Handle(t, "destroy", "delete", s, None, None)
             \/ /\ sessions[s].password # None
                /\ \/ \E o \in {"settings", "create"} :
                        Handle(t, o, "check", s, sessions[s].password, None)
                   \/ \E o \in {"edit", "remove"}, c \in Conns :
                        /\ under[c] # None
                        /\ Handle(t, o, "check", s, sessions[s].password, c)
    BY DEF Arrive
  <1>2. s \in issued
    BY <1>1 DEF IInv, TypeOK, Accepted, Absent
  <1>3. PICK o, p, w, c :
          /\ Handle(t, o, p, s, w, c)
          /\ \/ o = "unlock" /\ p = "load" /\ w \in Passwords /\ c = None
             \/ o = "lock" /\ p = "lock" /\ w = None /\ c = None
             \/ o = "destroy" /\ p = "delete" /\ w = None /\ c = None
             \/ o \in {"settings", "create"} /\ p = "check" /\ w \in Passwords /\ c = None
             \/ o \in {"edit", "remove"} /\ p = "check" /\ w \in Passwords /\ c \in Conns
    <2>1. sessions[s].password \in Passwords \cup {None}
      BY DEF IInv, TypeOK, Entry
    <2>2. QED
      BY <1>1, <2>1
  <1> DEFINE q == [op |-> o, pc |-> p, sid |-> s, password |-> w, conn |-> c,
                   seen |-> NoRow]
  <1>4. req' = [req EXCEPT ![t] = q]
    BY <1>3 DEF Handle
  <1>5. q \in Request
    BY <1>3 DEF Request, Changes, Row, NoRow
  <1>6. req'[t] = q
    BY <1>4 DEF IInv, TypeOK
  <1>7. Admitted(t)' /\ OwnData(t)'
    BY <1>2, <1>3, <1>6 DEF Admitted, OwnData, Held, At, Changes, NoRow, Arrive, historyVars
  <1>8. UNCHANGED <<sessions, row, historyVars>>
    BY DEF Arrive
  <1> HIDE DEF q
  <1>9. QED
    BY <1>4, <1>5, <1>7, <1>8, ThreadStep DEF historyVars, IInv, TypeOK

LEMMA CheckStep == ASSUME IInv, NEW t \in Threads, Check(t) PROVE IInv'
  <1>1. CASE Finish(t)
    BY <1>1, FinishStep DEF Check, IInv, TypeOK
  <1>2. CASE ~Finish(t)
    <2> DEFINE p == IF req[t].op = "settings" THEN "save"
                    ELSE IF req[t].op = "edit" THEN "find" ELSE "load"
               q == [req[t] EXCEPT !.pc = p,
                                   !.seen = IF p = "save" THEN row ELSE @]
    <2>1. Admitted(t) /\ req[t] \in Request /\ At(t, "check") /\ Opens(req[t].password)
      BY <1>2 DEF Check, IInv, TypeOK
    <2>2. req' = [req EXCEPT ![t] = q]
      BY <1>2, <2>1 DEF Check, Goto, Request, IInv, TypeOK
    <2>3. q \in Request
      BY <2>1 DEF Request, IInv, TypeOK
    <2>4. req'[t] = q
      BY <2>2 DEF IInv, TypeOK
    <2>5. \A c \in row.conns : c \in Conns /\ under[c] = req[t].password
      BY <2>1 DEF IInv, TypeOK, KeySeparation, Opens, Row, NoRow
    <2>6. UNCHANGED <<sessions, row, historyVars>>
      BY DEF Check
    <2>7. Admitted(t)'
      BY <2>1, <2>3, <2>4, <2>6 DEF Admitted, At, Changes, historyVars, Request
    <2>8. OwnData(t)'
      <3>1. CASE p = "save"
        BY <3>1, <2>1, <2>4, <2>5, <2>6
           DEF OwnData, Held, At, Effect, historyVars, Request, Changes
      <3>2. CASE p # "save"
        BY <3>2, <2>1, <2>4, <2>6 DEF OwnData, Held, At, historyVars, Request
      <3>3. QED
        BY <3>1, <3>2
    <2> HIDE DEF q
    <2>9. QED
      BY <2>2, <2>3, <2>6, <2>7, <2>8, ThreadStep DEF historyVars, IInv, TypeOK
  <1>3. QED
    BY <1>1, <1>2

LEMMA FindStep == ASSUME IInv, NEW t \in Threads, Find(t) PROVE IInv'
  <1>1. CASE Finish(t)
    BY <1>1, FinishStep DEF Find, IInv, TypeOK
  <1>2. CASE ~Finish(t)
    <2> DEFINE q == [req[t] EXCEPT !.pc = "load"]
    <2>1. /\ Admitted(t) /\ req[t] \in Request /\ At(t, "find")
          /\ Opens(req[t].password) /\ req[t].conn \in row.conns
      BY <1>2 DEF Find, IInv, TypeOK
    <2>2. req' = [req EXCEPT ![t] = q] /\ req'[t] = q /\ q \in Request
      BY <1>2, <2>1 DEF Find, Goto, Request, IInv, TypeOK
    <2>3. req[t].conn \in Conns /\ under[req[t].conn] = req[t].password
      BY <2>1 DEF IInv, TypeOK, KeySeparation, Opens, Row, NoRow
    <2>4. UNCHANGED <<sessions, row, historyVars>>
      BY DEF Find
    <2>5. Admitted(t)' /\ OwnData(t)'
      BY <2>1, <2>2, <2>3, <2>4
         DEF Admitted, OwnData, Held, At, Changes, historyVars, Request
    <2> HIDE DEF q
    <2>6. QED
      BY <2>2, <2>4, <2>5, ThreadStep DEF historyVars, IInv, TypeOK
  <1>3. QED
    BY <1>1, <1>2

LEMMA LoadToUnlockStep == ASSUME IInv, NEW t \in Threads, LoadToUnlock(t) PROVE IInv'
  <1> USE DEF LoadToUnlock
  <1>1. UNCHANGED <<sessions, row, historyVars>> /\ At(t, "load")
        /\ req[t].op = "unlock" /\ Admitted(t) /\ req[t] \in Request
    BY DEF IInv, TypeOK
  <1>2. CASE row.key = None
    <2> DEFINE q == [req[t] EXCEPT !.pc = "save", !.seen = row]
    <2>1. row = NoRow
      BY <1>2 DEF IInv, TypeOK
    <2>2. req' = [req EXCEPT ![t] = q] /\ req'[t] = q /\ q \in Request
      <3>1. q \in Request
        BY <1>1 DEF Request, IInv, TypeOK
      <3>2. req[t].password # None
        BY <1>1, VaultAssumption DEF Admitted, At
      <3>3. req' = [req EXCEPT ![t] = q]
        BY <1>1, <1>2, <3>2 DEF Request, IInv, TypeOK
      <3>4. QED
        BY <3>1, <3>3 DEF IInv, TypeOK
    <2>3. Admitted(t)' /\ OwnData(t)'
      BY <1>1, <2>1, <2>2
         DEF Admitted, OwnData, Held, Effect, At, Changes, historyVars, Request, NoRow
    <2> HIDE DEF q
    <2>4. QED
      BY <1>1, <2>2, <2>3, ThreadStep DEF historyVars, IInv, TypeOK
  <1>3. CASE row.key # None /\ row.key = req[t].password
    <2> DEFINE q == [req[t] EXCEPT !.pc = "set"]
    <2>1. req' = [req EXCEPT ![t] = q] /\ req'[t] = q /\ q \in Request
      BY <1>1, <1>3 DEF Goto, Request, IInv, TypeOK
    <2>2. Admitted(t)' /\ OwnData(t)'
      BY <1>1, <2>1 DEF Admitted, OwnData, Held, At, Changes, historyVars, Request
    <2> HIDE DEF q
    <2>3. QED
      BY <1>1, <2>1, <2>2, ThreadStep DEF historyVars, IInv, TypeOK
  <1>4. CASE row.key # None /\ row.key # req[t].password
    BY <1>1, <1>4, FinishStep DEF IInv, TypeOK
  <1>5. QED
    BY <1>2, <1>3, <1>4

LEMMA LoadToChangeStep == ASSUME IInv, NEW t \in Threads, LoadToChange(t) PROVE IInv'
  <1>1. /\ UNCHANGED <<sessions, row, issued, promised, stale, destroyed>>
        /\ At(t, "load") /\ req[t].op \in Changes
        /\ Admitted(t) /\ OwnData(t) /\ req[t] \in Request
    BY DEF LoadToChange, IInv, TypeOK
  <1>2. CASE ~Finish(t)
    <2>1. /\ Opens(req[t].password)
          /\ req[t].op = "remove" => req[t].conn \in row.conns
      BY <1>2 DEF LoadToChange
    <2>2. \A c \in row.conns : c \in Conns /\ under[c] = req[t].password
      BY <2>1 DEF IInv, TypeOK, KeySeparation, Opens, Row, NoRow
    <2>3. CASE req[t].op # "create"
      <3> DEFINE q == [req[t] EXCEPT !.pc = "save", !.seen = row]
      <3>1. q \in Request
        BY <1>1 DEF Request, IInv, TypeOK
      <3>2. req' = [req EXCEPT ![t] = q] /\ UNCHANGED under
        BY <1>1, <1>2, <2>3 DEF LoadToChange, Request, IInv, TypeOK
      <3>3. req'[t] = q
        BY <3>2 DEF IInv, TypeOK
      <3>4. Admitted(t)'
        BY <1>1, <3>2, <3>3 DEF Admitted, At, Changes, Request
      <3>5. OwnData(t)'
        <4>1. req[t].op = "edit" => under[req[t].conn] = req[t].password
          BY <1>1 DEF OwnData, Held, At
        <4>2. req[t].op \in {"edit", "remove"} => req[t].conn \in Conns
          BY <1>1 DEF Admitted, At
        <4>3. Held(t)' \subseteq row.conns \cup
                (IF req[t].op = "edit" THEN {req[t].conn} ELSE {})
          BY <1>1, <2>3, <3>3 DEF Held, At, Effect, Changes, Request
        <4>4. \A c \in Held(t)' : c \in Conns /\ under[c] = req[t].password
          BY <2>2, <4>1, <4>2, <4>3
        <4>5. QED
          BY <1>1, <2>2, <2>3, <3>2, <3>3, <4>4 DEF OwnData, At, Changes, Request
      <3> HIDE DEF q
      <3>6. QED
        BY <1>1, <3>1, <3>2, <3>4, <3>5, ThreadStep DEF IInv, TypeOK
    <2>4. CASE req[t].op = "create"
      <3>1. PICK c \in Conns :
              /\ under[c] = None
              /\ under' = [under EXCEPT ![c] = req[t].password]
              /\ req' = [req EXCEPT ![t].pc = "save", ![t].seen = row, ![t].conn = c]
        BY <1>2, <2>4 DEF LoadToChange
      <3> DEFINE q == [req[t] EXCEPT !.pc = "save", !.seen = row, !.conn = c]
      <3>2. q \in Request
        BY <1>1 DEF Request, IInv, TypeOK
      <3>3. req' = [req EXCEPT ![t] = q]
        BY <3>1, <1>1 DEF Request, IInv, TypeOK
      <3>4. req'[t] = q
        BY <3>3 DEF IInv, TypeOK
      <3>5. under' \in [Conns -> Passwords \cup {None}] /\ under'[c] = req[t].password
        BY <1>1, <3>1 DEF IInv, TypeOK, Request
      <3>6. \A d \in Conns : under[d] # None => under'[d] = under[d]
        BY <3>1 DEF IInv, TypeOK
      <3>7. Admitted(t)'
        BY <1>1, <2>4, <3>4 DEF Admitted, At, Changes, Request
      <3>8. req[t].password \in Passwords /\ req[t].password # None
        BY <1>1, VaultAssumption DEF Admitted, At
      <3>9. \A d \in row.conns : d \in Conns /\ under'[d] = req[t].password
        BY <2>2, <3>6, <3>8
      <3>10. OwnData(t)'
        <4>1. Held(t)' = row.conns \cup {c}
          BY <1>1, <2>4, <3>4 DEF Held, At, Effect, Request
        <4>2. QED
          BY <1>1, <2>4, <3>4, <3>5, <3>9, <4>1 DEF OwnData, At, Request
      <3> HIDE DEF q
      <3>11. QED
        BY <1>1, <3>2, <3>3, <3>5, <3>6, <3>7, <3>10, ThreadStep DEF IInv, TypeOK
    <2>5. QED
      BY <2>3, <2>4
  <1>3. CASE Finish(t) /\ under' = under
    BY <1>1, <1>3, FinishStep DEF historyVars, IInv, TypeOK
  <1>4. Finish(t) => under' = under
    <2>1. SUFFICES ASSUME Finish(t) PROVE under' = under
      OBVIOUS
    <2>2. req'[t].pc = "idle"
      BY <2>1 DEF Finish, Idle, IInv, TypeOK
    <2>3. \A c : req' # [req EXCEPT ![t].pc = "save", ![t].seen = row, ![t].conn = c]
      BY <1>1, <2>2 DEF IInv, TypeOK, Request
    <2>4. QED
      BY <2>3 DEF LoadToChange
  <1>5. QED
    BY <1>2, <1>3, <1>4

(* The row becomes what the handler read, changed; the rest of the state    *)
(* does not mention the row.                                                *)
LEMMA SaveStep == ASSUME IInv, NEW t \in Threads, Save(t) PROVE IInv'
  <1>1. /\ UNCHANGED <<sessions, issued, under, destroyed>>
        /\ At(t, "save") /\ Admitted(t) /\ OwnData(t) /\ req[t] \in Request
        /\ row' = [key |-> req[t].password, conns |-> Effect(t, req[t].seen.conns)]
        /\ promised' = Serially(t, promised) /\ stale' = (stale \/ row # req[t].seen)
    BY DEF Save, IInv, TypeOK
  <1>2. req[t].password \in Passwords /\ req[t].password # None
    BY <1>1, VaultAssumption DEF Admitted, At
  <1>3. Effect(t, req[t].seen.conns) \in SUBSET Conns /\ Serially(t, promised) \in SUBSET Conns
    BY <1>1, EffectType DEF Request, Row, Serially, IInv, TypeOK
  <1>4. PICK q \in Request : /\ req' = [req EXCEPT ![t] = q]
                             /\ q = Idle \/ (q = [req[t] EXCEPT !.pc = "set"])
    <2>1. CASE req[t].op = "unlock"
      <3>1. [req[t] EXCEPT !.pc = "set"] \in Request
        BY <1>1 DEF Request
      <3>2. req' = [req EXCEPT ![t] = [req[t] EXCEPT !.pc = "set"]]
        BY <2>1 DEF Save, Goto, IInv, TypeOK
      <3>3. QED
        BY <3>1, <3>2
    <2>2. CASE req[t].op # "unlock"
      BY <2>2 DEF Save, Finish, Idle, Request, Changes, Row, NoRow
    <2>3. QED
      BY <2>1, <2>2
  <1>5. req'[t] = q /\ \A u \in Threads \ {t} : req'[u] = req[u]
    BY <1>4 DEF IInv, TypeOK
  <1>6. \A u \in Threads : Admitted(u)' /\ OwnData(u)'
    <2>1. Admitted(t)' /\ OwnData(t)'
      <3>1. CASE q = Idle
        BY <3>1, <1>5, IdleRequest
      <3>2. CASE q = [req[t] EXCEPT !.pc = "set"]
        BY <3>2, <1>1, <1>5 DEF Admitted, OwnData, Held, At, Request
      <3>3. QED
        BY <1>4, <3>1, <3>2
    <2>2. QED
      BY <1>1, <1>5, <2>1, OtherRequest
  <1>7. TypeOK'
    <2>1. row' \in Row /\ row'.key # None
      BY <1>1, <1>2, <1>3 DEF Row
    <2>2. req' \in [Threads -> Request]
      BY <1>4 DEF IInv, TypeOK
    <2>3. promised' \subseteq Conns /\ stale' \in BOOLEAN
      BY <1>1, <1>3 DEF IInv, TypeOK
    <2>4. QED
      BY <1>1, <2>1, <2>2, <2>3 DEF IInv, TypeOK
  <1>8. KeySeparation'
    <2>1. Held(t) = Effect(t, req[t].seen.conns)
      BY <1>1 DEF Held, At
    <2>2. row'.conns = Held(t) /\ row'.key = req[t].password
      BY <1>1, <2>1
    <2>3. QED
      BY <1>1, <2>2 DEF KeySeparation, OwnData
  <1>9. Serial'
    <2>1. SUFFICES ASSUME ~stale, row = req[t].seen
                   PROVE  Effect(t, row.conns) = Serially(t, promised)
      BY <1>1 DEF Serial
    <2>2. row.conns = promised
      BY <2>1 DEF IInv, Serial
    <2>3. req[t].op = "unlock" => row.conns = {}
      BY <1>1, <2>1 DEF OwnData, NoRow
    <2>4. CASE req[t].op = "unlock"
      BY <2>2, <2>3, <2>4 DEF Serially, Effect
    <2>5. CASE req[t].op # "unlock"
      BY <2>2, <2>5 DEF Serially
    <2>6. QED
      BY <2>4, <2>5
  <1>10. QED
    BY <1>6, <1>7, <1>8, <1>9 DEF IInv

LEMMA DeleteStep == ASSUME IInv, NEW t \in Threads, Delete(t) PROVE IInv'
  <1>1. /\ UNCHANGED <<sessions, issued, under, stale>> /\ row' = NoRow
        /\ At(t, "delete") /\ Admitted(t) /\ req[t] \in Request
        /\ promised' = {} /\ destroyed' = destroyed \cup row.conns
    BY DEF Delete, IInv, TypeOK
  <1> DEFINE q == [req[t] EXCEPT !.pc = "lock"]
  <1>2. q \in Request /\ req' = [req EXCEPT ![t] = q]
    BY <1>1 DEF Delete, Goto, Request, IInv, TypeOK
  <1>3. req'[t] = q /\ \A u \in Threads \ {t} : req'[u] = req[u]
    BY <1>2 DEF IInv, TypeOK
  <1>4. Admitted(t)' /\ OwnData(t)'
    BY <1>1, <1>3 DEF Admitted, OwnData, Held, At, Request
  <1>5. \A u \in Threads : Admitted(u)' /\ OwnData(u)'
    BY <1>1, <1>3, <1>4, OtherRequest
  <1>6. TypeOK'
    BY <1>1, <1>2 DEF IInv, TypeOK, Row, NoRow
  <1>7. QED
    BY <1>1, <1>5, <1>6 DEF IInv, KeySeparation, Serial, NoRow

(* SetPassword and Lock write the password of an entry and nothing else.    *)
LEMMA EntryStep ==
    ASSUME IInv, NEW t \in Threads, SetPassword(t) \/ Lock(t)
    PROVE  IInv'
  <1>1. PICK w \in Passwords \cup {None} :
          sessions' = [sessions EXCEPT ![req[t].sid].password = w]
    BY DEF SetPassword, Lock, Admitted, At, IInv
  <1>2. req[t].sid \in issued
    BY DEF SetPassword, Lock, Admitted, At, IInv
  <1>3. sessions' \in [Sids -> Entry]
    BY <1>1 DEF IInv, TypeOK, Entry
  <1>4. \A s \in Sids \ issued : sessions'[s] = sessions[s]
    BY <1>1, <1>2 DEF IInv, TypeOK
  <1>5. QED
    BY <1>3, <1>4, FinishStep DEF SetPassword, Lock

LEMMA StepIInv == IInv /\ [Next]_vars => IInv'
  <1> SUFFICES ASSUME IInv, [Next]_vars PROVE IInv'
    OBVIOUS
  <1>1. CASE \E s \in Sids : StartSession(s) \/ Expire(s) \/ Logout(s)
    BY <1>1, SessionStep
  <1>2. CASE Restart
    BY <1>2, RestartStep
  <1>3. ASSUME NEW t \in Threads,
               \/ Arrive(t) \/ Check(t) \/ Find(t) \/ LoadToChange(t) \/ LoadToUnlock(t)
               \/ Save(t) \/ SetPassword(t) \/ Lock(t) \/ Delete(t) \/ Fail(t)
        PROVE  IInv'
    <2>1. CASE Fail(t)
      BY <2>1, FinishStep DEF Fail, IInv, TypeOK
    <2>2. QED
      BY <1>3, <2>1, ArriveStep, CheckStep, FindStep, LoadToChangeStep, LoadToUnlockStep,
         SaveStep, EntryStep, DeleteStep
  <1>4. CASE UNCHANGED vars
    <2>1. \A t \in Threads : Admitted(t)' /\ OwnData(t)'
      BY <1>4, OtherRequest DEF vars
    <2>2. TypeOK' /\ KeySeparation' /\ Serial'
      BY <1>4 DEF IInv, vars, TypeOK, KeySeparation, Serial
    <2>3. QED
      BY <2>1, <2>2 DEF IInv
  <1>5. QED
    BY <1>1, <1>2, <1>3, <1>4 DEF Next

LEMMA Invariance == Spec => []IInv
  BY InitIInv, StepIInv, PTL DEF Spec

(* Entries, the row and the requests keep their types.                      *)
THEOREM TypeCorrect == Spec => []TypeOK
  <1>1. IInv => TypeOK
    BY DEF IInv
  <1>2. QED
    BY <1>1, Invariance, PTL

(* A connection is never encrypted under a master password other than the   *)
(* one it was created under, however requests interleave.                   *)
THEOREM KeysSeparate == Spec => []KeySeparation
  <1>1. IInv => KeySeparation
    BY DEF IInv
  <1>2. QED
    BY <1>1, Invariance, PTL

(* The vault loses or revives a connection only where a handler overwrites  *)
(* a row it has not read.                                                   *)
THEOREM SerialUnlessStale == Spec => []Serial
  <1>1. IInv => Serial
    BY DEF IInv
  <1>2. QED
    BY <1>1, Invariance, PTL

(* A session that is over is not accepted again.                            *)
THEOREM SessionsEnd == Spec => OverIsOver
  <1> DEFINE Stays == \A s \in issued : ~Accepted(s) => ~Accepted(s)'
  <1>1. IInv /\ [Next]_vars => [Stays]_vars
    <2> SUFFICES ASSUME IInv, [Next]_vars, NEW s \in issued, ~Accepted(s)
                 PROVE  ~Accepted(s)'
      OBVIOUS
    <2>1. sessions \in [Sids -> Entry] /\ s \in Sids
      BY DEF IInv, TypeOK
    <2>2. CASE \E r \in Sids : StartSession(r) \/ Expire(r) \/ Logout(r)
      BY <2>1, <2>2 DEF StartSession, Expire, Logout, Accepted, Absent, Entry
    <2>3. CASE Restart
      BY <2>1, <2>3 DEF Restart, Accepted, Absent
    <2>4. ASSUME NEW t \in Threads, SetPassword(t) \/ Lock(t)
          PROVE  ~Accepted(s)'
      BY <2>1, <2>4 DEF SetPassword, Lock, Accepted, Entry
    <2>5. ASSUME NEW t \in Threads,
                 \/ Arrive(t) \/ Check(t) \/ Find(t) \/ LoadToChange(t) \/ LoadToUnlock(t)
                 \/ Save(t) \/ Delete(t) \/ Fail(t)
          PROVE  sessions' = sessions
      BY <2>5 DEF Arrive, Check, Find, LoadToChange, LoadToUnlock, Save, Delete, Fail
    <2>6. QED
      BY <2>2, <2>3, <2>4, <2>5 DEF Next, vars, Accepted
  <1>2. QED
    BY <1>1, Invariance, PTL DEF Spec, OverIsOver

(* A connection stays gone if the one thread that moves does not hold it.   *)
LEMMA StaysGone ==
    ASSUME NEW c \in Conns, Gone(c), NEW t \in Threads,
           \A u \in Threads \ {t} : req'[u] = req[u],
           c \notin Held(t)', c \notin row'.conns, under'[c] = under[c]
    PROVE  Gone(c)'
  <1>1. ASSUME NEW u \in Threads \ {t} PROVE Held(u)' = Held(u)
    BY <1>1 DEF Held, At, Effect
  <1>2. \A u \in Threads : c \notin Held(u)'
    BY <1>1 DEF Gone
  <1>3. QED
    BY <1>2 DEF Gone

LEMMA GoneStep == ASSUME IInv, [Next]_vars, NEW c \in Conns, Gone(c) PROVE Gone(c)'
  <1>1. c \notin row.conns /\ under[c] # None /\ req \in [Threads -> Request]
    BY DEF Gone, IInv, TypeOK
  <1>2. CASE \/ \E s \in Sids : StartSession(s) \/ Expire(s) \/ Logout(s)
             \/ UNCHANGED vars
    <2>1. UNCHANGED <<row, req, under>>
      BY <1>2 DEF StartSession, Expire, Logout, historyVars, vars
    <2>2. \A t \in Threads : Held(t)' = Held(t)
      BY <2>1 DEF Held, At, Effect
    <2>3. QED
      BY <2>1, <2>2 DEF Gone
  <1>3. CASE Restart
    <2>1. \A t \in Threads : Held(t)' = {}
      BY <1>3 DEF Restart, Held, At, Idle
    <2>2. QED
      BY <1>3, <2>1 DEF Gone, Restart, historyVars
  <1>4. ASSUME NEW t \in Threads,
               \/ Arrive(t) \/ Check(t) \/ Find(t) \/ LoadToChange(t) \/ LoadToUnlock(t)
               \/ Save(t) \/ SetPassword(t) \/ Lock(t) \/ Delete(t) \/ Fail(t)
        PROVE  Gone(c)'
    <2>1. \A u \in Threads \ {t} : req'[u] = req[u]
      BY <1>1, <1>4
         DEF Arrive, Handle, Check, Find, LoadToChange, LoadToUnlock, Save,
             SetPassword, Lock, Delete, Fail, Goto, Finish
    <2>2. under'[c] = under[c]
      BY <1>1, <1>4
         DEF Arrive, Check, Find, LoadToChange, LoadToUnlock, Save, SetPassword,
             Lock, Delete, Fail, historyVars, IInv, TypeOK
    <2>3. c \notin Held(t) /\ Admitted(t) /\ OwnData(t) /\ req[t] \in Request
      BY DEF Gone, IInv, TypeOK
    <2>4. ASSUME req'[t] = Idle \/ req'[t].pc \notin {"load", "save"}
          PROVE  Held(t)' = {}
      BY <2>4 DEF Held, At, Idle
    <2>5. Finish(t) => req'[t] = Idle
      BY <1>1 DEF Finish
    <2>6. \A p : Goto(t, p) => req'[t] = [req[t] EXCEPT !.pc = p]
      BY <1>1 DEF Goto
    <2>7. CASE Arrive(t)
      <3>1. UNCHANGED row
        BY <2>7 DEF Arrive
      <3>2. \A o, p, s, w, d : Handle(t, o, p, s, w, d) => req'[t].pc = p /\ req'[t].op = o
        BY <1>1 DEF Handle
      <3>3. \/ req'[t].pc = "load" /\ req'[t].op = "unlock"
            \/ req'[t].pc \in {"check", "lock", "delete"}
        BY <2>7, <3>2 DEF Arrive
      <3>4. Held(t)' = {}
        BY <2>4, <3>3 DEF Held, At
      <3>5. QED
        BY <1>1, <2>1, <2>2, <3>1, <3>4, StaysGone
    <2>8. CASE Check(t)
      <3>1. UNCHANGED row
        BY <2>8 DEF Check
      <3>2. Held(t)' \subseteq row.conns
        <4>1. CASE Finish(t)
          BY <2>4, <2>5, <4>1
        <4>2. CASE ~Finish(t) /\ req[t].op = "settings"
          <5>1. req'[t] = [req[t] EXCEPT !.pc = "save", !.seen = row]
            BY <1>1, <2>8, <4>2 DEF Check, Request
          <5>2. QED
            BY <2>3, <4>2, <5>1 DEF Held, At, Effect, Request
        <4>3. CASE ~Finish(t) /\ req[t].op = "edit"
          <5>1. req'[t].pc = "find"
            BY <1>1, <2>8, <4>3 DEF Check, Goto, Request
          <5>2. QED
            BY <2>4, <5>1
        <4>4. CASE ~Finish(t) /\ req[t].op \notin {"settings", "edit"}
          <5>1. req'[t] = [req[t] EXCEPT !.pc = "load"]
            BY <2>6, <2>8, <4>4 DEF Check
          <5>2. QED
            BY <2>3, <4>4, <5>1 DEF Held, At, Request
        <4>5. QED
          BY <4>1, <4>2, <4>3, <4>4
      <3>3. QED
        BY <1>1, <2>1, <2>2, <3>1, <3>2, StaysGone
    <2>9. CASE Find(t)
      <3>1. UNCHANGED row
        BY <2>9 DEF Find
      <3>2. c \notin Held(t)'
        <4>1. CASE Finish(t)
          BY <2>4, <2>5, <4>1
        <4>2. CASE ~Finish(t)
          <5>1. req'[t] = [req[t] EXCEPT !.pc = "load"] /\ req[t].conn \in row.conns
            BY <2>6, <2>9, <4>2 DEF Find
          <5>2. QED
            BY <1>1, <2>3, <5>1 DEF Held, At, Request
        <4>3. QED
          BY <4>1, <4>2
      <3>3. QED
        BY <1>1, <2>1, <2>2, <3>1, <3>2, StaysGone
    <2>10. CASE LoadToChange(t)
      <3>1. UNCHANGED row /\ At(t, "load") /\ req[t].op \in Changes
        BY <2>10 DEF LoadToChange
      <3>2. c \notin Held(t)'
        <4>1. CASE Finish(t)
          BY <2>4, <2>5, <4>1
        <4>2. CASE ~Finish(t) /\ req[t].op # "create"
          <5>1. req'[t] = [req[t] EXCEPT !.pc = "save", !.seen = row]
            BY <1>1, <2>10, <4>2 DEF LoadToChange, Request
          <5>2. req[t].op = "edit" => c # req[t].conn
            BY <2>3, <3>1 DEF Held, At
          <5>3. QED
            BY <1>1, <2>3, <3>1, <4>2, <5>1, <5>2 DEF Held, At, Effect, Request, Changes
        <4>3. CASE ~Finish(t) /\ req[t].op = "create"
          <5>1. PICK d \in Conns : /\ under[d] = None
                                   /\ req' = [req EXCEPT ![t].pc = "save",
                                                         ![t].seen = row, ![t].conn = d]
            BY <2>10, <4>3 DEF LoadToChange
          <5>2. req'[t] = [req[t] EXCEPT !.pc = "save", !.seen = row, !.conn = d]
            BY <1>1, <5>1 DEF Request
          <5>3. QED
            BY <1>1, <2>3, <4>3, <5>1, <5>2 DEF Held, At, Effect, Request
        <4>4. QED
          BY <4>1, <4>2, <4>3
      <3>3. QED
        BY <1>1, <2>1, <2>2, <3>1, <3>2, StaysGone
    <2>11. CASE LoadToUnlock(t)
      <3>1. UNCHANGED row /\ req[t].op = "unlock"
        BY <2>11 DEF LoadToUnlock
      <3>2. \/ req'[t] = Idle \/ req'[t].pc = "set"
            \/ req'[t] = [req[t] EXCEPT !.pc = "save", !.seen = row]
        <4>1. req[t].password # None
          BY <2>3, <2>11, VaultAssumption DEF LoadToUnlock, Admitted, At
        <4>2. CASE row.key = None
          BY <1>1, <2>11, <4>1, <4>2 DEF LoadToUnlock, Request
        <4>3. CASE row.key # None /\ row.key = req[t].password
          BY <1>1, <2>11, <4>3 DEF LoadToUnlock, Goto, Request
        <4>4. CASE row.key # None /\ row.key # req[t].password
          BY <2>5, <2>11, <4>4 DEF LoadToUnlock
        <4>5. QED
          BY <4>2, <4>3, <4>4
      <3>3. Held(t)' = {}
        BY <2>3, <2>4, <3>1, <3>2 DEF Held, At, Effect, Request
      <3>4. QED
        BY <1>1, <2>1, <2>2, <3>1, <3>3, StaysGone
    <2>12. CASE Save(t)
      <3>1. row'.conns = Held(t)
        BY <2>12 DEF Save, Held, At
      <3>2. Held(t)' = {}
        <4>1. req'[t] = Idle \/ req'[t] = [req[t] EXCEPT !.pc = "set"]
          BY <2>5, <2>6, <2>12 DEF Save
        <4>2. req'[t] = Idle \/ req'[t].pc = "set"
          BY <2>3, <4>1 DEF Request
        <4>3. QED
          BY <2>4, <4>2
      <3>3. QED
        BY <1>1, <2>1, <2>2, <2>3, <3>1, <3>2, StaysGone
    <2>13. CASE SetPassword(t) \/ Lock(t) \/ Fail(t)
      <3>1. UNCHANGED row /\ Held(t)' = {}
        BY <2>4, <2>5, <2>13 DEF SetPassword, Lock, Fail
      <3>2. QED
        BY <1>1, <2>1, <2>2, <3>1, StaysGone
    <2>14. CASE Delete(t)
      <3>1. row'.conns = {}
        BY <2>14 DEF Delete, NoRow
      <3>2. req'[t].pc = "lock"
        BY <1>1, <2>14 DEF Delete, Goto, Request
      <3>3. QED
        BY <1>1, <2>1, <2>2, <2>4, <3>1, <3>2, StaysGone
    <2>15. QED
      BY <1>4, <2>7, <2>8, <2>9, <2>10, <2>11, <2>12, <2>13, <2>14
  <1>5. QED
    BY <1>2, <1>3, <1>4 DEF Next

(* A connection that nobody stores or is about to store never comes back.   *)
THEOREM NothingReturns == Spec => GoneForGood
  <1>1. IInv /\ [Next]_vars => [\A c \in Conns : Gone(c) => Gone(c)']_vars
    BY GoneStep
  <1>2. QED
    BY <1>1, Invariance, PTL DEF Spec, GoneForGood
=============================================================================
