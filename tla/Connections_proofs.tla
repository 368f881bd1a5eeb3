-------------------------- MODULE Connections_proofs --------------------------
(***************************************************************************)
(* Connections keeps its types, members are whom an administrator named,   *)
(* exports hold, and no request that completes loses or duplicates a        *)
(* connection.                                                             *)
(***************************************************************************)
EXTENDS Connections, FiniteSetTheorems, TLAPS

-----------------------------------------------------------------------------
(* Types, and what a request holds at each of its steps                     *)

RowOK(x, known) == x \in Row /\ x.conns \subseteq known /\ (x.stored \/ x = NoRow)

FlowOf(r) ==
    /\ r.pc = "idle" => r = Idle
    /\ r.pc = "mint" =>
         /\ r.op = "create" /\ r.conn = None /\ r.src = None /\ r.dst \in Orgs /\ r.user \in Users
         /\ r.there.stored \/ r.dst \in Provisioned
         /\ ~r.touched
    /\ r.pc = "form" =>
         /\ r.op = "admin" /\ r.conn = None /\ r.dst \in Orgs \ Provisioned
         /\ ~r.touched
    /\ r.pc \in {"target", "put", "drop", "take", "save"} => r.user \in Users /\ r.conn # None
    /\ r.pc \in {"target", "put", "drop"} /\ r.src \in Orgs =>
         IF r.here.stored THEN r.conn \in r.here.conns ELSE r.src \in Provisioned
    /\ r.pc = "target" =>
         /\ r.op = "update" /\ r.src \in Orgs \cup {Vault} /\ r.dst \in Orgs \cup {Vault}
         /\ ~r.touched
    /\ r.pc = "put" =>
         /\ r.dst \in Orgs /\ (r.there.stored \/ r.dst \in Provisioned)
         /\ (r.op = "create" /\ r.src = None) \/ (r.op = "update" /\ r.src \in Orgs \cup {Vault})
         /\ r.touched <=> ~r.there.stored
    /\ r.pc = "drop" =>
         /\ r.src \in Orgs
         /\ \/ r.op = "delete" /\ r.dst = None /\ (r.touched <=> ~r.here.stored)
            \/ r.op = "update" /\ r.dst = Vault /\ (r.touched <=> ~r.here.stored)
            \/ r.op = "update" /\ r.dst \in Orgs /\ r.dst # r.src /\ r.touched
    /\ r.pc = "take" => r.op = "update" /\ r.src = Vault /\ r.dst \in Orgs /\ r.touched
    /\ r.pc = "save" =>
         \/ r.op = "create" /\ r.src = None /\ r.dst = Vault /\ ~r.touched
         \/ r.op = "delete" /\ r.src = Vault /\ r.dst = None /\ ~r.touched
         \/ r.op = "update" /\ r.src = Vault /\ r.dst = Vault /\ ~r.touched
         \/ r.op = "update" /\ r.src = Vault /\ r.dst \in Orgs /\ r.touched
         \/ r.op = "update" /\ r.src \in Orgs /\ r.dst = Vault /\ r.touched

ReqOK(r, known) ==
    /\ r \in Request /\ FlowOf(r)
    /\ r.conn # None => r.conn \in known
    /\ RowOK(r.here, known) /\ RowOK(r.there, known) /\ r.data \subseteq known

Stores ==
    /\ issued \subseteq Conns
    /\ vault \in [Users -> SUBSET issued]
    /\ shared \in [Orgs -> SUBSET issued]
    /\ rows \in [Orgs -> Row] /\ \A o \in Orgs : RowOK(rows[o], issued)
    /\ \A o \in Orgs : Helm[o].conns \subseteq issued

Histories ==
    /\ promised \subseteq issued
    /\ granted \in [Orgs -> SUBSET Users]
    /\ raced \subseteq Conns \cup Orgs /\ torn \subseteq Conns /\ dropped \subseteq Conns

Backups ==
    /\ calls \in 0..MaxCalls /\ mu \in {"free", "export", "import"}
    /\ exporting \in BOOLEAN /\ copied \in [Users -> SUBSET Conns] /\ overtaken \subseteq Users
    /\ tx \in [file : Files \cup {Empty}, done : SUBSET {"vaults", "organizations"}]

Reqs == req \in [Threads -> Request] /\ \A t \in Threads : ReqOK(req[t], issued)

Sound == Stores /\ Histories /\ Backups /\ Reqs

LEMMA SoundTypes == Sound /\ elsewhere \subseteq Threads => TypeOK
  BY DEF Sound, Stores, Histories, Backups, Reqs, RowOK, TypeOK

LEMMA HelmFacts ==
  ASSUME NEW o \in Orgs
  PROVE  /\ Helm[o] \in Row /\ Helm[o].stored \in BOOLEAN
         /\ Helm[o].members \subseteq Users /\ Helm[o].conns \subseteq Conns
         /\ ~Helm[o].stored => Helm[o] = NoRow
         /\ o \in Provisioned <=> Helm[o].stored
  BY ConnectionsAssumption DEF Row, Provisioned

LEMMA NoRowFacts ==
  /\ NoRow \in Row /\ ~NoRow.stored /\ NoRow.conns = {} /\ NoRow.members = {}
  /\ \A known : RowOK(NoRow, known)
  BY DEF NoRow, Row, RowOK

LEMMA IdleFacts ==
  /\ Idle.op = "none" /\ Idle.pc = "idle" /\ Idle.user = None /\ Idle.conn = None
  /\ Idle.src = None /\ Idle.dst = None /\ Idle.here = NoRow /\ Idle.there = NoRow
  /\ Idle.data = {} /\ ~Idle.touched
  /\ Idle \in Request
  /\ \A known : ReqOK(Idle, known)
  <1>1. /\ Idle.op = "none" /\ Idle.pc = "idle" /\ Idle.user = None /\ Idle.conn = None
        /\ Idle.src = None /\ Idle.dst = None /\ Idle.here = NoRow /\ Idle.there = NoRow
        /\ Idle.data = {} /\ ~Idle.touched
    BY DEF Idle
  <1>2. Idle \in Request
    BY NoRowFacts DEF Idle, Request
  <1>3. FlowOf(Idle)
    BY <1>1 DEF FlowOf
  <1>4. QED
    BY <1>1, <1>2, <1>3, NoRowFacts DEF ReqOK

LEMMA EffectiveFacts ==
  ASSUME NEW o \in Orgs
  PROVE  /\ Effective(o).conns = IF rows[o].stored THEN rows[o].conns ELSE shared[o]
         /\ Effective(o).members = IF rows[o].stored THEN rows[o].members ELSE Helm[o].members
  BY HelmFacts DEF Effective, Row

\* One request becomes r.
LEMMA OneBecomes ==
  ASSUME Reqs, NEW t \in Threads, NEW r, req' = [req EXCEPT ![t] = r],
         issued \subseteq issued', ReqOK(r, issued')
  PROVE  Reqs' /\ req'[t] = r /\ \A u \in Threads \ {t} : req'[u] = req[u]
  <1>1. \A x : ReqOK(x, issued) => ReqOK(x, issued')
    BY DEF ReqOK, RowOK
  <1>2. r \in Request
    BY DEF ReqOK
  <1>3. req' \in [Threads -> Request] /\ req'[t] = r /\ \A u \in Threads \ {t} : req'[u] = req[u]
    BY <1>2 DEF Reqs
  <1>4. \A u \in Threads : ReqOK(req'[u], issued')
    BY <1>1, <1>3 DEF Reqs
  <1>5. QED
    BY <1>3, <1>4 DEF Reqs

LEMMA Finishes ==
  ASSUME Reqs, NEW t \in Threads, Finish(t), issued \subseteq issued'
  PROVE  Reqs' /\ req'[t] = Idle /\ \A u \in Threads \ {t} : req'[u] = req[u]
  BY OneBecomes, IdleFacts DEF Finish

LEMMA ReqFacts ==
  ASSUME Reqs, NEW t \in Threads
  PROVE  /\ req[t] \in Request /\ ReqOK(req[t], issued) /\ FlowOf(req[t])
         /\ req[t].touched \in BOOLEAN
         /\ RowOK(req[t].here, issued) /\ RowOK(req[t].there, issued) /\ req[t].data \subseteq issued
  BY DEF Reqs, ReqOK, Request

\* A new request, as the first step of each operation makes it.
LEMMA NewRequest ==
  ASSUME NEW op \in {"create", "update", "delete", "admin"},
         NEW pc \in {"mint", "target", "drop", "save", "form"},
         NEW user \in Users \cup {None}, NEW conn \in Conns \cup {None},
         NEW src \in Orgs \cup {Vault, None}, NEW dst \in Orgs \cup {Vault, None},
         NEW here \in Row, NEW there \in Row, NEW data \in SUBSET Conns, NEW touched \in BOOLEAN,
         NEW r,
         r = [op |-> op, pc |-> pc, user |-> user, conn |-> conn, src |-> src, dst |-> dst,
              here |-> here, there |-> there, data |-> data, touched |-> touched]
  PROVE  /\ r \in Request
         /\ r.op = op /\ r.pc = pc /\ r.user = user /\ r.conn = conn /\ r.src = src /\ r.dst = dst
         /\ r.here = here /\ r.there = there /\ r.data = data /\ r.touched = touched
  BY DEF Request

LEMMA CreateSharedSound ==
  ASSUME Sound, NEW t \in Threads, CreateShared(t)
  PROVE  Sound' /\ req'[t].conn = None /\ req'[t].pc = "mint" /\ \A u \in Threads \ {t} : req'[u] = req[u]
  <1> USE DEF Sound
  <1> PICK u \in Users, o \in Orgs :
        \E seen \in {rows[o], NoRow} :
          /\ Resolves(t, u, o, seen)
          /\ req' = [req EXCEPT ![t] = [Idle EXCEPT !.op = "create", !.pc = "mint",
                                        !.user = u, !.dst = o, !.there = seen]]
    BY DEF CreateShared
  <1>1. PICK seen \in {rows[o], NoRow} :
          /\ Resolves(t, u, o, seen)
          /\ req' = [req EXCEPT ![t] = [Idle EXCEPT !.op = "create", !.pc = "mint",
                                        !.user = u, !.dst = o, !.there = seen]]
    OBVIOUS
  <1>2. UNCHANGED <<dbVars, shared, backupVars, historyVars>> /\ calls' \in 0..MaxCalls
    BY ConnectionsAssumption DEF CreateShared, Call, Backups
  <1> DEFINE r == [Idle EXCEPT !.op = "create", !.pc = "mint", !.user = u, !.dst = o, !.there = seen]
  <1>3. RowOK(seen, issued) /\ (seen.stored \/ o \in Provisioned)
    BY <1>1, NoRowFacts DEF Resolves, Stores
  <1>4. /\ r \in Request /\ r.op = "create" /\ r.pc = "mint" /\ r.user = u /\ r.dst = o
        /\ r.there = seen /\ r.conn = None /\ r.src = None /\ r.here = NoRow /\ r.data = {}
        /\ ~r.touched
    BY <1>3, NoRowFacts DEF Idle, Request, RowOK
  <1> HIDE DEF r
  <1>5. ReqOK(r, issued)
    BY <1>3, <1>4, NoRowFacts, ConnectionsAssumption DEF ReqOK, FlowOf
  <1>6. Reqs' /\ req'[t] = r /\ \A x \in Threads \ {t} : req'[x] = req[x]
    <2>1. req' = [req EXCEPT ![t] = r]
      BY <1>1 DEF r
    <2>2. QED
      BY <1>2, <1>5, <2>1, OneBecomes DEF historyVars
  <1>7. Stores' /\ Histories' /\ Backups'
    BY <1>2 DEF Stores, Histories, Backups, dbVars, backupVars, historyVars
  <1>8. QED
    BY <1>4, <1>6, <1>7

LEMMA MintSound ==
  ASSUME Sound, NEW t \in Threads, Mint(t)
  PROVE  /\ Sound' /\ \A u \in Threads \ {t} : req'[u] = req[u]
         /\ req[t].pc = "mint" /\ req[t].conn = None
         /\ req'[t].conn \in Conns \ issued /\ issued' = issued \cup {req'[t].conn}
         /\ Write(req[t].dst, req[t].there, shared[req[t].dst] \cup {req'[t].conn})
         /\ req'[t].pc = "put" /\ (req'[t].touched <=> ~req[t].there.stored)
         /\ req'[t].op = "create" /\ req'[t].src = None /\ req'[t].dst = req[t].dst
         /\ req[t].dst \in Orgs /\ req'[t].there = req[t].there
         /\ req'[t].here = req[t].here /\ req'[t].user = req[t].user
  <1> USE DEF Sound
  <1>1. PICK c \in Conns \ issued :
          /\ issued' = issued \cup {c}
          /\ Write(req[t].dst, req[t].there, shared[req[t].dst] \cup {c})
          /\ req' = [req EXCEPT ![t].pc = "put", ![t].conn = c,
                                ![t].touched = ~req[t].there.stored]
    BY DEF Mint
  <1> DEFINE touched == ~req[t].there.stored
             r == [req[t] EXCEPT !.pc = "put", !.conn = c, !.touched = touched]
  <1>2. /\ req[t].pc = "mint" /\ req[t] \in Request /\ ReqOK(req[t], issued) /\ c # None
        /\ req[t].op = "create" /\ req[t].conn = None /\ req[t].src = None
        /\ req[t].dst \in Orgs /\ req[t].user \in Users
        /\ req[t].there.stored \/ req[t].dst \in Provisioned
    BY ReqFacts, ConnectionsAssumption DEF Mint, At, FlowOf
  <1>3. touched \in BOOLEAN
    BY ReqFacts DEF RowOK, Row
  <1>4. /\ r \in Request /\ r.pc = "put" /\ r.conn = c /\ (r.touched <=> touched)
        /\ r.op = "create" /\ r.src = None /\ r.dst = req[t].dst /\ r.user = req[t].user
        /\ r.here = req[t].here /\ r.there = req[t].there /\ r.data = req[t].data
    <2> HIDE DEF touched
    <2>1. QED
      BY <1>2, <1>3 DEF Request
  <1> HIDE DEF r
  <1>5. ReqOK(r, issued')
    BY <1>1, <1>2, <1>4, ConnectionsAssumption DEF ReqOK, FlowOf, RowOK
  <1>6. Reqs' /\ req'[t] = r /\ \A u \in Threads \ {t} : req'[u] = req[u]
    <2>1. req' = [req EXCEPT ![t] = r]
      BY <1>1 DEF r
    <2>2. QED
      BY <1>1, <1>5, <2>1, OneBecomes
  <1>7. Stores'
    <2>1. UNCHANGED dbVars
      BY DEF Mint
    <2>2. shared' \in [Orgs -> SUBSET issued']
      BY <1>1, <1>2 DEF Stores, Write
    <2>3. QED
      BY <1>1, <2>1, <2>2 DEF Stores, RowOK, dbVars
  <1>8. Histories' /\ Backups'
    BY <1>1 DEF Mint, Histories, Backups, dbVars, backupVars
  <1>9. QED
    BY <1>1, <1>2, <1>4, <1>6, <1>7, <1>8

LEMMA CreatePersonalSound ==
  ASSUME Sound, NEW t \in Threads, CreatePersonal(t)
  PROVE  /\ Sound' /\ \A u \in Threads \ {t} : req'[u] = req[u]
         /\ req[t] = Idle
         /\ req'[t].conn \in Conns \ issued /\ issued' = issued \cup {req'[t].conn}
         /\ req'[t].pc = "save" /\ ~req'[t].touched
         /\ req'[t].op = "create" /\ req'[t].src = None /\ req'[t].dst = Vault
  <1> USE DEF Sound
  <1>1. PICK u \in Users, c \in Conns \ issued :
         /\ issued' = issued \cup {c}
         /\ req' = [req EXCEPT ![t] = [Idle EXCEPT !.op = "create", !.pc = "save",
                      !.user = u, !.conn = c, !.dst = Vault, !.data = vault[u]]]
    BY DEF CreatePersonal
  <1>2. UNCHANGED <<dbVars, shared, backupVars, promised, granted, raced, torn, dropped>> /\ calls' \in 0..MaxCalls
    BY ConnectionsAssumption DEF CreatePersonal, Call, Backups
  <1> DEFINE r == [Idle EXCEPT !.op = "create", !.pc = "save",
                      !.user = u, !.conn = c, !.dst = Vault, !.data = vault[u]]
  <1>3. vault[u] \subseteq issued /\ issued \subseteq Conns
    BY DEF Stores
  <1>4. /\ r \in Request /\ r.op = "create" /\ r.pc = "save" /\ r.user = u /\ r.dst = Vault
        /\ r.there = NoRow /\ r.conn = c /\ r.src = None /\ r.here = NoRow /\ r.data = vault[u]
        /\ ~r.touched
    BY <1>3, NoRowFacts DEF Idle, Request
  <1> HIDE DEF r
  <1>5. ReqOK(r, issued')
    BY <1>1, <1>3, <1>4, NoRowFacts, ConnectionsAssumption DEF ReqOK, FlowOf
  <1>6. Reqs' /\ req'[t] = r /\ \A x \in Threads \ {t} : req'[x] = req[x]
    <2>1. req' = [req EXCEPT ![t] = r]
      BY <1>1 DEF r
    <2>2. QED
      BY <1>1, <1>5, <2>1, OneBecomes
  <1>7. Stores' /\ Histories' /\ Backups'
    BY <1>1, <1>2 DEF Stores, Histories, Backups, dbVars, backupVars, RowOK
  <1>8. req[t] = Idle
    BY ReqFacts DEF CreatePersonal, At, FlowOf
  <1>9. QED
    BY <1>1, <1>4, <1>6, <1>7, <1>8

LEMMA RacedTyped ==
  ASSUME Histories, NEW t \in Threads, raced' = raced \cup Contested(t)
  PROVE  raced' \subseteq Conns \cup Orgs
  BY DEF Histories, Contested

LEMMA FindSound ==
  ASSUME Sound, NEW t \in Threads, Find(t)
  PROVE  /\ Sound' /\ \A u \in Threads \ {t} : req'[u] = req[u]
         /\ req[t] = Idle
         /\ raced' = raced \cup Contested(t)
         /\ req'[t].pc = "target" /\ req'[t].op = "update" /\ ~req'[t].touched
         /\ UNCHANGED <<dbVars, shared, backupVars, issued, promised, granted, torn, dropped>>
  <1> USE DEF Sound
  <1> PICK u \in Users, c \in Conns, from \in Orgs \cup {Vault}, to \in Orgs \cup {Vault} :
         \E seen \in {rows[o] : o \in Orgs \cap {from}} \cup {NoRow} :
         /\ \/ /\ from = Vault /\ Free(t) /\ seen = NoRow
               /\ c \in vault[u]
            \/ /\ from # Vault
               /\ Resolves(t, u, from, seen)
               /\ c \in Held(from, seen)
         /\ req' = [req EXCEPT ![t] = [Idle EXCEPT !.op = "update", !.pc = "target",
                      !.user = u, !.conn = c, !.src = from, !.dst = to, !.here = seen]]
    BY DEF Find
  <1>1. PICK seen \in {rows[o] : o \in Orgs \cap {from}} \cup {NoRow} :
         /\ \/ /\ from = Vault /\ Free(t) /\ seen = NoRow
               /\ c \in vault[u]
            \/ /\ from # Vault
               /\ Resolves(t, u, from, seen)
               /\ c \in Held(from, seen)
         /\ req' = [req EXCEPT ![t] = [Idle EXCEPT !.op = "update", !.pc = "target",
                      !.user = u, !.conn = c, !.src = from, !.dst = to, !.here = seen]]
    OBVIOUS
  <1>2. /\ UNCHANGED <<dbVars, shared, backupVars, issued, promised, granted, torn, dropped>>
        /\ calls' \in 0..MaxCalls /\ raced' = raced \cup Contested(t)
    BY ConnectionsAssumption DEF Find, Call, Backups
  <1> DEFINE r == [Idle EXCEPT !.op = "update", !.pc = "target",
                      !.user = u, !.conn = c, !.src = from, !.dst = to, !.here = seen]
  <1>3. /\ RowOK(seen, issued) /\ c \in issued /\ c # None
        /\ from \in Orgs => IF seen.stored THEN c \in seen.conns ELSE from \in Provisioned
    BY <1>1, NoRowFacts, ConnectionsAssumption DEF Resolves, Held, Stores, RowOK
  <1>4. /\ r \in Request /\ r.op = "update" /\ r.pc = "target" /\ r.user = u /\ r.dst = to
        /\ r.there = NoRow /\ r.conn = c /\ r.src = from /\ r.here = seen /\ r.data = {}
        /\ ~r.touched
    BY <1>3, NoRowFacts DEF Idle, Request, RowOK
  <1> HIDE DEF r
  <1>5. ReqOK(r, issued)
    BY <1>3, <1>4, NoRowFacts, ConnectionsAssumption DEF ReqOK, FlowOf
  <1>6. Reqs' /\ req'[t] = r /\ \A x \in Threads \ {t} : req'[x] = req[x]
    <2>1. req' = [req EXCEPT ![t] = r]
      BY <1>1 DEF r
    <2>2. QED
      BY <1>2, <1>5, <2>1, OneBecomes
  <1>7. Stores' /\ Histories' /\ Backups'
    BY <1>2, RacedTyped DEF Stores, Histories, Backups, dbVars, backupVars
  <1>8. req[t] = Idle
    BY ReqFacts DEF Find, At, FlowOf
  <1>9. QED
    BY <1>2, <1>4, <1>6, <1>7, <1>8

LEMMA DeleteSharedSound ==
  ASSUME Sound, NEW t \in Threads, DeleteShared(t)
  PROVE  /\ Sound' /\ \A u \in Threads \ {t} : req'[u] = req[u]
         /\ req[t] = Idle
         /\ raced' = raced \cup Contested(t)
         /\ req'[t].pc = "drop" /\ req'[t].op = "delete" /\ req'[t].dst = None
         /\ req'[t].src \in Orgs /\ req'[t].here \in {rows[req'[t].src], NoRow}
         /\ req'[t].conn \in Held(req'[t].src, req'[t].here)
         /\ Write(req'[t].src, req'[t].here, shared[req'[t].src] \ {req'[t].conn})
         /\ UNCHANGED <<dbVars, backupVars, issued, promised, granted, torn, dropped>>
  <1> USE DEF Sound
  <1> PICK u \in Users, c \in Conns, o \in Orgs :
         \E seen \in {rows[o], NoRow} :
           /\ Resolves(t, u, o, seen)
           /\ c \in Held(o, seen)
           /\ Write(o, seen, shared[o] \ {c})
           /\ req' = [req EXCEPT ![t] = [Idle EXCEPT !.op = "delete", !.pc = "drop",
                        !.user = u, !.conn = c, !.src = o, !.here = seen,
                        !.touched = ~seen.stored]]
    BY DEF DeleteShared
  <1>1. PICK seen \in {rows[o], NoRow} :
           /\ Resolves(t, u, o, seen)
           /\ c \in Held(o, seen)
           /\ Write(o, seen, shared[o] \ {c})
           /\ req' = [req EXCEPT ![t] = [Idle EXCEPT !.op = "delete", !.pc = "drop",
                        !.user = u, !.conn = c, !.src = o, !.here = seen,
                        !.touched = ~seen.stored]]
    OBVIOUS
  <1>2. /\ UNCHANGED <<dbVars, backupVars, issued, promised, granted, torn, dropped>>
        /\ calls' \in 0..MaxCalls /\ raced' = raced \cup Contested(t)
    BY ConnectionsAssumption DEF DeleteShared, Call, Backups
  <1> DEFINE touched == ~seen.stored
             r == [Idle EXCEPT !.op = "delete", !.pc = "drop", !.user = u, !.conn = c, !.src = o,
                               !.here = seen, !.touched = touched]
  <1>3. /\ RowOK(seen, issued) /\ c \in issued /\ c # None
        /\ IF seen.stored THEN c \in seen.conns ELSE o \in Provisioned
    BY <1>1, NoRowFacts, ConnectionsAssumption DEF Resolves, Held, Stores, RowOK
  <1>11. touched \in BOOLEAN
    OBVIOUS
  <1>4. /\ r \in Request /\ r.op = "delete" /\ r.pc = "drop" /\ r.user = u /\ r.dst = None
        /\ r.there = NoRow /\ r.conn = c /\ r.src = o /\ r.here = seen /\ r.data = {}
        /\ (r.touched <=> touched)
    <2> HIDE DEF touched
    <2>1. QED
      BY <1>3, <1>11, NoRowFacts DEF Idle, Request, RowOK
  <1> HIDE DEF r
  <1>5. ReqOK(r, issued)
    BY <1>3, <1>4, NoRowFacts, ConnectionsAssumption DEF ReqOK, FlowOf
  <1>6. Reqs' /\ req'[t] = r /\ \A x \in Threads \ {t} : req'[x] = req[x]
    <2>1. req' = [req EXCEPT ![t] = r]
      BY <1>1 DEF r
    <2>2. QED
      BY <1>2, <1>5, <2>1, OneBecomes
  <1>7. Stores'
    <2>1. shared' \in [Orgs -> SUBSET issued]
      BY <1>1 DEF Stores, Write
    <2>2. QED
      BY <1>2, <2>1 DEF Stores, dbVars
  <1>8. Histories' /\ Backups'
    BY <1>2, RacedTyped DEF Histories, Backups, dbVars, backupVars
  <1>9. req[t] = Idle
    BY ReqFacts DEF DeleteShared, At, FlowOf
  <1>10. QED
    BY <1>1, <1>2, <1>4, <1>6, <1>7, <1>8, <1>9

LEMMA DeletePersonalSound ==
  ASSUME Sound, NEW t \in Threads, DeletePersonal(t)
  PROVE  /\ Sound' /\ \A u \in Threads \ {t} : req'[u] = req[u]
         /\ req[t] = Idle
         /\ raced' = raced \cup Contested(t)
         /\ req'[t].pc = "save" /\ req'[t].op = "delete" /\ req'[t].dst = None
         /\ req'[t].src = Vault /\ req'[t].user \in Users /\ req'[t].conn \in vault[req'[t].user]
         /\ ~req'[t].touched
         /\ UNCHANGED <<dbVars, shared, backupVars, issued, promised, granted, torn, dropped>>
  <1> USE DEF Sound
  <1>1. PICK u \in Users, c \in Conns :
         /\ c \in vault[u]
         /\ req' = [req EXCEPT ![t] = [Idle EXCEPT !.op = "delete", !.pc = "save",
                      !.user = u, !.conn = c, !.src = Vault, !.data = vault[u]]]
    BY DEF DeletePersonal
  <1>2. /\ UNCHANGED <<dbVars, shared, backupVars, issued, promised, granted, torn, dropped>>
        /\ calls' \in 0..MaxCalls /\ raced' = raced \cup Contested(t)
    BY ConnectionsAssumption DEF DeletePersonal, Call, Backups
  <1> DEFINE r == [Idle EXCEPT !.op = "delete", !.pc = "save",
                      !.user = u, !.conn = c, !.src = Vault, !.data = vault[u]]
  <1>3. vault[u] \subseteq issued /\ issued \subseteq Conns /\ c # None
    BY ConnectionsAssumption DEF Stores
  <1>4. /\ r \in Request /\ r.op = "delete" /\ r.pc = "save" /\ r.user = u /\ r.dst = None
        /\ r.there = NoRow /\ r.conn = c /\ r.src = Vault /\ r.here = NoRow /\ r.data = vault[u]
        /\ ~r.touched
    BY <1>3, NoRowFacts DEF Idle, Request
  <1> HIDE DEF r
  <1>5. ReqOK(r, issued)
    BY <1>1, <1>3, <1>4, NoRowFacts, ConnectionsAssumption DEF ReqOK, FlowOf
  <1>6. Reqs' /\ req'[t] = r /\ \A x \in Threads \ {t} : req'[x] = req[x]
    <2>1. req' = [req EXCEPT ![t] = r]
      BY <1>1 DEF r
    <2>2. QED
      BY <1>2, <1>5, <2>1, OneBecomes
  <1>7. Stores' /\ Histories' /\ Backups'
    BY <1>2, RacedTyped DEF Stores, Histories, Backups, dbVars, backupVars
  <1>8. req[t] = Idle
    BY ReqFacts DEF DeletePersonal, At, FlowOf
  <1>9. QED
    BY <1>1, <1>2, <1>4, <1>6, <1>7, <1>8

\* What a request is about does not change from step to step.
Same(t) ==
    /\ req'[t].op = req[t].op /\ req'[t].user = req[t].user /\ req'[t].conn = req[t].conn
    /\ req'[t].src = req[t].src /\ req'[t].dst = req[t].dst

LEMMA TargetSound ==
  ASSUME Sound, NEW t \in Threads, Target(t)
  PROVE  /\ Sound' /\ \A u \in Threads \ {t} : req'[u] = req[u]
         /\ req[t].pc = "target" /\ Same(t) /\ req'[t].here = req[t].here
         /\ raced' = raced \cup {d \in {req[t].conn} : HasLeft(t)}
         /\ UNCHANGED <<dbVars, backupVars, issued, promised, granted, torn, dropped>>
         /\ \/ /\ req[t].dst \in Orgs /\ req'[t].pc = "put"
               /\ req'[t].there \in {rows[req[t].dst], NoRow}
               /\ Write(req[t].dst, req'[t].there, shared[req[t].dst] \cup {req[t].conn})
               /\ req'[t].touched <=> ~req'[t].there.stored
            \/ /\ req[t].dst = Vault /\ req[t].src = Vault /\ req'[t].pc = "save"
               /\ ~req'[t].touched /\ shared' = shared
            \/ /\ req[t].dst = Vault /\ req[t].src \in Orgs /\ req'[t].pc = "drop"
               /\ Write(req[t].src, req[t].here, shared[req[t].src] \ {req[t].conn})
               /\ req'[t].touched <=> ~req[t].here.stored
  <1> USE DEF Sound
  <1> DEFINE q == req[t]
  <1>1. /\ q.pc = "target" /\ q \in Request /\ ReqOK(q, issued) /\ q.op = "update"
        /\ q.conn # None /\ q.conn \in issued /\ q.user \in Users
        /\ q.src \in Orgs \cup {Vault} /\ q.dst \in Orgs \cup {Vault} /\ ~q.touched
        /\ q.src \in Orgs => IF q.here.stored THEN q.conn \in q.here.conns ELSE q.src \in Provisioned
        /\ q.here \in Row /\ q.here.stored \in BOOLEAN
    BY ZenonT(60), ReqFacts DEF Target, At, FlowOf, ReqOK, RowOK, Row
  <1>2. /\ raced' = raced \cup {d \in {q.conn} : HasLeft(t)}
        /\ UNCHANGED <<calls, dbVars, backupVars, issued, promised, granted, torn, dropped>>
    BY DEF Target
  <1>3. Histories' /\ Backups'
    <2>1. q.conn \in Conns
      BY <1>1 DEF Stores
    <2>2. QED
      BY <1>2, <2>1 DEF Histories, Backups, dbVars, backupVars
  <1>4. ASSUME NEW o \in Orgs, NEW seen, NEW conns \in SUBSET issued, Write(o, seen, conns)
        PROVE  Stores'
    <2>1. shared' \in [Orgs -> SUBSET issued]
      BY <1>4 DEF Stores, Write
    <2>2. QED
      BY <1>2, <2>1 DEF Stores, dbVars
  <1>5. CASE q.dst # Vault
    <2>1. PICK seen \in {rows[o] : o \in Orgs \cap {q.dst}} \cup {NoRow} :
               /\ Resolves(t, q.user, q.dst, seen)
               /\ Write(q.dst, seen, shared[q.dst] \cup {q.conn})
               /\ req' = [req EXCEPT ![t].pc = "put", ![t].there = seen,
                                     ![t].touched = ~seen.stored]
      BY <1>5 DEF Target
    <2>2. /\ q.dst \in Orgs /\ seen \in {rows[q.dst], NoRow}
          /\ RowOK(seen, issued) /\ (seen.stored \/ q.dst \in Provisioned)
      BY <1>1, <1>5, <2>1, NoRowFacts DEF Resolves, Stores
    <2> DEFINE touched == ~seen.stored
               r == [q EXCEPT !.pc = "put", !.there = seen, !.touched = touched]
    <2>3. touched \in BOOLEAN
      OBVIOUS
    <2>4. /\ r \in Request /\ r.pc = "put" /\ r.conn = q.conn /\ (r.touched <=> touched)
          /\ r.op = q.op /\ r.src = q.src /\ r.dst = q.dst /\ r.user = q.user
          /\ r.here = q.here /\ r.there = seen /\ r.data = q.data
      <3> HIDE DEF touched
      <3>1. QED
        BY <1>1, <2>2, <2>3 DEF Request, RowOK
    <2>5. req' = [req EXCEPT ![t] = r]
      BY <2>1
    <2> HIDE DEF r
    <2>6. ReqOK(r, issued)
      BY <1>1, <2>2, <2>4 DEF ReqOK, FlowOf
    <2>7. Reqs' /\ req'[t] = r /\ \A u \in Threads \ {t} : req'[u] = req[u]
      BY <1>2, <2>5, <2>6, OneBecomes
    <2>8. Stores'
      <3>1. shared[q.dst] \cup {q.conn} \subseteq issued
        BY <1>1, <2>2 DEF Stores
      <3>2. QED
        BY <1>4, <2>1, <2>2, <3>1
    <2>9. QED
      BY <1>1, <1>2, <1>3, <2>1, <2>2, <2>4, <2>7, <2>8 DEF Same
  <1>6. CASE q.dst = Vault /\ q.src = Vault
    <2>1. /\ req' = [req EXCEPT ![t].pc = "save", ![t].data = vault[q.user]]
          /\ UNCHANGED shared
      BY <1>6 DEF Target
    <2> DEFINE r == [q EXCEPT !.pc = "save", !.data = vault[q.user]]
    <2>2. vault[q.user] \subseteq issued /\ issued \subseteq Conns
      BY <1>1 DEF Stores
    <2>3. /\ r \in Request /\ r.pc = "save" /\ r.conn = q.conn /\ (r.touched <=> q.touched)
          /\ r.op = q.op /\ r.src = q.src /\ r.dst = q.dst /\ r.user = q.user
          /\ r.here = q.here /\ r.there = q.there /\ r.data = vault[q.user]
      BY <1>1, <2>2 DEF Request
    <2>4. req' = [req EXCEPT ![t] = r]
      BY <2>1
    <2> HIDE DEF r
    <2>5. ReqOK(r, issued)
      BY <1>1, <1>6, <2>2, <2>3, ConnectionsAssumption DEF ReqOK, FlowOf
    <2>6. Reqs' /\ req'[t] = r /\ \A u \in Threads \ {t} : req'[u] = req[u]
      BY <1>2, <2>4, <2>5, OneBecomes
    <2>7. Stores'
      BY <1>2, <2>1 DEF Stores, dbVars
    <2>8. QED
      BY <1>1, <1>2, <1>3, <1>6, <2>1, <2>3, <2>6, <2>7 DEF Same
  <1>7. CASE q.dst = Vault /\ q.src # Vault
    <2>1. /\ Write(q.src, q.here, shared[q.src] \ {q.conn})
          /\ req' = [req EXCEPT ![t].pc = "drop", ![t].data = vault[q.user],
                                ![t].touched = ~q.here.stored]
      BY <1>7 DEF Target
    <2> DEFINE touched == ~q.here.stored
               r == [q EXCEPT !.pc = "drop", !.data = vault[q.user], !.touched = touched]
    <2>2. vault[q.user] \subseteq issued /\ issued \subseteq Conns /\ q.src \in Orgs
      BY <1>1, <1>7 DEF Stores
    <2>3. touched \in BOOLEAN
      OBVIOUS
    <2>4. /\ r \in Request /\ r.pc = "drop" /\ r.conn = q.conn /\ (r.touched <=> touched)
          /\ r.op = q.op /\ r.src = q.src /\ r.dst = q.dst /\ r.user = q.user
          /\ r.here = q.here /\ r.there = q.there /\ r.data = vault[q.user]
      <3> HIDE DEF touched
      <3>1. QED
        BY <1>1, <2>2, <2>3 DEF Request
    <2>5. req' = [req EXCEPT ![t] = r]
      BY <2>1
    <2> HIDE DEF r
    <2>6. ReqOK(r, issued)
      BY <1>1, <1>7, <2>2, <2>4 DEF ReqOK, FlowOf
    <2>7. Reqs' /\ req'[t] = r /\ \A u \in Threads \ {t} : req'[u] = req[u]
      BY <1>2, <2>5, <2>6, OneBecomes
    <2>8. Stores'
      <3>1. shared[q.src] \ {q.conn} \subseteq issued
        BY <2>2 DEF Stores
      <3>2. QED
        BY <1>4, <2>1, <2>2, <3>1
    <2>9. QED
      BY <1>1, <1>2, <1>3, <1>7, <2>1, <2>2, <2>4, <2>7, <2>8 DEF Same
  <1>8. QED
    BY SMTT(30), <1>5, <1>6, <1>7

\* A row saved by a request.
LEMMA SaveRowSound ==
  ASSUME Stores, Histories, NEW o \in Orgs, NEW seen, RowOK(seen, issued),
         NEW conns \in SUBSET issued, NEW c \in Conns, NEW t, SaveRow(t, o, seen, conns, c)
  PROVE  /\ rows' \in [Orgs -> Row] /\ \A p \in Orgs : RowOK(rows'[p], issued)
         /\ \A p \in Orgs \ {o} : rows'[p] = rows[p]
         /\ rows'[o].stored /\ rows'[o].members = Members(o, seen) /\ rows'[o].conns = conns
         /\ raced \subseteq raced' /\ raced' \subseteq Conns \cup Orgs
         /\ rows[o] # seen => /\ o \in raced' /\ c \in raced'
                              /\ Differ(Effective(o).conns, conns) \subseteq raced'
  <1> DEFINE new == [stored |-> TRUE, members |-> Members(o, seen), conns |-> conns]
  <1>1. Members(o, seen) \subseteq Users /\ issued \subseteq Conns
    BY HelmFacts DEF Members, RowOK, Row, Stores
  <1>2. RowOK(new, issued) /\ new.stored /\ new.members = Members(o, seen) /\ new.conns = conns
    BY <1>1 DEF RowOK, Row
  <1>3. rows' = [rows EXCEPT ![o] = new]
    BY DEF SaveRow
  <1> HIDE DEF new
  <1>4. /\ rows' \in [Orgs -> Row] /\ rows'[o] = new /\ \A p \in Orgs \ {o} : rows'[p] = rows[p]
    BY <1>2, <1>3 DEF Stores, RowOK
  <1>5. \A p \in Orgs : RowOK(rows'[p], issued)
    BY <1>2, <1>4 DEF Stores
  <1>6. Effective(o).conns \subseteq Conns
    BY EffectiveFacts DEF Stores, RowOK
  <1>7. /\ raced \subseteq raced' /\ raced' \subseteq Conns \cup Orgs
        /\ rows[o] # seen => /\ o \in raced' /\ c \in raced'
                             /\ Differ(Effective(o).conns, conns) \subseteq raced'
    BY <1>1, <1>6 DEF SaveRow, Stale, Differ, Histories
  <1>8. QED
    BY <1>2, <1>4, <1>5, <1>7

\* What Put and Drop save.
Added(t) == IF req[t].there.stored THEN req[t].there.conns \cup {req[t].conn} ELSE shared[req[t].dst]
Without(t) == IF req[t].here.stored THEN req[t].here.conns \ {req[t].conn} ELSE shared[req[t].src]

LEMMA PutSound ==
  ASSUME Sound, NEW t \in Threads, Put(t)
  PROVE  /\ Sound' /\ \A u \in Threads \ {t} : req'[u] = req[u]
         /\ req[t].pc = "put" /\ SaveRow(t, req[t].dst, req[t].there, Added(t), req[t].conn)
         /\ promised' = promised \cup {req[t].conn}
         /\ UNCHANGED <<vault, issued, granted, torn, dropped>>
         /\ \/ req[t].op = "create" /\ req'[t] = Idle /\ shared' = shared
            \/ req[t].src = req[t].dst /\ req'[t] = Idle /\ shared' = shared
            \/ /\ req[t].op = "update" /\ req[t].src = Vault /\ Same(t) /\ shared' = shared
               /\ req'[t].pc = "take" /\ req'[t].touched
            \/ /\ req[t].op = "update" /\ req[t].src \in Orgs \ {req[t].dst} /\ Same(t)
               /\ req'[t].pc = "drop" /\ req'[t].touched /\ req'[t].here = req[t].here
               /\ Write(req[t].src, req[t].here, shared[req[t].src] \ {req[t].conn})
  <1> USE DEF Sound
  <1> DEFINE q == req[t]
  <1>1. /\ q.pc = "put" /\ q \in Request /\ ReqOK(q, issued)
        /\ q.conn # None /\ q.conn \in issued /\ q.user \in Users
        /\ q.dst \in Orgs
        /\ (q.op = "create" /\ q.src = None) \/ (q.op = "update" /\ q.src \in Orgs \cup {Vault})
        /\ q.src \in Orgs => IF q.here.stored THEN q.conn \in q.here.conns ELSE q.src \in Provisioned
        /\ RowOK(q.there, issued)
    BY ReqFacts DEF Put, At, FlowOf, ReqOK
  <1>2. /\ SaveRow(t, q.dst, q.there, Added(t), q.conn)
        /\ promised' = promised \cup {q.conn}
        /\ UNCHANGED <<calls, vault, backupVars, issued, granted, torn, dropped>>
    BY DEF Put, Added
  <1>3. Added(t) \subseteq issued /\ q.conn \in Conns
    BY <1>1 DEF Added, Stores, RowOK
  <1>4. Histories' /\ Backups'
    <2>1. raced' \subseteq Conns \cup Orgs
      BY <1>1, <1>2, <1>3, SaveRowSound
    <2>2. QED
      BY <1>1, <1>2, <2>1 DEF Histories, Backups, backupVars
  <1>5. shared' \in [Orgs -> SUBSET issued] => Stores'
    BY <1>1, <1>2, <1>3, SaveRowSound DEF Stores
  <1>6. CASE q.op = "create" \/ q.src = q.dst
    <2>1. Finish(t) /\ UNCHANGED shared
      BY <1>1, <1>6, ConnectionsAssumption DEF Put
    <2>2. Reqs' /\ req'[t] = Idle /\ \A u \in Threads \ {t} : req'[u] = req[u]
      BY <1>2, <2>1, Finishes
    <2>3. QED
      BY <1>1, <1>2, <1>4, <1>5, <1>6, <2>1, <2>2 DEF Stores
  <1>7. CASE q.op = "update" /\ q.src = Vault
    <2>1. /\ req' = [req EXCEPT ![t].pc = "take", ![t].there = NoRow, ![t].touched = TRUE]
          /\ UNCHANGED shared
      BY <1>1, <1>7, ConnectionsAssumption DEF Put
    <2> DEFINE r == [q EXCEPT !.pc = "take", !.there = NoRow, !.touched = TRUE]
    <2>2. /\ r \in Request /\ r.pc = "take" /\ r.conn = q.conn /\ r.touched
          /\ r.op = q.op /\ r.src = q.src /\ r.dst = q.dst /\ r.user = q.user
          /\ r.here = q.here /\ r.there = NoRow /\ r.data = q.data
      BY <1>1, NoRowFacts DEF Request
    <2>3. req' = [req EXCEPT ![t] = r]
      BY <2>1
    <2> HIDE DEF r
    <2>4. ReqOK(r, issued)
      BY <1>1, <1>7, <2>2, NoRowFacts, ConnectionsAssumption DEF ReqOK, FlowOf
    <2>5. Reqs' /\ req'[t] = r /\ \A u \in Threads \ {t} : req'[u] = req[u]
      BY <1>2, <2>3, <2>4, OneBecomes
    <2>6. QED
      BY <1>1, <1>2, <1>4, <1>5, <1>7, <2>1, <2>2, <2>5 DEF Same, Stores
  <1>8. CASE q.op = "update" /\ q.src \notin {q.dst, Vault}
    <2>1. /\ Write(q.src, q.here, shared[q.src] \ {q.conn})
          /\ req' = [req EXCEPT ![t].pc = "drop", ![t].there = NoRow, ![t].touched = TRUE]
      BY <1>1, <1>8 DEF Put
    <2> DEFINE r == [q EXCEPT !.pc = "drop", !.there = NoRow, !.touched = TRUE]
    <2>2. /\ r \in Request /\ r.pc = "drop" /\ r.conn = q.conn /\ r.touched
          /\ r.op = q.op /\ r.src = q.src /\ r.dst = q.dst /\ r.user = q.user
          /\ r.here = q.here /\ r.there = NoRow /\ r.data = q.data
      BY <1>1, NoRowFacts DEF Request
    <2>3. req' = [req EXCEPT ![t] = r]
      BY <2>1
    <2> HIDE DEF r
    <2>4. q.src \in Orgs
      BY <1>1, <1>8
    <2>5. ReqOK(r, issued)
      BY <1>1, <1>8, <2>2, <2>4, NoRowFacts DEF ReqOK, FlowOf
    <2>6. Reqs' /\ req'[t] = r /\ \A u \in Threads \ {t} : req'[u] = req[u]
      BY <1>2, <2>3, <2>5, OneBecomes
    <2>7. shared' \in [Orgs -> SUBSET issued]
      BY <2>1, <2>4 DEF Stores, Write
    <2>8. QED
      BY <1>1, <1>2, <1>4, <1>5, <1>8, <2>1, <2>2, <2>4, <2>6, <2>7 DEF Same
  <1>9. QED
    BY SMTT(30), <1>1, <1>6, <1>7, <1>8

LEMMA DropSound ==
  ASSUME Sound, NEW t \in Threads, Drop(t)
  PROVE  /\ Sound' /\ \A u \in Threads \ {t} : req'[u] = req[u]
         /\ req[t].pc = "drop" /\ SaveRow(t, req[t].src, req[t].here, Without(t), req[t].conn)
         /\ promised' = IF req[t].op = "delete" THEN promised \ {req[t].conn} ELSE promised
         /\ UNCHANGED <<vault, shared, issued, granted, torn, dropped>>
         /\ \/ req[t].dst # Vault /\ req'[t] = Idle
            \/ /\ req[t].dst = Vault /\ req[t].op = "update" /\ Same(t)
               /\ req'[t].pc = "save" /\ req'[t].touched
  <1> USE DEF Sound
  <1> DEFINE q == req[t]
  <1>1. /\ q.pc = "drop" /\ q \in Request /\ ReqOK(q, issued)
        /\ q.conn # None /\ q.conn \in issued /\ q.user \in Users
        /\ q.src \in Orgs /\ RowOK(q.here, issued)
        /\ q.dst = Vault => q.op = "update"
    BY ReqFacts, ConnectionsAssumption DEF Drop, At, FlowOf, ReqOK
  <1>2. /\ SaveRow(t, q.src, q.here, Without(t), q.conn)
        /\ promised' = IF q.op = "delete" THEN promised \ {q.conn} ELSE promised
        /\ UNCHANGED <<calls, vault, shared, backupVars, issued, granted, torn, dropped>>
    BY DEF Drop, Without
  <1>3. Without(t) \subseteq issued /\ q.conn \in Conns
    BY <1>1 DEF Without, Stores, RowOK
  <1>4. Histories' /\ Backups'
    <2>1. raced' \subseteq Conns \cup Orgs
      BY <1>1, <1>2, <1>3, SaveRowSound
    <2>2. QED
      BY <1>1, <1>2, <2>1 DEF Histories, Backups, backupVars
  <1>5. Stores'
    BY <1>1, <1>2, <1>3, SaveRowSound DEF Stores
  <1>6. CASE q.dst # Vault
    <2>1. Finish(t)
      BY <1>6 DEF Drop
    <2>2. QED
      BY <1>1, <1>2, <1>4, <1>5, <1>6, <2>1, Finishes
  <1>7. CASE q.dst = Vault
    <2>1. req' = [req EXCEPT ![t].pc = "save", ![t].here = NoRow, ![t].touched = TRUE]
      BY <1>7 DEF Drop
    <2> DEFINE r == [q EXCEPT !.pc = "save", !.here = NoRow, !.touched = TRUE]
    <2>2. /\ r \in Request /\ r.pc = "save" /\ r.conn = q.conn /\ r.touched
          /\ r.op = q.op /\ r.src = q.src /\ r.dst = q.dst /\ r.user = q.user
          /\ r.here = NoRow /\ r.there = q.there /\ r.data = q.data
      BY <1>1, NoRowFacts DEF Request
    <2>3. req' = [req EXCEPT ![t] = r]
      BY <2>1
    <2> HIDE DEF r
    <2>4. ReqOK(r, issued)
      BY <1>1, <1>7, <2>2, NoRowFacts DEF ReqOK, FlowOf
    <2>5. Reqs' /\ req'[t] = r /\ \A u \in Threads \ {t} : req'[u] = req[u]
      BY <1>2, <2>3, <2>4, OneBecomes
    <2>6. QED
      BY <1>1, <1>2, <1>4, <1>5, <1>7, <2>2, <2>5 DEF Same
  <1>8. QED
    BY SMTT(30), <1>6, <1>7

LEMMA TakeSound ==
  ASSUME Sound, NEW t \in Threads, Take(t)
  PROVE  /\ Sound' /\ \A u \in Threads \ {t} : req'[u] = req[u]
         /\ req[t].pc = "take" /\ Same(t) /\ req'[t].pc = "save" /\ req'[t].touched
         /\ UNCHANGED <<dbVars, shared, backupVars, historyVars>>
  <1> USE DEF Sound
  <1> DEFINE q == req[t]
             r == [q EXCEPT !.pc = "save", !.data = vault[q.user]]
  <1>1. /\ q.pc = "take" /\ q \in Request /\ ReqOK(q, issued)
        /\ q.conn # None /\ q.conn \in issued /\ q.user \in Users
        /\ q.op = "update" /\ q.src = Vault /\ q.dst \in Orgs /\ q.touched
    BY ReqFacts DEF Take, At, FlowOf, ReqOK
  <1>2. UNCHANGED <<calls, dbVars, shared, backupVars, historyVars>>
    BY DEF Take
  <1>3. vault[q.user] \subseteq issued /\ issued \subseteq Conns
    BY <1>1 DEF Stores
  <1>4. /\ r \in Request /\ r.pc = "save" /\ r.conn = q.conn /\ r.touched
        /\ r.op = q.op /\ r.src = q.src /\ r.dst = q.dst /\ r.user = q.user
        /\ r.here = q.here /\ r.there = q.there /\ r.data = vault[q.user]
    BY <1>1, <1>3 DEF Request
  <1>5. req' = [req EXCEPT ![t] = r]
    BY DEF Take
  <1> HIDE DEF r
  <1>6. ReqOK(r, issued)
    BY <1>1, <1>3, <1>4, ConnectionsAssumption DEF ReqOK, FlowOf
  <1>7. Reqs' /\ req'[t] = r /\ \A u \in Threads \ {t} : req'[u] = req[u]
    BY <1>2, <1>5, <1>6, OneBecomes DEF historyVars
  <1>8. Stores' /\ Histories' /\ Backups'
    BY <1>2 DEF Stores, Histories, Backups, dbVars, backupVars, historyVars
  <1>9. QED
    BY <1>1, <1>2, <1>4, <1>7, <1>8 DEF Same

Result(t) == IF req[t].dst = Vault THEN req[t].data \cup {req[t].conn} ELSE req[t].data \ {req[t].conn}

LEMMA SaveSound ==
  ASSUME Sound, NEW t \in Threads, Save(t)
  PROVE  /\ Sound' /\ \A u \in Threads \ {t} : req'[u] = req[u]
         /\ req[t].pc = "save" /\ req'[t] = Idle
         /\ vault'[req[t].user] = Result(t) /\ \A u \in Users \ {req[t].user} : vault'[u] = vault[u]
         /\ promised' = CASE req[t].dst = Vault -> promised \cup {req[t].conn}
                          [] req[t].op = "delete" -> promised \ {req[t].conn}
                          [] OTHER -> promised
         /\ raced \subseteq raced'
         /\ vault[req[t].user] # req[t].data =>
              req[t].conn \in raced' /\ Differ(vault[req[t].user], Result(t)) \subseteq raced'
         /\ raced' \cap Orgs = raced \cap Orgs
         /\ Free(t)
         /\ overtaken' = IF exporting /\ t \in elsewhere THEN overtaken \cup {req[t].user} ELSE overtaken
         /\ UNCHANGED <<rows, shared, mu, exporting, copied, tx, issued, granted, torn, dropped>>
  <1> USE DEF Sound
  <1> DEFINE q == req[t]
  <1>1. /\ q.pc = "save" /\ q \in Request /\ ReqOK(q, issued)
        /\ q.conn # None /\ q.conn \in issued /\ q.user \in Users /\ q.data \subseteq issued
        /\ q.dst = Vault => q.op # "delete"
    BY ReqFacts, ConnectionsAssumption DEF Save, At, FlowOf, ReqOK
  <1>2. /\ vault' = [vault EXCEPT ![q.user] = Result(t)] /\ Free(t)
        /\ promised' = CASE q.dst = Vault -> promised \cup {q.conn}
                         [] q.op = "delete" -> promised \ {q.conn}
                         [] OTHER -> promised
        /\ raced' = raced \cup Stale(vault[q.user] = q.data, vault[q.user], Result(t))
                          \cup (IF vault[q.user] = q.data THEN {} ELSE {q.conn})
        /\ overtaken' = IF exporting /\ t \in elsewhere THEN overtaken \cup {q.user} ELSE overtaken
        /\ Finish(t)
        /\ UNCHANGED <<calls, rows, shared, mu, exporting, copied, tx, issued, granted, torn, dropped>>
    BY DEF Save, Result
  <1>3. Result(t) \subseteq issued /\ issued \subseteq Conns /\ vault[q.user] \subseteq issued
    BY <1>1 DEF Result, Stores
  <1>4. /\ vault' \in [Users -> SUBSET issued] /\ vault'[q.user] = Result(t)
        /\ \A u \in Users \ {q.user} : vault'[u] = vault[u]
    BY <1>1, <1>2, <1>3 DEF Stores
  <1>5. /\ raced \subseteq raced' /\ raced' \ raced \subseteq Conns
        /\ vault[q.user] # q.data =>
              q.conn \in raced' /\ Differ(vault[q.user], Result(t)) \subseteq raced'
    BY <1>1, <1>2, <1>3 DEF Stale, Differ
  <1>6. promised' \subseteq issued
    BY <1>1, <1>2 DEF Histories
  <1>7. Stores' /\ Histories' /\ Backups'
    <2>1. overtaken' \subseteq Users
      BY <1>1, <1>2 DEF Backups
    <2>2. QED
      BY <1>2, <1>4, <1>5, <1>6, <2>1 DEF Stores, Histories, Backups
  <1>8. Reqs' /\ req'[t] = Idle /\ \A u \in Threads \ {t} : req'[u] = req[u]
    BY <1>2, Finishes
  <1>9. raced' \cap Orgs = raced \cap Orgs
    BY <1>5, ConnectionsAssumption
  <1>10. QED
    BY <1>1, <1>2, <1>4, <1>5, <1>7, <1>8, <1>9

LEMMA TouchedConn ==
  ASSUME Reqs, issued \subseteq Conns, NEW t \in Threads
  PROVE  /\ req[t].touched => req[t].conn # None /\ req[t].conn \in issued /\ req[t].conn \in Conns
         /\ req[t].conn # None => req[t].conn \in issued /\ req[t].conn \in Conns
         /\ req[t].conn # None => req[t].pc \in {"target", "put", "drop", "take", "save"}
         /\ req[t].conn = None => req[t].pc \in {"idle", "mint", "form"} /\ ~req[t].touched
  <1>1. req[t] \in Request /\ FlowOf(req[t]) /\ ReqOK(req[t], issued)
    BY ReqFacts
  <1>2. req[t].pc \in {"idle", "mint", "target", "put", "drop", "take", "save", "form"}
    BY <1>1 DEF Request
  <1>3. req[t].conn # None => req[t].conn \in issued
    BY <1>1 DEF ReqOK
  <1>4. req[t].pc \in {"idle", "mint", "form"} => ~req[t].touched /\ req[t].conn = None
    BY <1>1, IdleFacts DEF FlowOf
  <1>5. req[t].pc \in {"target", "put", "drop", "take", "save"} => req[t].conn # None
    BY <1>1 DEF FlowOf
  <1>6. QED
    BY <1>2, <1>3, <1>4, <1>5

LEMMA AbandonSound ==
  ASSUME Sound, NEW S \in SUBSET Threads, Abandon(S)
  PROVE  torn' \subseteq Conns /\ dropped' \subseteq Conns
  BY TouchedConn DEF Sound, Stores, Histories, Abandon

LEMMA FailSound ==
  ASSUME Sound, NEW t \in Threads, Fail(t)
  PROVE  /\ Sound' /\ req'[t] = Idle /\ \A u \in Threads \ {t} : req'[u] = req[u]
         /\ Abandon({t})
         /\ UNCHANGED <<dbVars, shared, backupVars, issued, promised, granted, raced>>
  <1> USE DEF Sound
  <1>1. /\ Abandon({t}) /\ Finish(t)
        /\ UNCHANGED <<calls, dbVars, shared, backupVars, issued, promised, granted, raced>>
    BY DEF Fail
  <1>2. Reqs' /\ req'[t] = Idle /\ \A u \in Threads \ {t} : req'[u] = req[u]
    BY <1>1, Finishes
  <1>3. torn' \subseteq Conns /\ dropped' \subseteq Conns
    BY <1>1, AbandonSound
  <1>4. Stores' /\ Histories' /\ Backups'
    BY <1>1, <1>3 DEF Stores, Histories, Backups, dbVars, backupVars
  <1>5. QED
    BY <1>1, <1>2, <1>4

LEMMA EmptyFacts ==
  /\ Empty.vault \in [Users -> SUBSET Conns] /\ \A u \in Users : Empty.vault[u] = {}
  /\ Empty.rows \in [Orgs -> Row] /\ \A o \in Orgs : Empty.rows[o] = NoRow
  /\ NoTx \in [file : Files \cup {Empty}, done : SUBSET {"vaults", "organizations"}]
  BY NoRowFacts DEF Empty, NoTx

LEMMA RestartSound ==
  ASSUME Sound, Restart
  PROVE  /\ Sound' /\ \A t \in Threads : req'[t] = IF t \in elsewhere THEN req[t] ELSE Idle
         /\ \A o \in Orgs : shared'[o] = Helm[o].conns
         /\ Abandon(Threads \ elsewhere)
         /\ mu' = "free" /\ ~exporting'
         /\ UNCHANGED <<dbVars, issued, promised, granted, raced>>
  <1> USE DEF Sound
  <1>1. /\ UNCHANGED <<calls, dbVars, issued, promised, granted, raced>>
        /\ Abandon(Threads \ elsewhere)
        /\ req' = [t \in Threads |-> IF t \in elsewhere THEN req[t] ELSE Idle]
        /\ shared' = [o \in Orgs |-> Helm[o].conns]
        /\ mu' = "free" /\ exporting' = FALSE /\ copied' = Empty.vault /\ overtaken' = {}
        /\ tx' = NoTx
    BY DEF Restart
  <1>2. Reqs'
    BY <1>1, IdleFacts DEF Reqs
  <1>3. torn' \subseteq Conns /\ dropped' \subseteq Conns
    BY <1>1, AbandonSound
  <1>4. Stores' /\ Histories'
    BY <1>1, <1>3 DEF Stores, Histories, dbVars
  <1>5. Backups'
    BY <1>1, EmptyFacts DEF Backups
  <1>6. QED
    BY <1>1, <1>2, <1>4, <1>5

LEMMA AdminFormSound ==
  ASSUME Sound, NEW t \in Threads, AdminForm(t)
  PROVE  /\ Sound' /\ \A u \in Threads \ {t} : req'[u] = req[u]
         /\ req[t] = Idle /\ req'[t].pc = "form" /\ req'[t].conn = None
         /\ UNCHANGED <<dbVars, shared, backupVars, historyVars>>
  <1> USE DEF Sound
  <1>1. PICK o \in Orgs \ Provisioned :
         req' = [req EXCEPT ![t] = [Idle EXCEPT !.op = "admin", !.pc = "form",
                                    !.dst = o, !.there = rows[o]]]
    BY DEF AdminForm
  <1>2. UNCHANGED <<dbVars, shared, backupVars, historyVars>> /\ calls' \in 0..MaxCalls
    BY ConnectionsAssumption DEF AdminForm, Call, Backups
  <1> DEFINE r == [Idle EXCEPT !.op = "admin", !.pc = "form", !.dst = o, !.there = rows[o]]
  <1>3. RowOK(rows[o], issued)
    BY DEF Stores
  <1>4. /\ r \in Request /\ r.op = "admin" /\ r.pc = "form" /\ r.user = None /\ r.dst = o
        /\ r.there = rows[o] /\ r.conn = None /\ r.src = None /\ r.here = NoRow /\ r.data = {}
        /\ ~r.touched
    BY <1>3, NoRowFacts DEF Idle, Request, RowOK
  <1> HIDE DEF r
  <1>5. ReqOK(r, issued)
    BY <1>3, <1>4, NoRowFacts, ConnectionsAssumption DEF ReqOK, FlowOf
  <1>6. Reqs' /\ req'[t] = r /\ \A x \in Threads \ {t} : req'[x] = req[x]
    <2>1. req' = [req EXCEPT ![t] = r]
      BY <1>1 DEF r
    <2>2. QED
      BY <1>2, <1>5, <2>1, OneBecomes DEF historyVars
  <1>7. Stores' /\ Histories' /\ Backups'
    BY <1>2 DEF Stores, Histories, Backups, dbVars, backupVars, historyVars
  <1>8. req[t] = Idle
    BY ReqFacts DEF AdminForm, At, FlowOf
  <1>9. QED
    BY <1>2, <1>4, <1>6, <1>7, <1>8

\* What AdminSave does, for the members, the connections removed and added.
AdminSaves(t, m, gone, new) ==
    LET o == req[t].dst IN
    /\ rows'[o].stored /\ rows'[o].members = m /\ rows'[o].conns = (req[t].there.conns \ gone) \cup new
    /\ \A p \in Orgs \ {o} : rows'[p] = rows[p]
    /\ granted'[o] = m /\ \A p \in Orgs \ {o} : granted'[p] = granted[p]
    /\ issued' = issued \cup new
    /\ promised' = (promised \cup new) \ gone
    /\ raced' = raced \cup
         (IF rows[o] = req[t].there THEN {}
          ELSE {o} \cup gone \cup Differ(rows[o].conns, rows'[o].conns))

LEMMA AdminSaveSound ==
  ASSUME Sound, NEW t \in Threads, AdminSave(t)
  PROVE  /\ Sound' /\ req'[t] = Idle /\ \A u \in Threads \ {t} : req'[u] = req[u]
         /\ req[t].dst \in Orgs \ Provisioned /\ req[t].conn = None /\ Free(t)
         /\ \E m \in SUBSET Users, gone \in SUBSET req[t].there.conns, new \in SUBSET (Conns \ issued) :
              AdminSaves(t, m, gone, new)
         /\ UNCHANGED <<vault, shared, backupVars, torn, dropped>>
  <1> USE DEF Sound
  <1> DEFINE o == req[t].dst
             old == req[t].there.conns
  <1>1. PICK m \in SUBSET Users, gone \in SUBSET old, new \in SUBSET (Conns \ issued) :
         /\ rows' = [rows EXCEPT ![o] = [stored |-> TRUE, members |-> m, conns |-> (old \ gone) \cup new]]
         /\ granted' = [granted EXCEPT ![o] = m]
         /\ issued' = issued \cup new
         /\ promised' = (promised \cup new) \ gone
         /\ raced' = raced \cup
              (IF rows[o] = req[t].there THEN {}
               ELSE {o} \cup gone \cup Differ(rows[o].conns, (old \ gone) \cup new))
    BY DEF AdminSave
  <1>2. Finish(t) /\ Free(t) /\ UNCHANGED <<calls, vault, shared, backupVars, torn, dropped>>
    BY DEF AdminSave
  <1>3. o \in Orgs \ Provisioned /\ req[t].conn = None /\ old \subseteq issued /\ issued \subseteq Conns
    BY ReqFacts DEF AdminSave, At, FlowOf, RowOK, Stores
  <1> DEFINE row == [stored |-> TRUE, members |-> m, conns |-> (old \ gone) \cup new]
  <1>4. RowOK(row, issued') /\ row.stored /\ row.members = m /\ row.conns = (old \ gone) \cup new
    BY <1>1, <1>3 DEF RowOK, Row
  <1>5. rows' = [rows EXCEPT ![o] = row]
    BY <1>1
  <1> HIDE DEF row
  <1>6. /\ rows' \in [Orgs -> Row] /\ rows'[o] = row /\ \A p \in Orgs \ {o} : rows'[p] = rows[p]
    BY <1>3, <1>4, <1>5 DEF Stores, RowOK
  <1>7. \A p \in Orgs : RowOK(rows'[p], issued')
    <2>1. \A p \in Orgs : RowOK(rows[p], issued')
      BY <1>1 DEF Stores, RowOK
    <2>2. QED
      BY <1>4, <1>6, <2>1
  <1>8. Stores'
    BY <1>1, <1>2, <1>3, <1>6, <1>7 DEF Stores
  <1>9. granted' \in [Orgs -> SUBSET Users] /\ granted'[o] = m /\ \A p \in Orgs \ {o} : granted'[p] = granted[p]
    BY <1>1, <1>3 DEF Histories
  <1>10. raced' \subseteq Conns \cup Orgs
    <2>1. rows[o].conns \subseteq Conns
      BY <1>3 DEF Stores, RowOK
    <2>2. QED
      BY <1>1, <1>3, <2>1 DEF Histories, Differ
  <1>11. Histories' /\ Backups'
    BY <1>1, <1>2, <1>9, <1>10 DEF Histories, Backups, backupVars
  <1>12. Reqs' /\ req'[t] = Idle /\ \A u \in Threads \ {t} : req'[u] = req[u]
    BY <1>1, <1>2, Finishes
  <1>13. AdminSaves(t, m, gone, new)
    BY <1>1, <1>4, <1>6, <1>9 DEF AdminSaves
  <1>14. QED
    BY <1>2, <1>3, <1>8, <1>11, <1>12, <1>13

LEMMA AdminDeleteSound ==
  ASSUME Sound, NEW o \in Orgs, AdminDelete(o)
  PROVE  /\ Sound' /\ o \notin Provisioned /\ mu = "free"
         /\ rows'[o] = NoRow /\ \A p \in Orgs \ {o} : rows'[p] = rows[p]
         /\ granted'[o] = {} /\ \A p \in Orgs \ {o} : granted'[p] = granted[p]
         /\ promised' = promised \ rows[o].conns
         /\ UNCHANGED <<vault, shared, req, backupVars, issued, raced, torn, dropped>>
  <1> USE DEF Sound
  <1>1. /\ o \notin Provisioned /\ mu = "free" /\ calls' \in 0..MaxCalls
        /\ rows' = [rows EXCEPT ![o] = NoRow]
        /\ granted' = [granted EXCEPT ![o] = {}]
        /\ promised' = promised \ rows[o].conns
        /\ UNCHANGED <<vault, shared, req, backupVars, issued, raced, torn, dropped>>
    BY ConnectionsAssumption DEF AdminDelete, Call, Backups
  <1>2. /\ rows' \in [Orgs -> Row] /\ rows'[o] = NoRow /\ \A p \in Orgs \ {o} : rows'[p] = rows[p]
        /\ granted' \in [Orgs -> SUBSET Users] /\ granted'[o] = {}
        /\ \A p \in Orgs \ {o} : granted'[p] = granted[p]
    BY <1>1, NoRowFacts DEF Stores, Histories
  <1>3. \A p \in Orgs : RowOK(rows'[p], issued)
    BY <1>2, NoRowFacts DEF Stores
  <1>4. Stores' /\ Histories' /\ Backups' /\ Reqs'
    BY <1>1, <1>2, <1>3 DEF Stores, Histories, Backups, Reqs, backupVars
  <1>5. QED
    BY <1>1, <1>2, <1>4

LEMMA ExportSound ==
  ASSUME Sound, ExportVaults \/ ExportOrganizations \/ ImportBegin \/ ImportInsert \/ ImportRollback
  PROVE  Sound' /\ UNCHANGED <<dbVars, shared, req, historyVars>>
  <1> USE DEF Sound
  <1>1. UNCHANGED <<dbVars, shared, req, historyVars>>
    BY DEF ExportVaults, ExportOrganizations, ImportBegin, ImportInsert, ImportRollback
  <1>2. Stores' /\ Histories' /\ Reqs'
    BY <1>1 DEF Stores, Histories, Reqs, dbVars, historyVars
  <1>3. Backups'
    <2>1. CASE ExportVaults
      BY <2>1 DEF ExportVaults, Backups, Stores, historyVars, dbVars
    <2>2. CASE ExportOrganizations
      BY <2>2, EmptyFacts DEF ExportOrganizations, Backups, historyVars, dbVars
    <2>3. CASE ImportBegin
      BY <2>3, ConnectionsAssumption DEF ImportBegin, Call, Backups, historyVars, dbVars
    <2>4. CASE ImportInsert
      BY <2>4 DEF ImportInsert, Backups, historyVars, dbVars
    <2>5. CASE ImportRollback
      BY <2>5, EmptyFacts DEF ImportRollback, Backups, historyVars, dbVars
    <2>6. QED
      BY <2>1, <2>2, <2>3, <2>4, <2>5
  <1>4. QED
    BY <1>1, <1>2, <1>3

LEMMA FileFacts ==
  ASSUME NEW f \in Files \cup {Empty}
  PROVE  /\ f.vault \in [Users -> SUBSET Conns] /\ f.rows \in [Orgs -> Row]
         /\ \A o \in Orgs : f.rows[o].stored \/ f.rows[o] = NoRow
  <1>1. CASE f \in Files
    BY <1>1, ConnectionsAssumption DEF Database
  <1>2. CASE f = Empty
    BY <1>2, EmptyFacts
  <1>3. QED
    BY <1>1, <1>2

LEMMA ImportCommitSound ==
  ASSUME Sound, ImportCommit
  PROVE  /\ Sound' /\ mu = "import" /\ mu' = "free"
         /\ vault' = tx.file.vault /\ rows' = tx.file.rows
         /\ promised' = {c \in Conns : PlacesIn(tx.file, c) # {}}
         /\ \A o \in Orgs : granted'[o] = IF tx.file.rows[o].stored THEN tx.file.rows[o].members
                                          ELSE Helm[o].members
         /\ raced \subseteq raced'
         /\ \A c \in Conns : Cardinality(PlacesIn(tx.file, c)) > 1 => c \in raced'
         /\ \A o \in Orgs : ~tx.file.rows[o].stored => Differ(shared[o], Helm[o].conns) \subseteq raced'
         /\ \A t \in Threads : req[t].conn # None => req[t].conn \in raced'
         /\ UNCHANGED <<shared, req, exporting, copied, overtaken, torn, dropped>>
  <1> USE DEF Sound
  <1> DEFINE f == tx.file
  <1>1. /\ mu = "import" /\ vault' = f.vault /\ rows' = f.rows
        /\ promised' = {c \in Conns : PlacesIn(f, c) # {}}
        /\ issued' = issued \cup promised'
        /\ granted' = [o \in Orgs |-> IF f.rows[o].stored THEN f.rows[o].members
                                      ELSE Helm[o].members]
        /\ mu' = "free" /\ tx' = NoTx
        /\ UNCHANGED <<calls, shared, req, exporting, copied, overtaken, torn, dropped>>
    BY DEF ImportCommit
  <1> DEFINE Twice == {c \in Conns : Cardinality(PlacesIn(f, c)) > 1}
             Since == UNION {Differ(shared[o], Helm[o].conns) : o \in {p \in Orgs : ~f.rows[p].stored}}
             AtWork == {req[t].conn : t \in Threads} \ {None}
  <1>2. raced' = raced \cup Twice \cup Since \cup AtWork
    BY DEF ImportCommit
  <1>3. f \in Files \cup {Empty}
    BY DEF Backups
  <1>4. /\ f.vault \in [Users -> SUBSET Conns] /\ f.rows \in [Orgs -> Row]
        /\ \A o \in Orgs : f.rows[o].stored \/ f.rows[o] = NoRow
    BY <1>3, FileFacts
  <1> HIDE DEF f
  <1>5. \A u \in Users : f.vault[u] \subseteq issued'
    <2> SUFFICES ASSUME NEW u \in Users, NEW c \in f.vault[u] PROVE c \in issued'
      OBVIOUS
    <2>1. c \in Conns /\ u \in PlacesIn(f, c)
      BY <1>4 DEF PlacesIn
    <2>2. QED
      BY <1>1, <2>1
  <1>6. \A o \in Orgs : RowOK(f.rows[o], issued')
    <2> SUFFICES ASSUME NEW o \in Orgs, f.rows[o].stored PROVE f.rows[o].conns \subseteq issued'
      BY <1>4, NoRowFacts DEF RowOK
    <2> SUFFICES ASSUME NEW c \in f.rows[o].conns PROVE c \in issued'
      OBVIOUS
    <2>1. c \in Conns /\ o \in PlacesIn(f, c)
      BY <1>4 DEF PlacesIn, Row
    <2>2. QED
      BY <1>1, <2>1
  <1>7. Stores'
    <2>1. issued' \subseteq Conns /\ issued \subseteq issued'
      BY <1>1 DEF Stores
    <2>2. f.vault \in [Users -> SUBSET issued']
      BY <1>4, <1>5
    <2>3. QED
      BY <1>1, <1>4, <1>6, <2>1, <2>2 DEF Stores
  <1>8. \A o \in Orgs : Differ(shared[o], Helm[o].conns) \subseteq Conns
    BY HelmFacts DEF Stores, Differ
  <1>9. \A t \in Threads : req[t].conn # None => req[t].conn \in Conns
    BY TouchedConn DEF Stores
  <1>10. raced' \subseteq Conns \cup Orgs
    <2> SUFFICES ASSUME NEW x \in raced', x \notin raced PROVE x \in Conns \cup Orgs
      BY DEF Histories
    <2>1. CASE x \in Twice
      BY <2>1
    <2>2. CASE x \in Since
      BY <2>2, <1>8
    <2>3. CASE x \in AtWork
      <3>1. PICK t \in Threads : x = req[t].conn
        BY <2>3
      <3>2. QED
        BY <2>3, <3>1, <1>9
    <2> HIDE DEF Twice, Since, AtWork
    <2>4. QED
      BY <1>2, <2>1, <2>2, <2>3
  <1>11. Histories'
    <2>1. \A o \in Orgs : granted'[o] \subseteq Users
      BY <1>1, <1>4, HelmFacts DEF Row
    <2>2. granted' \in [Orgs -> SUBSET Users]
      BY <1>1, <2>1
    <2>3. QED
      BY <1>1, <1>10, <2>2 DEF Histories
  <1>12. Backups'
    BY <1>1, EmptyFacts DEF Backups
  <1>13. Reqs'
    <2>1. \A t \in Threads : ReqOK(req[t], issued')
      BY <1>1 DEF Reqs, ReqOK, RowOK
    <2>2. QED
      BY <1>1, <2>1 DEF Reqs
  <1>14. raced \subseteq raced' /\ \A c \in Conns : Cardinality(PlacesIn(f, c)) > 1 => c \in raced'
    BY <1>2
  <1>15. \A o \in Orgs : ~f.rows[o].stored => Differ(shared[o], Helm[o].conns) \subseteq raced'
    <2> SUFFICES ASSUME NEW o \in Orgs, ~f.rows[o].stored, NEW x \in Differ(shared[o], Helm[o].conns)
                 PROVE  x \in raced'
      OBVIOUS
    <2>1. x \in Since
      OBVIOUS
    <2>2. QED
      BY <1>2, <2>1
  <1>16. \A t \in Threads : req[t].conn # None => req[t].conn \in raced'
    <2> SUFFICES ASSUME NEW t \in Threads, req[t].conn # None PROVE req[t].conn \in raced'
      OBVIOUS
    <2>1. req[t].conn \in AtWork
      OBVIOUS
    <2> HIDE DEF Twice, Since, AtWork
    <2>2. QED
      BY <1>2, <2>1
  <1>17. \A o \in Orgs : granted'[o] = IF f.rows[o].stored THEN f.rows[o].members
                                       ELSE Helm[o].members
    BY <1>1
  <1>18. Sound'
    BY <1>7, <1>11, <1>12, <1>13
  <1>19. /\ mu = "import" /\ mu' = "free" /\ vault' = f.vault /\ rows' = f.rows
         /\ promised' = {c \in Conns : PlacesIn(f, c) # {}}
         /\ UNCHANGED <<shared, req, exporting, copied, overtaken, torn, dropped>>
    BY <1>1
  <1>20. QED
    BY <1>14, <1>15, <1>16, <1>17, <1>18, <1>19 DEF f

LEMMA InitSound == Init => Sound
  <1> SUFFICES ASSUME Init PROVE Sound
    OBVIOUS
  <1>1. \A o \in Orgs : Helm[o].conns \subseteq issued /\ Helm[o].conns \subseteq Conns
                        /\ Helm[o].members \subseteq Users
    BY HelmFacts DEF Init
  <1>2. issued \subseteq Conns
    BY <1>1 DEF Init
  <1>3. Stores
    BY <1>1, <1>2, EmptyFacts, NoRowFacts DEF Init, Stores
  <1>4. Histories
    BY <1>1, <1>2 DEF Init, Histories
  <1>5. Backups
    <2>1. MaxCalls \in Nat
      BY ConnectionsAssumption
    <2>2. /\ mu = "free" /\ exporting = FALSE /\ copied = Empty.vault /\ overtaken = {}
          /\ tx = NoTx /\ calls = 0
      BY DEF Init
    <2>3. calls \in 0..MaxCalls
      BY <2>1, <2>2
    <2>4. QED
      BY <2>2, <2>3, EmptyFacts DEF Backups
  <1>6. Reqs
    BY IdleFacts DEF Init, Reqs
  <1>7. QED
    BY <1>3, <1>4, <1>5, <1>6 DEF Sound

LEMMA StutterSound ==
  ASSUME Sound, UNCHANGED vars
  PROVE  Sound'
  BY DEF Sound, Stores, Histories, Backups, Reqs, vars

LEMMA StepSound == Sound /\ [Next]_vars => Sound'
  <1> SUFFICES ASSUME Sound, [Next]_vars PROVE Sound'
    OBVIOUS
  <1>1. ASSUME NEW t \in Threads,
               CreateShared(t) \/ Mint(t) \/ CreatePersonal(t) \/ Find(t) \/ Target(t)
                 \/ DeleteShared(t) \/ DeletePersonal(t)
        PROVE  Sound'
    BY <1>1, CreateSharedSound, MintSound, CreatePersonalSound, FindSound, TargetSound,
       DeleteSharedSound, DeletePersonalSound
  <1>2. ASSUME NEW t \in Threads,
               Put(t) \/ Drop(t) \/ Take(t) \/ Save(t) \/ Fail(t) \/ AdminForm(t) \/ AdminSave(t)
        PROVE  Sound'
    BY <1>2, PutSound, DropSound, TakeSound, SaveSound, FailSound, AdminFormSound, AdminSaveSound
  <1>3. ASSUME NEW o \in Orgs, AdminDelete(o) PROVE Sound'
    BY <1>3, AdminDeleteSound
  <1>4. CASE ExportVaults \/ ExportOrganizations \/ ImportBegin \/ ImportInsert \/ ImportRollback
    BY <1>4, ExportSound
  <1>5. CASE ImportCommit \/ Restart
    BY <1>5, ImportCommitSound, RestartSound
  <1>6. CASE UNCHANGED vars
    BY <1>6, StutterSound
  <1>7. QED
    BY <1>1, <1>2, <1>3, <1>4, <1>5, <1>6 DEF Next

-----------------------------------------------------------------------------
(* Members                                                                  *)

LEMMA EffectiveFactsNext ==
  ASSUME NEW o \in Orgs
  PROVE  /\ Effective(o)'.conns = IF rows'[o].stored THEN rows'[o].conns ELSE shared'[o]
         /\ Effective(o)'.members = IF rows'[o].stored THEN rows'[o].members ELSE Helm[o].members
  BY HelmFacts DEF Effective, Row

\* Rows that keep their members while nobody grants others.
LEMMA MembersKept ==
  ASSUME MembersAsGranted, raced \cap Orgs \subseteq raced',
         \A o \in Orgs \ raced' :
           /\ granted'[o] = granted[o]
           /\ rows'[o] = rows[o] \/ (rows'[o].stored /\ rows'[o].members = Effective(o).members)
  PROVE  MembersAsGranted'
  <1> SUFFICES ASSUME NEW o \in Orgs \ raced' PROVE Effective(o)'.members = granted'[o]
    BY DEF MembersAsGranted
  <1>1. Effective(o).members = granted[o]
    BY DEF MembersAsGranted
  <1>2. QED
    BY <1>1, EffectiveFacts, EffectiveFactsNext

LEMMA SaveRowMembers ==
  ASSUME Stores, Histories, MembersAsGranted, NEW o \in Orgs, NEW seen, RowOK(seen, issued),
         NEW conns \in SUBSET issued, NEW c \in Conns, NEW t, SaveRow(t, o, seen, conns, c), granted' = granted
  PROVE  MembersAsGranted'
  <1>1. /\ \A p \in Orgs \ {o} : rows'[p] = rows[p]
        /\ rows'[o].stored /\ rows'[o].members = Members(o, seen)
        /\ raced \subseteq raced' /\ (rows[o] # seen => o \in raced')
    BY SaveRowSound
  <1>2. rows[o] = seen => Members(o, seen) = Effective(o).members
    BY EffectiveFacts DEF Members
  <1>3. QED
    BY <1>1, <1>2, MembersKept

LEMMA MembersStep == Sound /\ MembersAsGranted /\ [Next]_vars => MembersAsGranted'
  <1> SUFFICES ASSUME Sound, MembersAsGranted, [Next]_vars PROVE MembersAsGranted'
    OBVIOUS
  <1> USE DEF Sound
  <1>1. ASSUME UNCHANGED <<rows, granted>>, raced \cap Orgs \subseteq raced' PROVE MembersAsGranted'
    BY <1>1, MembersKept
  <1>2. ASSUME NEW t \in Threads,
               CreateShared(t) \/ CreatePersonal(t) \/ Take(t) \/ Fail(t) \/ AdminForm(t) \/ Mint(t)
        PROVE  MembersAsGranted'
    <2>1. UNCHANGED <<rows, granted, raced>>
      BY <1>2 DEF CreateShared, CreatePersonal, Take, Fail, AdminForm, Mint, dbVars, historyVars
    <2>2. QED
      BY <1>1, <2>1
  <1>3. ASSUME NEW t \in Threads, Find(t) \/ Target(t) \/ DeleteShared(t) \/ DeletePersonal(t)
        PROVE  MembersAsGranted'
    <2>1. UNCHANGED <<rows, granted>> /\ raced \subseteq raced'
      BY <1>3 DEF Find, Target, DeleteShared, DeletePersonal, dbVars
    <2>2. QED
      BY <1>1, <2>1
  <1>4. ASSUME NEW t \in Threads, Save(t) PROVE MembersAsGranted'
    <2>1. UNCHANGED <<rows, granted>> /\ raced \subseteq raced'
      BY <1>4, SaveSound
    <2>2. QED
      BY <1>1, <2>1
  <1>5. ASSUME NEW t \in Threads, Put(t) PROVE MembersAsGranted'
    <2>1. SaveRow(t, req[t].dst, req[t].there, Added(t), req[t].conn) /\ granted' = granted
      BY <1>5, PutSound
    <2>2. /\ req[t].dst \in Orgs /\ RowOK(req[t].there, issued)
          /\ req[t].conn \in issued /\ req[t].conn \in Conns
      BY <1>5, ReqFacts DEF Put, At, FlowOf, ReqOK, Stores
    <2>3. Added(t) \subseteq issued
      BY <2>2 DEF Added, Stores, RowOK
    <2>4. QED
      BY <2>1, <2>2, <2>3, SaveRowMembers
  <1>6. ASSUME NEW t \in Threads, Drop(t) PROVE MembersAsGranted'
    <2>1. SaveRow(t, req[t].src, req[t].here, Without(t), req[t].conn) /\ granted' = granted
      BY SMTT(30), <1>6, DropSound
    <2>2. /\ req[t].src \in Orgs /\ RowOK(req[t].here, issued)
          /\ req[t].conn \in issued /\ req[t].conn \in Conns
      BY <1>6, ReqFacts DEF Drop, At, FlowOf, ReqOK, Stores
    <2>3. Without(t) \subseteq issued
      BY <2>2 DEF Without, Stores, RowOK
    <2>4. QED
      BY <2>1, <2>2, <2>3, SaveRowMembers
  <1>7. ASSUME NEW t \in Threads, AdminSave(t) PROVE MembersAsGranted'
    <2> DEFINE o == req[t].dst
    <2>1. PICK m \in SUBSET Users, gone \in SUBSET req[t].there.conns, new \in SUBSET (Conns \ issued) :
            AdminSaves(t, m, gone, new)
      BY <1>7, AdminSaveSound
    <2>2. /\ rows'[o].stored /\ rows'[o].members = m /\ granted'[o] = m
          /\ \A p \in Orgs \ {o} : rows'[p] = rows[p] /\ granted'[p] = granted[p]
          /\ raced \subseteq raced'
      BY <2>1 DEF AdminSaves
    <2> SUFFICES ASSUME NEW p \in Orgs \ raced' PROVE Effective(p)'.members = granted'[p]
      BY DEF MembersAsGranted
    <2>3. Effective(p).members = granted[p]
      BY <2>2 DEF MembersAsGranted
    <2>4. CASE p = o
      <3>1. rows'[p].stored /\ rows'[p].members = m /\ granted'[p] = m
        BY <2>2, <2>4
      <3>2. QED
        BY <3>1, EffectiveFactsNext
    <2>5. CASE p # o
      <3>1. rows'[p] = rows[p] /\ granted'[p] = granted[p]
        BY <2>2, <2>5
      <3>2. QED
        BY <2>3, <3>1, EffectiveFacts, EffectiveFactsNext
    <2>6. QED
      BY <2>4, <2>5
  <1>8. ASSUME NEW o \in Orgs, AdminDelete(o) PROVE MembersAsGranted'
    <2>1. /\ rows'[o] = NoRow /\ \A p \in Orgs \ {o} : rows'[p] = rows[p] /\ granted'[p] = granted[p]
          /\ granted'[o] = {} /\ raced' = raced /\ Helm[o].members = {}
      BY <1>8, AdminDeleteSound, HelmFacts, NoRowFacts
    <2> SUFFICES ASSUME NEW p \in Orgs \ raced' PROVE Effective(p)'.members = granted'[p]
      BY DEF MembersAsGranted
    <2>2. Effective(p).members = granted[p]
      BY <2>1 DEF MembersAsGranted
    <2>3. CASE p = o
      <3>1. ~rows'[p].stored /\ granted'[p] = {} /\ Helm[p].members = {}
        BY <2>1, <2>3, NoRowFacts
      <3>2. QED
        BY <3>1, EffectiveFactsNext
    <2>4. CASE p # o
      <3>1. rows'[p] = rows[p] /\ granted'[p] = granted[p]
        BY <2>1, <2>4
      <3>2. QED
        BY <2>2, <3>1, EffectiveFacts, EffectiveFactsNext
    <2>5. QED
      BY <2>3, <2>4
  <1>9. CASE ExportVaults \/ ExportOrganizations \/ ImportBegin \/ ImportInsert \/ ImportRollback
    <2>1. UNCHANGED <<rows, granted, raced>>
      BY <1>9, ExportSound DEF dbVars, historyVars
    <2>2. QED
      BY <1>1, <2>1
  <1>10. CASE ImportCommit
    <2>1. /\ rows' = tx.file.rows
          /\ \A o \in Orgs : granted'[o] = IF tx.file.rows[o].stored THEN tx.file.rows[o].members
                                           ELSE Helm[o].members
      BY <1>10, ImportCommitSound
    <2>2. QED
      BY <2>1, EffectiveFactsNext DEF MembersAsGranted
  <1>11. CASE Restart
    <2>1. UNCHANGED <<rows, granted, raced>>
      BY <1>11, RestartSound DEF dbVars
    <2>2. QED
      BY <1>1, <2>1
  <1>12. CASE UNCHANGED vars
    BY <1>1, <1>12 DEF vars
  <1>13. QED
    BY <1>2, <1>3, <1>4, <1>5, <1>6, <1>7, <1>8, <1>9, <1>10, <1>11, <1>12 DEF Next

-----------------------------------------------------------------------------
(* Backups                                                                  *)

\* The export holds Store.mu from query to query.
Backup ==
    /\ exporting => mu = "export"
    /\ ExportsAreSnapshots

LEMMA BackupStep == Sound /\ Backup /\ [Next]_vars => Backup'
  <1> SUFFICES ASSUME Sound, Backup, [Next]_vars PROVE Backup'
    OBVIOUS
  <1>1. ASSUME UNCHANGED <<mu, exporting, copied, overtaken>>, UNCHANGED vault \/ ~exporting
        PROVE  Backup'
    BY <1>1 DEF Backup, ExportsAreSnapshots
  <1>2. ASSUME NEW t \in Threads,
               CreateShared(t) \/ CreatePersonal(t) \/ Take(t) \/ Fail(t) \/ AdminForm(t) \/ Mint(t)
        PROVE  Backup'
    <2>1. UNCHANGED <<mu, exporting, copied, overtaken, vault>>
      BY <1>2 DEF CreateShared, CreatePersonal, Take, Fail, AdminForm, Mint, backupVars, dbVars
    <2>2. QED
      BY <1>1, <2>1
  <1>3. ASSUME NEW t \in Threads, Find(t) \/ Target(t) \/ DeleteShared(t) \/ DeletePersonal(t)
        PROVE  Backup'
    <2>1. UNCHANGED <<mu, exporting, copied, overtaken, vault>>
      BY <1>3 DEF Find, Target, DeleteShared, DeletePersonal, backupVars, dbVars
    <2>2. QED
      BY <1>1, <2>1
  <1>4. ASSUME NEW t \in Threads, Put(t) \/ Drop(t) \/ AdminSave(t)
        PROVE  Backup'
    <2>1. UNCHANGED <<mu, exporting, copied, overtaken, vault>>
      BY <1>4 DEF Put, Drop, AdminSave, backupVars
    <2>2. QED
      BY <1>1, <2>1
  \* During an export only a thread of another replica saves a vault.
  <1>5. ASSUME NEW t \in Threads, Save(t) PROVE Backup'
    <2>1. /\ Free(t) /\ UNCHANGED <<mu, exporting, copied>>
          /\ overtaken' = IF exporting /\ t \in elsewhere THEN overtaken \cup {req[t].user}
                          ELSE overtaken
          /\ \A u \in Users \ {req[t].user} : vault'[u] = vault[u]
      BY <1>5, SaveSound
    <2>2. exporting => t \in elsewhere
      BY <2>1 DEF Free, Backup
    <2>3. QED
      BY <2>1, <2>2 DEF Backup, ExportsAreSnapshots
  <1>6. ASSUME NEW o \in Orgs, AdminDelete(o) PROVE Backup'
    BY <1>1, <1>6 DEF AdminDelete, backupVars
  <1>7. CASE ExportVaults \/ ExportOrganizations
    BY <1>7 DEF ExportVaults, ExportOrganizations, Backup, ExportsAreSnapshots, dbVars
  <1>8. CASE ImportBegin \/ ImportInsert \/ ImportRollback \/ ImportCommit
    <2>1. UNCHANGED <<exporting, copied, overtaken>> /\ ~exporting
      BY <1>8 DEF ImportBegin, ImportInsert, ImportRollback, ImportCommit, Backup
    <2>2. QED
      BY <2>1 DEF Backup, ExportsAreSnapshots
  <1>9. CASE Restart
    BY <1>9 DEF Restart, Backup, ExportsAreSnapshots
  <1>10. CASE UNCHANGED vars
    BY <1>1, <1>10 DEF vars
  <1>11. QED
    BY <1>2, <1>3, <1>4, <1>5, <1>6, <1>7, <1>8, <1>9, <1>10 DEF Next

-----------------------------------------------------------------------------
(* Other replicas                                                           *)

\* A request that another replica serves has organizations from their rows.
FromRows(r) ==
    /\ r.pc \in {"mint", "put"} => r.there.stored
    /\ r.pc \in {"target", "put", "drop"} /\ r.src \in Orgs => r.here.stored

Apart == elsewhere \subseteq Threads /\ \A t \in elsewhere : FromRows(req[t])

LEMMA ApartAct ==
  ASSUME Apart, UNCHANGED elsewhere, NEW t \in Threads,
         \A u \in Threads \ {t} : req'[u] = req[u], t \in elsewhere => FromRows(req[t])'
  PROVE  Apart'
  BY DEF Apart, FromRows

LEMMA ApartStart ==
  ASSUME Sound, NEW t \in elsewhere, t \in Threads,
         CreateShared(t) \/ Find(t) \/ DeleteShared(t)
  PROVE  FromRows(req[t])'
  <1>1. req \in [Threads -> Request]
    BY DEF Sound, Reqs
  <1>2. CASE CreateShared(t)
    <2>1. PICK u, o, seen :
            /\ Resolves(t, u, o, seen)
            /\ req' = [req EXCEPT ![t] = [Idle EXCEPT !.op = "create", !.pc = "mint",
                                          !.user = u, !.dst = o, !.there = seen]]
      BY <1>2 DEF CreateShared
    <2>2. seen.stored /\ req'[t].pc = "mint" /\ req'[t].there = seen
      BY <1>1, <2>1 DEF Resolves, Idle
    <2>3. QED
      BY <2>2 DEF FromRows
  <1>3. CASE Find(t)
    <2>1. PICK u \in Users, c \in Conns, from \in Orgs \cup {Vault}, to \in Orgs \cup {Vault} :
            \E seen \in {rows[o] : o \in Orgs \cap {from}} \cup {NoRow} :
              /\ \/ /\ from = Vault /\ Free(t) /\ seen = NoRow
                    /\ c \in vault[u]
                 \/ /\ from # Vault
                    /\ Resolves(t, u, from, seen)
                    /\ c \in Held(from, seen)
              /\ req' = [req EXCEPT ![t] = [Idle EXCEPT !.op = "update", !.pc = "target",
                      !.user = u, !.conn = c, !.src = from, !.dst = to, !.here = seen]]
      BY <1>3 DEF Find
    <2>2. PICK seen : /\ from = Vault \/ Resolves(t, u, from, seen)
                      /\ req' = [req EXCEPT ![t] = [Idle EXCEPT !.op = "update", !.pc = "target",
                            !.user = u, !.conn = c, !.src = from, !.dst = to, !.here = seen]]
      BY <2>1
    <2>3. req'[t].pc = "target" /\ req'[t].src = from /\ req'[t].here = seen
      BY <1>1, <2>2 DEF Idle
    <2>4. from \in Orgs => seen.stored
      BY <2>2, ConnectionsAssumption DEF Resolves
    <2>5. QED
      BY <2>3, <2>4 DEF FromRows
  <1>4. CASE DeleteShared(t)
    <2>1. PICK u \in Users, c \in Conns, o \in Orgs : \E seen \in {rows[o], NoRow} :
            /\ Resolves(t, u, o, seen)
            /\ c \in Held(o, seen)
            /\ Write(o, seen, shared[o] \ {c})
            /\ req' = [req EXCEPT ![t] = [Idle EXCEPT !.op = "delete", !.pc = "drop",
                        !.user = u, !.conn = c, !.src = o, !.here = seen,
                        !.touched = ~seen.stored]]
      BY <1>4 DEF DeleteShared
    <2>2. PICK seen :
            /\ Resolves(t, u, o, seen)
            /\ req' = [req EXCEPT ![t] = [Idle EXCEPT !.op = "delete", !.pc = "drop",
                        !.user = u, !.conn = c, !.src = o, !.here = seen,
                        !.touched = ~seen.stored]]
      BY <2>1
    <2>3. seen.stored /\ req'[t].pc = "drop" /\ req'[t].here = seen
      BY <1>1, <2>2 DEF Resolves, Idle
    <2>4. QED
      BY <2>3 DEF FromRows
  <1>5. QED
    BY <1>2, <1>3, <1>4

LEMMA ApartTarget ==
  ASSUME Sound, NEW t \in elsewhere, t \in Threads, FromRows(req[t]), Target(t)
  PROVE  FromRows(req[t])'
  <1>1. req \in [Threads -> Request]
    BY DEF Sound, Reqs
  <1>2. req[t].pc = "target"
    BY DEF Target, At
  <1>3. CASE /\ req[t].dst # Vault
             /\ \E seen \in {rows[o] : o \in Orgs \cap {req[t].dst}} \cup {NoRow} :
                  /\ Resolves(t, req[t].user, req[t].dst, seen)
                  /\ req' = [req EXCEPT ![t].pc = "put", ![t].there = seen,
                                        ![t].touched = ~seen.stored]
    <2>1. PICK seen : /\ Resolves(t, req[t].user, req[t].dst, seen)
                      /\ req' = [req EXCEPT ![t].pc = "put", ![t].there = seen,
                                            ![t].touched = ~seen.stored]
      BY <1>3
    <2>2. /\ req'[t].pc = "put" /\ req'[t].there = seen /\ req'[t].src = req[t].src
          /\ req'[t].here = req[t].here
      BY <1>1, <2>1 DEF Request
    <2>3. seen.stored
      BY <2>1 DEF Resolves
    <2>4. QED
      BY <1>2, <2>2, <2>3 DEF FromRows
  <1>4. CASE req' = [req EXCEPT ![t].pc = "save", ![t].data = vault[req[t].user]]
    <2>1. req'[t].pc = "save"
      BY <1>1, <1>4 DEF Request
    <2>2. QED
      BY <2>1 DEF FromRows
  <1>5. CASE req' = [req EXCEPT ![t].pc = "drop", ![t].data = vault[req[t].user],
                                ![t].touched = ~req[t].here.stored]
    <2>1. /\ req'[t].pc = "drop" /\ req'[t].src = req[t].src /\ req'[t].here = req[t].here
      BY <1>1, <1>5 DEF Request
    <2>2. QED
      BY <1>2, <2>1 DEF FromRows
  <1>6. QED
    BY <1>3, <1>4, <1>5 DEF Target

LEMMA ApartStep == Sound /\ Apart /\ [Next]_vars => Apart'
  <1> SUFFICES ASSUME Sound, Apart, [Next]_vars PROVE Apart'
    OBVIOUS
  <1>1. UNCHANGED elsewhere
    BY DEF Next, vars
  <1>2. ASSUME NEW t \in Threads, CreateShared(t) \/ Find(t) \/ DeleteShared(t)
        PROVE  Apart'
    <2>1. \A u \in Threads \ {t} : req'[u] = req[u]
      BY <1>2, CreateSharedSound, FindSound, DeleteSharedSound
    <2>2. QED
      BY <1>1, <1>2, <2>1, ApartStart, ApartAct
  <1>3. ASSUME NEW t \in Threads, Mint(t) PROVE Apart'
    <2>1. /\ \A u \in Threads \ {t} : req'[u] = req[u]
          /\ req[t].pc = "mint" /\ req'[t].pc = "put" /\ req'[t].src = None
          /\ req'[t].there = req[t].there
      BY <1>3, MintSound
    <2>2. t \in elsewhere => FromRows(req[t])'
      BY <2>1, ConnectionsAssumption DEF Apart, FromRows
    <2>3. QED
      BY <1>1, <2>1, <2>2, ApartAct
  <1>4. ASSUME NEW t \in Threads, Target(t) PROVE Apart'
    <2>1. \A u \in Threads \ {t} : req'[u] = req[u]
      BY <1>4, TargetSound
    <2>2. QED
      BY <1>1, <1>4, <2>1, ApartTarget, ApartAct DEF Apart
  <1>5. ASSUME NEW t \in Threads, Put(t) PROVE Apart'
    <2>1. \A u \in Threads \ {t} : req'[u] = req[u]
      BY <1>5, PutSound
    <2>2. /\ req[t].pc = "put"
          /\ \/ req'[t] = Idle \/ req'[t].pc = "take"
             \/ req'[t].pc = "drop" /\ Same(t) /\ req'[t].here = req[t].here
      BY <1>5, PutSound
    <2>3. t \in elsewhere => FromRows(req[t])'
      BY <2>2, IdleFacts DEF Apart, FromRows, Same
    <2>4. QED
      BY <1>1, <2>1, <2>3, ApartAct
  <1>6. ASSUME NEW t \in Threads,
               CreatePersonal(t) \/ DeletePersonal(t) \/ Drop(t) \/ Take(t) \/ Save(t) \/ Fail(t)
                 \/ AdminForm(t) \/ AdminSave(t)
        PROVE  Apart'
    <2>1. \A u \in Threads \ {t} : req'[u] = req[u]
      BY <1>6, CreatePersonalSound, DeletePersonalSound, DropSound, TakeSound, SaveSound, FailSound,
         AdminFormSound, AdminSaveSound
    <2>2. req'[t] = Idle \/ req'[t].pc \in {"form", "save", "take"}
      BY <1>6, CreatePersonalSound, DeletePersonalSound, DropSound, TakeSound, SaveSound, FailSound,
         AdminFormSound, AdminSaveSound
    <2>3. FromRows(req[t])'
      BY <2>2, IdleFacts DEF FromRows
    <2>4. QED
      BY <1>1, <2>1, <2>3, ApartAct
  <1>7. ASSUME NEW o \in Orgs, AdminDelete(o) PROVE Apart'
    BY <1>1, <1>7, AdminDeleteSound DEF Apart, FromRows
  <1>8. CASE \/ ExportVaults \/ ExportOrganizations \/ ImportBegin \/ ImportInsert
             \/ ImportRollback \/ ImportCommit
    BY <1>1, <1>8, ExportSound, ImportCommitSound DEF Apart, FromRows
  <1>9. CASE Restart
    BY <1>1, <1>9, RestartSound DEF Apart, FromRows
  <1>10. CASE UNCHANGED vars
    BY <1>10 DEF vars, Apart, FromRows
  <1>11. QED
    BY <1>2, <1>3, <1>4, <1>5, <1>6, <1>7, <1>8, <1>9, <1>10 DEF Next

LEMMA ApartInit == Init => Apart
  BY IdleFacts DEF Init, Apart, FromRows

-----------------------------------------------------------------------------
(* Connections are not lost                                                 *)

\* Two requests at work on one connection have raced.
Exclusive ==
    \A t, r \in Threads :
      t # r /\ req[t].conn = req[r].conn /\ req[t].conn # None => req[t].conn \in raced

\* A connection about to be saved from a shared map is in it.
Owned ==
    \A t \in Threads :
      req[t].pc = "put" /\ ~req[t].there.stored => req[t].conn \in shared[req[t].dst] \cup raced

\* Where a connection is kept even if the process ends.
Lasts(o, c) == IF rows[o].stored THEN c \in rows[o].conns
               ELSE c \in Helm[o].conns /\ c \in shared[o]
Durable(c) == {u \in Users : c \in vault[u]} \cup {o \in Orgs : Lasts(o, c)}

\* A move has saved its target, a removal or a move to a vault has changed
\* the place it takes the connection from.
Landed(r) == r.op = "update" /\ r.dst \in Orgs /\ r.pc \in {"take", "drop", "save"}
Leaving(r) == r.touched /\ r.dst \in {Vault, None}

Rests(r, c) ==
    /\ Landed(r) => r.dst \in Durable(c)
    /\ ~Landed(r) /\ ~Leaving(r) => Durable(c) # {}
Safe(c) ==
    /\ ~Busy(c) => Durable(c) # {}
    /\ \A t \in Threads : req[t].conn = c => Rests(req[t], c)
Kept == \A c \in promised \ (raced \cup dropped) : Safe(c)

\* What one request did to the others and to the raced ones.
Acts(t) == /\ \A u \in Threads \ {t} : req'[u] = req[u]
           /\ raced \subseteq raced'

LEMMA ExclusiveAct ==
  ASSUME Exclusive, NEW t \in Threads, Acts(t),
         req'[t].conn # req[t].conn /\ req'[t].conn # None =>
           \A r \in Threads \ {t} : req[r].conn = req'[t].conn => req'[t].conn \in raced'
  PROVE  Exclusive'
  BY DEF Exclusive, Acts

LEMMA ContestedFacts ==
  ASSUME Sound', NEW t \in Threads, Acts(t), raced' = raced \cup Contested(t)
  PROVE  req'[t].conn # None =>
           \A r \in Threads \ {t} : req[r].conn = req'[t].conn => req'[t].conn \in raced'
  BY DEF Sound, Reqs, Request, Contested

LEMMA OwnedAct ==
  ASSUME Sound, Exclusive, Exclusive', Owned, NEW t \in Threads, Acts(t),
         \A o \in Orgs : \A c \in shared[o] :
           c \in shared'[o] \/ c = req[t].conn \/ c = req'[t].conn,
         req'[t].pc = "put" /\ ~req'[t].there.stored =>
           req'[t].conn \in shared'[req'[t].dst] \cup raced'
  PROVE  Owned'
  <1> SUFFICES ASSUME NEW u \in Threads, u # t, req[u].pc = "put", ~req[u].there.stored
               PROVE  req[u].conn \in shared'[req[u].dst] \cup raced'
    BY DEF Owned, Acts
  <1>1. req[u].dst \in Orgs /\ req[u].conn # None
    BY ReqFacts DEF Sound, FlowOf
  <1>2. req[u].conn \in shared[req[u].dst] \cup raced
    BY DEF Owned
  <1>3. req[u].conn = req[t].conn => req[u].conn \in raced
    BY <1>1 DEF Exclusive
  <1>4. req[u].conn = req'[t].conn => req[u].conn \in raced'
    BY <1>1 DEF Exclusive, Acts
  <1>5. QED
    BY <1>1, <1>2, <1>3, <1>4 DEF Acts

LEMMA DurableKept ==
  ASSUME NEW c,
         \A u \in Users : c \in vault[u] => c \in vault'[u],
         \A o \in Orgs : c \in shared[o] => c \in shared'[o],
         \A o \in Orgs : \/ rows'[o] = rows[o]
                         \/ rows'[o].stored /\ (Lasts(o, c) => c \in rows'[o].conns)
  PROVE  Durable(c) \subseteq Durable(c)'
  BY DEF Durable, Lasts

LEMMA SafeKept ==
  ASSUME NEW c, Safe(c), Durable(c) \subseteq Durable(c)',
         \A u \in Threads : req[u].conn = c \/ req'[u].conn = c => req'[u] = req[u]
  PROVE  Safe(c)'
  <1>1. Busy(c) => Busy(c)'
    BY DEF Busy, At
  <1>2. ~Busy(c)' => Durable(c)' # {}
    BY <1>1 DEF Safe
  <1>3. ASSUME NEW u \in Threads, req'[u].conn = c PROVE Rests(req[u], c)'
    <2>1. Rests(req[u], c) /\ req'[u] = req[u]
      BY <1>3 DEF Safe
    <2>2. QED
      BY <2>1 DEF Rests
  <1>4. QED
    BY <1>2, <1>3 DEF Safe

\* One request acts: the other connections keep their places, its own rests.
LEMMA KeptAct ==
  ASSUME Sound', Exclusive, Exclusive', Kept, NEW t \in Threads, Acts(t),
         dropped \subseteq dropped',
         \A c \in promised' \ (raced' \cup dropped') :
           c \notin {req[t].conn, req'[t].conn} => c \in promised /\ Durable(c) \subseteq Durable(c)',
         \A c \in promised' \ (raced' \cup dropped') :
           c \in {req[t].conn, req'[t].conn} =>
             IF req'[t].conn = c THEN Rests(req[t], c)' ELSE Durable(c)' # {}
  PROVE  Kept'
  <1> SUFFICES ASSUME NEW c \in promised' \ (raced' \cup dropped') PROVE Safe(c)'
    BY DEF Kept
  <1>1. c \in Conns /\ c # None
    BY ConnectionsAssumption DEF Sound, Histories, Stores
  <1>2. CASE c \notin {req[t].conn, req'[t].conn}
    <2>1. Safe(c) /\ Durable(c) \subseteq Durable(c)'
      BY <1>2 DEF Kept, Acts
    <2>2. QED
      BY <1>2, <2>1, SafeKept DEF Acts
  <1>3. CASE c \in {req[t].conn, req'[t].conn}
    <2>1. IF req'[t].conn = c THEN Rests(req[t], c)' ELSE Durable(c)' # {}
      BY <1>3
    <2>2. \A u \in Threads \ {t} : req'[u].conn # c
      BY <1>1, <1>3 DEF Exclusive, Acts
    <2>3. req'[t].conn = c => Busy(c)'
      BY <1>1, IdleFacts DEF Busy, At, Sound, Reqs, ReqOK, FlowOf
    <2>4. QED
      BY <2>1, <2>2, <2>3 DEF Safe
  <1>4. QED
    BY <1>2, <1>3

Course == Exclusive /\ Owned /\ Kept

\* Without a change to a place, to what there is or to the raced ones.
LEMMA QuietAct ==
  ASSUME Sound, Sound', Course, NEW t \in Threads, Acts(t),
         UNCHANGED <<dbVars, shared>>, dropped \subseteq dropped', promised' \subseteq promised,
         Exclusive',
         req'[t].pc = "put" /\ ~req'[t].there.stored =>
           req'[t].conn \in shared'[req'[t].dst] \cup raced',
         \A c \in promised' \ (raced' \cup dropped') :
           c \in {req[t].conn, req'[t].conn} =>
             IF req'[t].conn = c THEN Rests(req[t], c)' ELSE Durable(c) # {}
  PROVE  Course'
  <1>1. \A c : Durable(c)' = Durable(c)
    BY DEF Durable, Lasts, dbVars
  <1>2. Owned'
    BY OwnedAct DEF Course
  <1>3. Kept'
    <2>1. \A c \in promised' \ (raced' \cup dropped') : c \in promised /\ Durable(c) \subseteq Durable(c)'
      BY <1>1
    <2>2. \A c \in promised' \ (raced' \cup dropped') :
            c \in {req[t].conn, req'[t].conn} =>
              IF req'[t].conn = c THEN Rests(req[t], c)' ELSE Durable(c)' # {}
      BY <1>1
    <2>3. QED
      BY <2>1, <2>2, KeptAct DEF Course
  <1>4. QED
    BY <1>2, <1>3 DEF Course

\* A request starts on a connection no other is at work on.
LEMMA Unhandled ==
  ASSUME Sound, Sound', Kept, NEW t \in Threads, Acts(t), req[t] = Idle, raced' = raced \cup Contested(t),
         NEW c \in promised \ (raced' \cup dropped), req'[t].conn = c
  PROVE  Durable(c) # {}
  <1>1. c # None
    BY ConnectionsAssumption DEF Sound, Histories, Stores
  <1>2. ~Busy(c)
    <2>1. \A r \in Threads \ {t} : req[r].conn # c
      BY <1>1, ContestedFacts
    <2>2. QED
      BY <2>1, IdleFacts DEF Busy, At
  <1>3. QED
    BY <1>2 DEF Kept, Safe, Acts

LEMMA StartsCourse ==
  ASSUME Sound, Course, NEW t \in Threads,
         CreateShared(t) \/ CreatePersonal(t) \/ AdminForm(t)
  PROVE  Course'
  <1>1. /\ Sound' /\ Acts(t) /\ req[t].conn = None /\ req'[t].pc \in {"mint", "save", "form"}
        /\ UNCHANGED <<dbVars, shared, promised, dropped>>
        /\ req'[t].conn = None \/ req'[t].conn \in Conns \ issued
    <2>1. CASE CreateShared(t)
      <3>1. /\ Sound' /\ req'[t].conn = None /\ req'[t].pc = "mint" /\ \A u \in Threads \ {t} : req'[u] = req[u]
        BY <2>1, CreateSharedSound
      <3>2. UNCHANGED <<dbVars, shared, promised, dropped, raced>>
        BY <2>1 DEF CreateShared, historyVars
      <3>3. req[t].conn = None
        BY <2>1, ReqFacts, IdleFacts DEF CreateShared, At, Sound, FlowOf
      <3>4. QED
        BY <3>1, <3>2, <3>3 DEF Acts
    <2>2. CASE CreatePersonal(t)
      <3>1. UNCHANGED <<dbVars, shared, promised, dropped, raced>>
        BY <2>2 DEF CreatePersonal
      <3>2. QED
        BY <2>2, <3>1, CreatePersonalSound, IdleFacts DEF Acts
    <2>3. CASE AdminForm(t)
      BY <2>3, AdminFormSound, IdleFacts DEF Acts, historyVars
    <2>4. QED
      BY <2>1, <2>2, <2>3
  <1>2. \A u \in Threads : req[u].conn # None => req[u].conn \in issued
    BY TouchedConn DEF Sound, Stores
  <1>3. Exclusive'
    BY <1>1, <1>2, ExclusiveAct DEF Course
  <1>4. \A c \in promised' : c \notin {req[t].conn, req'[t].conn}
    BY <1>1, ConnectionsAssumption DEF Sound, Histories, Stores
  <1>5. QED
    BY <1>1, <1>3, <1>4, QuietAct

LEMMA MintCourse ==
  ASSUME Sound, Course, NEW t \in Threads, Mint(t)
  PROVE  Course'
  <1> DEFINE c == req'[t].conn
             o == req[t].dst
  <1>1. /\ Sound' /\ Acts(t) /\ req[t].conn = None /\ c \in Conns \ issued /\ o \in Orgs
        /\ Write(o, req[t].there, shared[o] \cup {c})
        /\ req'[t].dst = o /\ req'[t].there = req[t].there
        /\ UNCHANGED <<dbVars, promised, dropped, raced>>
    BY MintSound DEF Mint, Acts
  <1>2. \A u \in Threads : req[u].conn # None => req[u].conn \in issued
    BY TouchedConn DEF Sound, Stores
  <1>3. Exclusive'
    BY <1>1, <1>2, ExclusiveAct DEF Course
  <1>4. /\ \A p \in Orgs : shared[p] \subseteq shared'[p]
        /\ ~req[t].there.stored => c \in shared'[o]
    BY <1>1 DEF Write, Sound, Stores
  <1>5. Owned'
    BY <1>1, <1>3, <1>4, OwnedAct DEF Course
  <1>6. \A d \in promised' : d \in promised /\ d \notin {req[t].conn, req'[t].conn}
    BY <1>1, ConnectionsAssumption DEF Sound, Histories, Stores
  <1>7. \A d : Durable(d) \subseteq Durable(d)'
    BY <1>1, <1>4, DurableKept DEF dbVars
  <1>8. Kept'
    BY <1>1, <1>3, <1>6, <1>7, KeptAct DEF Course
  <1>9. QED
    BY <1>3, <1>5, <1>8 DEF Course

LEMMA FindCourse ==
  ASSUME Sound, Course, NEW t \in Threads, Find(t) \/ DeletePersonal(t)
  PROVE  Course'
  <1>1. /\ Sound' /\ Acts(t) /\ req[t] = Idle /\ raced' = raced \cup Contested(t)
        /\ UNCHANGED <<dbVars, shared, promised, dropped>>
        /\ ~req'[t].touched /\ req'[t].pc # "put"
        /\ ~Landed(req'[t])
    BY FindSound, DeletePersonalSound, ConnectionsAssumption DEF Acts, Landed
  <1>2. Exclusive'
    BY <1>1, ContestedFacts, ExclusiveAct DEF Course
  <1>3. ASSUME NEW c \in promised' \ (raced' \cup dropped'), c \in {req[t].conn, req'[t].conn}
        PROVE  IF req'[t].conn = c THEN Rests(req[t], c)' ELSE Durable(c) # {}
    <2>1. c # None /\ req'[t].conn = c
      BY <1>1, <1>3, IdleFacts, ConnectionsAssumption DEF Sound, Histories, Stores
    <2>2. Durable(c) # {}
      BY <1>1, <1>3, <2>1, Unhandled DEF Course
    <2>3. Durable(c)' = Durable(c)
      BY <1>1 DEF Durable, Lasts, dbVars
    <2>4. QED
      BY <1>1, <2>1, <2>2, <2>3 DEF Rests, Leaving
  <1>4. QED
    BY <1>1, <1>2, <1>3, QuietAct

LEMMA DeleteSharedCourse ==
  ASSUME Sound, Course, NEW t \in Threads, DeleteShared(t)
  PROVE  Course'
  <1> DEFINE c == req'[t].conn
             o == req'[t].src
  <1>1. /\ Sound' /\ Acts(t) /\ req[t] = Idle /\ raced' = raced \cup Contested(t)
        /\ req'[t].pc = "drop" /\ req'[t].op = "delete" /\ req'[t].dst = None /\ o \in Orgs
        /\ Write(o, req'[t].here, shared[o] \ {c})
        /\ UNCHANGED <<dbVars, promised, dropped>>
    BY DeleteSharedSound DEF Acts
  <1>2. Exclusive'
    BY <1>1, ContestedFacts, ExclusiveAct DEF Course
  <1>3. /\ \A p \in Orgs : shared[p] \ {c} \subseteq shared'[p]
        /\ req'[t].here.stored => shared' = shared
    BY <1>1 DEF Write, Sound, Stores
  <1>4. Owned'
    BY <1>1, <1>2, <1>3, OwnedAct DEF Course
  <1>5. \A d : d # c => Durable(d) \subseteq Durable(d)'
    BY <1>1, <1>3, DurableKept DEF dbVars
  <1>6. req'[t].touched <=> ~req'[t].here.stored
    BY <1>1, ConnectionsAssumption DEF Sound, Reqs, ReqOK, FlowOf
  <1>7. ASSUME NEW d \in promised' \ (raced' \cup dropped'), d \in {req[t].conn, c}
        PROVE  IF c = d THEN Rests(req[t], d)' ELSE Durable(d)' # {}
    <2>1. d # None /\ c = d
      BY <1>1, <1>7, IdleFacts, ConnectionsAssumption DEF Sound, Histories, Stores
    <2>2. Durable(d) # {}
      BY <1>1, <1>7, <2>1, Unhandled DEF Course
    <2>3. req'[t].here.stored => Durable(d)' = Durable(d)
      BY <1>1, <1>3 DEF Durable, Lasts, dbVars
    <2>4. QED
      BY <1>1, <1>6, <2>1, <2>2, <2>3 DEF Rests, Landed, Leaving
  <1>8. Kept'
    BY <1>1, <1>2, <1>5, <1>7, KeptAct DEF Course
  <1>9. QED
    BY <1>2, <1>4, <1>8 DEF Course

\* A save of row o keeps what lasts there, except for what it may take out.
LEMMA SaveRowLasts ==
  ASSUME Sound, NEW o \in Orgs, NEW seen, RowOK(seen, issued),
         NEW conns \in SUBSET issued, NEW c \in Conns, NEW t, SaveRow(t, o, seen, conns, c),
         NEW d, Lasts(o, d), d \notin raced', rows[o] = seen => d \in conns
  PROVE  d \in rows'[o].conns
  <1>1. /\ rows'[o].conns = conns
        /\ rows[o] # seen => Differ(Effective(o).conns, conns) \subseteq raced'
    BY SaveRowSound DEF Sound
  <1>2. d \in Effective(o).conns
    BY EffectiveFacts DEF Lasts
  <1>3. rows[o] # seen => d \in conns
    BY <1>1, <1>2 DEF Differ
  <1>4. QED
    BY <1>1, <1>3

LEMMA TargetCourse ==
  ASSUME Sound, Course, NEW t \in Threads, Target(t)
  PROVE  Course'
  <1> PICK c : c = req[t].conn
    OBVIOUS
  <1>1. /\ Sound' /\ Acts(t) /\ req[t].pc = "target" /\ Same(t)
        /\ UNCHANGED <<dbVars, promised, dropped>>
    BY TargetSound DEF Acts
  <1>2. /\ FlowOf(req[t]) /\ c # None /\ req[t].op = "update" /\ ~req[t].touched
        /\ req'[t].conn = c /\ req'[t].dst = req[t].dst /\ req'[t].op = req[t].op
    BY <1>1, ReqFacts DEF Sound, FlowOf, Same
  <1>3. Exclusive'
    BY <1>1, <1>2, ExclusiveAct DEF Course
  <1>4. \A d \in promised' \ (raced' \cup dropped') : d = c => Durable(d) # {}
    <2> SUFFICES ASSUME c \in promised \ (raced \cup dropped) PROVE Durable(c) # {}
      BY <1>1 DEF Acts
    <2>1. Rests(req[t], c)
      BY DEF Course, Kept, Safe
    <2>2. ~Landed(req[t]) /\ ~Leaving(req[t])
      BY <1>1, <1>2 DEF Landed, Leaving
    <2>3. QED
      BY <2>1, <2>2 DEF Rests
  <1>5. CASE req[t].dst \in Orgs /\ req'[t].pc = "put"
    <2> DEFINE o == req[t].dst
    <2>1. Write(o, req'[t].there, shared[o] \cup {c})
      BY <1>5, TargetSound, ConnectionsAssumption
    <2>2. /\ \A p \in Orgs : shared[p] \subseteq shared'[p]
          /\ ~req'[t].there.stored => c \in shared'[o]
      BY <1>5, <2>1 DEF Write, Sound, Stores
    <2>3. Owned'
      BY <1>1, <1>2, <1>3, <2>2, OwnedAct DEF Course
    <2>4. \A d : Durable(d) \subseteq Durable(d)'
      BY <1>1, <2>2, DurableKept DEF dbVars
    <2>5. ~Landed(req'[t])
      BY <1>5 DEF Landed
    <2>6. ASSUME NEW d \in promised' \ (raced' \cup dropped'), d \in {c, req'[t].conn}
          PROVE  IF req'[t].conn = d THEN Rests(req[t], d)' ELSE Durable(d)' # {}
      BY <1>2, <1>4, <2>4, <2>5, <2>6 DEF Rests
    <2>7. Kept'
      BY <1>1, <1>2, <1>3, <2>4, <2>6, KeptAct DEF Course
    <2>8. QED
      BY <1>3, <2>3, <2>7 DEF Course
  <1>6. CASE req[t].dst = Vault /\ req'[t].pc = "save" /\ shared' = shared /\ ~req'[t].touched
    <2>1. \A d : Durable(d)' = Durable(d)
      BY <1>1, <1>6 DEF Durable, Lasts, dbVars
    <2>2. ~Landed(req'[t]) /\ ~Leaving(req'[t])
      BY <1>2, <1>6, ConnectionsAssumption DEF Landed, Leaving
    <2>3. ASSUME NEW d \in promised' \ (raced' \cup dropped'), d \in {c, req'[t].conn}
          PROVE  IF req'[t].conn = d THEN Rests(req[t], d)' ELSE Durable(d) # {}
      BY <1>2, <1>4, <2>1, <2>2, <2>3 DEF Rests
    <2>4. QED
      BY <1>1, <1>2, <1>3, <1>6, <2>3, QuietAct
  <1>7. CASE /\ req[t].dst = Vault /\ req[t].src \in Orgs /\ req'[t].pc = "drop"
             /\ Write(req[t].src, req[t].here, shared[req[t].src] \ {c})
             /\ req'[t].touched <=> ~req[t].here.stored
    <2>1. /\ \A p \in Orgs : shared[p] \ {c} \subseteq shared'[p]
          /\ req[t].here.stored => shared' = shared
      BY <1>7 DEF Write, Sound, Stores
    <2>2. Owned'
      BY <1>1, <1>2, <1>3, <1>7, <2>1, OwnedAct DEF Course
    <2>3. \A d : d # c => Durable(d) \subseteq Durable(d)'
      BY <1>1, <2>1, DurableKept DEF dbVars
    <2>4. req[t].here.stored => Durable(c)' = Durable(c)
      BY <1>1, <2>1 DEF Durable, Lasts, dbVars
    <2>5. ASSUME NEW d \in promised' \ (raced' \cup dropped'), d \in {c, req'[t].conn}
          PROVE  IF req'[t].conn = d THEN Rests(req[t], d)' ELSE Durable(d)' # {}
      <3>1. d = c /\ req'[t].conn = d /\ Durable(c) # {}
        BY <1>2, <1>4, <2>5
      <3>2. ~Landed(req'[t]) /\ (Leaving(req'[t]) <=> req'[t].touched)
        BY <1>2, <1>7, ConnectionsAssumption DEF Landed, Leaving
      <3>3. QED
        BY <1>7, <2>4, <3>1, <3>2 DEF Rests
    <2>6. Kept'
      BY <1>1, <1>2, <1>3, <2>3, <2>5, KeptAct DEF Course
    <2>7. QED
      BY <1>3, <2>2, <2>6 DEF Course
  <1>8. QED
    BY <1>5, <1>6, <1>7, TargetSound

LEMMA PutCourse ==
  ASSUME Sound, Course, NEW t \in Threads, Put(t)
  PROVE  Course'
  <1> PICK c, o : c = req[t].conn /\ o = req[t].dst
    OBVIOUS
  <1> DEFINE from == req[t].src
             ends == req'[t] = Idle /\ shared' = shared
             takes == from = Vault /\ Same(t) /\ shared' = shared /\ req'[t].pc = "take"
             leaves == /\ from \in Orgs \ {o} /\ Same(t) /\ req'[t].pc = "drop"
                       /\ Write(from, req[t].here, shared[from] \ {c})
  <1>1. /\ Sound' /\ SaveRow(t, o, req[t].there, Added(t), c)
        /\ promised' = promised \cup {c} /\ UNCHANGED <<vault, dropped>>
        /\ \A u \in Threads \ {t} : req'[u] = req[u]
        /\ ends \/ (req[t].op = "update" /\ (takes \/ leaves))
    BY SMTT(30), PutSound
  <1>2. /\ req[t].pc = "put" /\ o \in Orgs /\ c # None /\ RowOK(req[t].there, issued)
        /\ c \in issued /\ c \in Conns
    BY ReqFacts DEF Put, At, Sound, FlowOf, ReqOK, Stores
  <1>3. Added(t) \subseteq issued
    BY <1>2 DEF Added, Sound, Stores, RowOK
  <1>4. /\ Acts(t)
        /\ \A p \in Orgs \ {o} : rows'[p] = rows[p]
        /\ rows'[o].stored /\ rows'[o].conns = Added(t)
        /\ rows[o] # req[t].there => c \in raced'
    <2>1. Stores /\ Histories
      BY DEF Sound
    <2>2. /\ \A p \in Orgs \ {o} : rows'[p] = rows[p]
          /\ rows'[o].stored /\ rows'[o].conns = Added(t)
          /\ raced \subseteq raced'
      <3>1. SaveRow(t, o, req[t].there, Added(t), c)
        BY <1>1
      <3>2. PICK seen, conns : seen = req[t].there /\ conns = Added(t)
        OBVIOUS
      <3>3. conns \in SUBSET issued /\ SaveRow(t, o, seen, conns, c) /\ RowOK(seen, issued)
        BY <1>2, <1>3, <3>1, <3>2
      <3>4. QED
        BY <1>2, <2>1, <3>2, <3>3, SaveRowSound
    <2>3. rows[o] # req[t].there => c \in raced'
      BY <1>1 DEF SaveRow
    <2>4. QED
      BY <1>1, <2>2, <2>3 DEF Acts
  <1>5. req'[t].conn \in {c, None} /\ (ends <=> req'[t].conn # c)
    BY <1>1, <1>2, IdleFacts DEF Same
  <1>6. Exclusive'
    BY <1>4, <1>5, ExclusiveAct DEF Course
  <1>7. \A p \in Orgs : shared[p] \ {c} \subseteq shared'[p]
    BY <1>1 DEF Write, Sound, Stores
  <1>8. Owned'
    <2>1. req'[t].pc # "put"
      BY <1>1, IdleFacts
    <2>2. QED
      BY <1>1, <1>4, <1>6, <1>7, <2>1, OwnedAct DEF Course
  <1>9. ASSUME NEW d, d # c, d \notin raced'
        PROVE  Durable(d) \subseteq Durable(d)'
    <2>1. rows[o] = req[t].there /\ Lasts(o, d) => d \in Added(t)
      BY <1>2 DEF Added, Lasts
    <2>2. rows'[o].stored /\ (Lasts(o, d) => d \in rows'[o].conns)
      BY <1>1, <1>2, <1>3, <1>4, <1>9, <2>1, SaveRowLasts
    <2>3. \A p \in Orgs : \/ rows'[p] = rows[p]
                          \/ rows'[p].stored /\ (Lasts(p, d) => d \in rows'[p].conns)
      BY <1>4, <2>2
    <2>4. QED
      BY <1>1, <1>7, <1>9, <2>3, DurableKept
  <1>10. c \notin raced' => o \in Durable(c)'
    <2> SUFFICES ASSUME c \notin raced' PROVE c \in rows'[o].conns
      BY <1>2, <1>4 DEF Durable, Lasts
    <2>1. CASE req[t].there.stored
      BY <1>4, <2>1 DEF Added
    <2>2. CASE ~req[t].there.stored
      <3>1. c \in shared[o]
        BY <1>2, <1>4, <2>2 DEF Course, Owned, Acts
      <3>2. QED
        BY <1>4, <2>2, <3>1 DEF Added
    <2>3. QED
      BY <2>1, <2>2
  <1>11. ASSUME NEW d \in promised' \ (raced' \cup dropped'), d \in {c, req'[t].conn}
         PROVE  IF req'[t].conn = d THEN Rests(req[t], d)' ELSE Durable(d)' # {}
    <2>1. d = c
      BY <1>1, <1>5, <1>11, ConnectionsAssumption DEF Sound, Histories, Stores
    <2>2. o \in Durable(c)'
      BY <1>10, <1>11, <2>1
    <2>3. CASE ends
      BY <1>5, <2>1, <2>2, <2>3
    <2>4. CASE req[t].op = "update" /\ (takes \/ leaves)
      <3>1. Landed(req'[t]) /\ req'[t].dst = o
        BY <1>2, <2>4 DEF Landed, Same
      <3>2. QED
        BY <2>1, <2>2, <3>1, <2>4 DEF Rests, Same
    <2>5. QED
      BY <1>1, <2>3, <2>4
  <1>12. Kept'
    <2>1. \A d \in promised' \ (raced' \cup dropped') :
            d \notin {c, req'[t].conn} => d \in promised /\ Durable(d) \subseteq Durable(d)'
      BY <1>1, <1>9
    <2>2. QED
      BY <1>1, <1>4, <1>6, <1>11, <2>1, KeptAct DEF Course
  <1>13. QED
    BY <1>6, <1>8, <1>12 DEF Course

LEMMA DropCourse ==
  ASSUME Sound, Course, NEW t \in Threads, Drop(t)
  PROVE  Course'
  <1> PICK c, o : c = req[t].conn /\ o = req[t].src
    OBVIOUS
  <1> DEFINE saves == req[t].dst = Vault /\ Same(t) /\ req'[t].pc = "save" /\ req'[t].touched
  <1>1. /\ Sound' /\ SaveRow(t, o, req[t].here, Without(t), c)
        /\ promised' = IF req[t].op = "delete" THEN promised \ {c} ELSE promised
        /\ UNCHANGED <<vault, shared, dropped>>
        /\ \A u \in Threads \ {t} : req'[u] = req[u]
        /\ (req[t].dst # Vault /\ req'[t] = Idle) \/ saves
    BY SMTT(30), DropSound
  <1>2. /\ req[t].pc = "drop" /\ FlowOf(req[t]) /\ o \in Orgs /\ c # None
        /\ RowOK(req[t].here, issued) /\ c \in issued /\ c \in Conns
    BY ReqFacts DEF Drop, At, Sound, FlowOf, ReqOK, Stores
  <1>3. Without(t) \subseteq issued
    BY <1>2 DEF Without, Sound, Stores, RowOK
  <1>4. /\ Acts(t)
        /\ \A p \in Orgs \ {o} : rows'[p] = rows[p]
        /\ rows'[o].stored
    BY <1>1, <1>2, <1>3, SaveRowSound DEF Sound, Acts
  <1>5. req'[t].conn \in {c, None} /\ req'[t].pc # "put" /\ (saves <=> req'[t].conn = c)
    BY <1>1, <1>2, IdleFacts DEF Same
  <1>6. Exclusive'
    BY <1>4, <1>5, ExclusiveAct DEF Course
  <1>7. Owned'
    BY <1>1, <1>4, <1>5, <1>6, OwnedAct DEF Course
  <1>8. ASSUME NEW d, d # c, d \notin raced'
        PROVE  Durable(d) \subseteq Durable(d)'
    <2>1. rows[o] = req[t].here /\ Lasts(o, d) => d \in Without(t)
      BY <1>2, <1>8 DEF Without, Lasts
    <2>2. rows'[o].stored /\ (Lasts(o, d) => d \in rows'[o].conns)
      BY ZenonT(60), <1>1, <1>2, <1>3, <1>4, <1>8, <2>1, SaveRowLasts
    <2>3. \A p \in Orgs : \/ rows'[p] = rows[p]
                          \/ rows'[p].stored /\ (Lasts(p, d) => d \in rows'[p].conns)
      BY <1>4, <2>2
    <2>4. QED
      BY <1>1, <2>3, DurableKept
  <1>9. ASSUME NEW d \in promised' \ (raced' \cup dropped'), d \in {c, req'[t].conn}
        PROVE  IF req'[t].conn = d THEN Rests(req[t], d)' ELSE Durable(d)' # {}
    <2>1. d = c /\ req[t].op # "delete" /\ c \in promised \ (raced \cup dropped)
      BY <1>1, <1>4, <1>5, <1>9, ConnectionsAssumption DEF Sound, Histories, Stores, Acts
    <2>2. CASE saves
      BY <1>5, <2>1, <2>2, ConnectionsAssumption DEF Rests, Landed, Leaving, Same
    <2>3. CASE req[t].dst # Vault
      <3>1. Landed(req[t]) /\ req[t].dst \in Orgs \ {o}
        BY <1>2, <2>1, <2>3 DEF FlowOf, Landed
      <3>2. req[t].dst \in Durable(c)
        BY <2>1, <3>1 DEF Course, Kept, Safe, Rests
      <3>3. req[t].dst \notin Users
        BY <3>1, ConnectionsAssumption
      <3>4. Lasts(req[t].dst, c)
        BY <3>2, <3>3 DEF Durable
      <3>5. IF rows'[req[t].dst].stored THEN c \in rows'[req[t].dst].conns
            ELSE c \in Helm[req[t].dst].conns /\ c \in shared'[req[t].dst]
        BY <1>1, <1>4, <3>1, <3>4 DEF Lasts
      <3>6. Durable(c)' # {}
        BY <3>1, <3>5 DEF Durable, Lasts
      <3>7. QED
        BY <1>1, <1>2, <2>1, <2>3, <3>6, IdleFacts
    <2>4. QED
      BY <1>1, <2>2, <2>3
  <1>10. Kept'
    <2>1. \A d \in promised' \ (raced' \cup dropped') :
            d \notin {c, req'[t].conn} => d \in promised /\ Durable(d) \subseteq Durable(d)'
      BY <1>1, <1>8
    <2>2. QED
      BY <1>1, <1>4, <1>6, <1>9, <2>1, KeptAct DEF Course
  <1>11. QED
    BY <1>6, <1>7, <1>10 DEF Course

LEMMA TakeCourse ==
  ASSUME Sound, Course, NEW t \in Threads, Take(t)
  PROVE  Course'
  <1>1. /\ Sound' /\ Acts(t) /\ req[t].pc = "take" /\ Same(t) /\ req'[t].pc = "save"
        /\ UNCHANGED <<dbVars, shared, promised, dropped, raced>>
    BY TakeSound DEF Acts, historyVars
  <1>2. FlowOf(req[t]) /\ req[t].conn # None
    BY <1>1, ReqFacts DEF Sound, FlowOf
  <1>3. Exclusive'
    BY <1>1, ExclusiveAct DEF Course, Same
  <1>4. Landed(req[t]) /\ Landed(req'[t])
    BY <1>1, <1>2 DEF FlowOf, Landed, Same
  <1>5. ASSUME NEW c \in promised' \ (raced' \cup dropped'), c \in {req[t].conn, req'[t].conn}
        PROVE  IF req'[t].conn = c THEN Rests(req[t], c)' ELSE Durable(c) # {}
    <2>1. c = req[t].conn /\ c = req'[t].conn /\ req'[t].dst = req[t].dst
      BY <1>1, <1>5 DEF Same
    <2>2. req[t].dst \in Durable(c)
      BY <1>1, <1>4, <1>5, <2>1 DEF Course, Kept, Safe, Rests
    <2>3. Durable(c)' = Durable(c)
      BY <1>1 DEF Durable, Lasts, dbVars
    <2>4. QED
      BY <1>4, <2>1, <2>2, <2>3 DEF Rests
  <1>6. QED
    BY <1>1, <1>3, <1>5, QuietAct

LEMMA SaveCourse ==
  ASSUME Sound, Course, NEW t \in Threads, Save(t)
  PROVE  Course'
  <1> PICK c, u : c = req[t].conn /\ u = req[t].user
    OBVIOUS
  <1>1. /\ Sound' /\ Acts(t) /\ req[t].pc = "save" /\ req'[t] = Idle
        /\ vault'[u] = Result(t) /\ \A v \in Users \ {u} : vault'[v] = vault[v]
        /\ promised' = CASE req[t].dst = Vault -> promised \cup {c}
                         [] req[t].op = "delete" -> promised \ {c}
                         [] OTHER -> promised
        /\ vault[u] # req[t].data => Differ(vault[u], Result(t)) \subseteq raced'
        /\ UNCHANGED <<rows, shared, dropped>>
    BY SaveSound DEF Acts
  <1>2. FlowOf(req[t]) /\ c # None /\ u \in Users
    BY <1>1, ReqFacts DEF Sound, FlowOf
  <1>3. Exclusive'
    BY <1>1, ExclusiveAct, IdleFacts DEF Course
  <1>4. Owned'
    BY <1>1, <1>3, OwnedAct, IdleFacts DEF Course
  <1>5. ASSUME NEW d, d # c, d \notin raced'
        PROVE  Durable(d) \subseteq Durable(d)'
    <2>1. d \in vault[u] => d \in vault'[u]
      BY <1>1, <1>5 DEF Result, Differ
    <2>2. QED
      BY <1>1, <2>1, DurableKept
  <1>6. ASSUME NEW d \in promised' \ (raced' \cup dropped'), d \in {c, req'[t].conn}
        PROVE  Durable(d)' # {}
    <2>1. d = c
      BY <1>1, <1>6, IdleFacts, ConnectionsAssumption DEF Sound, Histories, Stores
    <2>2. CASE req[t].dst = Vault
      <3>1. c \in vault'[u]
        BY <1>1, <2>2 DEF Result
      <3>2. QED
        BY <1>2, <2>1, <3>1 DEF Durable
    <2>3. CASE req[t].dst # Vault
      <3>1. req[t].op # "delete" /\ c \in promised \ (raced \cup dropped)
        BY <1>1, <1>6, <2>1, <2>3 DEF Acts
      <3>2. Landed(req[t]) /\ req[t].dst \in Orgs
        BY <1>1, <1>2, <2>3, <3>1, ConnectionsAssumption DEF FlowOf, Landed
      <3>3. req[t].dst \in Durable(c)
        BY <3>1, <3>2 DEF Course, Kept, Safe, Rests
      <3>4. Lasts(req[t].dst, c)
        BY <3>2, <3>3, ConnectionsAssumption DEF Durable
      <3>5. \A o \in Orgs : Lasts(o, c) => Lasts(o, c)'
        BY <1>1 DEF Lasts
      <3>6. QED
        BY <2>1, <3>2, <3>4, <3>5 DEF Durable
    <2>4. QED
      BY <2>2, <2>3
  <1>7. Kept'
    <2>1. \A d \in promised' \ (raced' \cup dropped') :
            d \notin {c, req'[t].conn} => d \in promised /\ Durable(d) \subseteq Durable(d)'
      BY <1>1, <1>5
    <2>2. \A d \in promised' \ (raced' \cup dropped') :
            d \in {c, req'[t].conn} => req'[t].conn # d /\ Durable(d)' # {}
      BY <1>1, <1>6, IdleFacts, ConnectionsAssumption DEF Sound, Histories, Stores
    <2>3. QED
      BY <1>1, <1>3, <2>1, <2>2, KeptAct DEF Course
  <1>8. QED
    BY <1>3, <1>4, <1>7 DEF Course

LEMMA FailCourse ==
  ASSUME Sound, Course, NEW t \in Threads, Fail(t)
  PROVE  Course'
  <1>1. /\ Sound' /\ Acts(t) /\ req'[t] = Idle /\ Abandon({t})
        /\ UNCHANGED <<dbVars, shared, promised>>
    BY FailSound DEF Acts
  <1>2. Exclusive'
    BY <1>1, ExclusiveAct, IdleFacts DEF Course
  <1>3. /\ dropped \subseteq dropped'
        /\ Leaving(req[t]) => req[t].conn \in dropped'
    BY <1>1 DEF Abandon, Leaving
  <1>4. ASSUME NEW c \in promised' \ (raced' \cup dropped'), c = req[t].conn
        PROVE  Durable(c) # {}
    <2>1. Rests(req[t], c)
      BY <1>1, <1>3, <1>4 DEF Course, Kept, Safe, Acts
    <2>2. QED
      BY <1>3, <1>4, <2>1 DEF Rests
  <1>5. \A c \in promised' : c # req'[t].conn
    BY <1>1, IdleFacts, ConnectionsAssumption DEF Sound, Histories, Stores
  <1>6. QED
    BY <1>1, <1>2, <1>3, <1>4, <1>5, QuietAct, IdleFacts

LEMMA AdminSaveCourse ==
  ASSUME Sound, Course, NEW t \in Threads, AdminSave(t)
  PROVE  Course'
  <1> PICK o : o = req[t].dst
    OBVIOUS
  <1>1. /\ Sound' /\ Acts(t) /\ req'[t] = Idle /\ req[t].conn = None /\ o \in Orgs \ Provisioned
        /\ UNCHANGED <<vault, shared, dropped>>
    BY AdminSaveSound DEF Acts, AdminSaves
  <1>2. PICK m \in SUBSET Users, gone \in SUBSET req[t].there.conns, new \in SUBSET (Conns \ issued) :
          AdminSaves(t, m, gone, new)
    BY AdminSaveSound
  <1>3. /\ rows'[o].stored /\ rows'[o].conns = (req[t].there.conns \ gone) \cup new
        /\ \A p \in Orgs \ {o} : rows'[p] = rows[p]
        /\ promised' = (promised \cup new) \ gone
        /\ rows[o] # req[t].there => Differ(rows[o].conns, rows'[o].conns) \subseteq raced'
    BY <1>2 DEF AdminSaves
  <1>4. Exclusive'
    BY <1>1, ExclusiveAct, IdleFacts DEF Course
  <1>5. Owned'
    BY <1>1, <1>4, OwnedAct, IdleFacts DEF Course
  <1>6. ~Helm[o].stored /\ Helm[o].conns = {}
    BY <1>1, HelmFacts, NoRowFacts
  <1>7. Kept'
    <2> SUFFICES ASSUME NEW c \in promised' \ (raced' \cup dropped') PROVE Safe(c)'
      BY DEF Kept
    <2>1. c # None /\ c \notin gone
      BY <1>1, <1>3, ConnectionsAssumption DEF Sound, Histories, Stores
    <2>2. CASE c \in new
      <3>1. c \in rows'[o].conns
        BY <1>3, <2>1, <2>2
      <3>2. Durable(c)' # {}
        BY <1>1, <1>3, <3>1 DEF Durable, Lasts
      <3>3. \A u \in Threads : req'[u].conn # c
        BY <1>1, <2>1, <2>2, IdleFacts, TouchedConn DEF Sound, Stores, Acts
      <3>4. QED
        BY <3>2, <3>3 DEF Safe
    <2>3. CASE c \notin new
      <3>1. c \in promised \ (raced \cup dropped)
        BY <1>1, <1>3, <2>3 DEF Acts
      <3>2. Lasts(o, c) => c \in rows[o].conns
        BY <1>6 DEF Lasts
      <3>3. c \in rows[o].conns => c \in rows'[o].conns
        BY <1>3, <2>1 DEF Differ
      <3>4. \A p \in Orgs : \/ rows'[p] = rows[p]
                            \/ rows'[p].stored /\ (Lasts(p, c) => c \in rows'[p].conns)
        BY <1>3, <3>2, <3>3
      <3>5. Durable(c) \subseteq Durable(c)'
        BY <1>1, <3>4, DurableKept
      <3>6. \A u \in Threads : req[u].conn = c \/ req'[u].conn = c => req'[u] = req[u]
        BY <1>1, <2>1, IdleFacts DEF Acts
      <3>7. QED
        BY <3>1, <3>5, <3>6, SafeKept DEF Course, Kept
    <2>4. QED
      BY <2>2, <2>3
  <1>8. QED
    BY <1>4, <1>5, <1>7 DEF Course

LEMMA AdminDeleteCourse ==
  ASSUME Sound, Course, NEW o \in Orgs, AdminDelete(o)
  PROVE  Course'
  <1>1. /\ rows'[o] = NoRow /\ \A p \in Orgs \ {o} : rows'[p] = rows[p]
        /\ promised' = promised \ rows[o].conns /\ o \notin Provisioned
        /\ UNCHANGED <<vault, shared, req, raced, dropped>>
    BY AdminDeleteSound
  <1>2. Exclusive' /\ Owned'
    BY <1>1 DEF Course, Exclusive, Owned
  <1>3. ~Helm[o].stored /\ Helm[o].conns = {}
    BY <1>1, HelmFacts, NoRowFacts
  <1>4. ASSUME NEW c \in promised' \ (raced' \cup dropped') PROVE Safe(c)'
    <2>1. c \in promised \ (raced \cup dropped) /\ c \notin rows[o].conns
      BY <1>1
    <2>2. ~Lasts(o, c)
      BY <1>3, <2>1 DEF Lasts
    <2>3. \A p \in Orgs : Lasts(p, c) => Lasts(p, c)'
      BY <1>1, <2>2 DEF Lasts
    <2>4. Durable(c) \subseteq Durable(c)'
      BY <1>1, <2>3 DEF Durable
    <2>5. QED
      BY <1>1, <2>1, <2>4, SafeKept DEF Course, Kept
  <1>5. QED
    BY <1>2, <1>4 DEF Course, Kept

LEMMA ImportCommitCourse ==
  ASSUME Sound, Course, ImportCommit
  PROVE  Course'
  <1>1. /\ Sound' /\ vault' = tx.file.vault /\ rows' = tx.file.rows
        /\ promised' = {c \in Conns : PlacesIn(tx.file, c) # {}}
        /\ raced \subseteq raced'
        /\ \A o \in Orgs : ~tx.file.rows[o].stored => Differ(shared[o], Helm[o].conns) \subseteq raced'
        /\ \A t \in Threads : req[t].conn # None => req[t].conn \in raced'
        /\ UNCHANGED <<shared, req, dropped>>
    BY ImportCommitSound
  <1>2. Exclusive'
    BY <1>1 DEF Exclusive
  <1>3. Owned'
    <2>1. \A t \in Threads : req[t].pc = "put" => req[t].conn # None
      BY ReqFacts DEF Sound, FlowOf
    <2>2. QED
      BY <1>1, <2>1 DEF Owned
  <1>4. ASSUME NEW c \in promised' \ (raced' \cup dropped') PROVE Safe(c)'
    <2>1. c \in Conns /\ c # None /\ PlacesIn(tx.file, c) # {}
      BY <1>1, ConnectionsAssumption
    <2>2. \A t \in Threads : req'[t].conn # c
      BY <1>1, <1>4, <2>1
    <2>3. PICK p : p \in PlacesIn(tx.file, c)
      BY <2>1
    <2>4. Durable(c)' # {}
      <3>1. CASE p \in Users /\ c \in vault'[p]
        BY <3>1 DEF Durable
      <3>2. CASE p \in Orgs /\ c \in IF rows'[p].stored THEN rows'[p].conns ELSE shared[p]
        <4>1. ~rows'[p].stored => c \in Helm[p].conns /\ c \in shared'[p]
          BY <1>1, <1>4, <3>2 DEF Differ
        <4>2. Lasts(p, c)'
          BY <3>2, <4>1 DEF Lasts
        <4>3. QED
          BY <3>2, <4>2 DEF Durable
      <3>3. QED
        BY <1>1, <2>3, <3>1, <3>2 DEF PlacesIn
    <2>5. QED
      BY <2>2, <2>4 DEF Safe
  <1>5. QED
    BY <1>2, <1>3, <1>4 DEF Course, Kept

LEMMA RestartCourse ==
  ASSUME Sound, Apart, Course, Restart
  PROVE  Course'
  <1>1. /\ \A t \in Threads : req'[t] = IF t \in elsewhere THEN req[t] ELSE Idle
        /\ \A o \in Orgs : shared'[o] = Helm[o].conns
        /\ Abandon(Threads \ elsewhere)
        /\ UNCHANGED <<dbVars, promised, raced>>
    BY RestartSound
  <1>2. Exclusive'
    BY <1>1, IdleFacts DEF Course, Exclusive
  <1>3. Owned'
    BY <1>1, IdleFacts DEF Owned, Apart, FromRows
  <1>4. /\ dropped \subseteq dropped'
        /\ \A t \in Threads \ elsewhere : Leaving(req[t]) => req[t].conn \in dropped'
    BY <1>1 DEF Abandon, Leaving
  <1>5. ASSUME NEW c \in promised' \ (raced' \cup dropped') PROVE Safe(c)'
    <2>1. Safe(c) /\ c # None
      BY <1>1, <1>4, <1>5, ConnectionsAssumption DEF Course, Kept, Sound, Histories, Stores
    <2>2. \A o \in Orgs : Lasts(o, c) => Lasts(o, c)'
      BY <1>1 DEF Lasts, dbVars
    <2>3. Durable(c) \subseteq Durable(c)'
      BY <1>1, <2>2 DEF Durable, dbVars
    <2>4. ASSUME ~Busy(c)' PROVE Durable(c) # {}
      <3>1. CASE Busy(c)
        <4>1. PICK t \in Threads : req[t].conn = c /\ ~At(t, "idle")
          BY <3>1 DEF Busy
        <4>2. t \notin elsewhere
          BY <1>1, <2>4, <4>1 DEF Busy, At
        <4>3. Rests(req[t], c) /\ ~Leaving(req[t])
          BY <1>4, <1>5, <2>1, <4>1, <4>2 DEF Safe
        <4>4. QED
          BY <4>3 DEF Rests
      <3>2. QED
        BY <2>1, <3>1 DEF Safe
    <2>5. ASSUME NEW t \in Threads, req'[t].conn = c PROVE Rests(req[t], c)'
      <3>1. req'[t] = req[t] /\ Rests(req[t], c)
        BY <1>1, <2>1, <2>5, IdleFacts DEF Safe
      <3>2. QED
        BY <2>3, <3>1 DEF Rests, Landed, Leaving
    <2>6. QED
      BY <2>3, <2>4, <2>5 DEF Safe
  <1>6. QED
    BY <1>2, <1>3, <1>5 DEF Course, Kept

LEMMA StutterCourse ==
  ASSUME Course, UNCHANGED <<dbVars, shared, req, historyVars>>
  PROVE  Course'
  <1>1. \A c : Durable(c)' = Durable(c) /\ (Busy(c)' <=> Busy(c))
    BY DEF Durable, Lasts, Busy, At, dbVars
  <1>2. \A c : Safe(c) => Safe(c)'
    BY <1>1 DEF Safe, Rests
  <1>3. QED
    BY <1>2 DEF Course, Exclusive, Owned, Kept, historyVars

LEMMA StepCourse == Sound /\ Apart /\ Course /\ [Next]_vars => Course'
  <1> SUFFICES ASSUME Sound, Apart, Course, [Next]_vars PROVE Course'
    OBVIOUS
  <1>1. ASSUME NEW t \in Threads,
               CreateShared(t) \/ Mint(t) \/ CreatePersonal(t) \/ Find(t) \/ Target(t)
                 \/ DeleteShared(t) \/ DeletePersonal(t)
        PROVE  Course'
    BY <1>1, StartsCourse, MintCourse, FindCourse, TargetCourse, DeleteSharedCourse
  <1>2. ASSUME NEW t \in Threads,
               Put(t) \/ Drop(t) \/ Take(t) \/ Save(t) \/ Fail(t) \/ AdminForm(t) \/ AdminSave(t)
        PROVE  Course'
    BY <1>2, PutCourse, DropCourse, TakeCourse, SaveCourse, FailCourse, StartsCourse, AdminSaveCourse
  <1>3. ASSUME NEW o \in Orgs, AdminDelete(o) PROVE Course'
    BY <1>3, AdminDeleteCourse
  <1>4. CASE ExportVaults \/ ExportOrganizations \/ ImportBegin \/ ImportInsert \/ ImportRollback
    BY <1>4, ExportSound, StutterCourse
  <1>5. CASE ImportCommit \/ Restart
    BY <1>5, ImportCommitCourse, RestartCourse
  <1>6. CASE UNCHANGED vars
    BY <1>6, StutterCourse DEF vars, dbVars, historyVars
  <1>7. QED
    BY <1>1, <1>2, <1>3, <1>4, <1>5, <1>6 DEF Next

LEMMA InitCourse == Init => Course
  <1> SUFFICES ASSUME Init PROVE Course
    OBVIOUS
  <1>1. \A t \in Threads : req[t] = Idle
    BY DEF Init
  <1>2. Exclusive /\ Owned
    BY <1>1, IdleFacts DEF Exclusive, Owned
  <1>3. ASSUME NEW c \in promised PROVE Safe(c)
    <2>1. PICK o \in Orgs : c \in Helm[o].conns
      BY <1>3 DEF Init
    <2>2. ~rows[o].stored /\ c \in shared[o]
      BY <2>1, EmptyFacts, NoRowFacts DEF Init
    <2>3. Durable(c) # {}
      BY <2>1, <2>2 DEF Durable, Lasts
    <2>4. c # None
      BY <2>1, HelmFacts, ConnectionsAssumption
    <2>5. QED
      BY <1>1, <2>3, <2>4, IdleFacts DEF Safe
  <1>4. QED
    BY <1>2, <1>3 DEF Course, Kept

LEMMA CourseKeeps == Sound /\ Course => NotLost
  <1> SUFFICES ASSUME Sound, Course, NEW c \in promised \ (raced \cup dropped), ~Busy(c)
               PROVE  Places(c) # {}
    BY DEF NotLost
  <1>1. Durable(c) # {}
    BY DEF Course, Kept, Safe
  <1>2. \A o \in Orgs : Lasts(o, c) => c \in Effective(o).conns
    BY EffectiveFacts DEF Lasts
  <1>3. QED
    BY <1>1, <1>2 DEF Durable, Places

-----------------------------------------------------------------------------
(* A connection is at one place                                             *)

\* At most one place, and none once it is deleted.
Settled(c) ==
    /\ \A p, q \in Places(c) : p = q
    /\ c \notin promised => Places(c) = {}

\* Where a request takes its connection from and where it brings it.
Source(r, p) == (r.src = Vault /\ p = r.user) \/ (r.src \in Orgs /\ p = r.src)
Goal(r, p) == (r.dst = Vault /\ p = r.user) \/ (r.dst \in Orgs /\ p = r.dst)
Way(r, p) == Goal(r, p) \/ (Source(r, p) /\ ~(r.pc = "save" /\ r.src \in Orgs))

\* A deletion in the shared map of an organization whose row says otherwise.
Astray(r) ==
    r.pc = "drop" /\ r.op = "delete" /\ ~r.here.stored /\ rows[r.src].stored

\* The shared map of o holds a change that request r has not saved yet.
Changing(r, o) ==
    \/ r.pc = "put" /\ r.dst = o /\ ~r.there.stored
    \/ r.pc = "drop" /\ r.src = o /\ ~r.here.stored

\* What is known of the connection c that request r is at work on: untouched
\* it has settled, then it is where it was or where it goes; one that was
\* deleted meanwhile, with the organization it went to, is gone there.
Goes(r, c) ==
    /\ ~r.touched => Settled(c)
    /\ r.op = "create" => c \notin promised
    /\ r.pc \in {"put", "take", "drop", "save"} /\ ~Astray(r) =>
         \A p \in Places(c) : Way(r, p)
    /\ r.pc = "drop" /\ ~r.here.stored => c \notin shared[r.src]
    /\ Landed(r) /\ c \notin promised /\ (r.pc = "drop" /\ r.here.stored => r.src \in Places(c))
         => r.dst \notin Places(c)

\* Without a row an organization is what Helm provisioned, but for changes
\* that a request is about to save.
Provision(c) ==
    \A o \in Orgs :
      ~rows[o].stored /\ ~(c \in shared[o] <=> c \in Helm[o].conns) =>
        \E t \in Threads : req[t].conn = c /\ Changing(req[t], o)

Neat(c) ==
    /\ ~Busy(c) => Settled(c)
    /\ \A t \in Threads : req[t].conn = c => Goes(req[t], c)
    /\ Provision(c)

Clear == Conns \ (raced \cup torn \cup Ambiguous)
Single ==
    /\ \A o \in Orgs \ Provisioned : shared[o] = {}
    /\ \A c \in Clear : Neat(c)

LEMMA PlacesFacts ==
  ASSUME NEW c
  PROVE  /\ Places(c) \subseteq Users \cup Orgs
         /\ \A u \in Users : u \in Places(c) <=> c \in vault[u]
         /\ \A o \in Orgs : o \in Places(c) <=>
              c \in IF rows[o].stored THEN rows[o].conns ELSE shared[o]
         /\ Users \cap Orgs = {}
  BY EffectiveFacts, ConnectionsAssumption DEF Places

LEMMA PlacesFactsNext ==
  ASSUME NEW c
  PROVE  /\ Places(c)' \subseteq Users \cup Orgs
         /\ \A u \in Users : u \in Places(c)' <=> c \in vault'[u]
         /\ \A o \in Orgs : o \in Places(c)' <=>
              c \in IF rows'[o].stored THEN rows'[o].conns ELSE shared'[o]
  BY EffectiveFactsNext, ConnectionsAssumption DEF Places

LEMMA ConnFacts ==
  ASSUME NEW c \in Conns
  PROVE  c # None /\ Idle.conn # c
  BY IdleFacts, ConnectionsAssumption

\* A connection that no step so far has made.
LEMMA Fresh ==
  ASSUME Sound, NEW c \in Conns, c \notin issued
  PROVE  /\ Places(c) = {} /\ c \notin promised /\ \A t \in Threads : req[t].conn # c
         /\ \A o \in Orgs : c \notin shared[o] /\ c \notin Helm[o].conns
         /\ \A u \in Users : c \notin vault[u]
  <1>1. /\ c \notin promised
        /\ \A o \in Orgs : c \notin shared[o] /\ c \notin Helm[o].conns /\ c \notin rows[o].conns
        /\ \A u \in Users : c \notin vault[u]
    BY DEF Sound, Stores, Histories, RowOK
  <1>2. \A t \in Threads : req[t].conn # c
    BY ConnFacts DEF Sound, Reqs, ReqOK
  <1>3. QED
    BY <1>1, <1>2, PlacesFacts

\* What a step does to a connection that it is not about.
Undisturbed(c) ==
    /\ \A u \in Users : c \in vault'[u] <=> c \in vault[u]
    /\ \A o \in Orgs : c \in shared'[o] <=> c \in shared[o]
    /\ \A o \in Orgs :
         \/ rows'[o] = rows[o]
         \/ rows'[o].stored /\ (c \in rows'[o].conns <=> c \in Effective(o).conns)

LEMMA UndisturbedPlaces ==
  ASSUME NEW c, Undisturbed(c)
  PROVE  /\ Places(c)' = Places(c)
         /\ \A o \in Orgs : rows[o].stored => rows'[o].stored
  <1>1. \A u \in Users : u \in Places(c)' <=> u \in Places(c)
    BY PlacesFacts, PlacesFactsNext DEF Undisturbed
  <1>2. \A o \in Orgs : o \in Places(c)' <=> o \in Places(c)
    BY PlacesFacts, PlacesFactsNext, EffectiveFacts DEF Undisturbed
  <1>3. Places(c)' = Places(c)
    BY <1>1, <1>2, PlacesFacts, PlacesFactsNext
  <1>4. QED
    BY <1>3 DEF Undisturbed

LEMMA FlowFacts ==
  ASSUME Sound, NEW t \in Threads
  PROVE  LET r == req[t] IN
         /\ FlowOf(r) /\ r.touched \in BOOLEAN
         /\ \A o \in Orgs : Changing(r, o) => r.touched /\ o \in Provisioned
         /\ r.pc = "drop" => r.src \in Orgs
         /\ r.pc = "drop" /\ ~r.here.stored => r.src \in Provisioned
         /\ Landed(r) => Way(r, r.dst) /\ ~Astray(r)
         /\ Landed(r) /\ r.pc # "drop" => r.src = Vault
  <1>1. FlowOf(req[t]) /\ req[t].touched \in BOOLEAN
    BY ReqFacts DEF Sound
  <1>2. QED
    BY SMTT(30), <1>1, ConnectionsAssumption DEF FlowOf, Changing, Landed, Way, Goal, Astray

\* A step of others: the connection is at fewer places than before only if it
\* was deleted there, and its request goes on.
LEMMA NeatKept ==
  ASSUME Sound, NEW c \in Conns, Neat(c), \A o \in Orgs \ Provisioned : shared[o] = {},
         Places(c)' \subseteq Places(c), c \in promised' => c \in promised,
         c \in promised /\ c \notin promised' =>
           \E o \in Orgs \ Provisioned : o \in Places(c) /\ o \notin Places(c)',
         \A o \in Provisioned : rows[o].stored => rows'[o].stored,
         \A u \in Threads : req[u].conn = c \/ req'[u].conn = c => req'[u] = req[u],
         \A o \in Orgs : c \in shared'[o] <=> c \in shared[o]
  PROVE  Neat(c)'
  <1>1. Settled(c) => Settled(c)'
    <2> SUFFICES ASSUME Settled(c), c \notin promised' PROVE Places(c)' = {}
      BY DEF Settled
    <2>1. CASE c \in promised
      <3> PICK o \in Orgs : o \in Places(c) /\ o \notin Places(c)'
        BY <2>1
      <3>1. QED
        BY DEF Settled
    <2>2. QED
      BY <2>1 DEF Settled
  <1>2. Busy(c) => Busy(c)'
    BY DEF Busy, At
  <1>3. ASSUME NEW t \in Threads, req'[t].conn = c PROVE Goes(req[t], c)'
    <2> PICK r : r = req[t]
      OBVIOUS
    <2>1. req'[t] = r /\ r.conn = c /\ Goes(r, c)
      BY <1>3 DEF Neat
    <2>2. /\ r.pc = "drop" => r.src \in Orgs
          /\ r.pc = "drop" /\ ~r.here.stored => r.src \in Provisioned
          /\ Landed(r) => Way(r, r.dst) /\ ~Astray(r) /\ r.dst \in Orgs
          /\ Landed(r) /\ r.pc # "drop" => r.src = Vault
      BY FlowFacts DEF Landed
    <2>3. Astray(r) => Astray(r)'
      BY <2>2 DEF Astray
    <2>4. ASSUME r.pc \in {"put", "take", "drop", "save"}, ~Astray(r)'
          PROVE  \A p \in Places(c)' : Way(r, p)
      BY <2>1, <2>3, <2>4 DEF Goes
    <2>5. ASSUME Landed(r), c \notin promised', r.pc = "drop" /\ r.here.stored => r.src \in Places(c)'
          PROVE  r.dst \notin Places(c)'
      <3>1. CASE c \notin promised
        BY <2>1, <2>5, <3>1 DEF Goes
      <3>2. CASE c \in promised
        <4> PICK o \in Orgs \ Provisioned : o \in Places(c) /\ o \notin Places(c)'
          BY <2>5, <3>2
        <4>1. Way(r, o) /\ r.pc \in {"take", "drop", "save"}
          BY <2>1, <2>2, <2>5 DEF Goes, Landed
        <4>2. o \notin Users /\ Vault \notin Orgs
          BY ConnectionsAssumption
        <4>3. CASE r.pc # "drop"
          <5>1. o = r.dst \/ o = r.user
            BY <2>2, <2>5, <4>1, <4>2, <4>3 DEF Way, Goal, Source
          <5>2. r.user \in Users
            BY <2>1, <2>5, FlowFacts DEF FlowOf, Landed
          <5>3. QED
            BY <4>2, <5>1, <5>2
        <4>4. CASE r.pc = "drop"
          <5>1. o = r.dst \/ o = r.src
            BY <2>2, <2>5, <4>1, <4>2, <4>4 DEF Way, Goal, Source
          <5>2. o # r.src
            BY <2>2, <2>5, <4>4
          <5>3. QED
            BY <5>1, <5>2
        <4>5. QED
          BY <4>3, <4>4
      <3>3. QED
        BY <3>1, <3>2
    <2>6. Goes(r, c)'
      <3>1. r.pc = "drop" /\ ~r.here.stored => c \notin shared'[r.src]
        BY <2>1, <2>2 DEF Goes
      <3>2. (~r.touched => Settled(c)') /\ (r.op = "create" => c \notin promised')
        BY <1>1, <2>1 DEF Goes
      <3>3. QED
        BY <2>4, <2>5, <3>1, <3>2 DEF Goes, Way, Goal, Source, Landed
    <2>7. QED
      BY <2>1, <2>6 DEF Goes, Way, Goal, Source, Landed, Astray
  <1>4. Provision(c)'
    <2> SUFFICES ASSUME NEW o \in Orgs, ~rows'[o].stored, ~(c \in shared'[o] <=> c \in Helm[o].conns)
                 PROVE  \E t \in Threads : req'[t].conn = c /\ Changing(req'[t], o)
      BY DEF Provision, Changing
    <2>1. o \in Provisioned
      BY HelmFacts, NoRowFacts
    <2>2. PICK t \in Threads : req[t].conn = c /\ Changing(req[t], o)
      BY <2>1 DEF Neat, Provision
    <2>3. QED
      BY <2>2
  <1>5. QED
    BY <1>1, <1>2, <1>3, <1>4 DEF Neat

\* One request acts: the others' connections are left where they are.
LEMMA SingleAct ==
  ASSUME Sound, Sound', Exclusive, Exclusive', Single, NEW t \in Threads, Acts(t), torn \subseteq torn',
         \A o \in Orgs \ Provisioned : shared'[o] = {},
         \A c \in Clear' :
           c \notin {req[t].conn, req'[t].conn} => Undisturbed(c) /\ (c \in promised' <=> c \in promised),
         \A c \in Clear' :
           c \in {req[t].conn, req'[t].conn} =>
             Provision(c)' /\ IF req'[t].conn = c THEN Goes(req[t], c)' ELSE Settled(c)'
  PROVE  Single'
  <1> SUFFICES ASSUME NEW c \in Clear' PROVE Neat(c)'
    BY DEF Single
  <1>0. c \in Clear /\ c \in Conns
    BY DEF Clear, Acts
  <1>1. CASE c \notin {req[t].conn, req'[t].conn}
    <2>1. /\ Neat(c) /\ Undisturbed(c) /\ (c \in promised' <=> c \in promised)
          /\ \A o \in Orgs \ Provisioned : shared[o] = {}
      BY <1>0, <1>1 DEF Single, Acts
    <2>2. Places(c)' = Places(c) /\ \A o \in Orgs : rows[o].stored => rows'[o].stored
      BY <2>1, UndisturbedPlaces
    <2>3. \A u \in Threads : req[u].conn = c \/ req'[u].conn = c => req'[u] = req[u]
      BY <1>1 DEF Acts
    <2>4. (\A o \in Orgs : c \in shared'[o] <=> c \in shared[o]) /\ Provisioned \subseteq Orgs
      BY <2>1 DEF Undisturbed, Provisioned
    <2>5. QED
      BY <1>0, <2>1, <2>2, <2>3, <2>4, NeatKept
  <1>2. CASE c \in {req[t].conn, req'[t].conn}
    <2>1. Provision(c)' /\ IF req'[t].conn = c THEN Goes(req[t], c)' ELSE Settled(c)'
      BY <1>2
    <2>2. \A u \in Threads \ {t} : req'[u].conn # c
      BY <1>0, <1>2, ConnFacts DEF Exclusive, Acts, Clear
    <2>3. req'[t].conn = c => Busy(c)'
      BY <1>0, ConnFacts, IdleFacts DEF Busy, At, Sound, Reqs, ReqOK, FlowOf
    <2>4. QED
      BY <2>1, <2>2, <2>3 DEF Neat
  <1>3. QED
    BY <1>1, <1>2

LEMMA ClearFacts ==
  ASSUME NEW c \in Clear', raced \subseteq raced', torn \subseteq torn', Single, Sound
  PROVE  /\ c \in Clear /\ c \in Conns /\ c # None /\ c \notin raced' /\ c \notin torn' /\ c \notin Ambiguous
         /\ Neat(c) /\ \A t \in Threads : req[t].conn = c => Goes(req[t], c)
  <1>1. c \in Clear /\ c \in Conns /\ c # None /\ c \notin raced' /\ c \notin torn' /\ c \notin Ambiguous
    BY ConnFacts DEF Clear
  <1>2. Neat(c)
    BY <1>1 DEF Single
  <1>3. QED
    BY <1>1, <1>2 DEF Neat

\* Where the row and the shared map are as they were, what Provision says
\* of c still holds if the request at work on c changes nothing there.
LEMMA ProvisionKept ==
  ASSUME Exclusive, NEW t \in Threads, Acts(t), NEW c \in Conns, c \notin raced, c # None,
         Provision(c), req[t].conn = c \/ \A u \in Threads : req[u].conn # c,
         NEW o \in Orgs, ~rows[o].stored, ~(c \in shared[o] <=> c \in Helm[o].conns)
  PROVE  req[t].conn = c /\ Changing(req[t], o)
  <1>1. PICK u \in Threads : req[u].conn = c /\ Changing(req[u], o)
    BY DEF Provision
  <1>2. QED
    BY <1>1 DEF Exclusive

\* No change to a place, to what there is or to the raced ones.
LEMMA QuietSingle ==
  ASSUME Sound, Sound', Exclusive, Exclusive', Single, NEW t \in Threads, Acts(t), torn \subseteq torn',
         UNCHANGED <<dbVars, shared, promised>>,
         \A c \in Clear' : c = req[t].conn => \A o \in Orgs : ~Changing(req[t], o),
         \A c \in Clear' : c \in {req[t].conn, req'[t].conn} =>
            IF req'[t].conn = c THEN Goes(req'[t], c) ELSE Settled(c)
  PROVE  Single'
  <1>1. UNCHANGED <<vault, rows, shared, promised>>
    BY DEF dbVars
  <1>2. \A c : Places(c)' = Places(c) /\ (Settled(c)' <=> Settled(c)) /\ Undisturbed(c)
    BY <1>1, EffectiveFacts, EffectiveFactsNext DEF Places, Settled, Undisturbed
  <1>3. \A o \in Orgs \ Provisioned : shared'[o] = {}
    BY <1>1 DEF Single
  <1>4. ASSUME NEW c \in Clear', c \in {req[t].conn, req'[t].conn}
        PROVE  Provision(c)' /\ IF req'[t].conn = c THEN Goes(req[t], c)' ELSE Settled(c)'
    <2>1. Provision(c)'
      <3> SUFFICES ASSUME NEW o \in Orgs, ~rows[o].stored, ~(c \in shared[o] <=> c \in Helm[o].conns)
                   PROVE  \E u \in Threads : req'[u].conn = c /\ Changing(req'[u], o)
        BY <1>1 DEF Provision, Changing
      <3>1. Neat(c)
        BY ClearFacts DEF Acts
      <3>2. PICK u \in Threads : req[u].conn = c /\ Changing(req[u], o)
        BY <3>1 DEF Neat, Provision
      <3>3. u # t
        BY <3>2
      <3>4. QED
        BY <3>2, <3>3 DEF Acts
    <2>2. CASE req'[t].conn = c
      <3>1. Goes(req'[t], c)
        BY <1>4, <2>2
      <3>2. Goes(req[t], c)'
        BY <1>1, <1>2, <3>1 DEF Goes, Way, Goal, Source, Landed, Astray
      <3>3. QED
        BY <2>1, <2>2, <3>2
    <2>3. QED
      BY <1>2, <1>4, <2>1, <2>2
  <1>5. QED
    BY <1>1, <1>2, <1>3, <1>4, SingleAct

LEMMA StartsSingle ==
  ASSUME Sound, Exclusive, Exclusive', Single, NEW t \in Threads,
         CreateShared(t) \/ CreatePersonal(t) \/ AdminForm(t)
  PROVE  Single'
  <1>1. CASE CreateShared(t) \/ AdminForm(t)
    <2>1. /\ Sound' /\ Acts(t) /\ req[t].conn = None /\ req'[t].conn = None
          /\ UNCHANGED <<dbVars, shared, promised, torn>>
      <3>1. CASE CreateShared(t)
        <4>1. /\ Sound' /\ req'[t].conn = None /\ \A u \in Threads \ {t} : req'[u] = req[u]
          BY <3>1, CreateSharedSound
        <4>2. UNCHANGED <<dbVars, shared, promised, torn, raced>>
          BY <3>1 DEF CreateShared, historyVars
        <4>3. req[t].conn = None
          BY <3>1, ReqFacts, IdleFacts DEF CreateShared, At, Sound, FlowOf
        <4>4. QED
          BY <4>1, <4>2, <4>3 DEF Acts
      <3>2. CASE AdminForm(t)
        BY <3>2, AdminFormSound, IdleFacts DEF Acts, historyVars
      <3>3. QED
        BY <1>1, <3>1, <3>2
    <2>2. \A c \in Clear' : c # None
      BY ConnFacts DEF Clear
    <2>3. QED
      BY <2>1, <2>2, QuietSingle
  <1>2. CASE CreatePersonal(t)
    <2>1. /\ Sound' /\ Acts(t) /\ req[t].conn = None
          /\ UNCHANGED <<dbVars, shared, promised, torn>>
          /\ req'[t].conn \in Conns \ issued
          /\ req'[t].pc = "save" /\ req'[t].op = "create"
      <3>1. UNCHANGED <<dbVars, shared, promised, torn, raced>>
        BY <1>2 DEF CreatePersonal
      <3>2. QED
        BY <1>2, <3>1, CreatePersonalSound, IdleFacts DEF Acts
    <2>2. \A c \in Clear' : c # None
      BY ConnFacts DEF Clear
    <2>3. Places(req'[t].conn) = {} /\ req'[t].conn \notin promised
      BY <2>1, Fresh
    <2>4. Goes(req'[t], req'[t].conn)
      BY <2>1, <2>3 DEF Goes, Settled, Landed
    <2>5. QED
      BY <2>1, <2>2, <2>4, QuietSingle
  <1>3. QED
    BY <1>1, <1>2

\* A request starts on a connection no other is at work on.
LEMMA Alone ==
  ASSUME Sound, Sound', Single, NEW t \in Threads, Acts(t), req[t] = Idle,
         raced' = raced \cup Contested(t), torn \subseteq torn', NEW c \in Clear', req'[t].conn = c
  PROVE  Settled(c) /\ \A u \in Threads : req[u].conn # c
  <1>1. /\ c # None /\ c \notin raced' /\ Neat(c)
    BY ClearFacts DEF Acts
  <1>2. \A u \in Threads : req[u].conn # c
    BY <1>1, ContestedFacts, IdleFacts
  <1>3. QED
    BY <1>1, <1>2 DEF Neat, Busy

LEMMA FindSingle ==
  ASSUME Sound, Exclusive, Exclusive', Single, NEW t \in Threads, Find(t) \/ DeletePersonal(t)
  PROVE  Single'
  <1>1. /\ Sound' /\ Acts(t) /\ req[t] = Idle /\ raced' = raced \cup Contested(t)
        /\ UNCHANGED <<dbVars, shared, promised, torn>>
        /\ ~req'[t].touched /\ ~Landed(req'[t])
        /\ req'[t].op # "create"
        /\ \/ req'[t].pc = "target"
           \/ /\ req'[t].pc = "save" /\ req'[t].src = Vault /\ req'[t].user \in Users
              /\ req'[t].conn \in vault[req'[t].user]
    BY FindSound, DeletePersonalSound, ConnectionsAssumption DEF Acts, Landed
  <1>2. ASSUME NEW c \in Clear', c \in {req[t].conn, req'[t].conn}
        PROVE  c # req[t].conn /\ c = req'[t].conn /\ Goes(req'[t], c)
    <2>1. c # req[t].conn /\ c = req'[t].conn
      BY <1>1, <1>2, ConnFacts DEF Clear
    <2>2. Settled(c)
      BY <1>1, <2>1, Alone
    <2>3. ASSUME req'[t].pc = "save", NEW p \in Places(c) PROVE Way(req'[t], p)
      <3>1. p = req'[t].user
        BY <1>1, <2>1, <2>2, <2>3, PlacesFacts DEF Settled
      <3>2. Vault \notin Orgs
        BY ConnectionsAssumption
      <3>3. QED
        BY <1>1, <2>3, <3>1, <3>2 DEF Way, Source
    <2>4. QED
      BY <1>1, <2>1, <2>2, <2>3 DEF Goes
  <1>3. QED
    BY <1>1, <1>2, QuietSingle

LEMMA TakeSingle ==
  ASSUME Sound, Exclusive, Exclusive', Single, NEW t \in Threads, Take(t)
  PROVE  Single'
  <1>1. /\ Sound' /\ Acts(t) /\ req[t].pc = "take" /\ Same(t) /\ req'[t].pc = "save" /\ req'[t].touched
        /\ UNCHANGED <<dbVars, shared, promised, torn, raced>>
    BY TakeSound DEF Acts, historyVars
  <1>2. req[t].src = Vault /\ Vault \notin Orgs
    BY <1>1, ReqFacts, ConnectionsAssumption DEF Sound, FlowOf
  <1>3. ASSUME NEW c \in Clear', c = req[t].conn
        PROVE  Goes(req'[t], c)
    <2>1. Goes(req[t], c)
      BY <1>1, <1>3, ClearFacts
    <2>2. \A p \in Places(c) : Way(req'[t], p)
      BY <1>1, <1>2, <2>1 DEF Goes, Way, Goal, Source, Astray, Same
    <2>3. Landed(req[t]) <=> Landed(req'[t])
      BY <1>1 DEF Landed, Same
    <2>4. QED
      BY <1>1, <2>1, <2>2, <2>3 DEF Goes, Same
  <1>4. req'[t].conn = req[t].conn /\ \A o \in Orgs : ~Changing(req[t], o)
    BY <1>1 DEF Same, Changing
  <1>5. QED
    BY <1>1, <1>3, <1>4, QuietSingle

LEMMA FailSingle ==
  ASSUME Sound, Exclusive, Exclusive', Single, NEW t \in Threads, Fail(t)
  PROVE  Single'
  <1>1. /\ Sound' /\ Acts(t) /\ req'[t].conn = None /\ Abandon({t})
        /\ UNCHANGED <<dbVars, shared, promised>>
    BY FailSound, IdleFacts DEF Acts
  <1>2. torn \subseteq torn' /\ (req[t].touched => req[t].conn \in torn')
    BY <1>1 DEF Abandon
  <1>3. ASSUME NEW c \in Clear'
        PROVE  /\ c # None
               /\ c = req[t].conn => Settled(c) /\ \A o \in Orgs : ~Changing(req[t], o)
    <2>1. c # None /\ c \notin torn' /\ (c = req[t].conn => Goes(req[t], c))
      BY <1>1, <1>2, <1>3, ClearFacts DEF Acts
    <2>2. c = req[t].conn => ~req[t].touched
      BY <1>2, <2>1
    <2>3. \A o \in Orgs : Changing(req[t], o) => req[t].touched
      BY FlowFacts
    <2>4. QED
      BY <2>1, <2>2, <2>3 DEF Goes
  <1>4. QED
    BY <1>1, <1>2, <1>3, QuietSingle

LEMMA MintSingle ==
  ASSUME Sound, Exclusive, Exclusive', Single, NEW t \in Threads, Mint(t)
  PROVE  Single'
  <1> PICK c, o, r : c = req'[t].conn /\ o = req[t].dst /\ r = req'[t]
    OBVIOUS
  <1>1. /\ Sound' /\ Acts(t) /\ req[t].conn = None /\ c \in Conns \ issued /\ o \in Orgs
        /\ req[t].pc = "mint"
        /\ Write(o, req[t].there, shared[o] \cup {c})
        /\ r.dst = o /\ r.there = req[t].there /\ r.pc = "put" /\ r.op = "create"
        /\ r.touched <=> ~r.there.stored
        /\ UNCHANGED <<vault, rows, promised, torn, raced>>
    BY MintSound DEF Mint, Acts, dbVars
  <1>2. /\ \A p \in Orgs : p # o => shared'[p] = shared[p]
        /\ IF r.there.stored THEN shared' = shared ELSE shared'[o] = shared[o] \cup {c}
    BY <1>1 DEF Write, Sound, Stores
  <1>3. ~r.there.stored => o \in Provisioned
    BY <1>1, FlowFacts, ReqFacts DEF Sound, FlowOf
  <1>4. \A p \in Orgs \ Provisioned : shared'[p] = {}
    BY <1>2, <1>3 DEF Single
  <1>5. \A d : d # c => Undisturbed(d) /\ (d \in promised' <=> d \in promised)
    BY <1>1, <1>2 DEF Undisturbed
  <1>6. /\ Places(c) = {} /\ c \notin promised
        /\ \A p \in Orgs : c \notin shared[p] /\ c \notin Helm[p].conns
    BY <1>1, Fresh
  <1>7. \A p \in Places(c)' : p = o /\ ~r.there.stored
    BY <1>1, <1>2, <1>6, PlacesFacts, PlacesFactsNext
  <1>8. Goes(req[t], c)'
    <2>1. r.touched \/ Settled(c)'
      BY <1>1, <1>6, <1>7 DEF Settled
    <2>2. \A p \in Places(c)' : Way(r, p)
      BY <1>1, <1>7 DEF Way, Goal
    <2>3. ~Landed(r)
      BY <1>1 DEF Landed
    <2>4. QED
      BY <1>1, <1>6, <2>1, <2>2, <2>3 DEF Goes, Way, Goal, Source, Landed
  <1>9. Provision(c)'
    <2> SUFFICES ASSUME NEW p \in Orgs, ~(c \in shared'[p] <=> c \in Helm[p].conns)
                 PROVE  req'[t].conn = c /\ Changing(req'[t], p)
      BY DEF Provision, Changing
    <2>1. p = o /\ ~r.there.stored
      BY <1>2, <1>6
    <2>2. QED
      BY <1>1, <2>1 DEF Changing
  <1>10. \A d \in Clear' : d # None
    BY ConnFacts DEF Clear
  <1>11. QED
    BY <1>1, <1>4, <1>5, <1>8, <1>9, <1>10, SingleAct

LEMMA DeleteSharedSingle ==
  ASSUME Sound, Exclusive, Exclusive', Single, NEW t \in Threads, DeleteShared(t)
  PROVE  Single'
  <1> PICK c, o, r : c = req'[t].conn /\ o = req'[t].src /\ r = req'[t]
    OBVIOUS
  <1>1. /\ Sound' /\ Acts(t) /\ req[t] = Idle /\ raced' = raced \cup Contested(t)
        /\ r.pc = "drop" /\ r.op = "delete" /\ r.dst = None /\ o \in Orgs
        /\ r.here \in {rows[o], NoRow} /\ c \in Held(o, r.here)
        /\ Write(o, r.here, shared[o] \ {c})
        /\ UNCHANGED <<vault, rows, promised, torn>>
    BY DeleteSharedSound DEF Acts, dbVars
  <1>2. /\ \A p \in Orgs : p # o => shared'[p] = shared[p]
        /\ IF r.here.stored THEN shared' = shared ELSE shared'[o] = shared[o] \ {c}
    BY <1>1 DEF Write, Sound, Stores
  <1>3. \A p \in Orgs \ Provisioned : shared'[p] = {}
    BY <1>2 DEF Single
  <1>4. \A d : d # c => Undisturbed(d) /\ (d \in promised' <=> d \in promised)
    BY <1>1, <1>2 DEF Undisturbed
  <1>5. r.touched <=> ~r.here.stored
    BY <1>1, ConnectionsAssumption DEF Sound, Reqs, ReqOK, FlowOf
  <1>6. /\ Places(c)' \subseteq Places(c)
        /\ r.here.stored => Places(c)' = Places(c)
    <2>1. \A u \in Users : u \in Places(c)' <=> u \in Places(c)
      BY <1>1, PlacesFacts, PlacesFactsNext
    <2>2. \A p \in Orgs : (c \in shared'[p] => c \in shared[p]) /\ (r.here.stored => shared'[p] = shared[p])
      BY <1>1, <1>2
    <2>3. \A p \in Orgs : p \in Places(c)' => p \in Places(c)
      BY <1>1, <2>2, PlacesFacts, PlacesFactsNext
    <2>4. r.here.stored => \A p \in Orgs : p \in Places(c) => p \in Places(c)'
      BY <1>1, <2>2, PlacesFacts, PlacesFactsNext
    <2>5. Places(c)' \subseteq Users \cup Orgs /\ Places(c) \subseteq Users \cup Orgs
      BY PlacesFacts, PlacesFactsNext
    <2>6. Places(c)' \subseteq Places(c)
      BY <2>1, <2>3, <2>5
    <2>7. r.here.stored => Places(c) \subseteq Places(c)'
      BY <2>4, <2>1, <2>5
    <2>8. QED
      BY <2>6, <2>7
  <1>7. ASSUME c \in Clear' PROVE Provision(c)' /\ Goes(req[t], c)'
    <2>1. Settled(c) /\ Neat(c) /\ \A u \in Threads : req[u].conn # c
      BY <1>1, <1>7, Alone, ClearFacts DEF Acts
    <2>2. ~r.touched => Settled(c)'
      BY <1>1, <1>5, <1>6, <2>1 DEF Settled
    <2>3. ASSUME ~Astray(r)', NEW p \in Places(c)' PROVE Way(r, p)
      <3>1. ~r.here.stored => ~rows[o].stored
        BY <1>1, <2>3 DEF Astray
      <3>2. o \in Places(c)
        BY <1>1, <3>1, PlacesFacts, NoRowFacts DEF Held
      <3>3. p = o
        BY <1>6, <2>1, <2>3, <3>2 DEF Settled
      <3>4. QED
        BY <1>1, <3>3 DEF Way, Source
    <2>4. ~r.here.stored => c \notin shared'[o]
      BY <1>1, <1>2
    <2>5. ~Landed(r)
      BY <1>1 DEF Landed
    <2>6. Goes(r, c)'
      BY <1>1, <2>2, <2>3, <2>4, <2>5 DEF Goes, Way, Goal, Source, Landed
    <2>7. Goes(req[t], c)'
      BY <2>6 DEF Goes, Way, Goal, Source, Landed, Astray
    <2>8. Provision(c)'
      <3> SUFFICES ASSUME NEW p \in Orgs, ~rows'[p].stored, ~(c \in shared'[p] <=> c \in Helm[p].conns)
                   PROVE  req'[t].conn = c /\ Changing(req'[t], p)
        BY DEF Provision, Changing
      <3>1. c \in shared[p] <=> c \in Helm[p].conns
        BY <1>1, <2>1 DEF Neat, Provision
      <3>2. p = o /\ ~r.here.stored
        BY <1>2, <3>1
      <3>3. QED
        BY <1>1, <3>2 DEF Changing
    <2>9. QED
      BY <2>7, <2>8
  <1>8. \A d \in Clear' : d # None
    BY ConnFacts DEF Clear
  <1>9. QED
    BY <1>1, <1>3, <1>4, <1>7, <1>8, IdleFacts, SingleAct

\* What an update is about to change has not left its place.
LEMMA Found ==
  ASSUME Sound, Single, NEW t \in Threads, Acts(t), torn \subseteq torn', req[t].pc = "target",
         raced' = raced \cup {d \in {req[t].conn} : HasLeft(t)}, req[t].conn \in Clear'
  PROVE  /\ Settled(req[t].conn) /\ Source(req[t], IF req[t].src = Vault THEN req[t].user ELSE req[t].src)
         /\ \A p : p \in Places(req[t].conn) <=> p = IF req[t].src = Vault THEN req[t].user ELSE req[t].src
  <1> PICK c, r : c = req[t].conn /\ r = req[t]
    OBVIOUS
  <1>1. /\ c \in Conns /\ c \notin raced' /\ Goes(r, c)
    BY ClearFacts DEF Acts
  <1>2. /\ r.user \in Users /\ r.src \in Orgs \cup {Vault} /\ ~r.touched
    BY ReqFacts DEF Sound, FlowOf
  <1>3. ~HasLeft(t)
    BY <1>1
  <1>4. Vault \notin Orgs
    BY ConnectionsAssumption
  <1>5. (IF r.src = Vault THEN r.user ELSE r.src) \in Places(c)
    <2>1. CASE r.src = Vault
      BY <1>2, <1>3, <2>1, PlacesFacts DEF HasLeft
    <2>2. CASE r.src # Vault
      <3>1. r.src \in Orgs /\ c \in Effective(r.src).conns
        BY <1>2, <1>3, <2>2 DEF HasLeft
      <3>2. QED
        BY <2>2, <3>1 DEF Places
    <2>3. QED
      BY <2>1, <2>2
  <1>6. Settled(c)
    BY <1>1, <1>2 DEF Goes
  <1>7. QED
    BY <1>2, <1>4, <1>5, <1>6 DEF Settled, Source

LEMMA TargetSingle ==
  ASSUME Sound, Exclusive, Exclusive', Single, NEW t \in Threads, Target(t)
  PROVE  Single'
  <1> PICK c, r, s : c = req[t].conn /\ r = req'[t] /\ s = IF r.src = Vault THEN r.user ELSE r.src
    OBVIOUS
  <1> DEFINE puts == /\ r.dst \in Orgs /\ r.pc = "put"
                     /\ Write(r.dst, r.there, shared[r.dst] \cup {c})
                     /\ r.touched <=> ~r.there.stored
             saves == /\ r.dst = Vault /\ r.src = Vault /\ r.pc = "save"
                      /\ ~r.touched /\ shared' = shared
             drops == /\ r.dst = Vault /\ r.src \in Orgs /\ r.pc = "drop"
                      /\ Write(r.src, r.here, shared[r.src] \ {c})
                      /\ r.touched <=> ~r.here.stored
  <1>1. /\ Sound' /\ Acts(t) /\ req[t].pc = "target" /\ Same(t)
        /\ raced' = raced \cup {d \in {c} : HasLeft(t)}
        /\ r.here = req[t].here /\ r.user = req[t].user /\ r.src = req[t].src /\ r.dst = req[t].dst
        /\ r.conn = c /\ r.op = req[t].op
        /\ UNCHANGED <<vault, rows, promised, torn>>
    BY TargetSound DEF Acts, Same, dbVars
  <1>2. puts \/ saves \/ drops
    BY <1>1, TargetSound
  <1>3. r.op = "update" /\ Vault \notin Orgs
    BY <1>1, ReqFacts, ConnectionsAssumption DEF Sound, FlowOf
  <1>4. /\ \A p \in Orgs : shared'[p] = shared[p] \/ Changing(r, p)
        /\ \A d, p : d # c /\ p \in Orgs => (d \in shared'[p] <=> d \in shared[p])
        /\ ~r.touched => shared' = shared
        /\ \A p \in Orgs : c \in shared'[p] => c \in shared[p] \/ (puts /\ p = r.dst)
        /\ drops /\ ~r.here.stored => c \notin shared'[r.src]
    <2>1. CASE puts
      BY <2>1, <1>3 DEF Write, Changing, Sound, Stores
    <2>2. CASE saves
      BY <2>2, <1>3 DEF Changing
    <2>3. CASE drops
      BY <2>3, <1>3 DEF Write, Changing, Sound, Stores
    <2>4. QED
      BY <1>2, <2>1, <2>2, <2>3
  <1>5. \A p \in Orgs \ Provisioned : shared'[p] = {}
    <2>1. \A p \in Orgs : Changing(r, p) => p \in Provisioned
      <3>1. \A o \in Orgs : Changing(req[t], o)' => o \in Provisioned
        BY <1>1, FlowFacts DEF Sound, Reqs, ReqOK, FlowOf, Changing
      <3>2. QED
        BY SMTT(30), <3>1 DEF Changing
    <2>2. QED
      BY <1>4, <2>1 DEF Single
  <1>6. \A d : d # c => Undisturbed(d) /\ (d \in promised' <=> d \in promised)
    BY <1>1, <1>4 DEF Undisturbed
  <1>7. ASSUME c \in Clear' PROVE Provision(c)' /\ Goes(req[t], c)'
    <2>1. /\ Settled(c) /\ Source(r, s) /\ \A p : p \in Places(c) <=> p = s
          /\ Neat(c) /\ c \in Conns /\ c # None /\ c \notin raced'
      BY <1>1, <1>7, Found, ClearFacts DEF Acts, Source
    <2>2. \A p \in Places(c)' : p \in Places(c) \/ (puts /\ p = r.dst)
      BY <1>1, <1>4, PlacesFacts, PlacesFactsNext
    <2>3. ~r.touched => Settled(c)'
      <3>1. ~r.touched => Places(c)' = Places(c)
        BY <1>1, <1>4, EffectiveFacts, EffectiveFactsNext DEF Places
      <3>2. QED
        BY <1>1, <2>1, <3>1 DEF Settled
    <2>4. \A p \in Places(c)' : Way(r, p)
      <3>1. r.pc = "save" => r.src \notin Orgs
        BY <1>2, <1>3
      <3>2. Way(r, s)
        BY <2>1, <3>1 DEF Way
      <3>3. puts => Way(r, r.dst)
        BY DEF Way, Goal
      <3>4. QED
        BY <2>1, <2>2, <3>2, <3>3
    <2>5. ~Landed(r) /\ (r.pc = "drop" => drops)
      BY <1>2, <1>3 DEF Landed
    <2>6. Goes(r, c)'
      BY <1>3, <1>4, <2>3, <2>4, <2>5 DEF Goes, Way, Goal, Source, Landed
    <2>7. Goes(req[t], c)'
      BY <2>6 DEF Goes, Way, Goal, Source, Landed, Astray
    <2>8. Provision(c)'
      <3> SUFFICES ASSUME NEW p \in Orgs, ~rows'[p].stored, ~(c \in shared'[p] <=> c \in Helm[p].conns)
                   PROVE  req'[t].conn = c /\ Changing(req'[t], p)
        BY DEF Provision, Changing
      <3>1. ~Changing(req[t], p)
        BY <1>1 DEF Changing
      <3>2. c \in shared[p] <=> c \in Helm[p].conns
        BY <1>1, <2>1, <3>1, ProvisionKept DEF Neat, Acts
      <3>3. QED
        BY <1>1, <1>4, <3>2
    <2>9. QED
      BY <2>7, <2>8
  <1>8. QED
    BY <1>1, <1>5, <1>6, <1>7, SingleAct

LEMMA PutSingle ==
  ASSUME Sound, Exclusive, Exclusive', Single, NEW t \in Threads, Put(t)
  PROVE  Single'
  <1> PICK c, o, q, r : c = req[t].conn /\ o = req[t].dst /\ q = req[t] /\ r = req'[t]
    OBVIOUS
  <1> DEFINE ends == (q.op = "create" \/ q.src = o) /\ r = Idle /\ shared' = shared
             takes == q.src = Vault /\ Same(t) /\ shared' = shared /\ r.pc = "take"
             leaves == /\ q.src \in Orgs \ {o} /\ Same(t) /\ r.pc = "drop" /\ r.here = q.here
                       /\ Write(q.src, q.here, shared[q.src] \ {c})
  <1>1. /\ Sound' /\ SaveRow(t, o, q.there, Added(t), c)
        /\ promised' = promised \cup {c} /\ UNCHANGED <<vault, torn>>
        /\ \A u \in Threads \ {t} : req'[u] = req[u]
        /\ ends \/ (q.op = "update" /\ r.touched /\ (takes \/ leaves))
    <2>1. /\ Sound' /\ SaveRow(t, o, q.there, Added(t), c)
          /\ promised' = promised \cup {c} /\ UNCHANGED <<vault, torn>>
          /\ \A u \in Threads \ {t} : req'[u] = req[u]
      BY PutSound
    <2>2. \/ q.op = "create" /\ r = Idle /\ shared' = shared
          \/ q.src = o /\ r = Idle /\ shared' = shared
          \/ /\ q.op = "update" /\ q.src = Vault /\ Same(t) /\ shared' = shared
             /\ r.pc = "take" /\ r.touched
          \/ /\ q.op = "update" /\ q.src \in Orgs \ {o} /\ Same(t)
             /\ r.pc = "drop" /\ r.touched /\ r.here = q.here
             /\ Write(q.src, q.here, shared[q.src] \ {c})
      BY PutSound
    <2>3. ends \/ (q.op = "update" /\ r.touched /\ (takes \/ leaves))
      BY SMTT(30), <2>2
    <2>4. QED
      BY <2>1, <2>3
  <1>2. /\ q.pc = "put" /\ FlowOf(q) /\ o \in Orgs /\ c # None /\ RowOK(q.there, issued)
        /\ c \in issued /\ c \in Conns
    BY ZenonT(60), ReqFacts DEF Put, At, Sound, FlowOf, ReqOK, Stores
  <1>3. Added(t) \subseteq issued
    BY <1>2 DEF Added, Sound, Stores, RowOK
  <1>4. /\ Acts(t)
        /\ \A p \in Orgs \ {o} : rows'[p] = rows[p]
        /\ rows'[o].stored /\ rows'[o].conns = Added(t)
        /\ rows[o] # q.there => c \in raced'
    BY SMTT(30), <1>1, <1>2, <1>3, SaveRowSound DEF Sound, Acts
  <1>5. /\ \A p \in Orgs : shared'[p] = shared[p] \/ (leaves /\ ~q.here.stored /\ p = q.src)
        /\ \A d, p : d # c /\ p \in Orgs => (d \in shared'[p] <=> d \in shared[p])
        /\ \A p \in Orgs : shared'[p] \subseteq shared[p]
        /\ leaves /\ ~q.here.stored => c \notin shared'[q.src]
    <2>1. CASE shared' = shared /\ ~leaves
      BY <2>1
    <2>2. CASE leaves
      BY <2>2 DEF Write, Sound, Stores
    <2>3. QED
      BY <1>1, <2>1, <2>2
  <1>6. \A p \in Orgs \ Provisioned : shared'[p] = {}
    BY <1>5 DEF Single
  <1>7. ASSUME NEW d \in Clear', d # c
        PROVE  Undisturbed(d) /\ (d \in promised' <=> d \in promised)
    <2>1. d \notin raced'
      BY DEF Clear
    <2>2. rows[o] = q.there => (d \in Added(t) <=> d \in Effective(o).conns)
      BY <1>2, <1>7, EffectiveFacts DEF Added
    <2>3. d \in rows'[o].conns <=> d \in Effective(o).conns
      BY <1>1, <1>4, <2>1, <2>2 DEF SaveRow, Stale, Differ
    <2>4. \A p \in Orgs : \/ rows'[p] = rows[p]
                          \/ rows'[p].stored /\ (d \in rows'[p].conns <=> d \in Effective(p).conns)
      BY <1>4, <2>3
    <2>5. QED
      BY <1>1, <1>5, <1>7, <2>4 DEF Undisturbed
  <1>8. ASSUME c \in Clear'
        PROVE  Provision(c)' /\ IF r.conn = c THEN Goes(req[t], c)' ELSE Settled(c)'
    <2>1. Neat(c) /\ Goes(q, c) /\ c \notin raced'
      BY <1>1, <1>4, <1>8, ClearFacts DEF Acts
    <2>2. \A p \in Places(c)' : p \in Places(c) \/ p = o
      BY <1>1, <1>4, <1>5, PlacesFacts, PlacesFactsNext
    <2>3. \A p \in Places(c)' : Goal(q, p) \/ Source(q, p)
      <3>1. Goal(q, o)
        BY <1>2 DEF Goal
      <3>2. ~Astray(q)
        BY <1>2 DEF Astray
      <3>3. QED
        BY <1>2, <2>1, <2>2, <3>1, <3>2 DEF Goes, Way
    <2>4. Vault \notin Orgs /\ None \notin Orgs /\ Vault # None
      BY ConnectionsAssumption
    <2>5. CASE ends
      <3>1. \A p \in Places(c)' : p = o
        BY <1>2, <2>3, <2>4, <2>5 DEF Goal, Source, FlowOf
      <3>2. Settled(c)'
        BY <1>1, <3>1 DEF Settled
      <3>3. r.conn # c
        BY <1>2, <2>5, IdleFacts
      <3>4. Provision(c)'
        <4> SUFFICES ASSUME NEW p \in Orgs, ~rows'[p].stored PROVE c \in shared'[p] <=> c \in Helm[p].conns
          BY DEF Provision
        <4>1. p # o /\ rows[p] = rows'[p]
          BY <1>4
        <4>2. ~Changing(q, p)
          BY <1>2, <4>1 DEF Changing
        <4>3. c \in shared[p] <=> c \in Helm[p].conns
          BY <1>2, <1>4, <2>1, <4>1, <4>2, ProvisionKept DEF Neat, Acts
        <4>4. QED
          BY <2>5, <4>3
      <3>5. QED
        BY <3>2, <3>3, <3>4
    <2>6. CASE q.op = "update" /\ r.touched /\ (takes \/ leaves)
      <3>1. /\ r.conn = c /\ r.op = "update" /\ r.dst = o /\ r.src = q.src /\ r.user = q.user
            /\ r.pc \in {"take", "drop"} /\ (r.pc = "drop" => leaves)
        BY <2>6 DEF Same
      <3>2. \A p \in Places(c)' : Way(r, p)
        BY <2>3, <3>1 DEF Way, Goal, Source
      <3>3. r.pc = "drop" /\ ~r.here.stored => c \notin shared'[r.src]
        BY <1>5, <3>1
      <3>4. Goes(r, c)'
        BY <1>1, <2>6, <3>1, <3>2, <3>3 DEF Goes, Way, Goal, Source, Landed
      <3>5. Goes(req[t], c)'
        BY <3>4 DEF Goes, Way, Goal, Source, Landed, Astray
      <3>6. Provision(c)'
        <4> SUFFICES ASSUME NEW p \in Orgs, ~rows'[p].stored, ~(c \in shared'[p] <=> c \in Helm[p].conns)
                     PROVE  req'[t].conn = c /\ Changing(req'[t], p)
          BY DEF Provision, Changing
        <4>1. p # o /\ rows[p] = rows'[p]
          BY <1>4
        <4>2. ~Changing(q, p)
          BY <1>2, <4>1 DEF Changing
        <4>3. c \in shared[p] <=> c \in Helm[p].conns
          BY <1>2, <1>4, <2>1, <4>1, <4>2, ProvisionKept DEF Neat, Acts
        <4>4. leaves /\ ~q.here.stored /\ p = q.src
          BY <1>5, <4>3
        <4>5. QED
          BY <3>1, <4>4 DEF Changing
      <3>7. QED
        BY <3>1, <3>5, <3>6
    <2>7. QED
      BY <1>1, <2>5, <2>6
  <1>9. r.conn \in {c, None} /\ \A d \in Clear' : d # None
    BY <1>1, IdleFacts, ConnFacts DEF Same, Clear
  <1>10. \A d \in Clear' : d \in {req[t].conn, req'[t].conn} => d = c
    BY <1>9
  <1>11. QED
    BY <1>1, <1>4, <1>6, <1>7, <1>8, <1>9, <1>10, SingleAct

LEMMA DropSingle ==
  ASSUME Sound, Exclusive, Exclusive', Single, NEW t \in Threads, Drop(t)
  PROVE  Single'
  <1> PICK c, o, q, r : c = req[t].conn /\ o = req[t].src /\ q = req[t] /\ r = req'[t]
    OBVIOUS
  <1> DEFINE saves == q.dst = Vault /\ q.op = "update" /\ Same(t) /\ r.pc = "save" /\ r.touched
  <1>1. /\ Sound' /\ SaveRow(t, o, q.here, Without(t), c)
        /\ promised' = IF q.op = "delete" THEN promised \ {c} ELSE promised
        /\ UNCHANGED <<vault, shared, torn>>
        /\ \A u \in Threads \ {t} : req'[u] = req[u]
        /\ (q.dst # Vault /\ r = Idle) \/ saves
    BY SMTT(30), DropSound
  <1>2. /\ q.pc = "drop" /\ FlowOf(q) /\ o \in Orgs /\ c # None
        /\ RowOK(q.here, issued) /\ c \in issued /\ c \in Conns
    BY ReqFacts DEF Drop, At, Sound, FlowOf, ReqOK, Stores
  <1>3. Without(t) \subseteq issued
    BY <1>2 DEF Without, Sound, Stores, RowOK
  <1>4. /\ Acts(t)
        /\ \A p \in Orgs \ {o} : rows'[p] = rows[p]
        /\ rows'[o].stored /\ rows'[o].conns = Without(t)
        /\ rows[o] # q.here => c \in raced'
    <2>1. Stores /\ Histories
      BY DEF Sound
    <2>2. /\ \A p \in Orgs \ {o} : rows'[p] = rows[p]
          /\ rows'[o].stored /\ rows'[o].conns = Without(t)
          /\ raced \subseteq raced'
      <3>1. SaveRow(t, o, q.here, Without(t), c)
        BY <1>1
      <3>2. PICK seen, conns : seen = q.here /\ conns = Without(t)
        OBVIOUS
      <3>3. conns \in SUBSET issued /\ SaveRow(t, o, seen, conns, c) /\ RowOK(seen, issued)
        BY <1>2, <1>3, <3>1, <3>2
      <3>4. QED
        BY <1>2, <2>1, <3>2, <3>3, SaveRowSound
    <2>3. rows[o] # q.here => c \in raced'
      BY <1>1 DEF SaveRow
    <2>4. QED
      BY <1>1, <2>2, <2>3 DEF Acts
  <1>5. \A p \in Orgs \ Provisioned : shared'[p] = {}
    BY <1>1 DEF Single
  <1>6. ASSUME NEW d \in Clear', d # c
        PROVE  Undisturbed(d) /\ (d \in promised' <=> d \in promised)
    <2>1. d \notin raced'
      BY DEF Clear
    <2>2. rows[o] = q.here => (d \in Without(t) <=> d \in Effective(o).conns)
      BY <1>2, <1>6, EffectiveFacts DEF Without
    <2>3. d \in rows'[o].conns <=> d \in Effective(o).conns
      BY <1>1, <1>4, <2>1, <2>2 DEF SaveRow, Stale, Differ
    <2>4. \A p \in Orgs : \/ rows'[p] = rows[p]
                          \/ rows'[p].stored /\ (d \in rows'[p].conns <=> d \in Effective(p).conns)
      BY <1>4, <2>3
    <2>5. QED
      BY <1>1, <1>6, <2>4 DEF Undisturbed
  <1>7. ASSUME c \in Clear'
        PROVE  Provision(c)' /\ IF r.conn = c THEN Goes(req[t], c)' ELSE Settled(c)'
    <2>1. Neat(c) /\ Goes(q, c) /\ c \notin raced'
      BY <1>1, <1>4, <1>7, ClearFacts DEF Acts
    <2>2. rows[o] = q.here
      BY <1>4, <2>1
    <2>3. c \notin rows'[o].conns /\ (q.here.stored => o \in Places(c))
      <3>1. CASE q.here.stored
        BY <1>2, <1>4, <2>2, <3>1, PlacesFacts DEF Without, FlowOf
      <3>2. CASE ~q.here.stored
        BY <1>2, <1>4, <2>1, <3>2 DEF Without, Goes
      <3>3. QED
        BY <3>1, <3>2
    <2>4. o \notin Places(c)' /\ \A p \in Places(c)' : p \in Places(c)
      BY <1>1, <1>2, <1>4, <2>3, PlacesFacts, PlacesFactsNext
    <2>5. Vault \notin Orgs /\ None \notin Orgs /\ Vault # None
      BY ConnectionsAssumption
    <2>6. \A p \in Places(c)' : Goal(q, p)
      <3>1. ~Astray(q)
        BY <1>2, <2>2 DEF Astray
      <3>2. \A p \in Places(c)' : Way(q, p)
        BY <1>2, <2>1, <2>4, <3>1 DEF Goes
      <3>3. QED
        BY <1>2, <2>4, <2>5, <3>2 DEF Way, Source
    <2>7. Provision(c)'
      <3> SUFFICES ASSUME NEW p \in Orgs, ~rows'[p].stored PROVE c \in shared'[p] <=> c \in Helm[p].conns
        BY DEF Provision
      <3>1. p # o /\ rows[p] = rows'[p]
        BY <1>4
      <3>2. ~Changing(q, p)
        BY <1>2, <3>1 DEF Changing
      <3>3. c \in shared[p] <=> c \in Helm[p].conns
        BY <1>2, <1>4, <2>1, <3>1, <3>2, ProvisionKept DEF Neat, Acts
      <3>4. QED
        BY <1>1, <3>3
    <2>8. CASE saves
      <3>1. \A p \in Places(c)' : Way(r, p)
        BY <2>6, <2>8 DEF Way, Goal, Same
      <3>2. r.op = "update" /\ ~Landed(r) /\ r.conn = c
        BY <2>5, <2>8 DEF Landed, Same
      <3>3. Goes(r, c)'
        BY <2>8, <3>1, <3>2 DEF Goes, Way, Goal, Source, Landed
      <3>4. Goes(req[t], c)'
        BY <3>3 DEF Goes, Way, Goal, Source, Landed, Astray
      <3>5. QED
        BY <2>7, <3>2, <3>4
    <2>9. CASE q.dst # Vault /\ r = Idle
      <3>1. r.conn # c
        BY <1>2, <2>9, IdleFacts
      <3>2. CASE q.op = "delete"
        <4>1. Places(c)' = {}
          BY <1>2, <2>5, <2>6, <3>2 DEF Goal, FlowOf
        <4>2. QED
          BY <2>7, <3>1, <4>1 DEF Settled
      <3>3. CASE q.op # "delete"
        <4>1. Landed(q) /\ q.dst \in Orgs
          BY <1>2, <2>9, <3>3 DEF FlowOf, Landed
        <4>2. \A p \in Places(c)' : p = q.dst
          BY <2>5, <2>6, <4>1 DEF Goal
        <4>3. c \notin promised => q.dst \notin Places(c)
          BY <2>1, <2>3, <4>1 DEF Goes
        <4>4. Settled(c)'
          BY <1>1, <2>4, <3>3, <4>2, <4>3 DEF Settled
        <4>5. QED
          BY <2>7, <3>1, <4>4
      <3>4. QED
        BY <3>2, <3>3
    <2>10. QED
      BY <1>1, <2>8, <2>9
  <1>8. \A d \in Clear' : d \in {req[t].conn, req'[t].conn} => d = c
    BY <1>1, IdleFacts, ConnFacts DEF Same, Clear
  <1>9. QED
    BY <1>1, <1>4, <1>5, <1>6, <1>7, <1>8, SingleAct

LEMMA SaveSingle ==
  ASSUME Sound, Exclusive, Exclusive', Single, NEW t \in Threads, Save(t)
  PROVE  Single'
  <1> PICK c, u, q : c = req[t].conn /\ u = req[t].user /\ q = req[t]
    OBVIOUS
  <1>1. /\ Sound' /\ Acts(t) /\ q.pc = "save" /\ req'[t] = Idle
        /\ vault'[u] = Result(t) /\ \A v \in Users \ {u} : vault'[v] = vault[v]
        /\ promised' = CASE q.dst = Vault -> promised \cup {c}
                         [] q.op = "delete" -> promised \ {c}
                         [] OTHER -> promised
        /\ vault[u] # q.data => c \in raced' /\ Differ(vault[u], Result(t)) \subseteq raced'
        /\ UNCHANGED <<rows, shared, torn>>
    BY SaveSound DEF Acts
  <1>2. FlowOf(q) /\ c # None /\ u \in Users /\ u = q.user
    BY <1>1, ReqFacts DEF Sound, FlowOf
  <1>3. /\ q.dst = Vault => promised' = promised \cup {c}
        /\ q.dst # Vault /\ q.op = "delete" => promised' = promised \ {c}
        /\ q.dst # Vault /\ q.op # "delete" => promised' = promised
    <2>1. q.dst = Vault => q.op # "delete"
      BY <1>1, <1>2, ConnectionsAssumption DEF FlowOf
    <2>2. q.dst = Vault => promised' = promised \cup {c}
      BY <1>1, <2>1, Zenon
    <2>3. q.dst # Vault /\ q.op = "delete" => promised' = promised \ {c}
      BY <1>1, Zenon
    <2>4. q.dst # Vault /\ q.op # "delete" => promised' = promised
      BY <1>1, Zenon
    <2>5. QED
      BY <2>2, <2>3, <2>4
  <1>4. \A p \in Orgs \ Provisioned : shared'[p] = {}
    BY <1>1 DEF Single
  <1>5. ASSUME NEW d \in Clear', d # c
        PROVE  Undisturbed(d) /\ (d \in promised' <=> d \in promised)
    <2>1. d \notin raced'
      BY DEF Clear
    <2>2. d \in vault'[u] <=> d \in vault[u]
      BY <1>1, <1>5, <2>1 DEF Result, Differ
    <2>3. d \in promised' <=> d \in promised
      BY <1>3, <1>5
    <2>4. QED
      BY <1>1, <2>2, <2>3 DEF Undisturbed
  <1>6. ASSUME c \in Clear' PROVE Provision(c)' /\ Settled(c)'
    <2>1. Neat(c) /\ Goes(q, c) /\ c \notin raced' /\ vault[u] = q.data
      BY <1>1, <1>6, ClearFacts DEF Acts
    <2>2. \A p \in Places(c)' : p = u \/ p \in Places(c)
      BY <1>1, PlacesFacts, PlacesFactsNext
    <2>3. u \in Places(c)' <=> q.dst = Vault
      BY <1>1, <1>2, PlacesFactsNext DEF Result
    <2>4. Vault \notin Orgs /\ None \notin Orgs /\ Vault # None
      BY ConnectionsAssumption
    <2>5. \A p \in Places(c)' : p = u \/ (q.dst \in Orgs /\ p = q.dst)
      <3>1. \A p \in Places(c) : Way(q, p)
        BY <1>1, <2>1 DEF Goes, Astray
      <3>2. QED
        BY <1>1, <1>2, <2>2, <3>1 DEF Way, Goal, Source
    <2>6. Settled(c)'
      <3>1. CASE q.dst = Vault
        BY <1>3, <2>4, <2>5, <3>1 DEF Settled
      <3>2. CASE q.dst = None
        <4>1. Places(c)' = {}
          BY <2>3, <2>4, <2>5, <3>2
        <4>2. QED
          BY <4>1 DEF Settled
      <3>3. CASE q.dst \in Orgs
        <4>1. q.op = "update" /\ Landed(q)
          BY <1>1, <1>2, <2>4, <3>3 DEF FlowOf, Landed
        <4>2. c \notin promised => q.dst \notin Places(c)
          BY <1>1, <2>1, <4>1 DEF Goes
        <4>3. q.dst # u
          BY <1>2, <3>3, ConnectionsAssumption
        <4>4. promised' = promised
          BY <1>3, <2>4, <3>3, <4>1
        <4>5. QED
          BY <2>2, <2>3, <2>4, <2>5, <3>3, <4>2, <4>3, <4>4 DEF Settled
      <3>4. QED
        BY <1>1, <1>2, <3>1, <3>2, <3>3 DEF FlowOf
    <2>7. Provision(c)'
      <3> SUFFICES ASSUME NEW p \in Orgs, ~rows[p].stored PROVE c \in shared[p] <=> c \in Helm[p].conns
        BY <1>1 DEF Provision
      <3>1. ~Changing(q, p)
        BY <1>1 DEF Changing
      <3>2. QED
        BY <1>1, <1>2, <1>6, <2>1, <3>1, ProvisionKept DEF Neat, Acts, Clear
    <2>8. QED
      BY <2>6, <2>7
  <1>7. \A d \in Clear' : d \in {req[t].conn, req'[t].conn} => d = c /\ d # req'[t].conn
    BY <1>1, IdleFacts, ConnFacts DEF Clear
  <1>8. QED
    BY <1>1, <1>4, <1>5, <1>6, <1>7, SingleAct

LEMMA AdminSaveSingle ==
  ASSUME Sound, Single, NEW t \in Threads, AdminSave(t)
  PROVE  Single'
  <1> PICK o, old : o = req[t].dst /\ old = req[t].there.conns
    OBVIOUS
  <1>1. /\ Sound' /\ req'[t] = Idle /\ \A u \in Threads \ {t} : req'[u] = req[u]
        /\ o \in Orgs \ Provisioned /\ req[t].conn = None
        /\ UNCHANGED <<vault, shared, torn>>
    BY AdminSaveSound
  <1>2. PICK m \in SUBSET Users, gone \in SUBSET old, new \in SUBSET (Conns \ issued) :
          AdminSaves(t, m, gone, new)
    BY AdminSaveSound
  <1>3. /\ rows'[o].stored /\ rows'[o].conns = (old \ gone) \cup new
        /\ \A p \in Orgs \ {o} : rows'[p] = rows[p]
        /\ promised' = (promised \cup new) \ gone
        /\ raced \subseteq raced'
        /\ rows[o] # req[t].there => gone \subseteq raced' /\ Differ(rows[o].conns, rows'[o].conns) \subseteq raced'
    BY <1>2 DEF AdminSaves
  <1>4. old \subseteq issued
    BY ReqFacts DEF Sound, RowOK
  <1>5. \A c : c \in Effective(o).conns <=> c \in rows[o].conns
    <2>1. RowOK(rows[o], issued) /\ shared[o] = {}
      BY <1>1 DEF Sound, Stores, Single
    <2>2. QED
      BY <1>1, <2>1, EffectiveFacts, NoRowFacts DEF RowOK
  <1>6. \A p \in Orgs \ Provisioned : shared'[p] = {}
    BY <1>1 DEF Single
  <1>7. ASSUME NEW c \in Clear' PROVE Neat(c)'
    <2>1. c \in Conns /\ c # None /\ c \notin raced' /\ Neat(c)
      BY <1>1, <1>3, <1>7, ClearFacts
    <2>2. \A u \in Threads : req[u].conn = c \/ req'[u].conn = c => req'[u] = req[u]
      BY <1>1, <2>1, IdleFacts
    <2>3. \A p \in Provisioned : rows[p].stored => rows'[p].stored
      BY <1>1, <1>3 DEF Provisioned
    <2>4. CASE c \in new
      <3>1. /\ Places(c) = {} /\ c \notin promised /\ \A u \in Threads : req[u].conn # c
            /\ \A p \in Orgs : c \notin shared[p] /\ c \notin Helm[p].conns
        BY <2>1, <2>4, Fresh
      <3>2. \A p \in Places(c)' : p = o
        BY <1>1, <1>3, <3>1, PlacesFacts, PlacesFactsNext
      <3>3. c \in promised'
        BY <1>3, <1>4, <2>4
      <3>4. Settled(c)'
        BY <3>2, <3>3 DEF Settled
      <3>5. \A u \in Threads : req'[u].conn # c
        BY <2>2, <3>1
      <3>6. Provision(c)'
        BY <1>1, <3>1 DEF Provision
      <3>7. QED
        BY <3>4, <3>5, <3>6 DEF Neat
    <2>5. CASE c \in gone
      <3>1. rows[o] = req[t].there
        BY <1>3, <2>1, <2>5
      <3>2. o \in Places(c) /\ c \notin rows'[o].conns
        BY <1>1, <1>3, <1>4, <1>5, <2>5, <3>1 DEF Places
      <3>3. o \notin Places(c)' /\ Places(c)' \subseteq Places(c)
        BY <1>1, <1>3, <3>2, PlacesFacts, PlacesFactsNext
      <3>4. c \notin promised'
        BY <1>3, <2>5
      <3>5. QED
        BY <1>1, <2>1, <2>2, <2>3, <3>2, <3>3, <3>4, NeatKept DEF Single
    <2>6. CASE c \notin new /\ c \notin gone
      <3>1. c \in rows'[o].conns <=> c \in rows[o].conns
        <4>1. CASE rows[o] = req[t].there
          BY <1>3, <2>6, <4>1
        <4>2. CASE rows[o] # req[t].there
          BY <1>3, <2>1, <4>2 DEF Differ
        <4>3. QED
          BY <4>1, <4>2
      <3>2. Undisturbed(c)
        BY <1>1, <1>3, <1>5, <3>1 DEF Undisturbed
      <3>3. Places(c)' = Places(c)
        BY <3>2, UndisturbedPlaces
      <3>4. c \in promised' <=> c \in promised
        BY <1>3, <2>6
      <3>5. QED
        BY <1>1, <2>1, <2>2, <2>3, <3>3, <3>4, NeatKept DEF Single
    <2>7. QED
      BY <2>4, <2>5, <2>6
  <1>8. QED
    BY <1>6, <1>7 DEF Single

LEMMA AdminDeleteSingle ==
  ASSUME Sound, Single, NEW o \in Orgs, AdminDelete(o)
  PROVE  Single'
  <1>1. /\ rows'[o] = NoRow /\ \A p \in Orgs \ {o} : rows'[p] = rows[p]
        /\ promised' = promised \ rows[o].conns /\ o \notin Provisioned
        /\ UNCHANGED <<vault, shared, req, raced, torn>>
    BY AdminDeleteSound
  <1>2. \A p \in Orgs \ Provisioned : shared'[p] = {}
    BY <1>1 DEF Single
  <1>3. ASSUME NEW c \in Clear' PROVE Neat(c)'
    <2>1. c \in Conns /\ Neat(c)
      BY <1>1, <1>3, ClearFacts
    <2>2. o \notin Places(c)' /\ Places(c)' \subseteq Places(c)
      BY <1>1, <1>2, PlacesFacts, PlacesFactsNext, NoRowFacts
    <2>3. c \in promised /\ c \notin promised' => o \in Places(c)
      <3>1. RowOK(rows[o], issued)
        BY DEF Sound, Stores
      <3>2. QED
        BY <1>1, <3>1, PlacesFacts, NoRowFacts DEF RowOK
    <2>4. \A p \in Provisioned : rows[p].stored => rows'[p].stored
      BY <1>1 DEF Provisioned
    <2>5. QED
      BY <1>1, <2>1, <2>2, <2>3, <2>4, NeatKept DEF Single
  <1>4. QED
    BY <1>2, <1>3 DEF Single

\* At most one element.
LEMMA AtMostOne ==
  ASSUME NEW S, IsFiniteSet(S)
  PROVE  Cardinality(S) <= 1 <=> \A x, y \in S : x = y
  <1>1. Cardinality(S) \in Nat /\ (Cardinality(S) = 0 <=> S = {})
    BY FS_CardinalityType, FS_EmptySet
  <1>2. Cardinality(S) = 1 <=> \E x : S = {x}
    BY FS_Singleton
  <1>3. (\A x, y \in S : x = y) <=> S = {} \/ \E x : S = {x}
    <2>1. ASSUME \A x, y \in S : x = y, S # {} PROVE \E x : S = {x}
      <3> PICK x : x \in S
        BY <2>1
      <3>1. S = {x}
        BY <2>1
      <3>2. QED
        BY <3>1
    <2>2. QED
      BY <2>1
  <1>4. Cardinality(S) <= 1 <=> Cardinality(S) = 0 \/ Cardinality(S) = 1
    <2> PICK n : n = Cardinality(S)
      OBVIOUS
    <2>1. n \in Nat => (n <= 1 <=> n = 0 \/ n = 1)
      OBVIOUS
    <2>2. QED
      BY <1>1, <2>1
  <1>5. QED
    BY <1>1, <1>2, <1>3, <1>4

LEMMA FinitePlaces ==
  ASSUME NEW S, S \subseteq Users \cup Orgs
  PROVE  IsFiniteSet(S)
  BY FS_Union, FS_Subset, ConnectionsAssumption

LEMMA ImportCommitSingle ==
  ASSUME Sound, Single, ImportCommit
  PROVE  Single'
  <1>1. /\ Sound' /\ vault' = tx.file.vault /\ rows' = tx.file.rows
        /\ promised' = {c \in Conns : PlacesIn(tx.file, c) # {}}
        /\ raced \subseteq raced'
        /\ \A c \in Conns : Cardinality(PlacesIn(tx.file, c)) > 1 => c \in raced'
        /\ \A o \in Orgs : ~tx.file.rows[o].stored => Differ(shared[o], Helm[o].conns) \subseteq raced'
        /\ \A t \in Threads : req[t].conn # None => req[t].conn \in raced'
        /\ UNCHANGED <<shared, req, torn>>
    BY ImportCommitSound
  <1>2. \A p \in Orgs \ Provisioned : shared'[p] = {}
    BY <1>1 DEF Single
  <1>3. ASSUME NEW c \in Clear' PROVE Neat(c)'
    <2>1. c \in Conns /\ c # None /\ c \notin raced'
      BY <1>1, <1>3, ClearFacts
    <2>2. \A t \in Threads : req'[t].conn # c
      BY <1>1, <2>1
    <2>3. Places(c)' = PlacesIn(tx.file, c)
      BY <1>1, EffectiveFactsNext DEF Places, PlacesIn
    <2>4. PlacesIn(tx.file, c) \subseteq Users \cup Orgs
      BY DEF PlacesIn
    <2>5. IsFiniteSet(PlacesIn(tx.file, c)) /\ Cardinality(PlacesIn(tx.file, c)) \in Nat
      BY <2>4, FinitePlaces, FS_CardinalityType
    <2>6. Cardinality(PlacesIn(tx.file, c)) <= 1
      BY <1>1, <2>1, <2>5
    <2>7. Settled(c)'
      BY <1>1, <2>1, <2>3, <2>5, <2>6, AtMostOne DEF Settled
    <2>8. Provision(c)'
      BY <1>1, <2>1 DEF Provision, Differ
    <2>9. QED
      BY <2>2, <2>7, <2>8 DEF Neat
  <1>4. QED
    BY <1>2, <1>3 DEF Single

LEMMA RestartSingle ==
  ASSUME Sound, Apart, Single, Restart
  PROVE  Single'
  <1>1. /\ \A t \in Threads : req'[t] = IF t \in elsewhere THEN req[t] ELSE Idle
        /\ \A o \in Orgs : shared'[o] = Helm[o].conns
        /\ Abandon(Threads \ elsewhere)
        /\ UNCHANGED <<vault, rows, promised, raced>>
    BY RestartSound DEF dbVars
  <1>2. /\ torn \subseteq torn'
        /\ \A t \in Threads \ elsewhere : req[t].touched => req[t].conn \in torn'
    BY <1>1 DEF Abandon
  <1>3. \A p \in Orgs \ Provisioned : shared'[p] = {}
    BY <1>1, HelmFacts, NoRowFacts
  <1>4. ASSUME NEW c \in Clear' PROVE Neat(c)'
    <2>1. /\ c \in Conns /\ c # None /\ c \notin torn' /\ Neat(c)
          /\ \A t \in Threads : req[t].conn = c => Goes(req[t], c)
      BY <1>1, <1>2, <1>4, ClearFacts
    <2>2. \A t \in Threads \ elsewhere : req[t].conn = c => ~req[t].touched
      BY <1>2, <2>1
    <2>3. ASSUME NEW o \in Orgs, NEW t \in Threads, req[t].conn = c PROVE ~Changing(req[t], o)
      <3>1. CASE t \in elsewhere
        BY <2>3, <3>1 DEF Apart, FromRows, Changing
      <3>2. CASE t \notin elsewhere
        BY <2>2, <2>3, <3>2, FlowFacts
      <3>3. QED
        BY <3>1, <3>2
    <2>4. \A o \in Orgs : ~rows[o].stored => (c \in shared[o] <=> c \in Helm[o].conns)
      BY <2>1, <2>3 DEF Neat, Provision
    <2>5. Places(c)' = Places(c)
      <3>1. \A o \in Orgs : o \in Places(c)' <=> o \in Places(c)
        BY <1>1, <2>4, PlacesFacts, PlacesFactsNext
      <3>2. \A u \in Users : u \in Places(c)' <=> u \in Places(c)
        BY <1>1, PlacesFacts, PlacesFactsNext
      <3>3. QED
        BY <3>1, <3>2, PlacesFacts, PlacesFactsNext
    <2>6. Settled(c)' <=> Settled(c)
      BY <1>1, <2>5 DEF Settled
    <2>7. ASSUME ~Busy(c)' PROVE Settled(c)
      <3>1. CASE Busy(c)
        <4>1. PICK t \in Threads : req[t].conn = c /\ ~At(t, "idle")
          BY <3>1 DEF Busy
        <4>2. t \notin elsewhere
          BY <1>1, <2>7, <4>1 DEF Busy, At
        <4>3. QED
          BY <2>1, <2>2, <4>1, <4>2 DEF Goes
      <3>2. QED
        BY <2>1, <3>1 DEF Neat
    <2>8. ASSUME NEW t \in Threads, req'[t].conn = c PROVE Goes(req[t], c)'
      <3>1. t \in elsewhere /\ req'[t] = req[t] /\ Goes(req[t], c)
        BY <1>1, <2>1, <2>8, IdleFacts
      <3>2. ~(req[t].pc = "drop" /\ ~req[t].here.stored)
        BY <2>1, <3>1, <2>8, FlowFacts DEF Apart, FromRows
      <3>3. Astray(req[t])' <=> Astray(req[t])
        BY <1>1, <3>1 DEF Astray
      <3>4. \A p : Way(req[t], p)' <=> Way(req[t], p)
        BY <3>1 DEF Way, Goal, Source
      <3>5. Landed(req[t])' <=> Landed(req[t])
        BY <3>1 DEF Landed
      <3>6. QED
        BY <1>1, <2>5, <2>6, <3>1, <3>2, <3>3, <3>4, <3>5 DEF Goes
    <2>9. Provision(c)'
      BY <1>1 DEF Provision
    <2>10. QED
      BY <2>6, <2>7, <2>8, <2>9 DEF Neat
  <1>5. QED
    BY <1>3, <1>4 DEF Single

LEMMA StutterSingle ==
  ASSUME Single, UNCHANGED <<dbVars, shared, req, historyVars>>
  PROVE  Single'
  <1>1. UNCHANGED <<vault, rows, shared, req, promised, raced, torn>>
    BY DEF dbVars, historyVars
  <1>2. Clear' = Clear
    BY <1>1 DEF Clear
  <1>3. \A c : Places(c)' = Places(c)
    BY <1>1, EffectiveFacts, EffectiveFactsNext DEF Places
  <1>4. ASSUME NEW c, Neat(c) PROVE Neat(c)'
    <2>1. Settled(c)' <=> Settled(c)
      BY <1>1, <1>3 DEF Settled
    <2>2. Busy(c)' <=> Busy(c)
      BY <1>1 DEF Busy, At
    <2>3. \A t \in Threads : Goes(req[t], c) => Goes(req[t], c)'
      BY <1>1, <1>3, <2>1 DEF Goes, Way, Goal, Source, Landed, Astray
    <2>4. Provision(c)'
      BY <1>1, <1>4 DEF Neat, Provision, Changing
    <2>5. QED
      BY <1>1, <1>4, <2>1, <2>2, <2>3, <2>4 DEF Neat
  <1>5. QED
    BY <1>1, <1>2, <1>4 DEF Single

LEMMA StepSingle == Sound /\ Apart /\ Exclusive /\ Single /\ [Next]_vars /\ Exclusive' => Single'
  <1> SUFFICES ASSUME Sound, Apart, Exclusive, Single, [Next]_vars, Exclusive' PROVE Single'
    OBVIOUS
  <1>1. ASSUME NEW t \in Threads,
               CreateShared(t) \/ Mint(t) \/ CreatePersonal(t) \/ Find(t) \/ Target(t)
                 \/ DeleteShared(t) \/ DeletePersonal(t)
        PROVE  Single'
    BY <1>1, StartsSingle, MintSingle, FindSingle, TargetSingle, DeleteSharedSingle
  <1>2. ASSUME NEW t \in Threads,
               Put(t) \/ Drop(t) \/ Take(t) \/ Save(t) \/ Fail(t) \/ AdminForm(t) \/ AdminSave(t)
        PROVE  Single'
    BY <1>2, PutSingle, DropSingle, TakeSingle, SaveSingle, FailSingle, StartsSingle, AdminSaveSingle
  <1>3. ASSUME NEW o \in Orgs, AdminDelete(o) PROVE Single'
    BY <1>3, AdminDeleteSingle
  <1>4. CASE ExportVaults \/ ExportOrganizations \/ ImportBegin \/ ImportInsert \/ ImportRollback
    BY <1>4, ExportSound, StutterSingle
  <1>5. CASE ImportCommit \/ Restart
    BY <1>5, ImportCommitSingle, RestartSingle
  <1>6. CASE UNCHANGED vars
    BY <1>6, StutterSingle DEF vars, dbVars, historyVars
  <1>7. QED
    BY <1>1, <1>2, <1>3, <1>4, <1>5, <1>6 DEF Next

LEMMA InitSingle == Init => Single
  <1> SUFFICES ASSUME Init PROVE Single
    OBVIOUS
  <1>1. /\ \A t \in Threads : req[t] = Idle
        /\ \A o \in Orgs : shared[o] = Helm[o].conns /\ ~rows[o].stored
        /\ \A u \in Users : vault[u] = {}
        /\ promised = UNION {Helm[o].conns : o \in Orgs}
    BY EmptyFacts, NoRowFacts DEF Init
  <1>2. \A p \in Orgs \ Provisioned : shared[p] = {}
    BY <1>1, HelmFacts, NoRowFacts
  <1>3. ASSUME NEW c \in Clear PROVE Neat(c)
    <2>1. \A p : p \in Places(c) => p \in Orgs /\ c \in Helm[p].conns
      BY <1>1, PlacesFacts
    <2>2. c \in Conns /\ \A p, q \in Orgs : c \in Helm[p].conns /\ c \in Helm[q].conns => p = q
      BY <1>3 DEF Clear, Ambiguous
    <2>3. Settled(c)
      BY <1>1, <2>1, <2>2 DEF Settled
    <2>4. \A t \in Threads : req[t].conn # c
      BY <1>1, <2>2, ConnFacts
    <2>5. Provision(c)
      BY <1>1 DEF Provision
    <2>6. QED
      BY <2>3, <2>4, <2>5 DEF Neat
  <1>4. QED
    BY <1>2, <1>3 DEF Single

LEMMA SingleIsOne == Single => NoCopy
  <1> SUFFICES ASSUME Single, NEW c \in Clear, ~Busy(c)
               PROVE  Cardinality(Places(c)) <= IF c \in promised THEN 1 ELSE 0
    BY DEF NoCopy, Clear
  <1>1. Settled(c)
    BY DEF Single, Neat
  <1>2. IsFiniteSet(Places(c))
    BY PlacesFacts, FinitePlaces
  <1>3. Cardinality(Places(c)) <= 1
    BY <1>1, <1>2, AtMostOne DEF Settled
  <1>4. CASE c \notin promised
    BY <1>1, <1>4, FS_EmptySet DEF Settled
  <1>5. QED
    BY <1>3, <1>4

-----------------------------------------------------------------------------
(* Theorems                                                                 *)

LEMMA MembersInit == Init => MembersAsGranted /\ Backup
  <1> SUFFICES ASSUME Init PROVE MembersAsGranted /\ Backup
    OBVIOUS
  <1>1. \A o \in Orgs : rows[o] = NoRow /\ granted[o] = Helm[o].members
    BY EmptyFacts DEF Init
  <1>2. MembersAsGranted
    BY <1>1, EffectiveFacts, NoRowFacts DEF MembersAsGranted
  <1>3. QED
    BY <1>2 DEF Init, Backup, ExportsAreSnapshots

\* Rows, shared maps and requests keep their types.
THEOREM TypeCorrect == Spec => []TypeOK
  <1>1. Init => Sound /\ elsewhere \subseteq Threads
    BY InitSound DEF Init
  <1>2. Sound /\ elsewhere \subseteq Threads /\ [Next]_vars => (Sound /\ elsewhere \subseteq Threads)'
    BY StepSound DEF Next, vars
  <1>3. QED
    BY <1>1, <1>2, SoundTypes, PTL DEF Spec

\* Members of an organization are whom an administrator or Helm named last,
\* whatever requests save, unless one of them overwrote the row unread.
THEOREM MembersAreKept == Spec => []MembersAsGranted
  <1>1. Init => Sound /\ MembersAsGranted
    BY InitSound, MembersInit
  <1>2. Sound /\ MembersAsGranted /\ [Next]_vars => (Sound /\ MembersAsGranted)'
    BY StepSound, MembersStep
  <1>3. QED
    BY <1>1, <1>2, PTL DEF Spec

\* The vaults an export has read are what the database still holds when it
\* reads the organizations, but for those that another replica has saved:
\* no request of its own process, and no administrator, changes one.
THEOREM ExportsHold == Spec => []ExportsAreSnapshots
  <1>1. Init => Sound /\ Backup
    BY InitSound, MembersInit
  <1>2. Sound /\ Backup /\ [Next]_vars => (Sound /\ Backup)'
    BY StepSound, BackupStep
  <1>3. Backup => ExportsAreSnapshots
    BY DEF Backup
  <1>4. QED
    BY <1>1, <1>2, <1>3, PTL DEF Spec

\* A connection that was created and not deleted is kept somewhere or on its
\* way, whichever requests fail and whenever the process ends, but for saves
\* over unread rows and for changes that end after taking it away.
THEOREM NothingIsLost == Spec => []NotLost
  <1>1. Init => Sound /\ Apart /\ Course
    BY InitSound, ApartInit, InitCourse
  <1>2. Sound /\ Apart /\ Course /\ [Next]_vars => (Sound /\ Apart /\ Course)'
    BY StepSound, ApartStep, StepCourse
  <1>3. Sound /\ Course => NotLost
    BY CourseKeeps
  <1>4. QED
    BY <1>1, <1>2, <1>3, PTL DEF Spec

\* Moved, created or deleted by requests that did not fail half-way, a
\* connection is in one place at most, and a deleted one in none.
THEOREM OnePlaceAtMost == Spec => []NoCopy
  <1>1. Init => Sound /\ Apart /\ Course /\ Single
    BY InitSound, ApartInit, InitCourse, InitSingle
  <1>2. Sound /\ Apart /\ Course /\ Single /\ [Next]_vars => (Sound /\ Apart /\ Course /\ Single)'
    BY StepSound, ApartStep, StepCourse, StepSingle DEF Course
  <1>3. Single => NoCopy
    BY SingleIsOne
  <1>4. QED
    BY <1>1, <1>2, <1>3, PTL DEF Spec
=============================================================================
