------------------------------ MODULE Connections ------------------------------
(***************************************************************************)
(* Where connections are kept: personal vaults, organizations in the table *)
(* organizations, and organizations provisioned by Helm, whose map of      *)
(* connections all requests of the process share.  Requests create, test,  *)
(* update, move and delete connections in separate statements; an          *)
(* administrator saves and deletes organizations, exports the database and *)
(* imports an export.  Of several replicas over one PostgreSQL database,   *)
(* the one the administrator exports from has its maps and its lock here;  *)
(* requests that others serve share the tables with it only.               *)
(*                                                                         *)
(* Vaults are unlocked (VaultSession models their passwords).  Of an       *)
(* organization the users its groups match and its connections are kept;   *)
(* of a connection its id.                                                 *)
(***************************************************************************)
EXTENDS Naturals, FiniteSets

CONSTANTS
    Users,
    Orgs,      \* organization ids
    Conns,     \* local connection ids
    Threads,   \* the requests in progress at one time
    Helm,      \* s.Organizations when the process starts: org -> row
    Files,     \* the exports an administrator may import
    Vault,     \* the place of a personal connection
    None,      \* "": no connection, no place
    MaxCalls   \* bound: the requests there are

VARIABLES
    vault,       \* user -> the connections in the row of vaults
    rows,        \* org -> its row of organizations, NoRow when there is none
    shared,      \* org -> the map of connections behind s.Organizations
    req,         \* thread -> the request it handles
    elsewhere,   \* the threads of other replicas, which have a Store.mu of their own
    mu,          \* who holds Store.mu across statements
    exporting,   \* an export is between its queries
    copied,      \* the vaults as it has read them
    overtaken,   \* the vaults other replicas have saved since
    tx,          \* the import in progress: its file, the tables it has written
    calls,       \* how many requests there have been
    issued,      \* the connection ids there have been
    promised,    \* the connections there are if requests apply one at a time
    granted,     \* org -> the members the last administrator gave it
    raced,       \* what two requests worked on at one time, or one wrote after it
                 \* had changed since it was read: connections and orgs
    torn,        \* connections of requests that failed after a first change
    dropped      \* those of them that had left their organization

dbVars == <<vault, rows>>
backupVars == <<mu, exporting, copied, overtaken, tx>>
historyVars == <<issued, promised, granted, raced, torn, dropped>>
vars == <<vault, rows, shared, req, calls, elsewhere, mu, exporting, copied, overtaken, tx,
          issued, promised, granted, raced, torn, dropped>>

Row == [stored : BOOLEAN, members : SUBSET Users, conns : SUBSET Conns]
NoRow == [stored |-> FALSE, members |-> {}, conns |-> {}]
Database == [vault : [Users -> SUBSET Conns], rows : [Orgs -> Row]]
Empty == [vault |-> [u \in Users |-> {}], rows |-> [o \in Orgs |-> NoRow]]
NoTx == [file |-> Empty, done |-> {}]

ASSUME ConnectionsAssumption ==
    /\ IsFiniteSet(Users) /\ IsFiniteSet(Orgs)
    /\ Helm \in [Orgs -> Row]
    /\ \A o \in Orgs : ~Helm[o].stored => Helm[o] = NoRow
    /\ Files \subseteq Database
    /\ \A f \in Files, o \in Orgs : ~f.rows[o].stored => f.rows[o] = NoRow
    /\ Vault \notin Orgs /\ None \notin Orgs \cup Conns \cup Users
    /\ Vault # None /\ Conns \cap Orgs = {} /\ Users \cap Orgs = {}
    /\ MaxCalls \in Nat

Provisioned == {o \in Orgs : Helm[o].stored}

\* An id is unique in its organization only: Helm may name it in two.
Ambiguous == {c \in Conns : \E o, p \in Orgs : o # p /\ c \in Helm[o].conns \cap Helm[p].conns}

\* organizationConfig: a stored organization overrides the provisioned one.
Effective(o) ==
    IF rows[o].stored THEN rows[o] ELSE [Helm[o] EXCEPT !.conns = shared[o]]

\* An organization in a handler's hands is the row it was read from, or the
\* provisioned one (NoRow), whose connections are the shared map.
Members(o, seen) == IF seen.stored THEN seen.members ELSE Helm[o].members
Held(o, seen) == IF seen.stored THEN seen.conns ELSE shared[o]

Request ==
    [op : {"none", "create", "update", "delete", "admin"},
     pc : {"idle", "mint", "target", "put", "drop", "take", "save", "form"},
     user : Users \cup {None}, conn : Conns \cup {None},
     src : Orgs \cup {Vault, None}, dst : Orgs \cup {Vault, None},
     here : Row,          \* the organization at src as it was read
     there : Row,         \* the organization at dst
     data : SUBSET Conns, \* the vault as it was loaded
     touched : BOOLEAN]   \* the request has changed something
Idle == [op |-> "none", pc |-> "idle", user |-> None, conn |-> None,
         src |-> None, dst |-> None, here |-> NoRow, there |-> NoRow,
         data |-> {}, touched |-> FALSE]

At(t, p) == req[t].pc = p
Finish(t) == req' = [req EXCEPT ![t] = Idle]
Call == calls < MaxCalls /\ calls' = calls + 1

\* The export keeps the requests of its own process waiting.  An import keeps
\* all waiting: others wait for the rows that its transaction has deleted.
Free(t) == mu = "free" \/ (mu = "export" /\ t \in elsewhere)

Init ==
    /\ vault = Empty.vault /\ rows = Empty.rows
    /\ shared = [o \in Orgs |-> Helm[o].conns]
    /\ req = [t \in Threads |-> Idle] /\ calls = 0 /\ elsewhere \in SUBSET Threads
    /\ mu = "free" /\ exporting = FALSE /\ copied = Empty.vault /\ overtaken = {} /\ tx = NoTx
    /\ issued = UNION {Helm[o].conns : o \in Orgs}
    /\ promised = UNION {Helm[o].conns : o \in Orgs}
    /\ granted = [o \in Orgs |-> Helm[o].members]
    /\ raced = {} /\ torn = {} /\ dropped = {}

-----------------------------------------------------------------------------
(* Requests of members                                                      *)

\* ResolveOrganization: o as the table has it or, when the query fails, as it
\* was provisioned; the user is one of its members.  A provisioned one is in
\* the maps of the replica that serves the request.
Resolves(t, u, o, seen) ==
    /\ seen \in {rows[o], NoRow}
    /\ seen.stored \/ (o \in Provisioned /\ t \notin elsewhere)
    /\ u \in Members(o, seen)

\* The map of a provisioned organization is changed in place.
Write(o, seen, conns) ==
    shared' = IF seen.stored THEN shared ELSE [shared EXCEPT ![o] = conns]

\* The connection of request t if another request is at work on it.
Contested(t) ==
    {c \in Conns : req'[t].conn = c /\ \E r \in Threads \ {t} : req[r].conn = c}

\* Create in an organization, which is resolved before the S3 test.
CreateShared(t) ==
    /\ Call
    /\ At(t, "idle")
    /\ \E u \in Users, o \in Orgs :
         \E seen \in {rows[o], NoRow} :
           /\ Resolves(t, u, o, seen)
           /\ req' = [req EXCEPT ![t] = [Idle EXCEPT !.op = "create", !.pc = "mint",
                                         !.user = u, !.dst = o, !.there = seen]]
    /\ UNCHANGED <<dbVars, shared, backupVars, historyVars>>

\* After the test: the id, and the connection in the organization's map.
Mint(t) ==
    LET o == req[t].dst IN
    /\ At(t, "mint")
    /\ \E c \in Conns \ issued :
         /\ issued' = issued \cup {c}
         /\ Write(o, req[t].there, shared[o] \cup {c})
         /\ req' = [req EXCEPT ![t].pc = "put", ![t].conn = c,
                               ![t].touched = ~req[t].there.stored]
    /\ UNCHANGED <<calls, dbVars, backupVars, promised, granted, raced, torn, dropped>>

\* Create in the vault, up to the Load after the test.
CreatePersonal(t) ==
    /\ Call
    /\ At(t, "idle") /\ Free(t)
    /\ \E u \in Users, c \in Conns \ issued :
         /\ issued' = issued \cup {c}
         /\ req' = [req EXCEPT ![t] = [Idle EXCEPT !.op = "create", !.pc = "save",
                      !.user = u, !.conn = c, !.dst = Vault, !.data = vault[u]]]
    /\ UNCHANGED <<dbVars, shared, backupVars, promised, granted, raced, torn, dropped>>

\* Update finds the connection it is about to test.
Find(t) ==
    /\ Call
    /\ At(t, "idle")
    /\ \E u \in Users, c \in Conns, from, to \in Orgs \cup {Vault} :
         \E seen \in {rows[o] : o \in Orgs \cap {from}} \cup {NoRow} :
         /\ \/ /\ from = Vault /\ Free(t) /\ seen = NoRow
               /\ c \in vault[u]
            \/ /\ from # Vault
               /\ Resolves(t, u, from, seen)
               /\ c \in Held(from, seen)
         /\ req' = [req EXCEPT ![t] = [Idle EXCEPT !.op = "update", !.pc = "target",
                      !.user = u, !.conn = c, !.src = from, !.dst = to, !.here = seen]]
    /\ raced' = raced \cup Contested(t)
    /\ UNCHANGED <<dbVars, shared, backupVars, issued, promised, granted, torn, dropped>>

\* Delete of an organization's connection: looked up and taken out of the map.
DeleteShared(t) ==
    /\ Call
    /\ At(t, "idle")
    /\ \E u \in Users, c \in Conns, o \in Orgs :
         \E seen \in {rows[o], NoRow} :
           /\ Resolves(t, u, o, seen)
           /\ c \in Held(o, seen)
           /\ Write(o, seen, shared[o] \ {c})
           /\ req' = [req EXCEPT ![t] = [Idle EXCEPT !.op = "delete", !.pc = "drop",
                        !.user = u, !.conn = c, !.src = o, !.here = seen,
                        !.touched = ~seen.stored]]
    /\ raced' = raced \cup Contested(t)
    /\ UNCHANGED <<dbVars, backupVars, issued, promised, granted, torn, dropped>>

\* Delete of a personal connection: removePersonal up to its Load.
DeletePersonal(t) ==
    /\ Call
    /\ At(t, "idle") /\ Free(t)
    /\ \E u \in Users, c \in Conns :
         /\ c \in vault[u]
         /\ req' = [req EXCEPT ![t] = [Idle EXCEPT !.op = "delete", !.pc = "save",
                      !.user = u, !.conn = c, !.src = Vault, !.data = vault[u]]]
    /\ raced' = raced \cup Contested(t)
    /\ UNCHANGED <<dbVars, shared, backupVars, issued, promised, granted, torn, dropped>>

\* What Update found may have left its place during the test; it goes on.
HasLeft(t) ==
    req[t].conn \notin IF req[t].src = Vault THEN vault[req[t].user]
                       ELSE Effective(req[t].src).conns

\* Mutant of Target: the personal copy is removed before the target is saved.
TargetTakesFirst(t) ==
    LET from == req[t].src
        to == req[t].dst
        c == req[t].conn
    IN
    /\ At(t, "target")
    /\ to # Vault /\ Free(t)
    /\ \E seen \in {rows[o] : o \in Orgs \cap {to}} \cup {NoRow} :
         /\ Resolves(t, req[t].user, to, seen)
         /\ Write(to, seen, shared[to] \cup {c})
         /\ req' = [req EXCEPT ![t].pc = "put", ![t].there = seen, ![t].touched = TRUE]
         /\ vault' = IF from = Vault THEN [vault EXCEPT ![req[t].user] = @ \ {c}] ELSE vault
    /\ raced' = raced \cup {d \in {c} : HasLeft(t)}
    /\ UNCHANGED <<calls, rows, backupVars, issued, promised, granted, torn, dropped>>

\* Update after the S3 test: the target organization is resolved and changed,
\* or the vault loaded and the source organization changed.
Target(t) ==
    LET from == req[t].src
        to == req[t].dst
        c == req[t].conn
    IN
    /\ At(t, "target")
    /\ \/ /\ to # Vault
          /\ \E seen \in {rows[o] : o \in Orgs \cap {to}} \cup {NoRow} :
               /\ Resolves(t, req[t].user, to, seen)
               /\ Write(to, seen, shared[to] \cup {c})
               /\ req' = [req EXCEPT ![t].pc = "put", ![t].there = seen,
                                     ![t].touched = ~seen.stored]
       \/ /\ to = Vault /\ from = Vault /\ Free(t)
          /\ req' = [req EXCEPT ![t].pc = "save", ![t].data = vault[req[t].user]]
          /\ UNCHANGED shared
       \/ /\ to = Vault /\ from # Vault /\ Free(t)
          /\ Write(from, req[t].here, shared[from] \ {c})
          /\ req' = [req EXCEPT ![t].pc = "drop", ![t].data = vault[req[t].user],
                                ![t].touched = ~req[t].here.stored]
    /\ raced' = raced \cup {d \in {c} : HasLeft(t)}
    /\ UNCHANGED <<calls, dbVars, backupVars, issued, promised, granted, torn, dropped>>

-----------------------------------------------------------------------------
(* The saves                                                                *)

Differ(S, T) == (S \ T) \cup (T \ S)

\* What a save of conns over a row loses or revives if it was not read.
Stale(read, old, new) == IF read THEN {} ELSE Differ(old, new)

\* Mutant of SaveRow: the groups are not carried over.
SaveRowWithoutGroups(t, o, seen, conns, c) ==
    /\ Free(t)
    /\ rows' = [rows EXCEPT ![o] = [stored |-> TRUE, members |-> {}, conns |-> conns]]
    /\ raced' = raced \cup Stale(rows[o] = seen, Effective(o).conns, conns)
                        \cup (IF rows[o] = seen THEN {} ELSE {o, c})

SaveRow(t, o, seen, conns, c) ==
    /\ Free(t)
    /\ rows' = [rows EXCEPT ![o] = [stored |-> TRUE, members |-> Members(o, seen),
                                    conns |-> conns]]
    /\ raced' = raced \cup Stale(rows[o] = seen, Effective(o).conns, conns)
                        \cup (IF rows[o] = seen THEN {} ELSE {o, c})

\* Mutant of Put: an update ends with the save of the target.
PutKeepsOld(t) ==
    LET to == req[t].dst
        c == req[t].conn
        conns == IF req[t].there.stored THEN req[t].there.conns \cup {c} ELSE shared[to]
    IN
    /\ At(t, "put")
    /\ SaveRow(t, to, req[t].there, conns, c)
    /\ promised' = promised \cup {c}
    /\ Finish(t)
    /\ UNCHANGED <<calls, vault, shared, backupVars, issued, granted, torn, dropped>>

\* saveOrganization of the target; then the old copy is given up.
Put(t) ==
    LET from == req[t].src
        to == req[t].dst
        c == req[t].conn
        conns == IF req[t].there.stored THEN req[t].there.conns \cup {c} ELSE shared[to]
    IN
    /\ At(t, "put")
    /\ SaveRow(t, to, req[t].there, conns, c)
    /\ promised' = promised \cup {c}
    /\ \/ /\ req[t].op = "create" \/ from = to
          /\ Finish(t) /\ UNCHANGED shared
       \/ /\ req[t].op = "update" /\ from = Vault
          /\ req' = [req EXCEPT ![t].pc = "take", ![t].there = NoRow, ![t].touched = TRUE]
          /\ UNCHANGED shared
       \/ /\ req[t].op = "update" /\ from \notin {to, Vault}
          /\ Write(from, req[t].here, shared[from] \ {c})
          /\ req' = [req EXCEPT ![t].pc = "drop", ![t].there = NoRow, ![t].touched = TRUE]
    /\ UNCHANGED <<calls, vault, backupVars, issued, granted, torn, dropped>>

\* saveOrganization of the source, as it was read before the test.
Drop(t) ==
    LET from == req[t].src
        c == req[t].conn
        conns == IF req[t].here.stored THEN req[t].here.conns \ {c} ELSE shared[from]
    IN
    /\ At(t, "drop")
    /\ SaveRow(t, from, req[t].here, conns, c)
    /\ promised' = IF req[t].op = "delete" THEN promised \ {c} ELSE promised
    /\ IF req[t].dst = Vault
       THEN req' = [req EXCEPT ![t].pc = "save", ![t].here = NoRow, ![t].touched = TRUE]
       ELSE Finish(t)
    /\ UNCHANGED <<calls, vault, shared, backupVars, issued, granted, torn, dropped>>

\* The Load of removePersonal.
Take(t) ==
    /\ At(t, "take") /\ Free(t)
    /\ req[t].conn \in vault[req[t].user]
    /\ req' = [req EXCEPT ![t].pc = "save", ![t].data = vault[req[t].user]]
    /\ UNCHANGED <<calls, dbVars, shared, backupVars, historyVars>>

\* Vault.Save of what was loaded, with the connection or without it.
Save(t) ==
    LET u == req[t].user
        c == req[t].conn
        conns == IF req[t].dst = Vault THEN req[t].data \cup {c} ELSE req[t].data \ {c}
    IN
    /\ At(t, "save") /\ Free(t)
    /\ vault' = [vault EXCEPT ![u] = conns]
    /\ promised' = CASE req[t].dst = Vault -> promised \cup {c}
                     [] req[t].op = "delete" -> promised \ {c}
                     [] OTHER -> promised
    /\ raced' = raced \cup Stale(vault[u] = req[t].data, vault[u], conns)
                        \cup (IF vault[u] = req[t].data THEN {} ELSE {c})
    /\ overtaken' = IF exporting /\ t \in elsewhere THEN overtaken \cup {u} ELSE overtaken
    /\ Finish(t)
    /\ UNCHANGED <<calls, rows, shared, mu, exporting, copied, tx, issued, granted, torn, dropped>>

\* Requests that had changed something when they ended are torn; a removal or
\* a move to the vault among them has dropped its connection.
Abandon(S) ==
    LET changed == {t \in S : req[t].touched}
    IN  /\ torn' = torn \cup {req[t].conn : t \in changed}
        /\ dropped' = dropped \cup
             {req[t].conn : t \in {r \in changed : req[r].dst \in {Vault, None}}}

\* An error answer: the body, S3's test, a lookup or a statement.
Fail(t) ==
    /\ ~At(t, "idle")
    /\ Abandon({t})
    /\ Finish(t)
    /\ UNCHANGED <<calls, dbVars, shared, backupVars, issued, promised, granted, raced>>

\* The process ends, which a concurrent write of a map may cause, and starts
\* again with the organizations that Helm provisioned.  Other replicas go on.
Restart ==
    /\ Abandon(Threads \ elsewhere)
    /\ req' = [t \in Threads |-> IF t \in elsewhere THEN req[t] ELSE Idle]
    /\ shared' = [o \in Orgs |-> Helm[o].conns]
    /\ mu' = "free" /\ exporting' = FALSE /\ copied' = Empty.vault /\ overtaken' = {} /\ tx' = NoTx
    /\ UNCHANGED <<calls, dbVars, issued, promised, granted, raced>>

-----------------------------------------------------------------------------
(* The administrator                                                        *)

\* The admin page has listed the organizations; o may be new.
AdminForm(t) ==
    /\ Call
    /\ At(t, "idle")
    /\ \E o \in Orgs \ Provisioned :
         req' = [req EXCEPT ![t] = [Idle EXCEPT !.op = "admin", !.pc = "form",
                                    !.dst = o, !.there = rows[o]]]
    /\ UNCHANGED <<dbVars, shared, backupVars, historyVars>>

\* saveAdminOrganization: other members, connections removed or added.
AdminSave(t) ==
    LET o == req[t].dst
        old == req[t].there.conns
    IN
    /\ At(t, "form") /\ Free(t)
    /\ \E m \in SUBSET Users, gone \in SUBSET old, new \in SUBSET (Conns \ issued) :
         LET conns == (old \ gone) \cup new IN
         /\ rows' = [rows EXCEPT ![o] = [stored |-> TRUE, members |-> m, conns |-> conns]]
         /\ granted' = [granted EXCEPT ![o] = m]
         /\ issued' = issued \cup new
         /\ promised' = (promised \cup new) \ gone
         /\ raced' = raced \cup
              (IF rows[o] = req[t].there THEN {}
               ELSE {o} \cup gone \cup Differ(rows[o].conns, conns))
    /\ Finish(t)
    /\ UNCHANGED <<calls, vault, shared, backupVars, torn, dropped>>

\* Mutant of AdminDelete: the row is only marked.
AdminDeleteMarks(o) ==
    /\ Call
    /\ o \notin Provisioned /\ mu = "free"
    /\ rows' = [rows EXCEPT ![o].stored = FALSE]
    /\ granted' = [granted EXCEPT ![o] = {}]
    /\ promised' = promised \ rows[o].conns
    /\ UNCHANGED <<vault, shared, req, backupVars, issued, raced, torn, dropped>>

AdminDelete(o) ==
    /\ Call
    /\ o \notin Provisioned /\ mu = "free"
    /\ rows' = [rows EXCEPT ![o] = NoRow]
    /\ granted' = [granted EXCEPT ![o] = {}]
    /\ promised' = promised \ rows[o].conns
    /\ UNCHANGED <<vault, shared, req, backupVars, issued, raced, torn, dropped>>

\* Mutant of ExportVaults: Store.mu is not held to the end.
ExportVaultsUnlocked ==
    /\ mu = "free" /\ ~exporting
    /\ exporting' = TRUE /\ copied' = vault /\ overtaken' = {}
    /\ UNCHANGED <<calls, dbVars, shared, req, mu, tx, historyVars>>

\* ExportBundle reads the vaults, then the organizations.
ExportVaults ==
    /\ mu = "free" /\ ~exporting
    /\ mu' = "export"
    /\ exporting' = TRUE /\ copied' = vault /\ overtaken' = {}
    /\ UNCHANGED <<calls, dbVars, shared, req, tx, historyVars>>

ExportOrganizations ==
    /\ exporting
    /\ mu' = "free"
    /\ exporting' = FALSE /\ copied' = Empty.vault /\ overtaken' = {}
    /\ UNCHANGED <<calls, dbVars, shared, req, tx, historyVars>>

\* ImportBundle: a transaction that deletes every row ..
ImportBegin ==
    /\ Call
    /\ mu = "free"
    /\ mu' = "import"
    /\ \E f \in Files : tx' = [file |-> f, done |-> {}]
    /\ UNCHANGED <<dbVars, shared, req, exporting, copied, overtaken, historyVars>>

\* .. inserts the vaults, then the organizations ..
ImportInsert ==
    /\ mu = "import"
    /\ \/ tx.done = {} /\ tx' = [tx EXCEPT !.done = {"vaults"}]
       \/ tx.done = {"vaults"} /\ tx' = [tx EXCEPT !.done = @ \cup {"organizations"}]
    /\ UNCHANGED <<calls, dbVars, shared, req, mu, exporting, copied, overtaken, historyVars>>

\* Where a database and the provisioned organizations keep a connection.
PlacesIn(db, c) ==
    {u \in Users : c \in db.vault[u]}
      \cup {o \in Orgs : c \in IF db.rows[o].stored THEN db.rows[o].conns ELSE shared[o]}

\* .. and commits: what there is is what the file says, except for what it
\* names twice, for what a shared map has kept since the process started, and
\* for what requests in progress are about to write.
ImportCommit ==
    /\ mu = "import" /\ tx.done = {"vaults", "organizations"}
    /\ vault' = tx.file.vault /\ rows' = tx.file.rows
    /\ promised' = {c \in Conns : PlacesIn(tx.file, c) # {}}
    /\ issued' = issued \cup promised'
    /\ granted' = [o \in Orgs |-> IF tx.file.rows[o].stored THEN tx.file.rows[o].members
                                  ELSE Helm[o].members]
    /\ raced' = raced
         \cup {c \in Conns : Cardinality(PlacesIn(tx.file, c)) > 1}
         \cup (UNION {Differ(shared[o], Helm[o].conns) :
                       o \in {p \in Orgs : ~tx.file.rows[p].stored}})
         \cup ({req[t].conn : t \in Threads} \ {None})
    /\ mu' = "free" /\ tx' = NoTx
    /\ UNCHANGED <<calls, shared, req, exporting, copied, overtaken, torn, dropped>>

\* An INSERT fails.
ImportRollback ==
    /\ mu = "import"
    /\ mu' = "free" /\ tx' = NoTx
    /\ UNCHANGED <<calls, dbVars, shared, req, exporting, copied, overtaken, historyVars>>

Next ==
    /\ \/ \E t \in Threads :
            \/ CreateShared(t) \/ Mint(t) \/ CreatePersonal(t)
            \/ Find(t) \/ Target(t) \/ DeleteShared(t) \/ DeletePersonal(t)
            \/ Put(t) \/ Drop(t) \/ Take(t) \/ Save(t) \/ Fail(t)
            \/ AdminForm(t) \/ AdminSave(t)
       \/ \E o \in Orgs : AdminDelete(o)
       \/ ExportVaults \/ ExportOrganizations
       \/ ImportBegin \/ ImportInsert \/ ImportCommit \/ ImportRollback
       \/ Restart
    /\ UNCHANGED elsewhere

Spec == Init /\ [][Next]_vars

-----------------------------------------------------------------------------
(* Properties                                                               *)

\* Rows, shared maps and requests keep their types; an organization that was
\* deleted leaves nothing behind in its row.
TypeOK ==
    /\ vault \in [Users -> SUBSET Conns]
    /\ rows \in [Orgs -> Row] /\ \A o \in Orgs : ~rows[o].stored => rows[o] = NoRow
    /\ shared \in [Orgs -> SUBSET Conns]
    /\ req \in [Threads -> Request] /\ calls \in 0..MaxCalls
    /\ mu \in {"free", "export", "import"}
    /\ elsewhere \subseteq Threads
    /\ exporting \in BOOLEAN /\ copied \in [Users -> SUBSET Conns] /\ overtaken \subseteq Users
    /\ tx \in [file : Files \cup {Empty}, done : SUBSET {"vaults", "organizations"}]
    /\ issued \subseteq Conns /\ promised \subseteq issued
    /\ granted \in [Orgs -> SUBSET Users]
    /\ raced \subseteq Conns \cup Orgs /\ torn \subseteq Conns /\ dropped \subseteq Conns

Places(c) ==
    {u \in Users : c \in vault[u]} \cup {o \in Orgs : c \in Effective(o).conns}

Busy(c) == \E t \in Threads : ~At(t, "idle") /\ req[t].conn = c

\* A connection that was created and not deleted is in a vault, in an
\* organization or with the request that moves it.  It is lost only where a
\* save overwrites a row it did not read, or a deletion or a move out of an
\* organization ends between its changes; no move into an organization, and
\* no failure of one, ever loses it.
NotLost ==
    \A c \in promised \ (raced \cup dropped) : Busy(c) \/ Places(c) # {}

\* Once its requests have ended a connection is in one place at most, and a
\* deleted one in none, unless one of them failed half-way or overwrote a row,
\* or Helm gave its id to two organizations.
NoCopy ==
    \A c \in Conns \ (raced \cup torn \cup Ambiguous) :
      Busy(c) \/ Cardinality(Places(c)) <= IF c \in promised THEN 1 ELSE 0

\* Who the members of an organization are is what an administrator or Helm
\* said last, whatever members save, unless a save overwrote the row unread.
MembersAsGranted ==
    \A o \in Orgs \ raced : Effective(o).members = granted[o]

\* The vaults an export has read are still what the database holds when it
\* reads the organizations, even while requests move connections between the
\* two tables: it is the database at one moment.  Only a vault that another
\* replica saves in between is not: Store.mu is a lock of one process, and
\* the queries are in no transaction.
ExportsAreSnapshots == exporting => \A u \in Users \ overtaken : copied[u] = vault[u]
=============================================================================
