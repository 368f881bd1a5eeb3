----------------------------- MODULE VaultSession -----------------------------
(***************************************************************************)
(* The sessions and the vault of one user.  A browser session is an entry  *)
(* of auth.Service.sessions and may hold the master password; the vault is *)
(* one encrypted row of the table vaults.  Handlers run concurrently: each *)
(* checks the session once (Current), works on its own copy of it, and     *)
(* reads and writes the row in separate statements.                        *)
(*                                                                         *)
(* A row decrypts under the password it was encrypted with and no other.   *)
(* Of the vault's data the personal connections are kept; the theme and    *)
(* the fields of a connection are left out.                                *)
(***************************************************************************)
EXTENDS Naturals

CONSTANTS
    Sids,       \* the session ids random(24) may return
    Passwords,  \* the master passwords of 10 characters or more
    Conns,      \* the connection ids uuid.NewString may return
    Threads,    \* the requests in progress at one time
    None        \* "": no password, no id

ASSUME VaultAssumption == None \notin Sids \cup Passwords \cup Conns

VARIABLES
    sessions,   \* session id -> its entry, the zero Session when there is none
    row,        \* the row of vaults, NoRow when there is none
    req,        \* thread -> the request it handles
    issued,     \* the session ids handed out
    under,      \* connection id -> the password it was created under
    promised,   \* the connections there are if changes apply one at a time
    stale,      \* some row was written over that its writer had not read
    destroyed   \* the connections that were in a vault when it was destroyed

vars == <<sessions, row, req, issued, under, promised, stale, destroyed>>
historyVars == <<issued, under, promised, stale, destroyed>>

\* Session: Expires is unset, lies ahead or has passed.
Absent == [expires |-> "unset", password |-> None]
Entry == [expires : {"unset", "ahead", "past"}, password : Passwords \cup {None}]

\* The key of an envelope is its password.
NoRow == [key |-> None, conns |-> {}]
Row == [key : Passwords \cup {None}, conns : SUBSET Conns]

Changes == {"settings", "create", "edit", "remove"}
Request ==
    [op : Changes \cup {"none", "unlock", "lock", "destroy"},
     pc : {"idle", "check", "find", "load", "save", "set", "delete", "lock"},
     sid : Sids \cup {None}, password : Passwords \cup {None},
     conn : Conns \cup {None}, seen : Row]
Idle == [op |-> "none", pc |-> "idle", sid |-> None, password |-> None,
         conn |-> None, seen |-> NoRow]

Accepted(s) == sessions[s].expires = "ahead"

At(t, p) == req[t].pc = p
Goto(t, p) == req' = [req EXCEPT ![t].pc = p]
Finish(t) == req' = [req EXCEPT ![t] = Idle]

\* Load returns no error: there is no row, or it decrypts.
Opens(p) == row.key \in {None, p}

Init ==
    /\ sessions = [s \in Sids |-> Absent]
    /\ row = NoRow
    /\ req = [t \in Threads |-> Idle]
    /\ issued = {}
    /\ under = [c \in Conns |-> None]
    /\ promised = {} /\ stale = FALSE /\ destroyed = {}

-----------------------------------------------------------------------------
(* Sessions                                                                 *)

\* The OIDC callback.
StartSession(s) ==
    /\ s \notin issued
    /\ issued' = issued \cup {s}
    /\ sessions' = [sessions EXCEPT ![s] =
                      [expires |-> "ahead", password |-> None]]
    /\ UNCHANGED <<row, req, under, promised, stale, destroyed>>

\* Twelve hours have passed; nobody removes the entry.
Expire(s) ==
    /\ Accepted(s)
    /\ sessions' = [sessions EXCEPT ![s].expires = "past"]
    /\ UNCHANGED <<row, req, historyVars>>

Logout(s) ==
    /\ s \in issued
    /\ sessions' = [sessions EXCEPT ![s] = Absent]
    /\ UNCHANGED <<row, req, historyVars>>

\* The process ends and is started again: its sessions are gone.
Restart ==
    /\ sessions' = [s \in Sids |-> Absent]
    /\ req' = [t \in Threads |-> Idle]
    /\ UNCHANGED <<row, historyVars>>

-----------------------------------------------------------------------------
(* The handlers                                                             *)

Handle(t, o, p, s, w, c) ==
    req' = [req EXCEPT ![t] = [op |-> o, pc |-> p, sid |-> s, password |-> w,
                               conn |-> c, seen |-> NoRow]]

\* A request arrives and Current accepts its cookie.  A change needs the
\* password of the session, and an edit or a removal names a connection that
\* some list once showed.
Arrive(t) ==
    /\ At(t, "idle")
    /\ \E s \in Sids :
         /\ Accepted(s)
         /\ \/ \E p \in Passwords : Handle(t, "unlock", "load", s, p, None)
            \/ Handle(t, "lock", "lock", s, None, None)
            \/ Handle(t, "destroy", "delete", s, None, None)
            \/ /\ sessions[s].password # None
               /\ \/ \E o \in {"settings", "create"} :
                       Handle(t, o, "check", s, sessions[s].password, None)
                  \/ \E o \in {"edit", "remove"}, c \in Conns :
                       /\ under[c] # None
                       /\ Handle(t, o, "check", s, sessions[s].password, c)
    /\ UNCHANGED <<sessions, row, historyVars>>

\* The Load of Server.unlocked: the session's password opens the vault.  Only
\* updateSettings goes on with the data it returns.
Check(t) ==
    /\ At(t, "check")
    /\ IF ~Opens(req[t].password) THEN Finish(t)
       ELSE CASE req[t].op = "settings" ->
                   req' = [req EXCEPT ![t].pc = "save", ![t].seen = row]
              [] req[t].op = "edit" -> Goto(t, "find")
              [] OTHER -> Goto(t, "load")
    /\ UNCHANGED <<sessions, row, historyVars>>

\* Mutant of Find: Update goes on without the connection.
FindUnchecked(t) ==
    /\ At(t, "find")
    /\ IF Opens(req[t].password) THEN Goto(t, "load") ELSE Finish(t)
    /\ UNCHANGED <<sessions, row, historyVars>>

\* Update reads the connection it is about to test.
Find(t) ==
    /\ At(t, "find")
    /\ IF Opens(req[t].password) /\ req[t].conn \in row.conns
       THEN Goto(t, "load") ELSE Finish(t)
    /\ UNCHANGED <<sessions, row, historyVars>>

\* The Load of Create and of Update after the S3 test, and removePersonal's.
LoadToChange(t) ==
    /\ At(t, "load")
    /\ req[t].op \in Changes
    /\ \/ /\ Opens(req[t].password)
          /\ req[t].op = "remove" => req[t].conn \in row.conns
          /\ IF req[t].op # "create"
             THEN /\ req' = [req EXCEPT ![t].pc = "save", ![t].seen = row]
                  /\ UNCHANGED under
             ELSE \E c \in Conns :
                    /\ under[c] = None
                    /\ under' = [under EXCEPT ![c] = req[t].password]
                    /\ req' = [req EXCEPT ![t].pc = "save", ![t].seen = row,
                                          ![t].conn = c]
       \/ /\ \/ ~Opens(req[t].password)
             \/ req[t].op = "remove" /\ req[t].conn \notin row.conns
          /\ Finish(t) /\ UNCHANGED under
    /\ UNCHANGED <<sessions, row, issued, promised, stale, destroyed>>

\* Mutant of LoadToUnlock: an empty vault is saved whether or not one exists.
LoadToUnlockAlwaysSaves(t) ==
    /\ At(t, "load")
    /\ req[t].op = "unlock"
    /\ IF Opens(req[t].password)
       THEN req' = [req EXCEPT ![t].pc = "save", ![t].seen = row]
       ELSE Finish(t)
    /\ UNCHANGED <<sessions, row, historyVars>>

\* The Load of unlock: without a vault one is created.
LoadToUnlock(t) ==
    /\ At(t, "load")
    /\ req[t].op = "unlock"
    /\ CASE row.key = None ->
              req' = [req EXCEPT ![t].pc = "save", ![t].seen = row]
         [] row.key = req[t].password -> Goto(t, "set")
         [] OTHER -> Finish(t)
    /\ UNCHANGED <<sessions, row, historyVars>>

\* What a handler makes of the connections it read.
Effect(t, conns) ==
    CASE req[t].op = "unlock" -> {}
      [] req[t].op = "settings" -> conns
      [] req[t].op \in {"create", "edit"} -> conns \cup {req[t].conn}
      [] req[t].op = "remove" -> conns \ {req[t].conn}

\* What the same change makes of the connections one at a time.
Serially(t, conns) == IF req[t].op = "unlock" THEN conns ELSE Effect(t, conns)

\* Mutant of Save: the password is read from the session again.
SaveUnderCurrentKey(t) ==
    /\ At(t, "save")
    /\ row' = [key |-> sessions[req[t].sid].password,
               conns |-> Effect(t, req[t].seen.conns)]
    /\ promised' = Serially(t, promised)
    /\ stale' = (stale \/ row # req[t].seen)
    /\ IF req[t].op = "unlock" THEN Goto(t, "set") ELSE Finish(t)
    /\ UNCHANGED <<sessions, issued, under, destroyed>>

\* Save overwrites the row, whatever it has become.
Save(t) ==
    /\ At(t, "save")
    /\ row' = [key |-> req[t].password, conns |-> Effect(t, req[t].seen.conns)]
    /\ promised' = Serially(t, promised)
    /\ stale' = (stale \/ row # req[t].seen)
    /\ IF req[t].op = "unlock" THEN Goto(t, "set") ELSE Finish(t)
    /\ UNCHANGED <<sessions, issued, under, destroyed>>

\* Mutant of SetPassword: the handler's copy of the session is put back.
SetPasswordRestores(t) ==
    /\ At(t, "set")
    /\ sessions' = [sessions EXCEPT ![req[t].sid] =
                      [expires |-> "ahead", password |-> req[t].password]]
    /\ Finish(t)
    /\ UNCHANGED <<row, historyVars>>

\* SetPassword at the end of unlock; for an id that is no longer in the map
\* it makes an entry with a zero Expires.
SetPassword(t) ==
    /\ At(t, "set")
    /\ sessions' = [sessions EXCEPT ![req[t].sid].password = req[t].password]
    /\ Finish(t)
    /\ UNCHANGED <<row, historyVars>>

\* Lock at the end of lock and of destroyVault.
Lock(t) ==
    /\ At(t, "lock")
    /\ sessions' = [sessions EXCEPT ![req[t].sid].password = None]
    /\ Finish(t)
    /\ UNCHANGED <<row, historyVars>>

\* The Delete of destroyVault.
Delete(t) ==
    /\ At(t, "delete")
    /\ row' = NoRow
    /\ promised' = {}
    /\ destroyed' = destroyed \cup row.conns
    /\ Goto(t, "lock")
    /\ UNCHANGED <<sessions, issued, under, stale>>

\* The body does not decode, S3 refuses the connection or a statement fails.
Fail(t) ==
    /\ req[t].pc \notin {"idle", "set", "lock"}
    /\ Finish(t)
    /\ UNCHANGED <<sessions, row, historyVars>>

Next ==
    \/ \E s \in Sids : StartSession(s) \/ Expire(s) \/ Logout(s)
    \/ \E t \in Threads :
         \/ Arrive(t) \/ Check(t) \/ Find(t) \/ LoadToChange(t)
         \/ LoadToUnlock(t) \/ Save(t) \/ SetPassword(t) \/ Lock(t)
         \/ Delete(t) \/ Fail(t)
    \/ Restart

Spec == Init /\ [][Next]_vars

-----------------------------------------------------------------------------
(* Properties                                                               *)

\* Entries, row and requests keep their types; a vault without a password
\* holds nothing, and only ids that were handed out are accepted.
TypeOK ==
    /\ sessions \in [Sids -> Entry]
    /\ row \in Row /\ (row.key = None => row = NoRow)
    /\ req \in [Threads -> Request]
    /\ issued \subseteq Sids
    /\ \A s \in Sids \ issued : sessions[s] = Absent
    /\ under \in [Conns -> Passwords \cup {None}]
    /\ promised \subseteq Conns /\ stale \in BOOLEAN /\ destroyed \subseteq Conns

\* However unlocks, destroys and changes of several sessions interleave, a
\* connection is only ever encrypted under the master password it was created
\* under: withstands a session that is unlocked again with another password
\* while its requests are still in progress.
KeySeparation == \A c \in row.conns : under[c] = row.key

\* A session that was logged out, expired or lost in a restart is not
\* accepted again, although SetPassword and Lock write its entry without
\* looking.
OverIsOver ==
    [][\A s \in issued : ~Accepted(s) => ~Accepted(s)']_vars

\* As long as no handler overwrites a row it has not read, the vault holds
\* exactly the connections created and not removed or destroyed since.
Serial == ~stale => row.conns = promised

\* The connections a thread may still put into the row.
Held(t) ==
    CASE At(t, "save") -> Effect(t, req[t].seen.conns)
      [] At(t, "load") /\ req[t].op = "edit" -> {req[t].conn}
      [] OTHER -> {}

Gone(c) ==
    /\ under[c] # None
    /\ c \notin row.conns
    /\ \A t \in Threads : c \notin Held(t)

\* A connection that was removed or destroyed, and that no handler in progress
\* has read, never comes back, whatever requests name it.
GoneForGood == [][\A c \in Conns : Gone(c) => Gone(c)']_vars

\* "This permanently deletes every saved connection. It cannot be undone."
DestroyIsFinal == row.conns \cap destroyed = {}

-----------------------------------------------------------------------------
(* The inductive invariant behind the proofs                                *)

\* A request that changes the vault or its session's entry came with an id
\* that was handed out, and holds a password.
Admitted(t) ==
    /\ ~At(t, "idle") => req[t].sid \in issued
    /\ req[t].pc \in {"check", "find", "load", "save", "set"} =>
         req[t].password \in Passwords
    /\ req[t].pc \in {"find", "load", "save"} => req[t].op \in Changes \cup {"unlock"}
    /\ At(t, "find") => req[t].op = "edit"
    /\ At(t, "check") => req[t].op \in Changes
    /\ ~At(t, "idle") /\ req[t].op \in {"edit", "remove"} => req[t].conn \in Conns

\* What a handler is about to save was created under its password.
OwnData(t) ==
    /\ \A c \in Held(t) : c \in Conns /\ under[c] = req[t].password
    /\ At(t, "save") => \A c \in req[t].seen.conns : under[c] = req[t].password
    /\ At(t, "save") /\ req[t].op = "create" => req[t].conn \in Conns
    /\ At(t, "save") /\ req[t].op = "unlock" => req[t].seen = NoRow

\* What holds between any two steps of any number of requests.
IInv ==
    /\ TypeOK /\ KeySeparation /\ Serial
    /\ \A t \in Threads : Admitted(t) /\ OwnData(t)
=============================================================================
