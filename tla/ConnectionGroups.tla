--------------------------- MODULE ConnectionGroups ---------------------------
(***************************************************************************)
(* The groups that connections are filed under, in one place: a personal   *)
(* vault, a stored organization or a provisioned one.  A group is a path   *)
(* of names.  The handlers read the place, compute on what they read and   *)
(* save it whole; in a provisioned organization the map of connections is  *)
(* that of all requests and is changed in place.  The configuration, an    *)
(* administrator's save and an import put in paths that nobody validates.  *)
(*                                                                         *)
(* Lists of groups are sets: the handlers drop duplicates and sort.        *)
(***************************************************************************)
EXTENDS Naturals, Sequences, SequencesExt

CONSTANTS
    Names,     \* the names of groups
    Conns,
    Threads,
    Outside,   \* the paths that arrive unvalidated
    MaxDepth,  \* MaxConnectionGroupDepth
    MaxLength, \* bound: no rename makes a longer path
    MaxCalls   \* bound: the requests there are

ASSUME GroupsAssumption ==
    /\ Conns # {} /\ Outside \subseteq Seq(Names)
    /\ MaxDepth \in Nat \ {0} /\ MaxLength \in Nat /\ MaxDepth <= MaxLength
    /\ MaxCalls \in Nat

VARIABLES
    stored,   \* the place has a row: FALSE for a provisioned organization
    row,      \* the row, or the organization as it was provisioned
    shared,   \* the map of connections of the provisioned organization
    req,      \* thread -> its request
    calls,    \* how many requests there have been
    serial,   \* the place if requests apply one at a time
    raced,    \* some request saved what had changed since it was read
    torn,     \* some request failed after it had changed the shared map
    deepened, \* some group was renamed to a longer path
    imposed   \* the paths deeper than the limit that arrived unvalidated

vars == <<stored, row, shared, req, calls, serial, raced, torn, deepened, imposed>>

-----------------------------------------------------------------------------
(* Paths                                                                    *)

\* ValidateConnectionGroupPath, for paths that are not empty.
Valid == UNION {[1..n -> Names] : n \in 1..MaxDepth}

\* What is left of the prefixes of a path once the empty one is gone.
Ancestors(path) == {SubSeq(path, 1, n) : n \in 1..Len(path)}

ConnectionGroupContains(parent, child) ==
    child = parent \/ (parent # <<>> /\ IsPrefix(parent, child))

AppendGroupPath(groups, path) == groups \cup Ancestors(path)
RemoveGroupPath(groups, path) == groups \ {path}
HasGroupPath(path, groups) == \E g \in groups : IsPrefix(path, g)
HasChildGroup(parent, groups) ==
    \E g \in groups : g # parent /\ ConnectionGroupContains(parent, g)
GroupHasConnections(parent, at) ==
    \E c \in Conns : ConnectionGroupContains(parent, at[c])

\* Mutant of RenameGroupPath: descendants keep their path.
RenameExactly(path, old, new) == IF path = old THEN new ELSE path

\* Mutant of RenameGroupPath: the old prefix is not cut off.
RenameKeepsPrefix(path, old, new) == IF IsPrefix(old, path) THEN new \o path ELSE path

RenameGroupPath(path, old, new) ==
    IF IsPrefix(old, path) THEN new \o SubSeq(path, Len(old) + 1, Len(path)) ELSE path

RenameGroupPaths(groups, old, new) == {RenameGroupPath(g, old, new) : g \in groups}

\* What the list of groups shows: every group, every group of a connection
\* and their ancestors.
ConnectionGroupPaths(place) ==
    UNION {Ancestors(p) : p \in place.groups \cup {place.at[c] : c \in Conns}}

-----------------------------------------------------------------------------
(* The handlers                                                             *)

\* The place as a handler reads it.
Current == IF stored THEN row ELSE [row EXCEPT !.at = shared]

\* What a request makes of a place.
Apply(r, place) ==
    CASE r.op = "create" -> [place EXCEPT !.groups = AppendGroupPath(@, r.path)]
      [] r.op = "delete" -> [place EXCEPT !.groups = RemoveGroupPath(@, r.path)]
      [] r.op = "rename" ->
           [groups |-> RenameGroupPaths(place.groups, r.path, r.new),
            at |-> [c \in Conns |-> RenameGroupPath(place.at[c], r.path, r.new)]]
      [] r.op = "file" -> [place EXCEPT !.at[r.conn] = r.path]

At(t, p) == req[t].pc = p
NoPlace == [groups |-> {}, at |-> [c \in Conns |-> <<>>]]
Idle == [op |-> "none", pc |-> "idle", path |-> <<>>, new |-> <<>>,
         conn |-> CHOOSE c \in Conns : TRUE, stored |-> TRUE, seen |-> NoPlace]

\* A place as the configuration, an administrator or a backup has it.
Brought == [groups : SUBSET Outside, at : [Conns -> {<<>>} \cup Outside]]

TooDeep(place) ==
    {p \in place.groups \cup {place.at[c] : c \in Conns} : Len(p) > MaxDepth}

Init ==
    /\ stored \in BOOLEAN
    /\ row \in Brought
    /\ shared = row.at /\ imposed = TooDeep(row)
    /\ req = [t \in Threads |-> Idle]
    /\ calls = 0
    /\ serial = row /\ raced = FALSE /\ torn = FALSE /\ deepened = FALSE

\* A request reads the place and passes the checks; what it changes of the
\* connections of a provisioned organization it changes in place.
Begin(t, r) ==
    /\ At(t, "idle")
    /\ calls < MaxCalls /\ calls' = calls + 1
    /\ req' = [req EXCEPT ![t] = r]
    /\ shared' = IF stored THEN shared ELSE Apply(r, Current).at
    /\ deepened' = (deepened \/ Len(r.new) > Len(r.path))
    /\ UNCHANGED <<stored, row, serial, raced, torn, imposed>>

Reading(o, p) == [Idle EXCEPT !.op = o, !.pc = "save", !.path = p,
                  !.stored = stored, !.seen = Current]

CreateConnectionGroup(t) == \E p \in Valid : Begin(t, Reading("create", p))

DeleteConnectionGroup(t) ==
    \E p \in Valid :
      /\ ~GroupHasConnections(p, Current.at)
      /\ ~HasChildGroup(p, Current.groups)
      /\ Begin(t, Reading("delete", p))

\* Mutant of RenameConnectionGroup: an empty new path is not refused.
RenameToNothing(t) ==
    \E p \in Valid, n \in {<<>>} \cup Valid :
      /\ ~IsPrefix(p, n)
      /\ ~HasGroupPath(n, Current.groups)
      /\ \A q \in Current.groups \cup {Current.at[c] : c \in Conns} :
           Len(RenameGroupPath(q, p, n)) <= MaxLength
      /\ Begin(t, [Reading("rename", p) EXCEPT !.new = n])

RenameConnectionGroup(t) ==
    \E p, n \in Valid :
      /\ ~IsPrefix(p, n)
      /\ ~HasGroupPath(n, Current.groups)
      /\ \A q \in Current.groups \cup {Current.at[c] : c \in Conns} :
           Len(RenameGroupPath(q, p, n)) <= MaxLength
      /\ Begin(t, [Reading("rename", p) EXCEPT !.new = n])

\* An update of a connection files it under another group.
FileConnection(t) ==
    \E c \in Conns, p \in {<<>>} \cup Valid :
      Begin(t, [Reading("file", p) EXCEPT !.conn = c])

\* The place a request is about to save.  The shared map is encoded as it is
\* by then.
ToSave(t) ==
    LET new == Apply(req[t], req[t].seen)
    IN  IF req[t].stored THEN new ELSE [new EXCEPT !.at = shared]

\* Nothing has changed since the request read the place but what it changed.
Untouched(t) ==
    IF req[t].stored THEN stored /\ row = req[t].seen
    ELSE ~stored /\ row.groups = req[t].seen.groups
         /\ shared = Apply(req[t], req[t].seen).at

\* Mutant of Save: a provisioned organization is saved without its groups.
SaveConnectionsOnly(t) ==
    /\ At(t, "save")
    /\ row' = [ToSave(t) EXCEPT !.groups = row.groups]
    /\ stored' = TRUE
    /\ serial' = Apply(req[t], serial)
    /\ raced' = (raced \/ ~Untouched(t))
    /\ req' = [req EXCEPT ![t] = Idle]
    /\ UNCHANGED <<shared, calls, torn, deepened, imposed>>

\* Vault.Save or the organization's Save.
Save(t) ==
    /\ At(t, "save")
    /\ row' = ToSave(t)
    /\ stored' = TRUE
    /\ serial' = Apply(req[t], serial)
    /\ raced' = (raced \/ ~Untouched(t))
    /\ req' = [req EXCEPT ![t] = Idle]
    /\ UNCHANGED <<shared, calls, torn, deepened, imposed>>

\* The save fails; the shared map stays as the request left it.
Fail(t) ==
    /\ At(t, "save")
    /\ req' = [req EXCEPT ![t] = Idle]
    /\ torn' = (torn \/ ~req[t].stored)
    /\ UNCHANGED <<stored, row, shared, calls, serial, raced, deepened, imposed>>

\* An administrator saves the organization of the request's body, or an import
\* brings a row.  The groups are stored as they come.
Replace ==
    /\ calls < MaxCalls /\ calls' = calls + 1
    /\ row' \in Brought
    /\ stored' = TRUE /\ serial' = row'
    /\ imposed' = imposed \cup TooDeep(row')
    /\ UNCHANGED <<shared, req, raced, torn, deepened>>

Stop == calls = MaxCalls /\ (\A t \in Threads : At(t, "idle")) /\ UNCHANGED vars

Next ==
    \/ \E t \in Threads :
         \/ CreateConnectionGroup(t) \/ DeleteConnectionGroup(t)
         \/ RenameConnectionGroup(t) \/ FileConnection(t)
         \/ Save(t) \/ Fail(t)
    \/ Replace \/ Stop

Spec == Init /\ [][Next]_vars

-----------------------------------------------------------------------------
(* Properties                                                               *)

Path == Seq(Names)
Place == [groups : SUBSET Path, at : [Conns -> Path]]
Request ==
    [op : {"none", "create", "delete", "rename", "file"}, pc : {"idle", "save"},
     path : Path, new : Path, conn : Conns, stored : BOOLEAN, seen : Place]

\* Places and requests keep their types, and the path of a group operation
\* is one that was validated.
TypeOK ==
    /\ stored \in BOOLEAN /\ raced \in BOOLEAN /\ torn \in BOOLEAN /\ deepened \in BOOLEAN
    /\ row \in Place /\ serial \in Place /\ shared \in [Conns -> Path]
    /\ req \in [Threads -> Request]
    /\ \A t \in Threads :
         /\ At(t, "save") => Len(req[t].path) <= MaxDepth /\ Len(req[t].new) <= MaxDepth
         /\ req[t].op = "rename" => req[t].path # <<>> /\ req[t].new # <<>>
    /\ imposed \subseteq Path
    /\ calls \in 0..MaxCalls

\* Once the requests have ended the place is what they make one at a time,
\* unless one overwrote another's change or failed in a provisioned place.
Serial ==
    ~raced /\ ~torn /\ (\A t \in Threads : At(t, "idle")) => Current = serial

\* No deeper than the limit, or than what arrived unvalidated.
Allowed(p, deep) == Len(p) <= MaxDepth \/ \E q \in deep : Len(p) <= Len(q)

\* "connection group nesting cannot exceed five levels", says
\* ValidateConnectionGroupPath of the path it is given, and only the requests
\* of members have theirs validated.  Beyond the limit and the deepest path
\* that the configuration, an administrator or an import put in, groups and
\* connections only get by a rename to a longer path, which moves what is
\* inside along unchecked.
DeeperOnlyByRename ==
    ~deepened => \A p \in ConnectionGroupPaths(row) : Allowed(p, imposed)

\* t saves a place nobody else has changed since t read it.
Saves(t, o) ==
    At(t, "save") /\ req'[t].pc = "idle" /\ req[t].op = o /\ row' # row /\ Untouched(t)

\* A deletion takes its group and no other with it but ancestors that only
\* the deleted path implied.  A rename moves the whole subtree, groups and
\* connections alike, leaves nothing behind and touches nothing else.
OnlyTheSubtree ==
    [][ \A t \in Threads :
          LET old == req[t].path
              new == req[t].new
              up == Ancestors(old) \ {old}
              before == ConnectionGroupPaths(req[t].seen)
              after == ConnectionGroupPaths(row')
          IN  /\ Saves(t, "delete") => after \ up = before \ (up \cup {old})
              /\ Saves(t, "rename") /\ old \in before =>
                   after \ up = (RenameGroupPaths(before, old, new) \cup Ancestors(new)) \ up ]_vars
=============================================================================
