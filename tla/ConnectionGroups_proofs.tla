------------------------ MODULE ConnectionGroups_proofs ------------------------
(***************************************************************************)
(* ConnectionGroups keeps its types, no group or connection is deeper than *)
(* the limit and what arrived unvalidated unless a group was renamed to a  *)
(* longer path, and requests that do not overlap apply one at a time.      *)
(***************************************************************************)
EXTENDS ConnectionGroups, SequenceTheorems, TLAPS

-----------------------------------------------------------------------------
(* Paths                                                                    *)

LEMMA ValidPath == \A p \in Valid : p \in Path /\ p # <<>> /\ Len(p) <= MaxDepth /\ Len(p) \in Nat
  <1> TAKE p \in Valid
  <1>1. PICK n \in 1..MaxDepth : p \in [1..n -> Names]
    BY DEF Valid
  <1>2. n \in Nat /\ n > 0 /\ n <= MaxDepth
    BY GroupsAssumption
  <1>3. p \in Seq(Names)
    BY <1>1, <1>2, SeqDef
  <1>4. Len(p) = n
    BY <1>1, <1>2, <1>3, LenProperties
  <1>5. QED
    BY <1>2, <1>3, <1>4, EmptySeq DEF Path

LEMMA EmptyPath == <<>> \in Path /\ Len(<<>>) = 0
  BY EmptySeq DEF Path

\* The part of a path between two of its positions.
LEMMA PartOfPath ==
  ASSUME NEW p \in Path, NEW m \in Nat, NEW n \in Nat, m > 0, n <= Len(p)
  PROVE  /\ SubSeq(p, m, n) \in Path
         /\ Len(SubSeq(p, m, n)) = IF m <= n THEN n - m + 1 ELSE 0
  <1>1. p \in Seq(Names) /\ m \in Int /\ n \in Int
    BY DEF Path
  <1>2. \A i \in m..n : i \in 1..Len(p)
    BY <1>1, LenProperties
  <1>3. \A i \in m..n : p[i] \in Names
    BY <1>1, <1>2, ElementOfSeq
  <1>4. QED
    BY <1>1, <1>3, SubSeqProperties DEF Path

LEMMA PartOf ==
  ASSUME NEW p \in Path, NEW m \in Nat, NEW n \in Nat, m > 0, n <= Len(p)
  PROVE  \A i \in 1..(n - m + 1) : SubSeq(p, m, n)[i] = p[m + i - 1]
  <1>1. p \in Seq(Names) /\ m \in Int /\ n \in Int
    BY DEF Path
  <1>2. \A i \in m..n : i \in 1..Len(p)
    BY <1>1, LenProperties
  <1>3. \A i \in m..n : p[i] \in Names
    BY <1>1, <1>2, ElementOfSeq
  <1>4. QED
    BY <1>1, <1>3, SubSeqProperties

LEMMA AncestorsOfPath ==
  ASSUME NEW p \in Path
  PROVE  \A q \in Ancestors(p) : q \in Path /\ Len(q) <= Len(p)
  <1> TAKE q \in Ancestors(p)
  <1>1. PICK n \in 1..Len(p) : q = SubSeq(p, 1, n)
    BY DEF Ancestors
  <1>2. Len(p) \in Nat
    BY LenProperties DEF Path
  <1>3. n \in Nat /\ 1 <= n /\ n <= Len(p)
    BY <1>2
  <1>4. q \in Path /\ Len(q) = n
    BY <1>1, <1>3, PartOfPath
  <1>5. QED
    BY <1>3, <1>4

\* A renamed path is as much longer as the new name of the group is.
LEMMA RenamedPath ==
  ASSUME NEW p \in Path, NEW old \in Path, NEW new \in Path
  PROVE  /\ RenameGroupPath(p, old, new) \in Path
         /\ Len(new) <= Len(old) => Len(RenameGroupPath(p, old, new)) <= Len(p)
  <1> DEFINE rest == SubSeq(p, Len(old) + 1, Len(p))
  <1>1. Len(p) \in Nat /\ Len(old) \in Nat /\ Len(new) \in Nat
    BY LenProperties DEF Path
  <1>2. CASE IsPrefix(old, p)
    <2>1. Len(old) <= Len(p)
      BY <1>2 DEF IsPrefix
    <2>2. rest \in Path /\ Len(rest) = Len(p) - Len(old)
      BY <1>1, <2>1, PartOfPath
    <2> HIDE DEF rest
    <2>3. new \o rest \in Path /\ Len(new \o rest) = Len(new) + Len(rest)
      BY <2>2, ConcatProperties DEF Path
    <2>4. RenameGroupPath(p, old, new) = new \o rest
      BY <1>2 DEF RenameGroupPath, rest
    <2>5. QED
      BY <1>1, <2>2, <2>3, <2>4
  <1>3. CASE ~IsPrefix(old, p)
    BY <1>1, <1>3 DEF RenameGroupPath
  <1>4. QED
    BY <1>2, <1>3

-----------------------------------------------------------------------------
(* Places                                                                   *)

\* Nothing in the place is deeper than the limit and what arrived unvalidated.
Shallow(place, deep) ==
    /\ \A g \in place.groups : Allowed(g, deep)
    /\ \A c \in Conns : Allowed(place.at[c], deep)

LEMMA ShorterAllowed ==
  ASSUME NEW p \in Path, NEW q \in Path, Len(p) <= Len(q), NEW deep \in SUBSET Path,
         Allowed(q, deep)
  PROVE  Allowed(p, deep)
  <1>1. MaxDepth \in Nat /\ \A x \in Path : Len(x) \in Nat
    BY LenProperties, GroupsAssumption DEF Path
  <1>2. CASE Len(q) <= MaxDepth
    BY <1>1, <1>2 DEF Allowed
  <1>3. CASE \E x \in deep : Len(q) <= Len(x)
    <2>1. PICK x \in deep : Len(q) <= Len(x)
      BY <1>3
    <2>2. Len(p) <= Len(x)
      BY <1>1, <2>1
    <2>3. QED
      BY <2>2 DEF Allowed
  <1>4. QED
    BY <1>2, <1>3 DEF Allowed

\* What arrives deeper counts as imposed from then on.
LEMMA BroughtFacts ==
  ASSUME NEW place \in Brought, NEW deep \in SUBSET Path
  PROVE  /\ place \in Place /\ TooDeep(place) \subseteq Path
         /\ Shallow(place, deep \cup TooDeep(place))
  <1>1. Outside \subseteq Path /\ <<>> \in Path
    BY GroupsAssumption, EmptyPath DEF Path
  <1>2. place \in Place
    BY <1>1 DEF Brought, Place
  <1>3. \A p \in place.groups \cup {place.at[c] : c \in Conns} :
          /\ p \in Path /\ Len(p) \in Nat /\ MaxDepth \in Nat
          /\ ~(Len(p) <= MaxDepth) => p \in TooDeep(place)
    <2> TAKE p \in place.groups \cup {place.at[c] : c \in Conns}
    <2>1. p \in Path
      BY <1>2 DEF Place
    <2>2. Len(p) \in Nat /\ MaxDepth \in Nat
      BY <2>1, LenProperties, GroupsAssumption DEF Path
    <2>3. QED
      BY <2>1, <2>2 DEF TooDeep
  <1>4. \A p \in place.groups \cup {place.at[c] : c \in Conns} : Allowed(p, deep \cup TooDeep(place))
    BY <1>3 DEF Allowed
  <1>5. QED
    BY <1>2, <1>3, <1>4 DEF Shallow, TooDeep

\* More that is imposed only allows more.
LEMMA MoreImposed ==
  ASSUME NEW deep, NEW deeper, deep \subseteq deeper
  PROVE  /\ \A p : Allowed(p, deep) => Allowed(p, deeper)
         /\ \A place : Shallow(place, deep) => Shallow(place, deeper)
  BY DEF Allowed, Shallow

LEMMA ShallowPaths ==
  ASSUME NEW place \in Place, NEW deep \in SUBSET Path, Shallow(place, deep)
  PROVE  \A p \in ConnectionGroupPaths(place) : Allowed(p, deep)
  <1> TAKE p \in ConnectionGroupPaths(place)
  <1>1. PICK q \in place.groups \cup {place.at[c] : c \in Conns} : p \in Ancestors(q)
    BY DEF ConnectionGroupPaths
  <1>2. q \in Path /\ Allowed(q, deep)
    BY <1>1 DEF Place, Shallow
  <1>3. p \in Path /\ Len(p) <= Len(q)
    BY <1>1, <1>2, AncestorsOfPath
  <1>4. QED
    BY <1>2, <1>3, ShorterAllowed

\* What a request that passed its checks holds.
Checked(r) ==
    /\ r \in Request
    /\ r.pc = "save" =>
         /\ r.op # "none"
         /\ Len(r.path) <= MaxDepth /\ Len(r.new) <= MaxDepth
    /\ r.op = "rename" => r.path # <<>> /\ r.new # <<>>

LEMMA ApplyTyped ==
  ASSUME NEW r, Checked(r), r.pc = "save", NEW place \in Place
  PROVE  Apply(r, place) \in Place
  <1>1. r \in Request /\ r.path \in Path /\ r.new \in Path /\ r.conn \in Conns
    BY DEF Checked, Request
  <1>2. place.groups \subseteq Path /\ place.at \in [Conns -> Path]
    BY DEF Place
  <1>3. CASE r.op = "create"
    <2>1. Apply(r, place) = [place EXCEPT !.groups = AppendGroupPath(place.groups, r.path)]
      BY <1>3 DEF Apply
    <2>2. AppendGroupPath(place.groups, r.path) \subseteq Path
      BY <1>1, <1>2, AncestorsOfPath DEF AppendGroupPath
    <2>3. QED
      BY <2>1, <2>2 DEF Place
  <1>4. CASE r.op = "delete"
    <2>1. Apply(r, place) = [place EXCEPT !.groups = RemoveGroupPath(place.groups, r.path)]
      BY <1>4 DEF Apply
    <2>2. RemoveGroupPath(place.groups, r.path) \subseteq Path
      BY <1>2 DEF RemoveGroupPath
    <2>3. QED
      BY <2>1, <2>2 DEF Place
  <1>5. CASE r.op = "rename"
    <2>1. Apply(r, place) = [groups |-> RenameGroupPaths(place.groups, r.path, r.new),
                             at |-> [c \in Conns |-> RenameGroupPath(place.at[c], r.path, r.new)]]
      BY <1>5 DEF Apply
    <2>2. RenameGroupPaths(place.groups, r.path, r.new) \subseteq Path
      BY <1>1, <1>2, RenamedPath DEF RenameGroupPaths
    <2>3. \A c \in Conns : RenameGroupPath(place.at[c], r.path, r.new) \in Path
      BY <1>1, <1>2, RenamedPath
    <2>4. QED
      BY <2>1, <2>2, <2>3 DEF Place
  <1>6. CASE r.op = "file"
    <2>1. Apply(r, place) = [place EXCEPT !.at = [place.at EXCEPT ![r.conn] = r.path]]
      BY <1>6 DEF Apply
    <2>2. QED
      BY <1>1, <1>2, <2>1 DEF Place
  <1>7. QED
    BY <1>1, <1>3, <1>4, <1>5, <1>6 DEF Checked, Request

LEMMA ApplyShallow ==
  ASSUME NEW r, Checked(r), r.pc = "save", NEW place \in Place, NEW deep \in SUBSET Path,
         Shallow(place, deep), Len(r.new) <= Len(r.path) \/ r.op # "rename"
  PROVE  Shallow(Apply(r, place), deep)
  <1>1. /\ r \in Request /\ r.path \in Path /\ r.new \in Path /\ r.conn \in Conns
        /\ Len(r.path) <= MaxDepth
    BY DEF Checked, Request
  <1>2. place.groups \subseteq Path /\ place.at \in [Conns -> Path]
    BY DEF Place
  <1>a. MaxDepth \in Nat /\ \A p \in Path : Len(p) \in Nat
    BY LenProperties, GroupsAssumption DEF Path
  <1>3. CASE r.op = "create"
    <2>1. Apply(r, place) = [place EXCEPT !.groups = AppendGroupPath(place.groups, r.path)]
      BY <1>3 DEF Apply
    <2>2. \A q \in Ancestors(r.path) : Allowed(q, deep)
      BY <1>1, <1>a, AncestorsOfPath, ShorterAllowed DEF Allowed
    <2>3. QED
      BY <2>1, <2>2 DEF Place, Shallow, AppendGroupPath
  <1>4. CASE r.op = "delete"
    <2>1. Apply(r, place) = [place EXCEPT !.groups = RemoveGroupPath(place.groups, r.path)]
      BY <1>4 DEF Apply
    <2>2. QED
      BY <2>1 DEF Place, Shallow, RemoveGroupPath
  <1>5. CASE r.op = "rename"
    <2>1. Apply(r, place) = [groups |-> RenameGroupPaths(place.groups, r.path, r.new),
                             at |-> [c \in Conns |-> RenameGroupPath(place.at[c], r.path, r.new)]]
      BY <1>5 DEF Apply
    <2>2. \A p \in Path : Allowed(p, deep) => Allowed(RenameGroupPath(p, r.path, r.new), deep)
      BY <1>1, <1>5, RenamedPath, ShorterAllowed
    <2>3. QED
      BY <1>2, <2>1, <2>2 DEF Shallow, RenameGroupPaths
  <1>6. CASE r.op = "file"
    <2>1. Apply(r, place) = [place EXCEPT !.at = [place.at EXCEPT ![r.conn] = r.path]]
      BY <1>6 DEF Apply
    <2>2. Allowed(r.path, deep)
      BY <1>1 DEF Allowed
    <2>3. QED
      BY <1>1, <1>2, <2>1, <2>2 DEF Place, Shallow
  <1>7. QED
    BY <1>1, <1>3, <1>4, <1>5, <1>6 DEF Checked, Request

-----------------------------------------------------------------------------
(* The inductive invariant                                                  *)

\* Until a group is renamed to a longer path everything is shallow: the row,
\* the shared map and what requests have read; and no request is about to
\* make it deeper.
Deep(t) ==
    req[t].pc = "save" =>
      /\ Shallow(req[t].seen, imposed)
      /\ Len(req[t].new) <= Len(req[t].path) \/ req[t].op # "rename"
Depth ==
    ~deepened =>
      /\ Shallow(row, imposed)
      /\ \A c \in Conns : Allowed(shared[c], imposed)
      /\ \A t \in Threads : Deep(t)

IInv == TypeOK /\ (\A t \in Threads : Checked(req[t])) /\ Depth

LEMMA PlaceWith ==
  ASSUME NEW place \in Place, NEW f \in [Conns -> Path], NEW deep
  PROVE  /\ [place EXCEPT !.at = f] \in Place
         /\ Shallow(place, deep) /\ (\A c \in Conns : Allowed(f[c], deep)) =>
              Shallow([place EXCEPT !.at = f], deep)
  BY DEF Place, Shallow

LEMMA CurrentFacts ==
  ASSUME TypeOK
  PROVE  /\ Current \in Place
         /\ Shallow(row, imposed) /\ (\A c \in Conns : Allowed(shared[c], imposed)) =>
              Shallow(Current, imposed)
  <1>1. row \in Place /\ shared \in [Conns -> Path] /\ stored \in BOOLEAN
    BY DEF TypeOK
  <1>2. CASE stored
    BY <1>1, <1>2 DEF Current
  <1>3. CASE ~stored
    BY <1>1, <1>3, PlaceWith DEF Current
  <1>4. QED
    BY <1>1, <1>2, <1>3

LEMMA IdleFacts ==
  /\ Idle \in Request /\ Checked(Idle)
  /\ Idle.op = "none" /\ Idle.pc = "idle" /\ Idle.new = <<>> /\ Idle.path = <<>>
  <1>1. NoPlace \in Place
    BY EmptyPath DEF NoPlace, Place
  <1>2. (CHOOSE c \in Conns : TRUE) \in Conns
    BY GroupsAssumption
  <1>3. QED
    BY <1>1, <1>2, EmptyPath DEF Idle, Request, Checked

LEMMA InitIInv == Init => IInv
  <1> SUFFICES ASSUME Init PROVE IInv
    OBVIOUS
  <1>1. row \in Brought /\ imposed = TooDeep(row) /\ shared = row.at /\ serial = row
    BY DEF Init
  <1>2. {} \cup TooDeep(row) = TooDeep(row)
    OBVIOUS
  <1>3. row \in Place /\ imposed \subseteq Path /\ Shallow(row, imposed)
    BY <1>1, <1>2, BroughtFacts
  <1>4. shared \in [Conns -> Path] /\ \A c \in Conns : Allowed(shared[c], imposed)
    BY <1>1, <1>3 DEF Place, Shallow
  <1>6. \A t \in Threads : req[t] = Idle
    BY DEF Init
  <1>7. TypeOK
    <2>1. req \in [Threads -> Request]
      BY IdleFacts DEF Init
    <2>2. \A t \in Threads :
            /\ At(t, "save") => Len(req[t].path) <= MaxDepth /\ Len(req[t].new) <= MaxDepth
            /\ req[t].op = "rename" => req[t].path # <<>> /\ req[t].new # <<>>
      BY <1>6, IdleFacts DEF At
    <2>3. calls \in 0..MaxCalls
      BY GroupsAssumption DEF Init
    <2>4. QED
      BY <1>1, <1>3, <1>4, <2>1, <2>2, <2>3 DEF Init, TypeOK
  <1>8. QED
    BY <1>3, <1>4, <1>6, <1>7, IdleFacts DEF IInv, Depth, Deep

\* A request that passed its checks has read the place as it is.
LEMMA BeginStep ==
  ASSUME IInv, NEW t \in Threads, NEW r, Checked(r), r.pc = "save", Begin(t, r),
         r.seen = Current
  PROVE  IInv'
  <1> USE DEF IInv
  <1>1. Current \in Place
    BY CurrentFacts
  <1>2. Apply(r, Current) \in Place
    BY <1>1, ApplyTyped
  <1>3. shared' \in [Conns -> Path]
    BY <1>2 DEF Begin, TypeOK, Place
  <1>4. req' \in [Threads -> Request] /\ req'[t] = r /\ \A u \in Threads \ {t} : req'[u] = req[u]
    BY DEF Begin, TypeOK, Checked
  <1>5. calls' \in 0..MaxCalls
    BY GroupsAssumption DEF Begin, TypeOK
  <1>6. deepened' \in BOOLEAN
    BY DEF Begin, TypeOK
  <1>7. \A u \in Threads : Checked(req'[u])
    BY <1>4
  <1>8. TypeOK'
    BY <1>3, <1>4, <1>5, <1>6, <1>7 DEF Begin, TypeOK, At, Checked
  <1>9. Depth'
    <2> SUFFICES ASSUME ~deepened' PROVE Depth'
      BY DEF Depth
    <2>1. ~deepened /\ ~(Len(r.new) > Len(r.path))
      BY DEF Begin
    <2>2. Len(r.new) \in Nat /\ Len(r.path) \in Nat
      BY LenProperties DEF Checked, Request, Path
    <2>3. Len(r.new) <= Len(r.path)
      BY <2>1, <2>2
    <2>4. Shallow(Current, imposed)
      BY <2>1, CurrentFacts DEF Depth
    <2>5. Shallow(Apply(r, Current), imposed)
      BY <1>1, <2>3, <2>4, ApplyShallow DEF TypeOK
    <2>6. \A c \in Conns : Allowed(shared'[c], imposed)
      BY <2>1, <2>5 DEF Begin, Depth, Shallow
    <2>7. row' = row /\ imposed' = imposed
      BY DEF Begin
    <2>8. \A u \in Threads : Deep(u)'
      BY <1>4, <2>1, <2>3, <2>4, <2>7 DEF Depth, Deep
    <2>9. QED
      BY <2>1, <2>6, <2>7, <2>8 DEF Depth
  <1>10. QED
    BY <1>7, <1>8, <1>9

\* The request of an operation on a valid path.
LEMMA ReadingFacts ==
  ASSUME TypeOK, NEW o \in {"create", "delete", "file", "rename"}, NEW p \in Path,
         Len(p) <= MaxDepth
  PROVE  /\ Reading(o, p) \in Request
         /\ Reading(o, p).op = o /\ Reading(o, p).pc = "save" /\ Reading(o, p).path = p
         /\ Reading(o, p).new = <<>> /\ Reading(o, p).seen = Current
         /\ Reading(o, p).stored = stored
  <1>1. Current \in Place /\ stored \in BOOLEAN
    BY CurrentFacts DEF TypeOK
  <1>2. PICK i : i = Idle
    OBVIOUS
  <1>3. /\ i \in Request /\ i.new = <<>>
    BY <1>2, IdleFacts
  <1>4. PICK c : c = Current
    OBVIOUS
  <1>5. Reading(o, p) =
          [i EXCEPT !.op = o, !.pc = "save", !.path = p, !.stored = stored, !.seen = c]
    BY <1>2, <1>4, Zenon DEF Reading
  <1>6. c \in Place
    BY <1>1, <1>4
  <1>7. PICK r : r = [i EXCEPT !.op = o, !.pc = "save", !.path = p, !.stored = stored, !.seen = c]
    OBVIOUS
  <1>8. r \in Request
    BY <1>1, <1>3, <1>6, <1>7 DEF Request
  <1>9. /\ r.op = o /\ r.pc = "save" /\ r.path = p /\ r.new = <<>> /\ r.seen = c
        /\ r.stored = stored
    BY <1>3, <1>7 DEF Request
  <1>10. QED
    BY <1>4, <1>5, <1>7, <1>8, <1>9

LEMMA ReadingChecked ==
  ASSUME TypeOK, NEW o \in {"create", "delete", "file"}, NEW p \in Path, Len(p) <= MaxDepth
  PROVE  Checked(Reading(o, p))
  <1>1. Len(<<>>) <= MaxDepth
    BY EmptyPath, GroupsAssumption
  <1>2. QED
    BY <1>1, ReadingFacts DEF Checked

\* A group is only deleted when nothing was filed in it or below it.
Vacant(r) ==
    r.op = "delete" =>
      /\ r.path # <<>>
      /\ ~GroupHasConnections(r.path, r.seen.at) /\ ~HasChildGroup(r.path, r.seen.groups)

\* Every handler begins by reading the place, and goes on with a request that
\* passed the checks.
LEMMA HandlersBegin ==
  ASSUME IInv, NEW t \in Threads,
         \/ CreateConnectionGroup(t) \/ DeleteConnectionGroup(t)
         \/ RenameConnectionGroup(t) \/ FileConnection(t)
  PROVE  \E r : /\ Checked(r) /\ r.pc = "save" /\ Begin(t, r) /\ r.seen = Current
               /\ r.stored = stored /\ Vacant(r)
  <1>0. TypeOK
    BY DEF IInv
  <1>1. CASE CreateConnectionGroup(t)
    <2>1. PICK p \in Valid : Begin(t, Reading("create", p))
      BY <1>1 DEF CreateConnectionGroup
    <2>2. p \in Path /\ Len(p) <= MaxDepth
      BY ValidPath
    <2>3. Checked(Reading("create", p)) /\ Reading("create", p).pc = "save"
            /\ Reading("create", p).seen = Current /\ Reading("create", p).stored = stored
            /\ Reading("create", p).op = "create"
      BY <1>0, <2>2, ReadingFacts, ReadingChecked
    <2>4. QED
      BY <2>1, <2>3 DEF Vacant
  <1>2. CASE DeleteConnectionGroup(t)
    <2>1. PICK p \in Valid : /\ Begin(t, Reading("delete", p))
                            /\ ~GroupHasConnections(p, Current.at)
                            /\ ~HasChildGroup(p, Current.groups)
      BY <1>2 DEF DeleteConnectionGroup
    <2>2. p \in Path /\ Len(p) <= MaxDepth /\ p # <<>>
      BY ValidPath
    <2>3. Checked(Reading("delete", p)) /\ Reading("delete", p).pc = "save"
            /\ Reading("delete", p).seen = Current /\ Reading("delete", p).stored = stored
            /\ Reading("delete", p).path = p
      BY <1>0, <2>2, ReadingFacts, ReadingChecked
    <2>4. Vacant(Reading("delete", p))
      BY <2>1, <2>2, <2>3 DEF Vacant
    <2>5. QED
      BY <2>1, <2>3, <2>4
  <1>3. CASE RenameConnectionGroup(t)
    <2>1. PICK p \in Valid, n \in Valid : Begin(t, [Reading("rename", p) EXCEPT !.new = n])
      BY <1>3 DEF RenameConnectionGroup
    <2>2. /\ p \in Path /\ Len(p) <= MaxDepth /\ p # <<>>
          /\ n \in Path /\ Len(n) <= MaxDepth /\ n # <<>>
      BY ValidPath
    <2>3. PICK r : r = [Reading("rename", p) EXCEPT !.new = n]
      OBVIOUS
    <2>4. PICK q : q = Reading("rename", p)
      OBVIOUS
    <2>5. /\ q \in Request /\ q.op = "rename" /\ q.pc = "save" /\ q.path = p /\ q.seen = Current
          /\ q.stored = stored
      BY <1>0, <2>2, <2>4, ReadingFacts
    <2>6. r = [q EXCEPT !.new = n]
      BY <2>3, <2>4
    <2>7. /\ r \in Request /\ r.op = "rename" /\ r.pc = "save" /\ r.path = p /\ r.new = n
          /\ r.seen = Current /\ r.stored = stored
      BY <2>2, <2>5, <2>6 DEF Request
    <2>8. Checked(r)
      BY <2>2, <2>7 DEF Checked
    <2>9. Begin(t, r)
      BY <2>1, <2>3
    <2>10. QED
      BY <2>7, <2>8, <2>9 DEF Vacant
  <1>4. CASE FileConnection(t)
    <2>1. PICK c \in Conns, p \in {<<>>} \cup Valid :
            Begin(t, [Reading("file", p) EXCEPT !.conn = c])
      BY <1>4 DEF FileConnection
    <2>2. p \in Path /\ Len(p) <= MaxDepth
      BY ValidPath, EmptyPath, GroupsAssumption
    <2>3. PICK r : r = [Reading("file", p) EXCEPT !.conn = c]
      OBVIOUS
    <2>4. PICK q : q = Reading("file", p)
      OBVIOUS
    <2>5. /\ q \in Request /\ q.op = "file" /\ q.pc = "save" /\ q.path = p /\ q.new = <<>>
          /\ q.seen = Current /\ q.stored = stored
      BY <1>0, <2>2, <2>4, ReadingFacts
    <2>6. r = [q EXCEPT !.conn = c]
      BY <2>3, <2>4
    <2>7. /\ r \in Request /\ r.op = "file" /\ r.pc = "save" /\ r.path = p /\ r.new = <<>>
          /\ r.seen = Current /\ r.stored = stored
      BY <2>5, <2>6 DEF Request
    <2>8. Checked(r)
      BY <2>2, <2>7, EmptyPath, GroupsAssumption DEF Checked
    <2>9. Begin(t, r)
      BY <2>1, <2>3
    <2>10. QED
      BY <2>7, <2>8, <2>9 DEF Vacant
  <1>5. QED
    BY <1>1, <1>2, <1>3, <1>4

LEMMA HandlersStep ==
  ASSUME IInv, NEW t \in Threads,
         \/ CreateConnectionGroup(t) \/ DeleteConnectionGroup(t)
         \/ RenameConnectionGroup(t) \/ FileConnection(t)
  PROVE  IInv'
  <1>1. PICK r : /\ Checked(r) /\ r.pc = "save" /\ Begin(t, r) /\ r.seen = Current
                 /\ r.stored = stored
    BY HandlersBegin
  <1>2. QED
    BY <1>1, BeginStep

LEMMA ToSaveFacts ==
  ASSUME IInv, NEW t \in Threads, At(t, "save")
  PROVE  ToSave(t) \in Place /\ (~deepened => Shallow(ToSave(t), imposed))
  <1> DEFINE new == Apply(req[t], req[t].seen)
  <1>1. /\ Checked(req[t]) /\ req[t].pc = "save" /\ req[t].seen \in Place
        /\ req[t].stored \in BOOLEAN /\ shared \in [Conns -> Path]
    BY DEF IInv, At, Checked, Request, TypeOK
  <1>2. new \in Place
    BY <1>1, ApplyTyped
  <1>3. ~deepened => Shallow(new, imposed)
    BY <1>1, ApplyShallow DEF IInv, TypeOK, Depth, Deep
  <1>4. ~deepened => \A c \in Conns : Allowed(shared[c], imposed)
    BY DEF IInv, Depth
  <1>5. ToSave(t) = IF req[t].stored THEN new ELSE [new EXCEPT !.at = shared]
    BY DEF ToSave
  <1> HIDE DEF new
  <1>6. QED
    BY <1>1, <1>2, <1>3, <1>4, <1>5, PlaceWith

LEMMA EndStep ==
  ASSUME IInv, NEW t \in Threads, req' = [req EXCEPT ![t] = Idle],
         TypeOK', UNCHANGED <<shared, deepened, imposed>>, ~deepened => Shallow(row', imposed)
  PROVE  IInv'
  <1>1. req'[t] = Idle /\ \A u \in Threads \ {t} : req'[u] = req[u]
    BY DEF IInv, TypeOK
  <1>2. \A u \in Threads : Checked(req'[u])
    BY <1>1, IdleFacts DEF IInv
  <1>3. ~deepened => \A u \in Threads : Deep(u)'
    BY <1>1, IdleFacts DEF IInv, Depth, Deep
  <1>4. Depth'
    BY <1>3 DEF IInv, Depth
  <1>5. QED
    BY <1>2, <1>4 DEF IInv

LEMMA SavesStep == ASSUME IInv, NEW t \in Threads, Save(t) \/ Fail(t) PROVE IInv'
  <1>1. /\ TypeOK /\ At(t, "save") /\ req' = [req EXCEPT ![t] = Idle]
        /\ shared' = shared /\ deepened' = deepened /\ calls' = calls /\ imposed' = imposed
    BY DEF IInv, Save, Fail
  <1>2. Checked(req[t]) /\ req[t].pc = "save"
    BY <1>1 DEF IInv, At
  <1>3. /\ req' \in [Threads -> Request] /\ req'[t] = Idle
        /\ \A u \in Threads \ {t} : req'[u] = req[u]
    BY <1>1, IdleFacts DEF TypeOK
  <1>4. \A u \in Threads :
          /\ At(u, "save")' => Len(req'[u].path) <= MaxDepth /\ Len(req'[u].new) <= MaxDepth
          /\ req'[u].op = "rename" => req'[u].path # <<>> /\ req'[u].new # <<>>
    BY <1>1, <1>3, IdleFacts DEF TypeOK, At
  <1>5. /\ row' \in Place /\ (~deepened => Shallow(row', imposed))
        /\ serial' \in Place
        /\ stored' \in BOOLEAN /\ raced' \in BOOLEAN /\ torn' \in BOOLEAN
    <2>1. CASE Save(t)
      <3>1. row' = ToSave(t) /\ serial' = Apply(req[t], serial)
        BY <2>1 DEF Save
      <3>2. row' \in Place /\ (~deepened => Shallow(row', imposed))
        BY <1>1, <3>1, ToSaveFacts
      <3>3. serial' \in Place
        BY <1>1, <1>2, <3>1, ApplyTyped DEF TypeOK
      <3>4. stored' \in BOOLEAN /\ raced' \in BOOLEAN /\ torn' \in BOOLEAN
        BY <1>1, <2>1 DEF Save, TypeOK
      <3>5. QED
        BY <3>2, <3>3, <3>4
    <2>2. CASE Fail(t)
      BY <1>1, <2>2 DEF Fail, IInv, TypeOK, Depth
    <2>3. QED
      BY <2>1, <2>2
  <1>6. TypeOK'
    BY <1>1, <1>3, <1>4, <1>5 DEF TypeOK
  <1>7. QED
    BY <1>1, <1>5, <1>6, EndStep

LEMMA ReplaceStep == ASSUME IInv, Replace PROVE IInv'
  <1>1. /\ row' \in Brought /\ serial' = row' /\ stored' = TRUE
        /\ imposed' = imposed \cup TooDeep(row')
        /\ UNCHANGED <<shared, req, raced, torn, deepened>>
    BY DEF Replace
  <1>2. TypeOK /\ imposed \in SUBSET Path
    BY DEF IInv, TypeOK
  <1>3. row' \in Place /\ imposed' \in SUBSET Path /\ Shallow(row', imposed')
    BY <1>1, <1>2, BroughtFacts
  <1>4. calls' \in 0..MaxCalls
    BY <1>2, GroupsAssumption DEF Replace, TypeOK
  <1>5. TypeOK'
    BY <1>1, <1>2, <1>3, <1>4 DEF TypeOK, At
  <1>6. Depth'
    <2> SUFFICES ASSUME ~deepened' PROVE Depth'
      BY DEF Depth
    <2>1. imposed \subseteq imposed' /\ ~deepened
      BY <1>1
    <2>2. \A c \in Conns : Allowed(shared'[c], imposed')
      BY <1>1, <2>1, MoreImposed DEF IInv, Depth
    <2>3. \A t \in Threads : Deep(t)'
      BY <1>1, <2>1, MoreImposed DEF IInv, Depth, Deep
    <2>4. QED
      BY <1>3, <2>2, <2>3 DEF Depth
  <1>7. QED
    BY <1>1, <1>5, <1>6 DEF IInv

LEMMA StepIInv == IInv /\ [Next]_vars => IInv'
  <1> SUFFICES ASSUME IInv, [Next]_vars PROVE IInv'
    OBVIOUS
  <1>1. ASSUME NEW t \in Threads,
               \/ CreateConnectionGroup(t) \/ DeleteConnectionGroup(t)
               \/ RenameConnectionGroup(t) \/ FileConnection(t)
        PROVE  IInv'
    BY <1>1, HandlersStep
  <1>2. ASSUME NEW t \in Threads, Save(t) \/ Fail(t) PROVE IInv'
    BY <1>2, SavesStep
  <1>3. CASE UNCHANGED vars
    BY <1>3 DEF vars, IInv, TypeOK, At, Depth, Deep
  <1>4. CASE Replace
    BY <1>4, ReplaceStep
  <1>5. QED
    BY <1>1, <1>2, <1>3, <1>4 DEF Next, Stop

LEMMA Inductive == Spec => []IInv
  BY InitIInv, StepIInv, PTL DEF Spec

-----------------------------------------------------------------------------
(* One request at a time                                                    *)

\* A request that has changed the shared map and is about to store it.
Pending(t) == req[t].pc = "save" /\ ~req[t].stored
Alone(t) == Pending(t) /\ \A u \in Threads \ {t} : ~Pending(u)
Quiet == \A t \in Threads : ~Pending(t)

\* The row is what the requests make one at a time; before there is a row it
\* is the shared map, or what the only request made of it.  A second request
\* on the shared map ends in a race: it finds a row when it comes to save.
Agreed ==
    ~raced /\ ~torn =>
      /\ stored /\ Quiet => row = serial
      /\ ~stored =>
           /\ row.groups = serial.groups
           /\ \A t \in Threads : req[t].pc = "save" => ~req[t].stored
           /\ Quiet => shared = serial.at
           /\ \A t \in Threads :
                Alone(t) => req[t].seen = serial /\ shared = Apply(req[t], serial).at

LEMMA SamePlace ==
  ASSUME NEW p \in Place, NEW q \in Place, p.groups = q.groups
  PROVE  [p EXCEPT !.at = q.at] = q
  BY DEF Place

LEMMA InitAgreed == Init => Agreed
  <1> SUFFICES ASSUME Init PROVE Agreed
    OBVIOUS
  <1>1. \A t \in Threads : req[t].pc = "idle"
    BY IdleFacts DEF Init
  <1>2. row = serial /\ shared = row.at
    BY DEF Init
  <1>3. QED
    BY <1>1, <1>2 DEF Agreed, Alone, Pending

LEMMA BeginAgreed ==
  ASSUME IInv, Agreed, NEW t \in Threads, NEW r, Checked(r), r.pc = "save", Begin(t, r),
         r.seen = Current, r.stored = stored
  PROVE  Agreed'
  <1>1. /\ TypeOK /\ req[t].pc = "idle"
        /\ UNCHANGED <<stored, row, serial, raced, torn>>
    BY DEF IInv, Begin, At
  <1>2. req'[t] = r /\ \A u \in Threads \ {t} : req'[u] = req[u]
    BY <1>1 DEF Begin, TypeOK
  <1>3. CASE stored
    <2>1. \A u \in Threads : Pending(u)' <=> Pending(u)
      BY <1>1, <1>2, <1>3 DEF Pending
    <2>2. QED
      BY <1>1, <1>3, <2>1 DEF Agreed, Quiet
  <1>4. CASE ~stored
    <2>1. Pending(t)' /\ ~Pending(t)
      BY <1>1, <1>2, <1>4 DEF Pending
    <2>2. \A u \in Threads \ {t} : Pending(u)' <=> Pending(u)
      BY <1>2 DEF Pending
    <2>3. ~Quiet' /\ \A u \in Threads \ {t} : ~Alone(u)'
      BY <2>1 DEF Quiet, Alone
    <2>4. Alone(t)' => Quiet
      BY <2>1, <2>2 DEF Alone, Quiet
    <2>5. ASSUME Alone(t)', ~raced, ~torn
          PROVE  r.seen = serial /\ shared' = Apply(r, serial).at
      <3>1. row.groups = serial.groups /\ shared = serial.at
        BY <1>4, <2>4, <2>5 DEF Agreed
      <3>2. Current = serial
        BY <1>1, <1>4, <3>1, SamePlace DEF Current, TypeOK
      <3>3. shared' = Apply(r, Current).at
        BY <1>4 DEF Begin
      <3>4. QED
        BY <3>2, <3>3
    <2>6. QED
      BY <1>1, <1>2, <1>4, <2>3, <2>5 DEF Agreed
  <1>5. QED
    BY <1>3, <1>4

\* A save that overlapped another has raced; any other applies to what there is.
LEMMA SaveAgreed == ASSUME IInv, Agreed, NEW t \in Threads, Save(t) PROVE Agreed'
  <1> SUFFICES ASSUME ~raced', ~torn', Quiet' PROVE row' = serial'
    BY DEF Save, Agreed
  <1>1. /\ TypeOK /\ req[t].pc = "save" /\ Checked(req[t])
        /\ ~raced /\ ~torn /\ Untouched(t)
        /\ row' = ToSave(t) /\ serial' = Apply(req[t], serial)
        /\ req[t].seen \in Place /\ req[t].stored \in BOOLEAN
    BY DEF IInv, Save, At, Checked, Request
  <1>2. \A u \in Threads \ {t} : req'[u] = req[u]
    BY <1>1 DEF Save, TypeOK
  <1>3. \A u \in Threads \ {t} : ~Pending(u)
    BY <1>2 DEF Quiet, Pending
  <1>4. CASE req[t].stored
    <2>1. stored /\ row = req[t].seen
      BY <1>1, <1>4 DEF Untouched
    <2>2. Quiet
      BY <1>3, <1>4 DEF Quiet, Pending
    <2>3. row = serial
      BY <1>1, <2>1, <2>2 DEF Agreed
    <2>4. QED
      BY <1>1, <1>4, <2>1, <2>3 DEF ToSave
  <1>5. CASE ~req[t].stored
    <2>1. ~stored
      BY <1>1, <1>5 DEF Untouched
    <2>2. Alone(t)
      BY <1>1, <1>3, <1>5 DEF Alone, Pending
    <2>3. req[t].seen = serial /\ shared = Apply(req[t], serial).at
      BY <1>1, <2>1, <2>2 DEF Agreed
    <2>4. PICK p : p = Apply(req[t], serial)
      OBVIOUS
    <2>5. p \in Place
      BY <1>1, <2>3, <2>4, ApplyTyped
    <2>6. row' = [p EXCEPT !.at = p.at]
      BY <1>1, <1>5, <2>3, <2>4 DEF ToSave
    <2>7. QED
      BY <1>1, <2>4, <2>5, <2>6, SamePlace
  <1>6. QED
    BY <1>1, <1>4, <1>5

LEMMA FailAgreed == ASSUME IInv, Agreed, NEW t \in Threads, Fail(t) PROVE Agreed'
  <1> SUFFICES ASSUME ~raced', ~torn' PROVE Agreed'
    BY DEF Agreed
  <1>1. /\ TypeOK /\ ~raced /\ ~torn /\ req[t].stored /\ req[t].pc = "save"
        /\ UNCHANGED <<stored, row, shared, serial>>
        /\ req' = [req EXCEPT ![t] = Idle]
    BY DEF IInv, Fail, At, TypeOK
  <1>2. req'[t] = Idle /\ \A u \in Threads \ {t} : req'[u] = req[u]
    BY <1>1 DEF TypeOK
  <1>3. stored
    BY <1>1 DEF Agreed
  <1>4. \A u \in Threads : Pending(u)' <=> Pending(u)
    BY <1>1, <1>2, IdleFacts DEF Pending
  <1>5. QED
    BY <1>1, <1>3, <1>4 DEF Agreed, Quiet

LEMMA HandlersAgreed ==
  ASSUME IInv, Agreed, NEW t \in Threads,
         \/ CreateConnectionGroup(t) \/ DeleteConnectionGroup(t)
         \/ RenameConnectionGroup(t) \/ FileConnection(t)
  PROVE  Agreed'
  <1>1. PICK r : /\ Checked(r) /\ r.pc = "save" /\ Begin(t, r) /\ r.seen = Current
                 /\ r.stored = stored
    BY HandlersBegin
  <1>2. QED
    BY <1>1, BeginAgreed

LEMMA StepAgreed == IInv /\ Agreed /\ [Next]_vars => Agreed'
  <1> SUFFICES ASSUME IInv, Agreed, [Next]_vars PROVE Agreed'
    OBVIOUS
  <1>1. CASE UNCHANGED vars
    BY <1>1 DEF vars, Agreed, Quiet, Alone, Pending
  <1>2. CASE Replace
    BY <1>2 DEF Replace, Agreed
  <1>3. QED
    BY <1>1, <1>2, HandlersAgreed, SaveAgreed, FailAgreed DEF Next, Stop

-----------------------------------------------------------------------------
(* Theorems                                                                 *)

\* Whatever the requests do in whatever order, every place they read, hold
\* and save is made of paths of names, and no operation works on a path that
\* was not validated.
THEOREM TypeCorrect == Spec => []TypeOK
  <1>1. IInv => TypeOK
    BY DEF IInv
  <1>2. QED
    BY <1>1, Inductive, PTL

\* Through any overlap of requests and any failure nothing is stored deeper than
\* the limit of ValidateConnectionGroupPath and the deepest path that the
\* configuration, an administrator's save or an import put in without asking
\* it, as long as no group is renamed to a longer path.
THEOREM DepthKept == Spec => []DeeperOnlyByRename
  <1>1. IInv => DeeperOnlyByRename
    BY ShallowPaths DEF IInv, TypeOK, Depth, DeeperOnlyByRename
  <1>2. QED
    BY <1>1, Inductive, PTL

\* Requests that never overlapped on the place and did not fail on a shared
\* map leave what they make one at a time, whichever way the place is held.
THEOREM SerialUnlessRaced == Spec => []Serial
  <1>1. TypeOK /\ Agreed => Serial
    <2> SUFFICES ASSUME TypeOK, Agreed, ~raced, ~torn, \A t \in Threads : At(t, "idle")
                 PROVE  Current = serial
      BY DEF Serial
    <2>1. Quiet
      BY DEF Quiet, Pending, At
    <2>2. CASE stored
      BY <2>1, <2>2 DEF Agreed, Current
    <2>3. CASE ~stored
      <3>1. row.groups = serial.groups /\ shared = serial.at
        BY <2>1, <2>3 DEF Agreed
      <3>2. QED
        BY <2>3, <3>1, SamePlace DEF Current, TypeOK
    <2>4. QED
      BY <2>2, <2>3
  <1>2. Spec => []Agreed
    BY InitAgreed, StepAgreed, Inductive, PTL DEF Spec
  <1>3. QED
    BY <1>1, <1>2, TypeCorrect, PTL

-----------------------------------------------------------------------------
(* Subtrees                                                                 *)

\* The ancestors of a path are its prefixes without the empty one, and a
\* prefix agrees with the path name by name.
LEMMA PrefixByName ==
  ASSUME NEW p \in Path, NEW x \in Path
  PROVE  IsPrefix(x, p) <=> Len(x) <= Len(p) /\ \A i \in 1..Len(x) : x[i] = p[i]
  <1>1. Len(p) \in Nat /\ Len(x) \in Nat
    BY LenProperties DEF Path
  <1>2. SubSeq(x, 1, Len(x)) \in Path /\ Len(SubSeq(x, 1, Len(x))) = Len(x)
    BY <1>1, PartOfPath
  <1>3. \A i \in 1..Len(x) : SubSeq(x, 1, Len(x))[i] = x[i]
    BY <1>1, PartOf
  <1>4. Len(x) <= Len(p) =>
          /\ SubSeq(p, 1, Len(x)) \in Path /\ Len(SubSeq(p, 1, Len(x))) = Len(x)
          /\ \A i \in 1..Len(x) : SubSeq(p, 1, Len(x))[i] = p[i]
    BY <1>1, PartOfPath, PartOf
  <1>5. ASSUME Len(x) <= Len(p), \A i \in 1..Len(x) : x[i] = p[i]
        PROVE  SubSeq(x, 1, Len(x)) = SubSeq(p, 1, Len(x))
    BY <1>2, <1>3, <1>4, <1>5, SeqEqual DEF Path
  <1>6. QED
    BY <1>3, <1>4, <1>5 DEF IsPrefix

LEMMA AncestorIsPrefix ==
  ASSUME NEW p \in Path, NEW x
  PROVE  x \in Ancestors(p) <=> x \in Path /\ x # <<>> /\ IsPrefix(x, p)
  <1>1. Len(p) \in Nat
    BY LenProperties DEF Path
  <1>2. ASSUME x \in Ancestors(p) PROVE x \in Path /\ x # <<>> /\ IsPrefix(x, p)
    <2>1. PICK n \in 1..Len(p) : x = SubSeq(p, 1, n)
      BY <1>2 DEF Ancestors
    <2>2. n \in Nat /\ 1 <= n /\ n <= Len(p)
      BY <1>1
    <2>3. x \in Path /\ Len(x) = n /\ \A i \in 1..n : x[i] = p[i]
      BY <2>1, <2>2, PartOfPath, PartOf
    <2>4. x # <<>>
      BY <2>2, <2>3, EmptyPath
    <2>5. QED
      BY <2>2, <2>3, <2>4, PrefixByName
  <1>3. ASSUME x \in Path, x # <<>>, IsPrefix(x, p) PROVE x \in Ancestors(p)
    <2>1. Len(x) \in Nat \ {0} /\ Len(x) <= Len(p) /\ \A i \in 1..Len(x) : x[i] = p[i]
      BY <1>3, PrefixByName, EmptySeq DEF Path
    <2>2. SubSeq(p, 1, Len(x)) \in Path /\ Len(SubSeq(p, 1, Len(x))) = Len(x)
      BY <2>1, PartOfPath
    <2>3. \A i \in 1..Len(x) : SubSeq(p, 1, Len(x))[i] = p[i]
      BY <2>1, PartOf
    <2>4. x = SubSeq(p, 1, Len(x))
      BY <1>3, <2>1, <2>2, <2>3, SeqEqual DEF Path
    <2>5. Len(x) \in 1..Len(p)
      BY <1>1, <2>1
    <2>6. QED
      BY <2>4, <2>5 DEF Ancestors
  <1>4. QED
    BY <1>2, <1>3

\* A path below a renamed group is the new name followed by what it was below
\* the old one.
LEMMA RenamedByName ==
  ASSUME NEW p \in Path, NEW old \in Path, NEW new \in Path, IsPrefix(old, p)
  PROVE  LET q == RenameGroupPath(p, old, new)
         IN  /\ q \in Path /\ Len(old) <= Len(p)
             /\ Len(q) = Len(new) + (Len(p) - Len(old))
             /\ \A i \in 1..Len(q) :
                  q[i] = IF i <= Len(new) THEN new[i] ELSE p[i - Len(new) + Len(old)]
  <1> DEFINE rest == SubSeq(p, Len(old) + 1, Len(p))
             q == RenameGroupPath(p, old, new)
  <1>1. Len(p) \in Nat /\ Len(old) \in Nat /\ Len(new) \in Nat /\ Len(old) <= Len(p)
    BY LenProperties DEF Path, IsPrefix
  <1>2. rest \in Path /\ Len(rest) = Len(p) - Len(old)
    BY <1>1, PartOfPath
  <1>3. \A j \in 1..Len(rest) : rest[j] = p[Len(old) + j]
    <2>1. \A j \in 1..(Len(p) - (Len(old) + 1) + 1) : rest[j] = p[(Len(old) + 1) + j - 1]
      BY <1>1, PartOf
    <2>2. Len(rest) = Len(p) - (Len(old) + 1) + 1
      BY <1>1, <1>2
    <2>3. \A j \in 1..Len(rest) : (Len(old) + 1) + j - 1 = Len(old) + j
      BY <1>1, <1>2
    <2> HIDE DEF rest
    <2>4. QED
      BY <2>1, <2>2, <2>3
  <1>4. q = new \o rest
    BY DEF RenameGroupPath
  <1> HIDE DEF rest, q
  <1>5. /\ q \in Path /\ Len(q) = Len(new) + Len(rest)
        /\ \A i \in 1..(Len(new) + Len(rest)) :
             q[i] = IF i <= Len(new) THEN new[i] ELSE rest[i - Len(new)]
    BY <1>2, <1>4, ConcatProperties DEF Path
  <1>6. ASSUME NEW i \in 1..Len(q)
        PROVE  q[i] = IF i <= Len(new) THEN new[i] ELSE p[i - Len(new) + Len(old)]
    <2>1. i \in 1..(Len(new) + Len(rest)) /\ i \in Nat
      BY <1>5
    <2>2. CASE i <= Len(new)
      BY <1>5, <2>1, <2>2
    <2>3. CASE ~(i <= Len(new))
      <3>1. i - Len(new) \in 1..Len(rest)
        BY <1>1, <1>2, <2>1, <2>3
      <3>2. Len(old) + (i - Len(new)) = i - Len(new) + Len(old)
        BY <1>1, <2>1
      <3>3. q[i] = rest[i - Len(new)]
        BY <1>5, <2>1, <2>3
      <3>4. rest[i - Len(new)] = p[Len(old) + (i - Len(new))]
        BY <1>3, <3>1
      <3>5. QED
        BY <2>3, <3>2, <3>3, <3>4
    <2>4. QED
      BY <2>2, <2>3
  <1>7. QED
    BY <1>1, <1>2, <1>5, <1>6 DEF q

LEMMA PrefixOfPrefix ==
  ASSUME NEW p \in Path, NEW x \in Path, NEW y \in Path
  PROVE  /\ IsPrefix(x, x)
         /\ IsPrefix(x, y) /\ IsPrefix(y, p) => IsPrefix(x, p)
         /\ IsPrefix(x, p) /\ IsPrefix(y, p) => IsPrefix(x, y) \/ (Len(y) < Len(x) /\ IsPrefix(y, x))
  <1>1. Len(x) \in Nat /\ Len(y) \in Nat /\ Len(p) \in Nat
    BY LenProperties DEF Path
  <1>2. /\ IsPrefix(x, p) <=> Len(x) <= Len(p) /\ \A i \in 1..Len(x) : x[i] = p[i]
        /\ IsPrefix(y, p) <=> Len(y) <= Len(p) /\ \A i \in 1..Len(y) : y[i] = p[i]
        /\ IsPrefix(x, y) <=> Len(x) <= Len(y) /\ \A i \in 1..Len(x) : x[i] = y[i]
        /\ IsPrefix(y, x) <=> Len(y) <= Len(x) /\ \A i \in 1..Len(y) : y[i] = x[i]
        /\ IsPrefix(x, x) <=> Len(x) <= Len(x) /\ \A i \in 1..Len(x) : x[i] = x[i]
    BY PrefixByName
  <1>3. /\ Len(x) <= Len(y) => 1..Len(x) \subseteq 1..Len(y)
        /\ Len(y) < Len(x) => 1..Len(y) \subseteq 1..Len(x) /\ Len(y) <= Len(x)
        /\ Len(x) <= Len(y) \/ Len(y) < Len(x)
        /\ Len(x) <= Len(x)
        /\ Len(x) <= Len(y) /\ Len(y) <= Len(p) => Len(x) <= Len(p)
    BY <1>1
  <1>4. IsPrefix(x, y) /\ IsPrefix(y, p) => IsPrefix(x, p)
    BY <1>2, <1>3
  <1>5. ASSUME IsPrefix(x, p), IsPrefix(y, p)
        PROVE  IsPrefix(x, y) \/ (Len(y) < Len(x) /\ IsPrefix(y, x))
    <2>1. CASE Len(x) <= Len(y)
      <3>1. \A i \in 1..Len(x) : x[i] = y[i]
        BY <1>2, <1>3, <1>5, <2>1
      <3>2. QED
        BY <1>2, <2>1, <3>1
    <2>2. CASE Len(y) < Len(x)
      <3>1. \A i \in 1..Len(y) : y[i] = x[i]
        BY <1>2, <1>3, <1>5, <2>2
      <3>2. QED
        BY <1>2, <1>3, <2>2, <3>1
    <2>3. QED
      BY <1>3, <2>1, <2>2
  <1>6. QED
    BY <1>2, <1>3, <1>4, <1>5

\* Renaming a group renames the paths below it as prefixes of one another.
LEMMA RenamedPrefix ==
  ASSUME NEW p \in Path, NEW x \in Path, NEW old \in Path, NEW new \in Path,
         IsPrefix(old, x), IsPrefix(old, p), IsPrefix(x, p)
  PROVE  IsPrefix(RenameGroupPath(x, old, new), RenameGroupPath(p, old, new))
  <1> DEFINE a == RenameGroupPath(x, old, new)
             b == RenameGroupPath(p, old, new)
  <1>1. Len(x) \in Nat /\ Len(p) \in Nat /\ Len(old) \in Nat /\ Len(new) \in Nat
    BY LenProperties DEF Path
  <1>2. /\ a \in Path /\ Len(old) <= Len(x)
        /\ Len(a) = Len(new) + (Len(x) - Len(old))
        /\ \A i \in 1..Len(a) :
             a[i] = IF i <= Len(new) THEN new[i] ELSE x[i - Len(new) + Len(old)]
    BY RenamedByName
  <1>3. /\ b \in Path /\ Len(old) <= Len(p)
        /\ Len(b) = Len(new) + (Len(p) - Len(old))
        /\ \A i \in 1..Len(b) :
             b[i] = IF i <= Len(new) THEN new[i] ELSE p[i - Len(new) + Len(old)]
    BY RenamedByName
  <1>4. Len(x) <= Len(p) /\ \A i \in 1..Len(x) : x[i] = p[i]
    BY PrefixByName
  <1> HIDE DEF a, b
  <1>5. Len(a) <= Len(b)
    BY <1>1, <1>2, <1>3, <1>4
  <1>6. ASSUME NEW i \in 1..Len(a) PROVE a[i] = b[i]
    <2>1. i \in 1..Len(b)
      BY <1>1, <1>2, <1>3, <1>4
    <2>2. ~(i <= Len(new)) => i - Len(new) + Len(old) \in 1..Len(x)
      BY <1>1, <1>2
    <2>3. QED
      BY <1>2, <1>3, <1>4, <2>1, <2>2
  <1>7. QED
    BY <1>2, <1>3, <1>5, <1>6, PrefixByName DEF a, b

\* The ancestors of a renamed path are the renamed ancestors of the path, and
\* those of the new name; only ancestors of the old name are left behind.
LEMMA RenamedAncestors ==
  ASSUME NEW p \in Path, NEW old \in Path, NEW new \in Path, old # <<>>, new # <<>>
  PROVE  LET q == RenameGroupPath(p, old, new)
         IN  /\ \A x \in Ancestors(p) :
                  \/ RenameGroupPath(x, old, new) \in Ancestors(q)
                  \/ RenameGroupPath(x, old, new) \in Ancestors(old) \ {old}
             /\ \A y \in Ancestors(q) :
                  \/ \E x \in Ancestors(p) : y = RenameGroupPath(x, old, new)
                  \/ y \in Ancestors(new)
             /\ old \in Ancestors(p) => Ancestors(new) \subseteq Ancestors(q)
  <1> DEFINE q == RenameGroupPath(p, old, new)
  <1>1. /\ Len(p) \in Nat /\ Len(old) \in Nat \ {0} /\ Len(new) \in Nat \ {0}
    BY LenProperties, EmptySeq DEF Path
  <1>2. q \in Path
    BY RenamedPath
  <1>3. CASE ~IsPrefix(old, p)
    <2>1. q = p
      BY <1>3 DEF RenameGroupPath
    <2>2. \A x \in Ancestors(p) : RenameGroupPath(x, old, new) = x
      <3> TAKE x \in Ancestors(p)
      <3>1. x \in Path /\ IsPrefix(x, p)
        BY AncestorIsPrefix
      <3>2. ~IsPrefix(old, x)
        BY <1>3, <3>1, PrefixOfPrefix
      <3>3. QED
        BY <3>2 DEF RenameGroupPath
    <2>3. old \notin Ancestors(p)
      BY <1>3, AncestorIsPrefix
    <2> HIDE DEF q
    <2>4. QED
      BY <2>1, <2>2, <2>3 DEF q
  <1>4. CASE IsPrefix(old, p)
    <2>1. /\ Len(old) <= Len(p) /\ Len(q) = Len(new) + (Len(p) - Len(old))
          /\ \A i \in 1..Len(q) :
               q[i] = IF i <= Len(new) THEN new[i] ELSE p[i - Len(new) + Len(old)]
      BY <1>4, RenamedByName
    <2>2. ASSUME NEW x \in Ancestors(p)
          PROVE  \/ RenameGroupPath(x, old, new) \in Ancestors(q)
                 \/ RenameGroupPath(x, old, new) \in Ancestors(old) \ {old}
      <3>1. x \in Path /\ x # <<>> /\ IsPrefix(x, p)
        BY AncestorIsPrefix
      <3>2. CASE IsPrefix(old, x)
        <4> DEFINE a == RenameGroupPath(x, old, new)
        <4>1. IsPrefix(a, q)
          BY <1>4, <3>1, <3>2, RenamedPrefix
        <4>2. a \in Path /\ Len(old) <= Len(x) /\ Len(a) = Len(new) + (Len(x) - Len(old))
          BY <3>1, <3>2, RenamedByName
        <4>3. Len(x) \in Nat
          BY <3>1, LenProperties DEF Path
        <4>4. a # <<>>
          <5> HIDE DEF a
          <5>1. QED
            BY <1>1, <4>2, <4>3, EmptyPath
        <4> HIDE DEF a, q
        <4>5. a \in Ancestors(q)
          BY <1>2, <4>1, <4>2, <4>4, AncestorIsPrefix
        <4>6. QED
          BY <4>5 DEF a, q
      <3>3. CASE ~IsPrefix(old, x)
        <4>1. RenameGroupPath(x, old, new) = x
          BY <3>3 DEF RenameGroupPath
        <4>2. IsPrefix(x, old)
          BY <1>4, <3>1, <3>3, PrefixOfPrefix
        <4>3. x # old
          BY <3>3, PrefixOfPrefix
        <4>4. x \in Ancestors(old)
          BY <3>1, <4>2, AncestorIsPrefix
        <4>5. QED
          BY <4>1, <4>3, <4>4
      <3>4. QED
        BY <3>2, <3>3
    <2>3. IsPrefix(new, q)
      <3>1. Len(new) <= Len(q) /\ \A i \in 1..Len(new) : i \in 1..Len(q) /\ i <= Len(new)
        BY <1>1, <2>1
      <3> HIDE DEF q
      <3>2. \A i \in 1..Len(new) : new[i] = q[i]
        BY <2>1, <3>1
      <3>3. QED
        BY <1>2, <3>1, <3>2, PrefixByName
    <2>4. Ancestors(new) \subseteq Ancestors(q)
      <3> SUFFICES ASSUME NEW y \in Ancestors(new) PROVE y \in Ancestors(q)
        OBVIOUS
      <3>1. y \in Path /\ y # <<>> /\ IsPrefix(y, new)
        BY AncestorIsPrefix
      <3> HIDE DEF q
      <3>2. IsPrefix(y, q)
        BY <1>2, <2>3, <3>1, PrefixOfPrefix
      <3>3. QED
        BY <1>2, <3>1, <3>2, AncestorIsPrefix
    <2>5. ASSUME NEW y \in Ancestors(q), y \notin Ancestors(new)
          PROVE  \E x \in Ancestors(p) : y = RenameGroupPath(x, old, new)
      <3>1. y \in Path /\ y # <<>> /\ IsPrefix(y, q)
        <4> HIDE DEF q
        <4>1. QED
          BY <1>2, <2>5, AncestorIsPrefix
      <3>2. Len(new) < Len(y) /\ IsPrefix(new, y)
        <4> HIDE DEF q
        <4>1. ~IsPrefix(y, new)
          BY <2>5, <3>1, AncestorIsPrefix
        <4>2. QED
          BY <1>2, <2>3, <3>1, <4>1, PrefixOfPrefix
      <3>3. Len(y) \in Nat /\ Len(y) <= Len(q) /\ \A i \in 1..Len(y) : y[i] = q[i]
        <4> HIDE DEF q
        <4>1. QED
          BY <1>2, <3>1, PrefixByName, LenProperties DEF Path
      <3> DEFINE n == Len(y) - Len(new) + Len(old)
                 x == SubSeq(p, 1, n)
                 a == RenameGroupPath(x, old, new)
      <3>4. n \in Nat /\ Len(old) < n /\ n <= Len(p) /\ n \in 1..Len(p)
        <4> HIDE DEF q
        <4>1. QED
          BY <1>1, <2>1, <3>2, <3>3
      <3> HIDE DEF n
      <3>5. x \in Ancestors(p)
        BY <3>4 DEF Ancestors
      <3>6. x \in Path /\ Len(x) = n /\ \A i \in 1..n : x[i] = p[i]
        BY <3>4, PartOfPath, PartOf
      <3> HIDE DEF x
      <3>7. IsPrefix(old, x)
        <4>1. \A i \in 1..Len(old) : i \in 1..n
          BY <1>1, <3>4
        <4>2. \A i \in 1..Len(old) : old[i] = p[i]
          BY <1>4, PrefixByName
        <4>3. Len(old) <= Len(x)
          BY <1>1, <3>4, <3>6
        <4>4. QED
          BY <3>6, <4>1, <4>2, <4>3, PrefixByName
      <3>8. /\ a \in Path /\ Len(a) = Len(new) + (Len(x) - Len(old))
            /\ \A i \in 1..Len(a) :
                 a[i] = IF i <= Len(new) THEN new[i] ELSE x[i - Len(new) + Len(old)]
        BY <3>6, <3>7, RenamedByName
      <3> HIDE DEF a, q
      <3>9. Len(a) = Len(y)
        BY <1>1, <3>3, <3>4, <3>6, <3>8 DEF n
      <3>10. ASSUME NEW i \in 1..Len(y) PROVE a[i] = y[i]
        <4>1. i \in 1..Len(a) /\ i \in 1..Len(q) /\ i \in Nat
          BY <1>1, <2>1, <3>3, <3>9
        <4>2. ~(i <= Len(new)) => i - Len(new) + Len(old) \in 1..n
          BY <1>1, <3>3, <4>1 DEF n
        <4>3. QED
          BY <2>1, <3>3, <3>6, <3>8, <4>1, <4>2
      <3>11. a = y
        BY <3>1, <3>8, <3>9, <3>10, SeqEqual DEF Path
      <3>12. QED
        BY <3>5, <3>11 DEF a
    <2> HIDE DEF q
    <2>6. QED
      BY <2>2, <2>4, <2>5 DEF q
  <1>5. QED
    BY <1>3, <1>4

LEMMA RenamedTree ==
  ASSUME NEW paths \in SUBSET Path, NEW old \in Path, NEW new \in Path, old # <<>>, new # <<>>
  PROVE  LET up == Ancestors(old) \ {old}
             before == UNION {Ancestors(p) : p \in paths}
             after == UNION {Ancestors(RenameGroupPath(p, old, new)) : p \in paths}
         IN  old \in before =>
               after \ up = (RenameGroupPaths(before, old, new) \cup Ancestors(new)) \ up
  <1> DEFINE up == Ancestors(old) \ {old}
             before == UNION {Ancestors(p) : p \in paths}
             after == UNION {Ancestors(RenameGroupPath(p, old, new)) : p \in paths}
  <1> SUFFICES ASSUME old \in before
               PROVE  after \ up = (RenameGroupPaths(before, old, new) \cup Ancestors(new)) \ up
    OBVIOUS
  <1>1. ASSUME NEW y \in after
        PROVE  y \in RenameGroupPaths(before, old, new) \cup Ancestors(new)
    <2>1. PICK p \in paths : y \in Ancestors(RenameGroupPath(p, old, new))
      OBVIOUS
    <2>2. \/ \E x \in Ancestors(p) : y = RenameGroupPath(x, old, new)
          \/ y \in Ancestors(new)
      BY <2>1, RenamedAncestors
    <2>3. QED
      BY <2>2 DEF RenameGroupPaths
  <1>2. ASSUME NEW y \in RenameGroupPaths(before, old, new), y \notin up
        PROVE  y \in after
    <2>1. PICK x \in before : y = RenameGroupPath(x, old, new)
      BY DEF RenameGroupPaths
    <2>2. PICK p \in paths : x \in Ancestors(p)
      OBVIOUS
    <2>3. y \in Ancestors(RenameGroupPath(p, old, new))
      BY <1>2, <2>1, <2>2, RenamedAncestors
    <2>4. QED
      BY <2>3
  <1>3. Ancestors(new) \subseteq after
    <2>1. PICK p \in paths : old \in Ancestors(p)
      OBVIOUS
    <2>2. Ancestors(new) \subseteq Ancestors(RenameGroupPath(p, old, new))
      BY <2>1, RenamedAncestors
    <2>3. QED
      BY <2>2
  <1> HIDE DEF before, after, up
  <1>4. QED
    BY <1>1, <1>2, <1>3

\* Nothing but the deleted path, and ancestors that it alone implied, goes.
LEMMA DeletedTree ==
  ASSUME NEW groups \in SUBSET Path, NEW at \in [Conns -> Path], NEW old \in Path,
         old # <<>>, ~GroupHasConnections(old, at), ~HasChildGroup(old, groups)
  PROVE  LET up == Ancestors(old) \ {old}
             before == ConnectionGroupPaths([groups |-> groups, at |-> at])
             after == ConnectionGroupPaths([groups |-> RemoveGroupPath(groups, old), at |-> at])
         IN  after \ up = before \ (up \cup {old})
  <1> DEFINE up == Ancestors(old) \ {old}
             used == {at[c] : c \in Conns}
             before == UNION {Ancestors(p) : p \in groups \cup used}
             after == UNION {Ancestors(p) : p \in (groups \ {old}) \cup used}
  <1>1. /\ ConnectionGroupPaths([groups |-> groups, at |-> at]) = before
        /\ ConnectionGroupPaths([groups |-> RemoveGroupPath(groups, old), at |-> at]) = after
    BY DEF ConnectionGroupPaths, RemoveGroupPath
  <1>2. \A p \in (groups \ {old}) \cup used : p \in Path /\ ~IsPrefix(old, p)
    BY DEF GroupHasConnections, HasChildGroup, ConnectionGroupContains
  <1>3. old \notin after
    BY <1>2, AncestorIsPrefix
  <1>4. after \subseteq before
    OBVIOUS
  <1>5. ASSUME NEW x \in before, x \notin up, x # old PROVE x \in after
    <2>1. PICK p \in groups \cup used : x \in Ancestors(p)
      OBVIOUS
    <2>2. p # old
      BY <1>5, <2>1
    <2>3. QED
      BY <2>1, <2>2
  <1> HIDE DEF before, after
  <1>6. after \ up = before \ (up \cup {old})
    BY <1>3, <1>4, <1>5
  <1>7. QED
    BY <1>1, <1>6

\* Requests that are about to delete have checked that nothing is filed there.
Vacated == \A t \in Threads : req[t].pc = "save" => Vacant(req[t])

LEMMA StepVacated == IInv /\ Vacated /\ [Next]_vars => Vacated'
  <1> SUFFICES ASSUME IInv, Vacated, [Next]_vars PROVE Vacated'
    OBVIOUS
  <1>1. TypeOK
    BY DEF IInv
  <1>2. ASSUME NEW t \in Threads,
               \/ CreateConnectionGroup(t) \/ DeleteConnectionGroup(t)
               \/ RenameConnectionGroup(t) \/ FileConnection(t)
        PROVE  Vacated'
    <2>1. PICK r : Begin(t, r) /\ Vacant(r)
      BY <1>2, HandlersBegin
    <2>2. req'[t] = r /\ \A u \in Threads \ {t} : req'[u] = req[u]
      BY <1>1, <2>1 DEF Begin, TypeOK
    <2>3. QED
      BY <2>1, <2>2 DEF Vacated
  <1>3. ASSUME NEW t \in Threads, Save(t) \/ Fail(t) PROVE Vacated'
    <2>1. req'[t] = Idle /\ \A u \in Threads \ {t} : req'[u] = req[u]
      BY <1>1, <1>3 DEF Save, Fail, TypeOK
    <2>2. QED
      BY <2>1, IdleFacts DEF Vacated
  <1>4. CASE UNCHANGED vars \/ Replace
    BY <1>4 DEF vars, Replace, Vacated
  <1>5. QED
    BY <1>2, <1>3, <1>4 DEF Next, Stop

\* A request that saves a place nobody has touched saves what it makes of it.
LEMMA SavesWhatItRead ==
  ASSUME IInv, [Next]_vars, NEW t \in Threads, NEW o, Saves(t, o)
  PROVE  row' = Apply(req[t], req[t].seen)
  <1>1. TypeOK /\ req[t].pc = "save" /\ Checked(req[t]) /\ req[t].seen \in Place
        /\ req[t].stored \in BOOLEAN
    BY DEF IInv, Saves, At, Checked, Request
  <1>2. Save(t)
    <2>1. ~UNCHANGED vars
      BY DEF vars, Saves
    <2>2. \A u \in Threads :
            CreateConnectionGroup(u) \/ DeleteConnectionGroup(u) \/ RenameConnectionGroup(u)
              \/ FileConnection(u) \/ Fail(u) => row' = row
      BY DEF CreateConnectionGroup, DeleteConnectionGroup, RenameConnectionGroup,
             FileConnection, Fail, Begin
    <2>a. ~Replace
      BY <1>1 DEF Replace, Saves
    <2>3. PICK u \in Threads : Save(u)
      BY <2>1, <2>2, <2>a DEF Next, Stop, Saves
    <2>4. u = t
      BY <1>1, <2>3 DEF Save, Saves, TypeOK
    <2>5. QED
      BY <2>3, <2>4
  <1>3. row' = ToSave(t) /\ Untouched(t)
    BY <1>2 DEF Save, Saves
  <1>4. PICK p : p = Apply(req[t], req[t].seen)
    OBVIOUS
  <1>5. p \in Place
    BY <1>1, <1>4, ApplyTyped
  <1>6. CASE req[t].stored
    BY <1>3, <1>6 DEF ToSave
  <1>7. CASE ~req[t].stored
    <2>1. row' = [p EXCEPT !.at = p.at]
      BY <1>3, <1>4, <1>7 DEF ToSave, Untouched
    <2>2. QED
      BY <1>4, <1>5, <2>1, SamePlace
  <1>8. QED
    BY <1>6, <1>7

\* For every set of names, connections and requests and every limit: a
\* deletion takes nothing with it but the group and ancestors that only it
\* implied, and a rename moves the subtree as a whole and nothing else.
THEOREM SubtreesMove == Spec => OnlyTheSubtree
  <1> DEFINE Kept(t) ==
        LET old == req[t].path
            new == req[t].new
            up == Ancestors(old) \ {old}
            before == ConnectionGroupPaths(req[t].seen)
            after == ConnectionGroupPaths(row')
        IN  /\ Saves(t, "delete") => after \ up = before \ (up \cup {old})
            /\ Saves(t, "rename") /\ old \in before =>
                 after \ up = (RenameGroupPaths(before, old, new) \cup Ancestors(new)) \ up
  <1>1. ASSUME IInv, Vacated, [Next]_vars, NEW t \in Threads
        PROVE  Kept(t)
    <2> DEFINE seen == req[t].seen
               old == req[t].path
               new == req[t].new
    <2>1. /\ seen \in Place /\ old \in Path /\ new \in Path
          /\ seen.groups \in SUBSET Path /\ seen.at \in [Conns -> Path]
      BY <1>1 DEF IInv, Checked, Request, Place
    <2>2. ASSUME Saves(t, "delete")
          PROVE  ConnectionGroupPaths(row') \ (Ancestors(old) \ {old})
                   = ConnectionGroupPaths(seen) \ ((Ancestors(old) \ {old}) \cup {old})
      <3>1. row' = Apply(req[t], seen) /\ req[t].op = "delete" /\ req[t].pc = "save"
        BY <1>1, <2>2, SavesWhatItRead DEF Saves, At
      <3>2. Vacant(req[t])
        BY <1>1, <3>1 DEF Vacated
      <3> HIDE DEF seen
      <3>3. row' = [seen EXCEPT !.groups = RemoveGroupPath(seen.groups, old)]
        BY <3>1 DEF Apply
      <3>4. /\ seen = [groups |-> seen.groups, at |-> seen.at]
            /\ row' = [groups |-> RemoveGroupPath(seen.groups, old), at |-> seen.at]
        BY <2>1, <3>3 DEF Place
      <3>5. /\ old # <<>> /\ ~GroupHasConnections(old, seen.at)
            /\ ~HasChildGroup(old, seen.groups)
        BY <3>1, <3>2 DEF Vacant, seen
      <3> HIDE DEF old
      <3> DEFINE g == seen.groups
                 a == seen.at
      <3>6. ConnectionGroupPaths([groups |-> RemoveGroupPath(g, old), at |-> a]) \ (Ancestors(old) \ {old})
              = ConnectionGroupPaths([groups |-> g, at |-> a]) \ ((Ancestors(old) \ {old}) \cup {old})
        <4>1. /\ g \in SUBSET Path /\ a \in [Conns -> Path] /\ old \in Path /\ old # <<>>
              /\ ~GroupHasConnections(old, a) /\ ~HasChildGroup(old, g)
          BY <2>1, <3>5
        <4> HIDE DEF g, a
        <4>2. QED
          BY <4>1, DeletedTree
      <3>7. QED
        BY <3>4, <3>6
    <2>3. ASSUME Saves(t, "rename"), old \in ConnectionGroupPaths(seen)
          PROVE  ConnectionGroupPaths(row') \ (Ancestors(old) \ {old})
                   = (RenameGroupPaths(ConnectionGroupPaths(seen), old, new) \cup Ancestors(new))
                       \ (Ancestors(old) \ {old})
      <3>1. row' = Apply(req[t], seen) /\ req[t].op = "rename"
        BY <1>1, <2>3, SavesWhatItRead DEF Saves
      <3>2. old # <<>> /\ new # <<>>
        BY <1>1, <3>1 DEF IInv, TypeOK
      <3>3. row' = [groups |-> RenameGroupPaths(seen.groups, old, new),
                    at |-> [c \in Conns |-> RenameGroupPath(seen.at[c], old, new)]]
        BY <3>1 DEF Apply
      <3> DEFINE paths == seen.groups \cup {seen.at[c] : c \in Conns}
      <3>4. ConnectionGroupPaths(seen) = UNION {Ancestors(p) : p \in paths}
        BY DEF ConnectionGroupPaths
      <3>5. ConnectionGroupPaths(row') =
              UNION {Ancestors(RenameGroupPath(p, old, new)) : p \in paths}
        <4>1. row'.groups \cup {row'.at[c] : c \in Conns}
                = {RenameGroupPath(p, old, new) : p \in paths}
          BY <3>3 DEF RenameGroupPaths
        <4>2. ConnectionGroupPaths(row') =
                UNION {Ancestors(q) : q \in {RenameGroupPath(p, old, new) : p \in paths}}
          BY <4>1 DEF ConnectionGroupPaths
        <4> HIDE DEF paths
        <4>3. QED
          BY <4>2
      <3>6. paths \in SUBSET Path
        BY <2>1
      <3> HIDE DEF paths, seen, old, new
      <3>7. QED
        BY <2>1, <2>3, <3>2, <3>4, <3>5, <3>6, RenamedTree
    <2>4. QED
      BY <2>2, <2>3
  <1>2. IInv /\ Vacated /\ [Next]_vars => [\A t \in Threads : Kept(t)]_vars
    BY <1>1
  <1>3. Init => Vacated
    BY IdleFacts DEF Init, Vacated
  <1>4. QED
    BY <1>2, <1>3, StepVacated, Inductive, PTL DEF Spec, OnlyTheSubtree
=============================================================================
