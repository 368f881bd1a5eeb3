-------------------------- MODULE ObjectPages_proofs --------------------------
(***************************************************************************)
(* Proofs about ObjectPages for any buckets, pages and batches, any number  *)
(* of changes by others and any failures.                                   *)
(***************************************************************************)
EXTENDS ObjectPages, TLAPS

-----------------------------------------------------------------------------
(* Places and pages *)

(* Places are in a strict total order, which begins after Start.            *)
LEMMA PlaceOrder ==
    /\ \A p, q, r \in PlaceType : Precedes(p, q) /\ Precedes(q, r) => Precedes(p, r)
    /\ \A p, q \in PlaceType : p = q \/ Precedes(p, q) \/ Precedes(q, p)
    /\ \A p \in PlaceType : ~Precedes(p, p)
  BY DEF PlaceType, Precedes

LEMMA KeyTyped == \A k \in Keys : k \in Nat /\ k > 0
  <1>1. \A k \in Keys : k \in Nat /\ k # 0
    BY PagesAssumption
  <1>2. QED
    BY <1>1

LEMMA PlaceTyped ==
    ASSUME NEW e \in Entry, NEW what
    PROVE  Place(what, e) \in PlaceType /\ Precedes(Start, Place(what, e))
                                        /\ Place(what, e)[1] = e.key
  <1>1. e.key \in Keys /\ e.n \in Nat
    BY DEF Entry
  <1>2. e.key \in Nat /\ e.key > 0
    BY <1>1, KeyTyped
  <1>3. QED
    BY <1>1, <1>2 DEF Place, PlaceType, Precedes, Start

LEMMA Listed ==
    ASSUME NEW what \in {"objects", "versions", "uploads"}, NEW b
    PROVE  Listing(what, b) \subseteq b
  <1>1. Objects(b) \subseteq b
    BY DEF Objects
  <1>2. QED
    BY <1>1 DEF Listing

(* A page holds entries of the listing; every other entry there is ahead is *)
(* still ahead after it, unless it shares its place with one of the page.   *)
(* After a rude page everything is ahead.                                   *)
LEMMA PageFacts ==
    ASSUME TypeOK, NEW page \in Pages, req.what \in {"objects", "versions", "uploads"}
    PROVE  /\ page.entries \subseteq Listing(req.what, bucket)
           /\ page.end \in PlaceType /\ page.last \in BOOLEAN /\ page.rude \in BOOLEAN
           /\ page.rude => ~page.last
           /\ \A e \in Listing(req.what, bucket) :
                Precedes(req.after, Place(req.what, e)) =>
                  \/ \E f \in page.entries : Place(req.what, f) = Place(req.what, e)
                  \/ ~page.last /\ Precedes(page.end, Place(req.what, e))
  <1> DEFINE pl(e) == Place(req.what, e)
  <1>0. /\ Remaining \subseteq Listing(req.what, bucket)
        /\ \A e \in Remaining : e \in Entry /\ pl(e) \in PlaceType
    BY Listed, PlaceTyped DEF Remaining, TypeOK
  <1>1. CASE page \in ProperPages /\ Remaining = {}
    <2>1. /\ page.entries = {} /\ page.end = req.after
          /\ page.last = TRUE /\ page.rude = FALSE
      BY <1>1 DEF ProperPages
    <2>2. QED
      BY <1>1, <2>1 DEF Remaining, TypeOK, Request
  <1>2. CASE page \in ProperPages /\ Remaining # {}
    <2>1. PICK c \in Remaining :
            page = [entries |-> UpTo(c), end |-> pl(c), last |-> UpTo(c) = Remaining,
                    rude |-> FALSE]
      BY <1>2 DEF ProperPages
    <2>2. /\ page.entries = UpTo(c) /\ page.end = pl(c)
          /\ page.last = (UpTo(c) = Remaining) /\ page.rude = FALSE
      BY <2>1
    <2>3. UpTo(c) \subseteq Remaining /\ c \in UpTo(c)
      BY DEF UpTo
    <2>4. ASSUME NEW e \in Remaining, e \notin UpTo(c)
          PROVE  pl(e) = pl(c) \/ Precedes(pl(c), pl(e))
      BY <1>0, <2>4, PlaceOrder DEF UpTo
    <2>5. ASSUME NEW e \in Listing(req.what, bucket), Precedes(req.after, pl(e))
          PROVE  \/ \E f \in page.entries : pl(f) = pl(e)
                 \/ ~page.last /\ Precedes(page.end, pl(e))
      <3>1. e \in Remaining
        BY <2>5 DEF Remaining
      <3>2. QED
        BY <2>2, <2>3, <2>4, <3>1
    <2>6. QED
      BY <1>0, <2>2, <2>3, <2>5
  <1>3. CASE page \in RudePages
    <2>1. /\ page.end = Start /\ page.last = FALSE /\ page.rude = TRUE
          /\ page.entries \subseteq Remaining
      <3>1. PICK es : page = RudePage(es) /\ (es = {} \/ \E q \in ProperPages : es = q.entries)
        BY <1>3 DEF RudePages
      <3>2. ASSUME NEW q \in ProperPages PROVE q.entries \subseteq Remaining
        <4>1. CASE Remaining = {}
          BY <4>1 DEF ProperPages
        <4>2. CASE Remaining # {}
          <5>1. PICK c \in Remaining :
                  q = [entries |-> UpTo(c), end |-> pl(c), last |-> UpTo(c) = Remaining,
                       rude |-> FALSE]
            BY <4>2 DEF ProperPages
          <5>2. q.entries = UpTo(c)
            BY <5>1
          <5>3. QED
            BY <5>2 DEF UpTo
        <4>3. QED
          BY <4>1, <4>2
      <3>3. QED
        BY <3>1, <3>2 DEF RudePage
    <2>2. Start \in PlaceType
      BY DEF Start, PlaceType
    <2>3. \A e \in Listing(req.what, bucket) : Precedes(Start, pl(e))
      BY Listed, PlaceTyped DEF TypeOK
    <2>4. QED
      BY <1>0, <2>1, <2>2, <2>3
  <1>4. QED
    BY <1>1, <1>2, <1>3 DEF Pages

-----------------------------------------------------------------------------
(* The inductive invariant *)

LEMMA InitIInv == Init => IInv
  <1> SUFFICES ASSUME Init PROVE IInv
    OBVIOUS
  <1> PICK op \in Ops, k \in Keys, f \in {"zip", "tgz"} :
         /\ lists \in BOOLEAN /\ (versioned \/ op # "folder" => lists)
         /\ op \notin {"versions", "file"} => k = Folder
         /\ op = "file" => k # Folder
         /\ op # "archive" => f = "zip"
         /\ req = [op |-> op, key |-> k, format |-> f, what |-> What(op),
                   pc |-> IF op = "file" THEN "head" ELSE "list",
                   after |-> Start, last |-> FALSE, rude |-> FALSE,
                   got |-> {}, todo |-> {},
                   total |-> 0, written |-> 0, grown |-> 0, short |-> FALSE]
         /\ writes \in 0..MaxWrites
         /\ \E h \in [1..writes -> [key : Keys, kind : Kinds, size : SizesFor(op)]] :
              /\ \A n \in 1..writes : h[n].kind = "upload" <=> op = "uploads"
              /\ LET all == {[key |-> h[n].key, n |-> n, kind |-> h[n].kind, size |-> h[n].size]
                               : n \in 1..writes}
                 IN  bucket = IF versioned \/ op = "uploads" THEN all ELSE Objects(all)
    BY DEF Init
  <1> PICK h \in [1..writes -> [key : Keys, kind : Kinds, size : SizesFor(op)]] :
         LET all == {[key |-> h[n].key, n |-> n, kind |-> h[n].kind, size |-> h[n].size]
                       : n \in 1..writes}
         IN  bucket = IF versioned \/ op = "uploads" THEN all ELSE Objects(all)
    OBVIOUS
  <1> DEFINE entry(n) == [key |-> h[n].key, n |-> n, kind |-> h[n].kind, size |-> h[n].size]
             all == {entry(n) : n \in 1..writes}
  <1>1. writes \in Nat /\ SizesFor(op) \subseteq Sizes /\ Sizes \subseteq Nat
    BY PagesAssumption DEF SizesFor
  <1>2. ASSUME NEW e \in all
        PROVE  e \in Entry /\ e.n \in 1..writes /\ e = entry(e.n)
    <2>1. PICK n \in 1..writes : e = entry(n)
      OBVIOUS
    <2>2. h[n] \in [key : Keys, kind : Kinds, size : Sizes] /\ n \in Nat
      BY <1>1
    <2>3. QED
      BY <2>1, <2>2 DEF Entry
  <1>3. bucket \subseteq all
    BY DEF Objects
  <1>4. \A d, e \in bucket : d.n = e.n => d = e
    BY <1>2, <1>3
  <1>5. ~versioned /\ req.op # "uploads" =>
           \A d, e \in bucket : d.key = e.key => d = e
    <2> SUFFICES ASSUME ~versioned, op # "uploads", NEW d \in bucket, NEW e \in bucket,
                        d.key = e.key
                 PROVE  d = e
      OBVIOUS
    <2>1. bucket = Objects(all)
      OBVIOUS
    <2>2. d.n <= e.n /\ e.n <= d.n
      BY <2>1 DEF Objects
    <2>3. d.n \in Nat /\ e.n \in Nat
      BY <1>1, <1>2, <1>3
    <2>4. d.n = e.n
      BY <2>2, <2>3
    <2>5. QED
      BY <1>4, <2>4, Zenon
  <1>6. What(op) \in {"objects", "versions", "uploads"} /\ Start \in PlaceType
    BY DEF What, Start, PlaceType
  <1>7. req \in Request
    BY <1>6 DEF Request, Entry
  <1>8. Watched \in {"objects", "versions", "uploads"}
    BY <1>6 DEF Watched
  <1>9. \A p \in always : p \in PlaceType /\ Precedes(Start, p)
    <2>1. Listing(Watched, bucket) \subseteq Entry
      BY <1>2, <1>3, <1>8, Listed
    <2>2. always = Places(Watched, bucket)
      BY DEF Init
    <2>3. ASSUME NEW p \in always
          PROVE  p \in PlaceType /\ Precedes(Start, p)
      <3>1. PICK e \in Listing(Watched, bucket) : p = Place(Watched, e)
        BY <2>2 DEF Places
      <3>2. e \in Entry
        BY <2>1
      <3>3. QED
        BY <3>1, <3>2, PlaceTyped
    <2>4. QED
      BY <2>3
  <1>10. TypeOK
    <2>1. bucket \subseteq Entry /\ \A e \in bucket : e.n <= writes
      BY <1>1, <1>2, <1>3
    <2>2. changes \in 0..MaxChanges
      BY PagesAssumption DEF Init
    <2>3. always = ever /\ lost = {} /\ versioned \in BOOLEAN /\ lists \in BOOLEAN
      BY DEF Init
    <2>4. QED
      BY <1>1, <1>5, <1>7, <1>9, <2>1, <2>2, <2>3 DEF TypeOK
  <1>11. Flow
    BY DEF Flow, What, At, Collects, Init
  <1>12. Tracked
    BY DEF Tracked, Init
  <1>13. Unique
    BY <1>2, <1>3, <1>4 DEF Unique
  <1>14. Seen /\ Known
    BY <1>9 DEF Seen, Known, Behind, At
  <1>15. Gone
    BY <1>9 DEF Gone, At, What
  <1>16. SparesUnlisted /\ Counted
    BY PagesAssumption DEF SparesUnlisted, Counted, Init
  <1>17. QED
    BY <1>10, <1>11, <1>12, <1>13, <1>14, <1>15, <1>16 DEF IInv

(* What others do leaves the request alone.                                 *)
LEMMA OthersStep ==
    ASSUME IInv, NEW b \in SUBSET Entry, Becomes(b),
           UNCHANGED <<versioned, lists, req, lost>>,
           changes' \in 0..MaxChanges, writes' \in Nat, writes <= writes',
           \A e \in b : e.n <= writes' /\ (e \in bucket \/ e.n = writes + 1),
           \A d, e \in b : d \notin bucket /\ e \notin bucket => d = e,
           ~versioned /\ req.op # "uploads" => \A d, e \in b : d.key = e.key => d = e
    PROVE  IInv'
  <1> USE DEF IInv
  <1>1. Watched' = Watched /\ Wanted' = Wanted
    BY DEF Watched, What, Wanted
  <1>2. always' \subseteq always /\ ever \subseteq ever'
    BY DEF Becomes
  <1>3. \A e \in b : e \in Entry
    OBVIOUS
  <1>4. Watched \in {"objects", "versions", "uploads"}
    BY DEF Watched, What
  <1>5. Places(Watched, b) \subseteq PlaceType
    BY <1>3, <1>4, Listed, PlaceTyped DEF Places
  <1>6. TypeOK'
    BY <1>2, <1>5 DEF TypeOK, Becomes
  <1>7. Tracked'
    BY <1>1 DEF Tracked, Becomes, Places, Listing
  <1>8. Unique'
    <2>1. \A e \in bucket \cup req.todo : e.n <= writes /\ e.n \in Nat /\ writes \in Nat
      BY DEF Unique, TypeOK, Request, Entry
    <2>2. \A d, e \in b \cup req.todo : d.key = e.key /\ d.n = e.n => d = e
      BY <2>1 DEF Unique
    <2>3. \A e \in req.todo : e.n <= writes'
      BY <2>1
    <2>4. QED
      BY <2>2, <2>3 DEF Unique, Becomes
  <1>9. Flow' /\ SparesUnlisted' /\ Counted'
    BY DEF Flow, SparesUnlisted, Counted, What, At, KeysOf
  <1>10. Seen' /\ Known'
    BY <1>1, <1>2 DEF Seen, Known, At, Behind, Reports
  <1>11. Gone'
    BY <1>2 DEF Gone, At, ToDelete
  <1>12. QED
    BY <1>6, <1>7, <1>8, <1>9, <1>10, <1>11

LEMMA OthersAct ==
    ASSUME IInv, CreateFolder \/ Upload \/ DeleteObject \/ BeginUpload \/ DeleteVersion \/ AbortMultipart
    PROVE  IInv'
  <1> USE DEF IInv
  <1>0. Sizes \subseteq Nat /\ 0 \in Sizes /\ Folder \in Keys /\ MaxChanges \in Nat
    BY PagesAssumption
  <1>1. ASSUME NEW k \in Keys, NEW kind \in Kinds, NEW size \in Sizes, Write(k, kind, size)
        PROVE  IInv'
    <2> DEFINE e == [key |-> k, n |-> writes + 1, kind |-> kind, size |-> size]
               kept == IF versioned \/ kind = "upload" THEN bucket ELSE {f \in bucket : f.key # k}
               b == IF kind = "marker" /\ ~versioned THEN kept ELSE kept \cup {e}
    <2>1. writes \in Nat /\ changes \in 0..MaxChanges
      BY DEF TypeOK
    <2>2. /\ Becomes(b) /\ UNCHANGED <<versioned, lists, req, lost>>
          /\ writes' = writes + 1 /\ changes' = changes + 1 /\ changes < MaxChanges
          /\ kind = "upload" <=> req.op = "uploads"
      BY <1>1 DEF Write
    <2>3. e \in Entry /\ e.n = writes + 1 /\ e.key = k
      BY <2>1 DEF Entry
    <2>4. kept \subseteq bucket /\ b \subseteq kept \cup {e}
      OBVIOUS
    <2>5. \A f \in b : f \in bucket \/ f = e
      BY <2>4
    <2>6. b \in SUBSET Entry
      BY <2>3, <2>5 DEF TypeOK
    <2>7. \A f \in b : f.n <= writes' /\ (f \in bucket \/ f.n = writes + 1)
      <3>1. \A f \in bucket : f.n \in Nat /\ f.n <= writes
        BY DEF TypeOK, Entry
      <3>2. QED
        BY <2>1, <2>2, <2>3, <2>5, <3>1
    <2>8. ~versioned /\ req.op # "uploads" => \A d, f \in b : d.key = f.key => d = f
      <3> SUFFICES ASSUME ~versioned, req.op # "uploads"
                   PROVE  \A d, f \in b : d.key = f.key => d = f
        OBVIOUS
      <3>1. \A f \in kept : f \in bucket /\ f.key # k
        BY <2>2
      <3>2. \A d, f \in kept : d.key = f.key => d = f
        BY <3>1 DEF TypeOK
      <3>3. QED
        BY <2>3, <2>4, <3>1, <3>2
    <2>9. QED
      <3>1. changes' \in 0..MaxChanges /\ writes' \in Nat /\ writes <= writes'
        BY <1>0, <2>1, <2>2
      <3>2. \A d, f \in b : d \notin bucket /\ f \notin bucket => d = f
        BY <2>5
      <3> HIDE DEF b
      <3>3. QED
        BY <2>2, <2>6, <2>7, <2>8, <3>1, <3>2, OthersStep
  <1>2. ASSUME DeleteEntry
        PROVE  IInv'
    <2>1. PICK e \in bucket : Becomes(bucket \ {e})
      BY <1>2 DEF DeleteEntry
    <2> DEFINE b == bucket \ {e}
    <2>2. /\ b \in SUBSET Entry
          /\ \A f \in b : f.n <= writes /\ f \in bucket
          /\ ~versioned /\ req.op # "uploads" => \A d, f \in b : d.key = f.key => d = f
      BY DEF TypeOK
    <2>3. /\ changes' \in 0..MaxChanges /\ writes' = writes /\ writes \in Nat
          /\ UNCHANGED <<versioned, lists, req, lost>>
      BY <1>0, <1>2 DEF DeleteEntry, TypeOK
    <2>4. Becomes(b)
      BY <2>1
    <2> HIDE DEF b
    <2>5. writes <= writes'
      BY <2>3
    <2>6. QED
      BY <2>2, <2>3, <2>4, <2>5, OthersStep
  <1>3. SizesFor(req.op) \subseteq Sizes /\ Kinds = {"object", "marker", "upload"}
    BY <1>0 DEF SizesFor, Kinds
  <1>4. QED
    BY <1>0, <1>1, <1>2, <1>3
       DEF CreateFolder, Upload, DeleteObject, BeginUpload, DeleteVersion, AbortMultipart

(* A step that leaves the bucket alone keeps what is known of it.           *)
LEMMA Unmoved ==
    ASSUME IInv, Unchanged, req' \in Request, req'.op = req.op, req'.key = req.key,
           req.got \subseteq req'.got, req'.todo \subseteq req.todo \cup bucket
    PROVE  TypeOK' /\ Tracked' /\ Unique' /\ SparesUnlisted' /\ Watched' = Watched /\ Wanted' = Wanted
  <1> USE DEF IInv, Unchanged
  <1>1. Watched' = Watched /\ Wanted' = Wanted
    BY DEF Watched, What, Wanted
  <1>2. TypeOK'
    BY DEF TypeOK
  <1>3. Tracked'
    BY <1>1 DEF Tracked, Places, Listing
  <1>4. Unique'
    BY DEF Unique, TypeOK
  <1>5. SparesUnlisted'
    BY DEF SparesUnlisted, KeysOf
  <1>6. QED
    BY <1>1, <1>2, <1>3, <1>4, <1>5

(* A step that ends the request with an error.                              *)
LEMMA FailedStep ==
    ASSUME IInv, Unchanged, At("failed")', req' \in Request, req'.op = req.op, req'.key = req.key,
           req'.got = req.got, req'.todo = req.todo, req'.what = req.what,
           req'.last = req.last, Counted'
    PROVE  IInv'
  <1> USE DEF IInv
  <1>1. TypeOK' /\ Tracked' /\ Unique' /\ SparesUnlisted'
    BY Unmoved
  <1>2. Flow'
    BY DEF Flow, At, Unchanged, Collects, What
  <1>3. Seen' /\ Known'
    BY DEF Seen, Known, At, Unchanged
  <1>4. Gone'
    BY DEF Gone, At, Unchanged
  <1>5. QED
    BY <1>1, <1>2, <1>3, <1>4

LEMMA FailStep == ASSUME IInv, Fail PROVE IInv'
  <1>1. req' = [req EXCEPT !.pc = "failed"] /\ req \in Request
    BY DEF Fail, IInv, TypeOK
  <1>2. req' \in Request /\ At("failed")'
    BY <1>1 DEF Request, At
  <1>3. Counted'
    BY <1>1 DEF Request, IInv, Counted
  <1>4. QED
    BY <1>1, <1>2, <1>3, FailedStep DEF Fail, Request

-----------------------------------------------------------------------------
(* Listings *)

(* What the request has come past after a page: it was behind it before, or *)
(* is on the page.                                                          *)
LEMMA PageCovers ==
    ASSUME IInv, NEW page \in Pages, Watched = req.what, NEW p \in always
    PROVE  \/ ~Precedes(req.after, p)
           \/ \E f \in page.entries : f.key = p[1] /\ Place(req.what, f) = p
           \/ ~page.last /\ Precedes(page.end, p)
  <1> USE DEF IInv
  <1>1. req.what \in {"objects", "versions", "uploads"}
    BY DEF TypeOK, Request
  <1>2. PICK e \in Listing(req.what, bucket) : Place(req.what, e) = p
    BY DEF Tracked, Places
  <1>3. \A f \in page.entries : f \in Entry
    BY <1>1, PageFacts, Listed DEF TypeOK
  <1>4. \A f \in page.entries : Place(req.what, f)[1] = f.key
    BY <1>3, PlaceTyped
  <1>5. QED
    BY <1>1, <1>2, <1>4, PageFacts

LEMMA PageEntries ==
    ASSUME IInv, NEW page \in Pages
    PROVE  /\ page.entries \subseteq bucket /\ page.entries \subseteq Entry
           /\ page.end \in PlaceType /\ page.last \in BOOLEAN
           /\ page.rude \in BOOLEAN /\ (page.rude => ~page.last)
           /\ Watched = req.what => \A e \in page.entries : Place(req.what, e) \in ever
  <1> USE DEF IInv
  <1>1. req.what \in {"objects", "versions", "uploads"}
    BY DEF TypeOK, Request
  <1>2. /\ page.entries \subseteq Listing(req.what, bucket)
        /\ page.end \in PlaceType /\ page.last \in BOOLEAN
        /\ page.rude \in BOOLEAN /\ (page.rude => ~page.last)
    BY <1>1, PageFacts
  <1>3. page.entries \subseteq bucket
    BY <1>1, <1>2, Listed
  <1>4. Watched = req.what => \A e \in page.entries : Place(req.what, e) \in ever
    BY <1>2 DEF Tracked, Places
  <1>5. QED
    BY <1>2, <1>3, <1>4 DEF TypeOK

LEMMA CollectStep == ASSUME IInv, Collect PROVE IInv'
  <1> USE DEF IInv
  <1> PICK page \in Pages :
         req' = [Took(page) EXCEPT !.pc = IF Last(page) THEN "done" ELSE "list"]
    BY DEF Collect
  <1>1. /\ req.op \in Collects /\ At("list") /\ Unchanged /\ req \in Request
        /\ Watched = req.what /\ ~req.last
    BY DEF Collect, Collecting, Collects, Flow, TypeOK, Watched
  <1>2. /\ page.entries \subseteq bucket /\ page.entries \subseteq Entry /\ page.end \in PlaceType
        /\ page.last \in BOOLEAN /\ page.rude \in BOOLEAN /\ (page.rude => ~page.last)
        /\ \A e \in page.entries : Place(req.what, e) \in ever
    BY <1>1, PageEntries
  <1>3. Reported(page) \subseteq page.entries
    BY DEF Reported
  <1>4. /\ req' \in Request
        /\ req'.op = req.op /\ req'.key = req.key /\ req'.what = req.what /\ req'.last = req.last
        /\ req'.todo = req.todo /\ req'.got = req.got \cup Reported(page)
        /\ req'.after = page.end /\ req'.rude = page.rude
        /\ req'.pc = IF Last(page) THEN "done" ELSE "list"
        /\ req'.total = req.total /\ req'.written = req.written /\ req'.grown = req.grown
        /\ req'.format = req.format
    BY <1>1, <1>2, <1>3 DEF Request, Took
  <1>5. TypeOK' /\ Tracked' /\ Unique' /\ SparesUnlisted' /\ Wanted' = Wanted
    BY <1>1, <1>4, Unmoved
  <1>6. Flow'
    BY <1>1, <1>2, <1>4 DEF Flow, At, Unchanged, Collects, What, Last
  <1>7. Seen'
    <2> SUFFICES ASSUME ~(req.op = "uploads" /\ page.rude),
                        NEW p \in always, p[1] \in Wanted, Behind(p)'
                 PROVE  \E e \in req'.got : Place(req'.what, e) = p
      BY <1>1, <1>4, <1>5 DEF Seen, Reports, Unchanged
    <2>0. ~(req.op = "uploads" /\ req.rude)
      BY <1>1 DEF Flow
    <2>9. Last(page) = page.last
      BY <1>2 DEF Last
    <2>1. CASE ~Precedes(req.after, p)
      <3>1. Reports(p)
        BY <1>1, <2>0, <2>1 DEF Seen, Behind, At
      <3>2. QED
        BY <1>1, <1>4, <3>1 DEF Reports, At
    <2>2. CASE \E f \in page.entries : f.key = p[1] /\ Place(req.what, f) = p
      BY <1>4, <2>2 DEF Reported
    <2>3. CASE ~page.last /\ Precedes(page.end, p)
      BY <1>1, <1>4, <2>3, <2>9 DEF Behind, At
    <2>4. QED
      BY <1>1, <2>1, <2>2, <2>3, PageCovers
  <1>8. Known'
    BY <1>1, <1>2, <1>3, <1>4 DEF Known, Unchanged
  <1>9. Gone' /\ Counted'
    BY <1>1, <1>4 DEF Gone, Collects, Counted
  <1>10. QED
    BY <1>5, <1>6, <1>7, <1>8, <1>9

-----------------------------------------------------------------------------
(* Deletion *)

LEMMA FolderVersionsStep == ASSUME IInv, FolderVersions PROVE IInv'
  <1> USE DEF IInv
  <1> PICK page \in Pages :
         LET all == req.todo \cup page.entries
             next == [req EXCEPT !.got = @ \cup page.entries, !.todo = all, !.after = page.end,
                                 !.rude = page.rude]
         IN  req' = CASE ~page.last -> next
                      [] page.last /\ all # {} -> [next EXCEPT !.pc = "delete"]
                      [] OTHER -> [next EXCEPT !.what = "objects", !.after = Start]
    BY DEF FolderVersions
  <1> DEFINE all == req.todo \cup page.entries
  <1>1. /\ req.op = "folder" /\ req.what = "versions" /\ At("list") /\ Unchanged /\ req \in Request
        /\ req.todo \subseteq req.got
        /\ lists => Watched = req.what
        /\ ~lists => req.todo = {}
    BY DEF FolderVersions, Flow, TypeOK, Watched, What
  <1>2. /\ page.entries \subseteq bucket /\ page.entries \subseteq Entry /\ page.end \in PlaceType
        /\ page.last \in BOOLEAN /\ page.rude \in BOOLEAN /\ Start \in PlaceType
    BY PageEntries DEF Start, PlaceType
  <1>3. ~lists => all = {}
    <2>1. ~lists => page.entries = {}
      BY <1>1, PageFacts DEF Listing
    <2>2. QED
      BY <1>1, <2>1
  <1>4. /\ req' \in Request
        /\ req'.op = req.op /\ req'.key = req.key /\ req'.last = req.last
        /\ req'.todo = all /\ req'.got = req.got \cup page.entries
        /\ req'.total = req.total /\ req'.written = req.written /\ req'.grown = req.grown
        /\ req'.format = req.format
        /\ ~page.last => req'.pc = req.pc /\ req'.what = req.what /\ req'.after = page.end
        /\ page.last /\ all # {} => req'.pc = "delete" /\ req'.what = req.what
        /\ page.last /\ all = {} =>
             req'.pc = req.pc /\ req'.what = "objects" /\ req'.after = Start
    <2>1. req' \in Request
      BY <1>1, <1>2 DEF Request
    <2>2. QED
      BY <1>1, <1>2, <2>1 DEF Request
  <1>5. TypeOK' /\ Tracked' /\ Unique' /\ SparesUnlisted'
    <2>1. req.got \subseteq req'.got /\ req'.todo \subseteq req.todo \cup bucket
      BY <1>2, <1>4
    <2>2. QED
      BY <1>1, <1>4, <2>1, Unmoved
  <1>6. Flow'
    BY <1>1, <1>2, <1>3, <1>4 DEF Flow, At, Unchanged, Collects, What
  <1>7. Seen' /\ Known' /\ Counted'
    BY <1>1, <1>4 DEF Seen, Known, Collects, Counted
  <1>8. ASSUME NEW p \in always, lists
        PROVE  \/ \E e \in all : Place("versions", e) = p
               \/ ~page.last /\ Precedes(page.end, p)
    <2>1. Precedes(req.after, p) \/ \E e \in req.todo : Place("versions", e) = p
      BY <1>1, <1>8 DEF Gone, ToDelete
    <2>2. QED
      BY <1>1, <1>8, <2>1, PageCovers
  <1>9. Gone'
    <2>1. CASE ~page.last
      BY <1>1, <1>4, <1>8, <2>1 DEF Gone, At, ToDelete, Unchanged
    <2>2. CASE page.last /\ all # {}
      BY <1>1, <1>3, <1>4, <1>8, <2>2 DEF Gone, At, ToDelete, Unchanged
    <2>3. CASE page.last /\ all = {}
      <3>1. lists => always = {}
        BY <1>8, <2>3
      <3>2. ASSUME NEW p \in always PROVE Precedes(Start, p)
        <4>1. ~lists /\ Watched = "objects"
          BY <1>1, <3>1 DEF Watched
        <4>2. PICK e \in Listing("objects", bucket) : p = Place("objects", e)
          BY <4>1 DEF Tracked, Places
        <4>3. e \in Entry
          BY <4>2, Listed DEF TypeOK
        <4>4. QED
          BY <4>2, <4>3, PlaceTyped
      <3>3. QED
        BY <1>1, <1>4, <2>3, <3>1, <3>2 DEF Gone, At, Unchanged
    <2>4. QED
      BY <1>2, <2>1, <2>2, <2>3
  <1>10. QED
    BY <1>5, <1>6, <1>7, <1>9

\* The values of req.pc.
RequestPCs == {"list", "delete", "head", "remove", "copy", "done", "failed"}

LEMMA FolderObjectsStep == ASSUME IInv, FolderObjects PROVE IInv'
  <1> USE DEF IInv
  <1> PICK page \in Pages :
         req' = [req EXCEPT !.got = @ \cup page.entries, !.todo = page.entries,
                            !.after = page.end, !.last = page.last, !.rude = page.rude,
                            !.pc = CASE page.entries # {} -> "delete"
                                     [] page.entries = {} /\ page.last -> "done"
                                     [] OTHER -> "list"]
    BY DEF FolderObjects
  <1>1. /\ req.op = "folder" /\ req.what = "objects" /\ At("list") /\ Unchanged /\ req \in Request
        /\ lists => always = {}
        /\ ~lists => Watched = req.what
    BY DEF FolderObjects, TypeOK, Watched, Gone
  <1>2. /\ page.entries \subseteq bucket /\ page.entries \subseteq Entry /\ page.end \in PlaceType
        /\ page.last \in BOOLEAN /\ page.rude \in BOOLEAN
    BY <1>1, PageEntries
  <1> DEFINE got == req.got \cup page.entries
             pc == CASE page.entries # {} -> "delete"
                     [] page.entries = {} /\ page.last -> "done"
                     [] OTHER -> "list"
  <1>3. /\ req' \in Request
        /\ req'.op = req.op /\ req'.key = req.key /\ req'.what = req.what
        /\ req'.todo = page.entries /\ req'.got = got
        /\ req'.total = req.total /\ req'.written = req.written /\ req'.grown = req.grown
        /\ req'.format = req.format
        /\ req'.after = page.end /\ req'.pc = pc /\ req'.last = page.last
    <2>1. got \in SUBSET Entry /\ page.entries \in SUBSET Entry
      BY <1>1, <1>2 DEF Request
    <2>2. pc \in RequestPCs
      BY DEF RequestPCs
    <2>3. req' = [req EXCEPT !.got = got, !.todo = page.entries, !.after = page.end,
                             !.last = page.last, !.rude = page.rude, !.pc = pc]
      OBVIOUS
    <2> DEFINE last == page.last
               rude == page.rude
    <2>4. last \in BOOLEAN /\ rude \in BOOLEAN
      BY <1>2
    <2>5. req' = [req EXCEPT !.got = got, !.todo = page.entries, !.after = page.end,
                             !.last = last, !.rude = rude, !.pc = pc]
      BY <2>3
    <2> HIDE DEF got, pc, last, rude
    <2>6. /\ req' \in Request
          /\ req'.op = req.op /\ req'.key = req.key /\ req'.what = req.what
          /\ req'.todo = page.entries /\ req'.got = got
          /\ req'.total = req.total /\ req'.written = req.written /\ req'.grown = req.grown
        /\ req'.format = req.format
          /\ req'.after = page.end /\ req'.pc = pc /\ req'.last = last
      BY ZenonT(60), <1>1, <1>2, <2>1, <2>2, <2>4, <2>5 DEF Request, RequestPCs
    <2>7. QED
      BY <2>6 DEF last
  <1>0. req'.last = page.last
    BY <1>3
  <1>4. TypeOK' /\ Tracked' /\ Unique' /\ SparesUnlisted'
    BY <1>1, <1>2, <1>3, Unmoved
  <1>5. Flow' /\ Seen' /\ Known' /\ Counted'
    BY <1>0, <1>1, <1>3 DEF Flow, At, Unchanged, Collects, What, Seen, Known, Counted
  <1>6. ASSUME NEW p \in always
        PROVE  (~page.last /\ Precedes(page.end, p)) \/ \E e \in page.entries : Place("objects", e) = p
    <2>1. Watched = req.what /\ Precedes(req.after, p)
      BY <1>1 DEF Gone
    <2>2. QED
      BY <1>1, <2>1, PageCovers
  <1>7. Gone'
    <2>1. CASE page.entries = {} /\ page.last
      <3>1. always = {} /\ req'.pc = "done"
        BY <1>0, <1>2, <1>3, <1>6, <2>1
      <3>2. QED
        BY <1>1, <3>1 DEF Gone, At, Unchanged
    <2>4. CASE page.entries = {} /\ ~page.last
      <3>1. req'.pc = "list" /\ \A p \in always : Precedes(req'.after, p)
        BY <1>2, <1>3, <1>6, <2>4
      <3>2. QED
        BY <1>1, <1>3, <3>1 DEF Gone, At, Unchanged
    <2>2. CASE page.entries # {}
      <3>1. req'.pc = "delete"
        BY <1>3, <2>2
      <3>2. QED
        BY <1>0, <1>1, <1>3, <1>6, <3>1 DEF Gone, At, ToDelete, Unchanged
    <2>3. QED
      BY <1>2, <2>1, <2>2, <2>4
  <1>8. QED
    BY SMTT(30), <1>4, <1>5, <1>7

(* What S3 deletes of a folder's list is gone from the listing, and nothing *)
(* goes that was not on the list.                                           *)
LEMMA DeleteEffect ==
    ASSUME IInv, At("delete"), NEW es \in SUBSET req.todo, DeleteListed(es),
           UNCHANGED <<versioned, lists, changes>>,
           req' \in Request, req'.op = req.op, req'.key = req.key, req'.what = req.what,
           req'.got = req.got, req'.todo \subseteq req.todo
    PROVE  /\ TypeOK' /\ Tracked' /\ Unique' /\ SparesUnlisted'
           /\ always' \subseteq always
           /\ \A p \in always', e \in es : Place(req.what, e) # p
  <1> USE DEF IInv
  <1>1. /\ req.op = "folder" /\ req.what \in {"versions", "objects"}
        /\ req.todo \subseteq req.got /\ req.todo \subseteq Entry /\ req.key \in Keys
        /\ req.what = "versions" => lists
        /\ writes \in Nat /\ req \in Request
    BY DEF Flow, TypeOK, Request
  <1>2. Watched' = Watched
    BY DEF Watched, What
  <1> DEFINE b == bucket'
             new == Markers(KeysOf(es))
  <1>3. Becomes(b)
    BY DEF DeleteListed, Becomes
  <1>4. /\ writes' \in Nat /\ writes <= writes'
        /\ \A e \in new : e \in Entry /\ e.n = writes + 1 /\ versioned
        /\ \A d, e \in new : d.key = e.key => d = e
    <2>1. writes' \in {writes, writes + 1}
      BY DEF DeleteListed
    <2>2. \A k \in KeysOf(es) : k \in Keys
      BY <1>1 DEF KeysOf, Entry
    <2>3. 0 \in Sizes
      BY PagesAssumption
    <2>4. QED
      BY <1>1, <2>1, <2>2, <2>3 DEF Markers, Entry, Kinds
  <1>5. /\ \A e \in b : e \in bucket \/ (e \in new /\ writes' = writes + 1)
        /\ Deleted(es) \subseteq bucket
    BY DEF DeleteListed, Becomes, Deleted
  <1>6. \A e \in b : e \in Entry /\ e.n <= writes'
    <2>1. \A e \in bucket : e \in Entry /\ e.n \in Nat /\ e.n <= writes
      BY DEF TypeOK, Entry
    <2>2. QED
      BY <1>1, <1>4, <1>5, <2>1
  <1>7. ~versioned => \A d, e \in b : d.key = e.key => d = e
    BY <1>1, <1>4, <1>5 DEF TypeOK
  <1>8. Watched \in {"objects", "versions", "uploads"}
    BY DEF Watched, What
  <1>9. ever' \subseteq PlaceType /\ always' \subseteq ever' /\ always' \subseteq always
    <2>1. ASSUME NEW p \in Places(Watched, b) PROVE p \in PlaceType
      <3>1. PICK e \in Listing(Watched, b) : p = Place(Watched, e)
        BY DEF Places
      <3>2. e \in Entry
        BY <1>6, <1>8, <3>1, Listed
      <3>3. QED
        BY <3>1, <3>2, PlaceTyped
    <2>2. QED
      BY <1>3, <2>1 DEF Becomes, TypeOK
  <1>10. lost' \subseteq Entry
    BY <1>5 DEF DeleteListed, TypeOK
  <1>11. TypeOK'
    BY <1>4, <1>6, <1>7, <1>9, <1>10 DEF TypeOK
  <1>12. Tracked'
    BY <1>2, <1>3 DEF Tracked, Becomes, Places, Listing
  <1>13. Unique'
    <2>1. \A e \in bucket \cup req.todo : e.n \in Nat /\ e.n <= writes
      BY <1>1 DEF Unique, TypeOK, Entry
    <2>2. \A d, e \in bucket \cup req.todo \cup new : d.key = e.key /\ d.n = e.n => d = e
      BY <1>1, <1>4, <2>1 DEF Unique
    <2>3. b \cup req'.todo \subseteq bucket \cup req.todo \cup new
      BY <1>5
    <2>4. \A e \in req'.todo : e.n <= writes'
      BY <1>1, <1>4, <2>1
    <2>5. QED
      BY <2>2, <2>3, <2>4 DEF Unique
  <1>14. SparesUnlisted'
    <2>1. \A e \in Deleted(es) : IF versioned THEN e \in req.got ELSE e.key \in KeysOf(req.got)
      BY <1>1 DEF Deleted, KeysOf
    <2>2. lost' = lost \/ lost' = lost \cup Deleted(es)
      BY DEF DeleteListed
    <2>3. QED
      BY <2>1, <2>2 DEF SparesUnlisted, KeysOf
  <1>15. ASSUME NEW p \in always', NEW e \in es
         PROVE  Place(req.what, e) # p
    <2> SUFFICES ASSUME Place(req.what, e) = p PROVE FALSE
      OBVIOUS
    <2>1. Watched = req.what /\ (req.what = "objects" => ~versioned)
      <3>1. req.what = "objects" /\ lists => FALSE
        BY <1>1, <1>9 DEF Gone
      <3>2. QED
        BY <1>1, <3>1 DEF Watched, What, Flow
    <2>2. PICK g \in Listing(Watched, b) : Place(Watched, g) = p
      BY <1>3 DEF Becomes, Places
    <2>3. b = bucket \ Deleted(es) /\ g \in b
      <3>1. b = bucket \ Deleted(es)
        BY <1>1, <2>1 DEF DeleteListed, Becomes
      <3>2. Listing(Watched, b) \subseteq b
        BY <1>8, Listed
      <3>3. QED
        BY <2>2, <3>1, <3>2
    <2>4. g.key = e.key /\ (req.what = "versions" => g.n = e.n)
      BY <1>1, <2>1, <2>2 DEF Place
    <2>5. g \in Deleted(es)
      BY <1>1, <2>1, <2>3, <2>4 DEF Deleted, Unique
    <2>6. QED
      BY <2>3, <2>5
  <1>16. QED
    BY <1>9, <1>11, <1>12, <1>13, <1>14, <1>15

LEMMA DeleteBatchStep == ASSUME IInv, DeleteBatch PROVE IInv'
  <1> USE DEF IInv
  <1> PICK es \in SUBSET req.todo :
         /\ DeleteListed(es)
         /\ req' = [req EXCEPT !.todo = @ \ es, !.pc = AfterBatch(req.todo \ es)]
    BY DEF DeleteBatch
  <1> DEFINE rest == req.todo \ es
  <1>1. /\ req.op = "folder" /\ req.what \in {"versions", "objects"} /\ At("delete")
        /\ UNCHANGED <<versioned, lists, changes>>
        /\ req.todo \subseteq req.got /\ req \in Request
        /\ req.what = "versions" => lists
    BY DEF DeleteBatch, Flow, TypeOK, Request
  <1>2. /\ AfterBatch(rest) \in {"delete", "done", "list"}
        /\ rest # {} => AfterBatch(rest) = "delete"
        /\ AfterBatch(rest) = "delete" => rest # {}
        /\ AfterBatch(rest) = "done" => rest = {} /\ (req.what = "versions" \/ req.last)
        /\ AfterBatch(rest) = "list" => rest = {} /\ req.what = "objects" /\ ~req.last
    BY <1>1 DEF AfterBatch
  <1>3. /\ req' \in Request
        /\ req'.op = req.op /\ req'.key = req.key /\ req'.last = req.last /\ req'.what = req.what
        /\ req'.todo = rest /\ req'.got = req.got /\ req'.after = req.after
        /\ req'.total = req.total /\ req'.written = req.written /\ req'.grown = req.grown
        /\ req'.format = req.format
        /\ req'.pc = AfterBatch(rest)
    <2>1. req' \in Request
      BY <1>1, <1>2 DEF Request
    <2>2. QED
      BY <1>1, <2>1 DEF Request
  <1>4. /\ TypeOK' /\ Tracked' /\ Unique' /\ SparesUnlisted'
        /\ always' \subseteq always
        /\ \A p \in always', e \in es : Place(req.what, e) # p
    BY <1>1, <1>3, DeleteEffect
  <1>5. Flow' /\ Seen' /\ Known' /\ Counted'
    BY <1>1, <1>2, <1>3 DEF Flow, At, Collects, What, Seen, Known, Counted
  <1>6. ASSUME NEW p \in always', \E e \in req.todo : Place(req.what, e) = p
        PROVE  \E e \in rest : Place(req.what, e) = p
    BY <1>4, <1>6
  <1>7. Gone'
    <2>1. CASE req.what = "versions"
      <3>1. \A p \in always' : \E e \in rest : Place("versions", e) = p
        BY <1>1, <1>4, <1>6, <2>1 DEF Gone, ToDelete
      <3>2. QED
        BY <1>1, <1>2, <1>3, <2>1, <3>1 DEF Gone, At, ToDelete
    <2>2. CASE req.what = "objects"
      <3>1. \A p \in always' :
               (~req.last /\ Precedes(req.after, p)) \/ \E e \in rest : Place("objects", e) = p
        BY <1>1, <1>4, <1>6, <2>2 DEF Gone, ToDelete
      <3>2. lists => always' = {}
        BY <1>1, <1>4, <2>2 DEF Gone
      <3>3. QED
        BY <1>1, <1>2, <1>3, <2>2, <3>1, <3>2 DEF Gone, At, ToDelete
    <2>3. QED
      BY <1>1, <2>1, <2>2
  <1>8. QED
    BY <1>4, <1>5, <1>7

LEMMA DeleteRefusedStep == ASSUME IInv, DeleteRefused PROVE IInv'
  <1> USE DEF IInv
  <1> PICK es \in SUBSET req.todo :
         DeleteListed(es) /\ req' = [req EXCEPT !.pc = "failed"]
    BY DEF DeleteRefused
  <1>1. /\ req.op = "folder" /\ At("delete")
        /\ UNCHANGED <<versioned, lists, changes>>
        /\ req \in Request
    BY DEF DeleteRefused, Flow, TypeOK
  <1>2. /\ req' \in Request
        /\ req'.op = req.op /\ req'.key = req.key /\ req'.last = req.last /\ req'.what = req.what
        /\ req'.todo = req.todo /\ req'.got = req.got /\ req'.after = req.after
        /\ req'.total = req.total /\ req'.written = req.written /\ req'.grown = req.grown
        /\ req'.format = req.format
        /\ req'.pc = "failed"
    BY <1>1 DEF Request
  <1>3. TypeOK' /\ Tracked' /\ Unique' /\ SparesUnlisted' /\ always' \subseteq always
    BY <1>1, <1>2, DeleteEffect
  <1>4. Flow' /\ Seen' /\ Known' /\ Counted' /\ Gone'
    BY <1>1, <1>2, <1>3 DEF Flow, At, Collects, What, Seen, Known, Counted, Gone
  <1>5. QED
    BY <1>3, <1>4

LEMMA HeadStep == ASSUME IInv, Head PROVE IInv'
  <1> USE DEF IInv
  <1>1. /\ req.op = "file" /\ Unchanged /\ req \in Request /\ req' = [req EXCEPT !.pc = "remove"]
    BY DEF Head, Flow, TypeOK, At
  <1>2. /\ req' \in Request
        /\ req'.op = req.op /\ req'.key = req.key /\ req'.last = req.last /\ req'.what = req.what
        /\ req'.todo = req.todo /\ req'.got = req.got
        /\ req'.total = req.total /\ req'.written = req.written /\ req'.grown = req.grown
        /\ req'.format = req.format
        /\ req'.pc = "remove"
    BY <1>1 DEF Request
  <1>3. TypeOK' /\ Tracked' /\ Unique' /\ SparesUnlisted'
    BY <1>1, <1>2, Unmoved
  <1>4. Flow' /\ Seen' /\ Known' /\ Counted' /\ Gone'
    BY <1>1, <1>2 DEF Flow, At, Unchanged, Collects, What, Seen, Known, Counted, Gone
  <1>5. QED
    BY <1>3, <1>4

LEMMA RemoveStep == ASSUME IInv, Remove PROVE IInv'
  <1> USE DEF IInv
  <1> DEFINE b == bucket'
             old == {e \in bucket : e.key = req.key}
             new == Markers({req.key})
  <1>1. /\ req.op = "file" /\ UNCHANGED <<versioned, lists, changes>>
        /\ req \in Request /\ req' = [req EXCEPT !.pc = "done"]
        /\ writes' = writes + 1 /\ writes \in Nat /\ Becomes(b)
        /\ req.key \in Keys
    BY DEF Remove, Flow, TypeOK, Request, At, Becomes
  <1>2. /\ req' \in Request
        /\ req'.op = req.op /\ req'.key = req.key /\ req'.last = req.last /\ req'.what = req.what
        /\ req'.todo = req.todo /\ req'.got = req.got
        /\ req'.total = req.total /\ req'.written = req.written /\ req'.grown = req.grown
        /\ req'.format = req.format
        /\ req'.pc = "done"
    BY <1>1 DEF Request
  <1>3. \/ versioned /\ b = bucket \cup new /\ lost' = lost
        \/ ~versioned /\ b = bucket \ old /\ lost' = lost \cup old
    BY DEF Remove, Becomes
  <1>4. /\ \A e \in new : e \in Entry /\ e.n = writes + 1
        /\ \A d, e \in new : d = e
    <2>1. 0 \in Sizes
      BY PagesAssumption
    <2>2. QED
      BY <1>1, <2>1 DEF Markers, Entry, Kinds
  <1>5. \A e \in bucket \cup req.todo : e \in Entry /\ e.n \in Nat /\ e.n <= writes
    BY <1>1 DEF Unique, TypeOK, Entry, Request
  <1> HIDE DEF new
  <1>6. \A e \in b : e \in Entry /\ e.n <= writes'
    <2>1. \A e \in b : e \in bucket \/ e \in new
      BY <1>3
    <2>2. QED
      BY <1>1, <1>4, <1>5, <2>1
  <1>7. Watched' = Watched /\ Watched \in {"objects", "versions", "uploads"}
    BY <1>1, <1>2 DEF Watched, What
  <1>8. ever' \subseteq PlaceType /\ always' \subseteq ever'
    <2>1. ASSUME NEW p \in Places(Watched, b) PROVE p \in PlaceType
      <3>1. PICK e \in Listing(Watched, b) : p = Place(Watched, e)
        BY DEF Places
      <3>2. e \in Entry
        BY <1>6, <1>7, <3>1, Listed
      <3>3. QED
        BY <3>1, <3>2, PlaceTyped
    <2>2. QED
      BY <1>1, <2>1 DEF Becomes, TypeOK
  <1>9. TypeOK'
    <2>1. ~versioned => \A d, e \in b : d.key = e.key => d = e
      BY <1>1, <1>3 DEF TypeOK
    <2>2. lost' \subseteq Entry
      BY <1>3, <1>5 DEF TypeOK
    <2>3. QED
      BY <1>1, <1>2, <1>6, <1>8, <2>1, <2>2 DEF TypeOK
  <1>10. Tracked'
    BY <1>1, <1>7 DEF Tracked, Becomes, Places, Listing
  <1>11. Unique'
    <2>1. \A d \in bucket \cup req.todo, e \in new : d.n # e.n
      BY <1>1, <1>4, <1>5
    <2>2. \A d, e \in bucket \cup req.todo \cup new : d.key = e.key /\ d.n = e.n => d = e
      BY <1>4, <2>1 DEF Unique
    <2>3. b \cup req'.todo \subseteq bucket \cup req.todo \cup new
      BY <1>2, <1>3
    <2>4. \A e \in req'.todo : e.n <= writes'
      BY <1>1, <1>2, <1>5
    <2>5. QED
      BY <2>2, <2>3, <2>4 DEF Unique
  <1>12. SparesUnlisted'
    BY <1>1, <1>2, <1>3 DEF SparesUnlisted
  <1>13. Flow' /\ Seen' /\ Known' /\ Counted' /\ Gone'
    BY <1>1, <1>2 DEF Flow, At, Collects, What, Seen, Known, Counted, Gone
  <1>14. QED
    BY <1>9, <1>10, <1>11, <1>12, <1>13

-----------------------------------------------------------------------------
(* Archives *)

LEMMA ArchivePageStep == ASSUME IInv, ArchivePage PROVE IInv'
  <1> USE DEF IInv
  <1> PICK page \in Pages :
         req' = [req EXCEPT !.todo = Reported(page), !.after = page.end, !.last = page.last,
                            !.rude = page.rude, !.pc = AfterCopy(Reported(page), page.last)]
    BY DEF ArchivePage
  <1> DEFINE todo == Reported(page)
  <1>1. /\ req.op = "archive" /\ At("list") /\ Unchanged /\ req \in Request
        /\ Watched = req.what /\ ~req.last /\ req.todo = {} /\ req.what = "objects" /\ lists
    BY DEF ArchivePage, Flow, TypeOK, Watched, What
  <1>2. /\ page.entries \subseteq bucket /\ page.entries \subseteq Entry /\ page.end \in PlaceType
        /\ page.last \in BOOLEAN /\ page.rude \in BOOLEAN
        /\ todo \subseteq page.entries
    BY PageEntries DEF Reported
  <1>3. /\ AfterCopy(todo, page.last) \in {"copy", "done", "list"}
        /\ AfterCopy(todo, page.last) = "copy" <=> todo # {}
        /\ AfterCopy(todo, page.last) = "done" => page.last
        /\ AfterCopy(todo, page.last) = "list" => ~page.last
    BY <1>2 DEF AfterCopy
  <1>0. req'.last = page.last
    BY <1>1 DEF Request
  <1>4. /\ req' \in Request
        /\ req'.op = req.op /\ req'.key = req.key /\ req'.what = req.what
        /\ req'.todo = todo /\ req'.got = req.got
        /\ req'.total = req.total /\ req'.written = req.written /\ req'.grown = req.grown
        /\ req'.format = req.format
        /\ req'.after = page.end /\ req'.pc = AfterCopy(todo, page.last)
    <2>1. req' \in Request
      BY <1>1, <1>2, <1>3 DEF Request
    <2>2. QED
      BY <1>1, <2>1 DEF Request
  <1>5. TypeOK' /\ Tracked' /\ Unique' /\ SparesUnlisted' /\ Wanted' = Wanted
    <2>1. req.got \subseteq req'.got /\ req'.todo \subseteq req.todo \cup bucket
      BY <1>2, <1>4
    <2>2. QED
      BY <1>1, <1>4, <2>1, Unmoved
  <1>6. Flow'
    BY <1>0, <1>1, <1>3, <1>4 DEF Flow, At, Unchanged, Collects, What
  <1>7. Seen'
    <2> SUFFICES ASSUME NEW p \in always, p[1] \in Wanted, Behind(p)'
                 PROVE  Reports(p)'
      BY <1>1, <1>4, <1>5 DEF Seen, Unchanged
    <2>1. CASE ~Precedes(req.after, p)
      <3>1. \E e \in req.got : Place(req.what, e) = p
        BY <1>1, <2>1 DEF Seen, Behind, Reports, At
      <3>2. QED
        BY <1>4, <3>1 DEF Reports
    <2>2. CASE \E f \in page.entries : f.key = p[1] /\ Place(req.what, f) = p
      <3>1. \E f \in todo : Place(req.what, f) = p
        BY <2>2 DEF Reported
      <3>2. QED
        BY <1>3, <1>4, <3>1 DEF Reports, At
    <2>3. CASE ~page.last /\ Precedes(page.end, p)
      BY <1>0, <1>3, <1>4, <2>3 DEF Behind, At
    <2>4. QED
      BY <1>1, <2>1, <2>2, <2>3, PageCovers
  <1>8. Known' /\ Gone' /\ Counted'
    BY <1>1, <1>4 DEF Known, Gone, Counted, Unchanged
  <1>9. QED
    BY <1>5, <1>6, <1>7, <1>8

\* The request after it has copied one object.
Copied(r, total, written, grown, short, got, rest, pc) ==
    [r EXCEPT !.total = total, !.written = written, !.grown = grown, !.short = short,
              !.got = got, !.todo = rest, !.pc = pc]

LEMMA CopiedRequest ==
  ASSUME NEW r \in Request, NEW total \in Nat, NEW written \in Nat, NEW grown \in Nat,
         NEW short \in BOOLEAN,
         NEW got \in SUBSET Entry, NEW rest \in SUBSET Entry, NEW pc \in RequestPCs
  PROVE  Copied(r, total, written, grown, short, got, rest, pc) \in Request
  BY DEF Copied, Request, RequestPCs

LEMMA CopyStep == ASSUME IInv, Copy PROVE IInv'
  <1> USE DEF IInv
  <1> PICK e \in req.todo, b \in Objects(bucket) :
         /\ NextListed(e) /\ b.key = e.key /\ (req.format = "tgz" => b.size <= e.size)
         /\ e.key \notin Unsafe /\ Fits(e)
         /\ req' = Copied(req, req.total + e.size, req.written + b.size, req.grown + Growth(e, b),
                          req.format = "tgz" /\ b.size < e.size, req.got \cup {b},
                          req.todo \ {e}, AfterCopy(req.todo \ {e}, req.last))
    BY DEF Copy, Copied
  <1> DEFINE rest == req.todo \ {e}
  <1>1. /\ req.op = "archive" /\ At("copy") /\ Unchanged /\ req \in Request
        /\ Watched = req.what /\ req.what = "objects" /\ lists
        /\ req.last \in BOOLEAN
    BY DEF Copy, Flow, TypeOK, Watched, What, At, Request
  <1>2. /\ b \in bucket /\ b \in Entry /\ e \in Entry
        /\ e.size \in Nat /\ b.size \in Nat /\ MaxBytes \in Nat
        /\ req.total \in Nat /\ req.written \in Nat /\ req.grown \in Nat
    <2>1. Sizes \subseteq Nat /\ MaxBytes \in Nat
      BY PagesAssumption
    <2>2. QED
      BY <1>1, <2>1 DEF Objects, TypeOK, Request, Entry
  <1>3. /\ AfterCopy(rest, req.last) \in {"copy", "done", "list"}
        /\ AfterCopy(rest, req.last) = "copy" <=> rest # {}
        /\ AfterCopy(rest, req.last) = "done" => req.last
        /\ AfterCopy(rest, req.last) = "list" => ~req.last
    BY <1>1 DEF AfterCopy
  <1>4. /\ req' \in Request
        /\ req'.op = req.op /\ req'.key = req.key /\ req'.what = req.what /\ req'.last = req.last
        /\ req'.todo = rest /\ req'.got = req.got \cup {b} /\ req'.rude = req.rude
        /\ req'.total = req.total + e.size /\ req'.written = req.written + b.size
        /\ req'.grown = req.grown + Growth(e, b)
        /\ req'.format = req.format
        /\ req'.after = req.after /\ req'.pc = AfterCopy(rest, req.last)
    <2> DEFINE total == req.total + e.size
               written == req.written + b.size
               grown == req.grown + Growth(e, b)
               short == req.format = "tgz" /\ b.size < e.size
               got == req.got \cup {b}
    <2>1. total \in Nat /\ written \in Nat /\ grown \in Nat
      BY <1>2 DEF Growth
    <2>2. short \in BOOLEAN
      OBVIOUS
    <2>3. got \in SUBSET Entry /\ rest \in SUBSET Entry
      BY <1>1, <1>2 DEF Request
    <2>4. AfterCopy(rest, req.last) \in RequestPCs
      BY <1>3 DEF RequestPCs
    <2>5. req' = Copied(req, total, written, grown, short, got, rest, AfterCopy(rest, req.last))
      OBVIOUS
    <2> HIDE DEF total, written, grown, short, got, rest
    <2>6. Copied(req, total, written, grown, short, got, rest, AfterCopy(rest, req.last)) \in Request
      BY <1>1, <2>1, <2>2, <2>3, <2>4, CopiedRequest, Zenon
    <2>7. req' \in Request
      BY <2>5, <2>6, Zenon
    <2>8. req' = [req EXCEPT !.total = total, !.written = written, !.grown = grown, !.short = short,
                             !.got = got, !.todo = rest, !.pc = AfterCopy(rest, req.last)]
      BY <2>5, Zenon DEF Copied
    <2>9. /\ req'.op = req.op /\ req'.key = req.key /\ req'.what = req.what
          /\ req'.format = req.format
          /\ req'.last = req.last /\ req'.rude = req.rude /\ req'.after = req.after
      BY <1>1, <2>8 DEF Request
    <2>10. /\ req'.total = total /\ req'.written = written /\ req'.grown = grown /\ req'.got = got
           /\ req'.todo = rest /\ req'.pc = AfterCopy(rest, req.last)
      BY <1>1, <2>8 DEF Request
    <2>11. QED
      BY <2>7, <2>9, <2>10 DEF total, written, grown, got
  <1>5. TypeOK' /\ Tracked' /\ Unique' /\ SparesUnlisted' /\ Wanted' = Wanted
    <2>1. req.got \subseteq req'.got /\ req'.todo \subseteq req.todo \cup bucket
      BY <1>4
    <2>2. QED
      BY <1>1, <1>4, <2>1, Unmoved
  <1>6. Flow'
    BY <1>1, <1>3, <1>4 DEF Flow, At, Unchanged, Collects, What
  <1>7. Place(req.what, b) = Place(req.what, e)
    BY <1>1 DEF Place
  <1>8. Seen'
    <2> SUFFICES ASSUME NEW p \in always, p[1] \in Wanted, Behind(p)'
                 PROVE  Reports(p)'
      BY <1>1, <1>4, <1>5 DEF Seen, Unchanged
    <2>1. Behind(p)
      BY <1>3, <1>4 DEF Behind, At
    <2>2. Reports(p)
      BY <1>1, <2>1 DEF Seen, At
    <2>3. CASE \E f \in req.got \cup {e} : Place(req.what, f) = p
      BY <1>4, <1>7, <2>3 DEF Reports
    <2>4. CASE \E f \in rest : Place(req.what, f) = p
      BY <1>3, <1>4, <2>4 DEF Reports, At
    <2>5. QED
      BY <2>2, <2>3, <2>4 DEF Reports
  <1>9. Known'
    <2>1. Place(req.what, b) \in Places(Watched, bucket)
      BY <1>1 DEF Places, Listing
    <2>2. QED
      BY <1>1, <1>4, <2>1 DEF Known, Tracked, Unchanged
  <1>10. Gone'
    BY <1>1, <1>4 DEF Gone
  <1>11. Counted'
    <2>1. req.format # "zip" => Growth(e, b) = 0
      BY <1>1, <1>2 DEF Growth, Request
    <2>2. Growth(e, b) \in Nat /\ b.size <= e.size + Growth(e, b)
      BY <1>2 DEF Growth
    <2>3. req.total + e.size <= MaxBytes
      BY <1>2 DEF Fits
    <2> DEFINE g == Growth(e, b)
    <2>4. /\ req'.total = req.total + e.size /\ req'.written = req.written + b.size
          /\ req'.grown = req.grown + g /\ req'.format = req.format
      BY <1>4
    <2>5. /\ req.total <= MaxBytes /\ req.written <= req.total + req.grown
          /\ req.format # "zip" => req.grown = 0
      BY DEF Counted
    <2> HIDE DEF IInv, g
    <2>6. req'.total <= MaxBytes /\ req'.written <= req'.total + req'.grown
      BY <1>2, <2>2, <2>3, <2>4, <2>5 DEF g
    <2>7. req'.format # "zip" => req'.grown = 0
      BY <1>2, <2>1, <2>4, <2>5 DEF g
    <2>8. QED
      BY <2>6, <2>7 DEF Counted
  <1>12. QED
    BY <1>5, <1>6, <1>8, <1>9, <1>10, <1>11

LEMMA CopyEnds == ASSUME IInv, CopyRefused \/ CopyOverrun PROVE IInv'
  <1> USE DEF IInv
  <1>1. Unchanged /\ req \in Request
    BY DEF CopyRefused, CopyOverrun, TypeOK
  <1>2. CASE CopyRefused
    <2>1. req' = [req EXCEPT !.pc = "failed"]
      BY <1>2 DEF CopyRefused
    <2>2. req' \in Request /\ At("failed")'
      BY <1>1, <2>1 DEF Request, At
    <2>3. Counted'
      BY <1>1, <2>1 DEF Request, Counted
    <2>4. QED
      BY <1>1, <2>1, <2>2, <2>3, FailedStep DEF Request
  <1>3. CASE CopyOverrun
    <2>1. PICK e \in req.todo :
            /\ Fits(e)
            /\ req' = [req EXCEPT !.total = @ + e.size, !.written = @ + e.size, !.pc = "failed"]
      BY <1>3 DEF CopyOverrun
    <2>2. e.size \in Nat /\ MaxBytes \in Nat /\ req.total \in Nat /\ req.written \in Nat
      <3>1. Sizes \subseteq Nat /\ MaxBytes \in Nat
        BY PagesAssumption
      <3>2. QED
        BY <1>1, <3>1 DEF Request, Entry
    <2> DEFINE total == req.total + e.size
               written == req.written + e.size
    <2>5. total \in Nat /\ written \in Nat
      BY <2>2
    <2>6. req' = [req EXCEPT !.total = total, !.written = written, !.pc = "failed"]
      BY <2>1
    <2>3. req' \in Request /\ At("failed")'
      <3> HIDE DEF total, written
      <3>1. QED
        BY <1>1, <2>5, <2>6 DEF Request, At
    <2>4. Counted'
      BY <1>1, <2>1, <2>2 DEF Request, Counted, Fits
    <2>7. QED
      BY <1>1, <2>1, <2>3, <2>4, FailedStep DEF Request
  <1>4. QED
    BY <1>2, <1>3

-----------------------------------------------------------------------------
(* The theorems *)

LEMMA StepIInv == IInv /\ [Next]_vars => IInv'
  <1> SUFFICES ASSUME IInv, [Next]_vars PROVE IInv'
    OBVIOUS
  <1>1. CASE Step
    <2>1. CASE Browse \/ Search \/ Versions \/ MultipartUploads
      BY <2>1, CollectStep DEF Browse, Search, Versions, MultipartUploads
    <2>2. CASE FolderVersions \/ FolderObjects \/ DeleteBatch \/ DeleteRefused
      BY <2>2, FolderVersionsStep, FolderObjectsStep, DeleteBatchStep, DeleteRefusedStep
    <2>3. CASE Head \/ NotFound \/ Remove
      BY <2>3, HeadStep, FailStep, RemoveStep DEF NotFound
    <2>4. CASE ArchivePage \/ CopyRefused \/ CopyOverrun \/ Copy
      BY <2>4, ArchivePageStep, CopyEnds, CopyStep
    <2>5. QED
      BY <1>1, <2>1, <2>2, <2>3, <2>4 DEF Step
  <1>2. CASE Fail
    BY <1>2, FailStep
  <1>3. CASE CreateFolder \/ Upload \/ DeleteObject \/ BeginUpload \/ DeleteVersion \/ AbortMultipart
    BY <1>3, OthersAct
  <1>4. CASE UNCHANGED vars
    <2>1. UNCHANGED <<versioned, lists, bucket, writes, changes, req, always, ever, lost>>
      BY <1>4 DEF vars
    <2>2. Watched' = Watched /\ Wanted' = Wanted
      BY <2>1 DEF Watched, What, Wanted
    <2>3. TypeOK' /\ Tracked' /\ Unique' /\ SparesUnlisted' /\ Counted'
      BY ZenonT(60), <2>1, <2>2
      DEF IInv, TypeOK, Tracked, Places, Listing, Unique, SparesUnlisted, KeysOf,
          Counted
    <2>4. Flow' /\ Seen' /\ Known' /\ Gone'
      BY <2>1, <2>2 DEF IInv, Flow, What, At, Seen, Behind, Reports, Known, Gone, ToDelete
    <2>5. QED
      BY <2>3, <2>4 DEF IInv
  <1>5. QED
    BY <1>1, <1>2, <1>3, <1>4 DEF Next, Stop

(* The bucket and the request keep their types, whatever others write.      *)
THEOREM TypeCorrect == Spec => []TypeOK
  <1>1. IInv => TypeOK
    BY DEF IInv
  <1>2. QED
    BY <1>1, InitIInv, StepIInv, PTL DEF Spec

(* Whatever changes between its pages, and however they are cut, a listing  *)
(* that ended well reports all that was there from first to last, and       *)
(* nothing that never was.                                                  *)
THEOREM ListingsComplete == Spec => []Complete
  <1>1. IInv => Complete
    <2> SUFFICES ASSUME IInv, At("done"), req.op \notin {"folder", "file"} PROVE Complete
      BY DEF Complete
    <2>1. req.op \in Collects \cup {"archive"}
      BY DEF IInv, TypeOK, Request, Ops, Collects
    <2>2. \A e \in req.got : Place(req.what, e) \in ever
      BY <2>1 DEF IInv, Known
    <2>3. ~(req.op = "uploads" /\ req.rude) =>
            \A p \in always : p[1] \in Wanted => \E e \in req.got : Place(req.what, e) = p
      BY <2>1 DEF IInv, Seen, At, Behind, Reports
    <2>4. QED
      BY <2>2, <2>3 DEF Complete
  <1>2. QED
    BY <1>1, InitIInv, StepIInv, PTL DEF Spec

(* A deletion that reports success leaves nothing that was in the folder    *)
(* when it began, in buckets with versions and without.                     *)
THEOREM FoldersGo == Spec => []FolderGone
  <1>1. IInv => FolderGone
    BY DEF IInv, Gone, FolderGone
  <1>2. QED
    BY <1>1, InitIInv, StepIInv, PTL DEF Spec

(* No deletion, refused half-way or not, removes a version it did not list. *)
THEOREM UnlistedSpared == Spec => []SparesUnlisted
  <1>1. IInv => SparesUnlisted
    BY DEF IInv
  <1>2. QED
    BY <1>1, InitIInv, StepIInv, PTL DEF Spec

(* No tar archive holds more bytes than the limit, no zip archive more than *)
(* the limit and the growth of its objects since they were listed.          *)
THEOREM ArchivesBounded == Spec => []ArchiveBounded
  <1>1. IInv => ArchiveBounded
    <2> SUFFICES ASSUME IInv PROVE ArchiveBounded
      OBVIOUS
    <2>1. /\ req.total \in Nat /\ req.written \in Nat /\ req.grown \in Nat /\ MaxBytes \in Nat
          /\ req.total <= MaxBytes /\ req.written <= req.total + req.grown
          /\ req.format # "zip" => req.grown = 0
      BY PagesAssumption DEF IInv, TypeOK, Request, Counted
    <2>2. QED
      BY <2>1 DEF ArchiveBounded
  <1>2. QED
    BY <1>1, InitIInv, StepIInv, PTL DEF Spec
=============================================================================
