----------------------------- MODULE ObjectPages -----------------------------
(***************************************************************************)
(* The requests that read a listing of a bucket page by page and act on    *)
(* it, one at a time, while others change the bucket between any two calls *)
(* of S3: browse, search, the versions of an object, the multipart uploads *)
(* in progress, the deletion of an object or of a folder, and the archive  *)
(* of a folder.  S3 is modelled by what the service relies on: listings in *)
(* order, continued after a marker, of what is there when a page is read;  *)
(* but for stores that say there is more and do not tell the marker.       *)
(*                                                                         *)
(* All keys begin with the prefix that is listed; Folder is the prefix     *)
(* itself, the empty object CreateFolder makes.                            *)
(***************************************************************************)
EXTENDS Integers, FiniteSets

CONSTANTS
    Keys,        \* keys, in the order of listings
    Folder,      \* the folder's own key
    Matching,    \* the keys whose name holds the query
    Unsafe,      \* the keys that cannot be a name in an archive
    Sizes,       \* of objects; they matter to archives only
    PageSize,    \* entries of a page at most
    BatchSize,   \* 1000 in deleteObjects
    MaxBytes,    \* the limit on archives
    MaxWrites,   \* bound: writes before the request
    MaxChanges   \* bound: changes by others during the request

ASSUME PagesAssumption ==
    /\ Keys \subseteq Nat \ {0} /\ Folder \in Keys
    /\ Matching \subseteq Keys /\ Unsafe \subseteq Keys
    /\ Sizes \subseteq Nat /\ 0 \in Sizes
    /\ PageSize \in Nat \ {0} /\ BatchSize \in Nat \ {0} /\ MaxBytes \in Nat
    /\ MaxWrites \in Nat /\ MaxChanges \in Nat

VARIABLES
    versioned,  \* the bucket keeps old versions
    lists,      \* S3 lists versions: some stores return an empty list
    bucket,     \* entries: versions of objects, delete markers and uploads
    writes,     \* how many entries have been written
    changes,    \* how many changes others have made
    req,        \* the request
    always,     \* places in the listing that were there all along
    ever,       \* places in the listing that were there at some time
    lost        \* entries the request itself removed

vars == <<versioned, lists, bucket, writes, changes, req, always, ever, lost>>

-----------------------------------------------------------------------------
(* Buckets and their listings                                               *)

Kinds == {"object", "marker", "upload"}
Entry == [key : Keys, n : Nat, kind : Kinds, size : Sizes]

\* What a client sees under a key is its newest entry, if that is an object.
Objects(b) ==
    {e \in b : e.kind = "object" /\ \A f \in b : f.key = e.key => f.n <= e.n}

\* What ListObjectsV2, ListObjectVersions and ListMultipartUploads list.
Listing(what, b) ==
    CASE what = "objects"  -> Objects(b)
      [] what = "versions" -> IF lists THEN b ELSE {}
      [] what = "uploads"  -> b

\* Where an entry stands in a listing.  An object may be replaced under its
\* key; versions of a key are listed newest first.
Place(what, e) == <<e.key, IF what = "objects" THEN 0 ELSE e.n>>
Places(what, b) == {Place(what, e) : e \in Listing(what, b)}
Start == <<0, 0>>
Precedes(p, q) == p[1] < q[1] \/ (p[1] = q[1] /\ p[2] > q[2])

\* What is left of the listing after the place the request has come to, and
\* the pages it may be given next.
Remaining == {e \in Listing(req.what, bucket) : Precedes(req.after, Place(req.what, e))}
UpTo(c) ==
    {e \in Remaining : e = c \/ Precedes(Place(req.what, e), Place(req.what, c))}
ProperPages ==
    IF Remaining = {} THEN {[entries |-> {}, end |-> req.after, last |-> TRUE, rude |-> FALSE]}
    ELSE {[entries |-> UpTo(c), end |-> Place(req.what, c), last |-> UpTo(c) = Remaining,
           rude |-> FALSE] : c \in {d \in Remaining : Cardinality(UpTo(d)) <= PageSize}}

\* A rude page is truncated and tells no marker for the next one, which a
\* request without a marker reads from the start of the listing again.
RudePage(es) == [entries |-> es, end |-> Start, last |-> FALSE, rude |-> TRUE]
RudePages == {RudePage(page.entries) : page \in ProperPages} \cup {RudePage({})}

Pages == ProperPages \cup RudePages

-----------------------------------------------------------------------------
(* The request and the bucket's other users                                 *)

Ops == {"browse", "search", "versions", "uploads", "archive", "folder", "file"}
What(op) ==
    CASE op \in {"versions", "folder"} -> "versions"
      [] op = "uploads" -> "uploads"
      [] OTHER -> "objects"

\* The listing that shows what the request is about.
Watched == IF req.op = "folder" /\ ~lists THEN "objects" ELSE What(req.op)

At(p) == req.pc = p
Running == ~At("done") /\ ~At("failed")
SizesFor(op) == IF op = "archive" THEN Sizes ELSE {0}

\* Some writes that others made earlier, and a new request.
Init ==
    /\ versioned \in BOOLEAN
    /\ \E op \in Ops, k \in Keys, f \in {"zip", "tgz"} :
         /\ lists \in BOOLEAN /\ (versioned \/ op # "folder" => lists)
         /\ op \notin {"versions", "file"} => k = Folder
         /\ op = "file" => k # Folder
         /\ op # "archive" => f = "zip"
         /\ req = [op |-> op, key |-> k, format |-> f, what |-> What(op),
                   pc |-> IF op = "file" THEN "head" ELSE "list",
                   after |-> Start, last |-> FALSE, rude |-> FALSE,
                   got |-> {}, todo |-> {},
                   total |-> 0, written |-> 0, grown |-> 0, short |-> FALSE]
         /\ writes \in 0..MaxWrites
         /\ \E h \in [1..writes -> [key : Keys, kind : Kinds, size : SizesFor(op)]] :
              /\ \A n \in 1..writes : h[n].kind = "upload" <=> op = "uploads"
              /\ LET all == {[key |-> h[n].key, n |-> n, kind |-> h[n].kind, size |-> h[n].size]
                               : n \in 1..writes}
                 IN  bucket = IF versioned \/ op = "uploads" THEN all ELSE Objects(all)
    /\ changes = 0
    /\ always = Places(Watched, bucket) /\ ever = always
    /\ lost = {}

\* The bucket becomes b, which the histories take note of.
Becomes(b) ==
    /\ bucket' = b
    /\ always' = always \cap Places(Watched, b)
    /\ ever' = ever \cup Places(Watched, b)

\* Others write an entry; an unversioned bucket keeps the newest object only.
Write(k, kind, size) ==
    LET e == [key |-> k, n |-> writes + 1, kind |-> kind, size |-> size]
        kept == IF versioned \/ kind = "upload" THEN bucket ELSE {f \in bucket : f.key # k}
    IN  /\ Running /\ changes < MaxChanges /\ changes' = changes + 1
        /\ kind = "upload" <=> req.op = "uploads"
        /\ writes' = writes + 1
        /\ Becomes(IF kind = "marker" /\ ~versioned THEN kept ELSE kept \cup {e})
        /\ UNCHANGED <<versioned, lists, req, lost>>

CreateFolder == Write(Folder, "object", 0)
Upload == \E k \in Keys \ {Folder}, s \in SizesFor(req.op) : Write(k, "object", s)
DeleteObject == \E k \in Keys \ {Folder} : Write(k, "marker", 0)
BeginUpload == \E k \in Keys \ {Folder} : Write(k, "upload", 0)

\* Others delete a version, or abort or complete an upload.
DeleteEntry ==
    /\ Running /\ changes < MaxChanges /\ changes' = changes + 1
    /\ \E e \in bucket : Becomes(bucket \ {e})
    /\ UNCHANGED <<versioned, lists, writes, req, lost>>

DeleteVersion == req.op # "uploads" /\ DeleteEntry
AbortMultipart == req.op = "uploads" /\ DeleteEntry

-----------------------------------------------------------------------------
(* Listings for the user                                                    *)

\* The keys of a listing that the request reports.
Wanted ==
    CASE req.op = "search"   -> Matching \ {Folder}
      [] req.op = "versions" -> {req.key}
      [] req.op \in {"browse", "archive"} -> Keys \ {Folder}
      [] OTHER -> Keys
Reported(page) == {e \in page.entries : e.key \in Wanted}

Collecting == At("list") /\ req.op \in {"browse", "search", "versions", "uploads"}
Unchanged == UNCHANGED <<versioned, lists, bucket, writes, changes, always, ever, lost>>

\* Mutant of Last: the loop over the uploads goes on after a rude page.
LastIgnoresRude(page) == page.last

\* The loop over the uploads in progress ends with a rude page, too.
Last(page) == page.last \/ (page.rude /\ req.op = "uploads")

\* The request with what it reports of a page.
Took(page) ==
    [req EXCEPT !.got = @ \cup Reported(page), !.after = page.end, !.rude = page.rude]

\* Mutant of Collect: the loop ends with a page that reports nothing.
CollectUntilEmpty ==
    /\ Collecting
    /\ \E page \in Pages :
         req' = [Took(page) EXCEPT !.pc = IF Last(page) \/ Reported(page) = {} THEN "done" ELSE "list"]
    /\ Unchanged

\* One page more, until a page is the last.
Collect ==
    /\ Collecting
    /\ \E page \in Pages :
         req' = [Took(page) EXCEPT !.pc = IF Last(page) THEN "done" ELSE "list"]
    /\ Unchanged

\* The client gets each page with the token for the next and asks again; the
\* other listings are read to their end by the server.
Browse == req.op = "browse" /\ Collect
Search == req.op = "search" /\ Collect
Versions == req.op = "versions" /\ Collect
MultipartUploads == req.op = "uploads" /\ Collect

-----------------------------------------------------------------------------
(* Deletion                                                                 *)

\* What is gone once S3 has deleted some listed entries: their versions, or
\* whatever is under their keys where there is a single version.
Deleted(es) ==
    IF versioned THEN es \cap bucket
    ELSE {e \in bucket : \E f \in es : f.key = e.key}

\* Deletions that name no version hide the object under a marker.
Markers(ks) ==
    IF versioned THEN {[key |-> k, n |-> writes + 1, kind |-> "marker", size |-> 0] : k \in ks}
    ELSE {}

KeysOf(es) == {e.key : e \in es}

\* S3 deletes listed entries, by version if versions were listed.
DeleteListed(es) ==
    IF req.what = "versions"
    THEN /\ Becomes(bucket \ Deleted(es))
         /\ lost' = lost \cup Deleted(es)
         /\ UNCHANGED writes
    ELSE /\ Becomes(IF versioned THEN bucket \cup Markers(KeysOf(es)) ELSE bucket \ Deleted(es))
         /\ lost' = IF versioned THEN lost ELSE lost \cup Deleted(es)
         /\ writes' = writes + 1

\* Every version and marker of the folder is listed first.
FolderVersions ==
    /\ At("list") /\ req.op = "folder" /\ req.what = "versions"
    /\ \E page \in Pages :
         LET all == req.todo \cup page.entries
             next == [req EXCEPT !.got = @ \cup page.entries, !.todo = all, !.after = page.end,
                                 !.rude = page.rude]
         IN  req' = CASE ~page.last -> next
                      [] page.last /\ all # {} -> [next EXCEPT !.pc = "delete"]
                      [] OTHER -> [next EXCEPT !.what = "objects", !.after = Start]
    /\ Unchanged

\* Where none are, the objects are listed and deleted page by page.
FolderObjects ==
    /\ At("list") /\ req.op = "folder" /\ req.what = "objects"
    /\ \E page \in Pages :
         req' = [req EXCEPT !.got = @ \cup page.entries, !.todo = page.entries,
                            !.after = page.end, !.last = page.last, !.rude = page.rude,
                            !.pc = CASE page.entries # {} -> "delete"
                                     [] page.entries = {} /\ page.last -> "done"
                                     [] OTHER -> "list"]
    /\ Unchanged

Batch(es) == es # {} /\ (Cardinality(es) = BatchSize \/ (es = req.todo /\ Cardinality(es) <= BatchSize))

AfterBatch(rest) ==
    CASE rest # {} -> "delete"
      [] rest = {} /\ (req.what = "versions" \/ req.last) -> "done"
      [] OTHER -> "list"

\* Mutant of DeleteBatch: only the first batch is sent.
DeleteOneBatch ==
    /\ At("delete")
    /\ \E es \in SUBSET req.todo :
         /\ Batch(es)
         /\ DeleteListed(es)
         /\ req' = [req EXCEPT !.todo = {}, !.pc = AfterBatch({})]
    /\ UNCHANGED <<versioned, lists, changes>>

\* Mutant of DeleteBatch: everything under the prefix of a listed key goes.
DeleteWholeKeys ==
    /\ At("delete")
    /\ \E es \in SUBSET req.todo :
         /\ Batch(es)
         /\ DeleteListed({e \in bucket : e.key \in KeysOf(es)})
         /\ req' = [req EXCEPT !.todo = @ \ es, !.pc = AfterBatch(req.todo \ es)]
    /\ UNCHANGED <<versioned, lists, changes>>

DeleteBatch ==
    /\ At("delete")
    /\ \E es \in SUBSET req.todo :
         /\ Batch(es)
         /\ DeleteListed(es)
         /\ req' = [req EXCEPT !.todo = @ \ es, !.pc = AfterBatch(req.todo \ es)]
    /\ UNCHANGED <<versioned, lists, changes>>

\* S3 deletes some of a batch and refuses the others: the request ends.
DeleteRefused ==
    /\ At("delete")
    /\ \E es \in SUBSET req.todo :
         /\ \E b \in SUBSET req.todo : Batch(b) /\ es \subseteq b
         /\ DeleteListed(es)
         /\ req' = [req EXCEPT !.pc = "failed"]
    /\ UNCHANGED <<versioned, lists, changes>>

Visible == {e \in Objects(bucket) : e.key = req.key}

\* The object is looked at, for its digest, before it is deleted.
Head ==
    /\ At("head") /\ Visible # {}
    /\ req' = [req EXCEPT !.pc = "remove"]
    /\ Unchanged

Remove ==
    /\ At("remove")
    /\ req' = [req EXCEPT !.pc = "done"]
    /\ LET old == {e \in bucket : e.key = req.key}
       IN  IF versioned
           THEN Becomes(bucket \cup Markers({req.key})) /\ UNCHANGED lost
           ELSE Becomes(bucket \ old) /\ lost' = lost \cup old
    /\ writes' = writes + 1
    /\ UNCHANGED <<versioned, lists, changes>>

-----------------------------------------------------------------------------
(* Archives                                                                 *)

AfterCopy(rest, last) ==
    CASE rest # {} -> "copy"
      [] rest = {} /\ last -> "done"
      [] OTHER -> "list"

ArchivePage ==
    /\ At("list") /\ req.op = "archive"
    /\ \E page \in Pages :
         req' = [req EXCEPT !.todo = Reported(page), !.after = page.end, !.last = page.last,
                            !.rude = page.rude, !.pc = AfterCopy(Reported(page), page.last)]
    /\ Unchanged

\* The next object of the page, and what GetObject finds under its key.
NextListed(e) == e \in req.todo /\ \A f \in req.todo : e.key <= f.key

\* Mutant of Fits: the object itself is not counted.
FitsSoFar(e) == req.total <= MaxBytes

\* Compared by subtraction: the sum might overflow.
Fits(e) == req.total <= MaxBytes - e.size

\* The archive ends early: an unsafe name, the limit, an object that is gone,
\* or a tar entry before this one that came out too short.
CopyRefused ==
    /\ At("copy")
    /\ \E e \in req.todo :
         /\ NextListed(e)
         /\ \/ e.key \in Unsafe \/ ~Fits(e) \/ req.short
            \/ \A b \in Objects(bucket) : b.key # e.key
    /\ req' = [req EXCEPT !.pc = "failed"]
    /\ Unchanged

\* A tar entry has its listed size: a body that is longer is cut off there
\* and ends the archive.
CopyOverrun ==
    /\ At("copy") /\ req.format = "tgz" /\ ~req.short
    /\ \E e \in req.todo, b \in Objects(bucket) :
         /\ NextListed(e) /\ b.key = e.key /\ b.size > e.size
         /\ e.key \notin Unsafe /\ Fits(e)
         /\ req' = [req EXCEPT !.total = @ + e.size, !.written = @ + e.size, !.pc = "failed"]
    /\ Unchanged

\* By how much an object is bigger than it was listed with.
Growth(e, b) == IF b.size > e.size THEN b.size - e.size ELSE 0

\* Mutant of Copy: sizes are counted down from nothing.
CopyCountsDown ==
    /\ At("copy") /\ ~req.short
    /\ \E e \in req.todo, b \in Objects(bucket) :
         /\ NextListed(e) /\ b.key = e.key /\ (req.format = "tgz" => b.size <= e.size)
         /\ e.key \notin Unsafe /\ Fits(e)
         /\ req' = [req EXCEPT !.total = @ - e.size, !.written = @ + b.size,
                               !.grown = @ + Growth(e, b), !.got = @ \cup {b}, !.todo = @ \ {e},
                               !.pc = AfterCopy(req.todo \ {e}, req.last)]
    /\ Unchanged

\* A zip entry is as long as its body, whatever size was counted for it.
Copy ==
    /\ At("copy") /\ ~req.short
    /\ \E e \in req.todo, b \in Objects(bucket) :
         /\ NextListed(e) /\ b.key = e.key /\ (req.format = "tgz" => b.size <= e.size)
         /\ e.key \notin Unsafe /\ Fits(e)
         /\ req' = [req EXCEPT !.total = @ + e.size, !.written = @ + b.size,
                               !.grown = @ + Growth(e, b),
                               !.short = (req.format = "tgz" /\ b.size < e.size),
                               !.got = @ \cup {b}, !.todo = @ \ {e},
                               !.pc = AfterCopy(req.todo \ {e}, req.last)]
    /\ Unchanged

-----------------------------------------------------------------------------
(* Specification                                                            *)

\* A call of S3 fails, or HEAD finds no object.
Fail ==
    /\ Running
    /\ req' = [req EXCEPT !.pc = "failed"]
    /\ Unchanged

NotFound == At("head") /\ Visible = {} /\ Fail

Step ==
    \/ Browse \/ Search \/ Versions \/ MultipartUploads
    \/ FolderVersions \/ FolderObjects \/ DeleteBatch \/ DeleteRefused
    \/ Head \/ NotFound \/ Remove
    \/ ArchivePage \/ CopyRefused \/ CopyOverrun \/ Copy

Stop == ~Running /\ UNCHANGED vars

Next ==
    \/ Step \/ Fail \/ Stop
    \/ CreateFolder \/ Upload \/ DeleteObject \/ BeginUpload
    \/ DeleteVersion \/ AbortMultipart

\* The server goes on with a request; a user who browses may not.
Fairness == WF_vars(req.op # "browse" /\ Step)

Spec == Init /\ [][Next]_vars /\ Fairness

-----------------------------------------------------------------------------
(* Properties                                                               *)

PlaceType == Nat \X Nat
Request ==
    [op : Ops, key : Keys, format : {"zip", "tgz"},
     what : {"objects", "versions", "uploads"},
     pc : {"list", "delete", "head", "remove", "copy", "done", "failed"},
     after : PlaceType, last : BOOLEAN, rude : BOOLEAN,
     got : SUBSET Entry, todo : SUBSET Entry,
     total : Nat, written : Nat, grown : Nat, short : BOOLEAN]

\* The bucket holds entries that were written, one at most under a key that
\* keeps a single version, and the request is of its type.
TypeOK ==
    /\ versioned \in BOOLEAN /\ lists \in BOOLEAN
    /\ bucket \subseteq Entry /\ \A e \in bucket : e.n <= writes
    /\ ~versioned /\ req.op # "uploads" =>
         \A e, f \in bucket : e.key = f.key => e = f
    /\ writes \in Nat /\ changes \in 0..MaxChanges
    /\ req \in Request
    /\ always \subseteq ever /\ ever \subseteq PlaceType
    /\ lost \subseteq Entry

\* However the bucket changes between the pages, a listing that ended well
\* reports all that was there from first to last page, and nothing that
\* never was: a search that finds nothing means there was nothing to find,
\* and an archive lacks no object.  Only the list of uploads may end early,
\* with a page that tells no marker.
Complete ==
    At("done") /\ req.op \notin {"folder", "file"} =>
      /\ ~(req.op = "uploads" /\ req.rude) =>
           \A p \in always : p[1] \in Wanted => \E e \in req.got : Place(req.what, e) = p
      /\ \A e \in req.got : Place(req.what, e) \in ever

\* "This will permanently delete ... and everything inside it": after a
\* deletion that reports success nothing that was in the folder when it began
\* is there still, neither old versions nor markers that hid them.
FolderGone == At("done") /\ req.op = "folder" => always = {}

\* A deletion never removes a version it has not listed: what others write
\* during the deletion of a folder is kept, and deleting one object of a
\* versioned bucket removes nothing.  A bucket without versions has no way to
\* tell what is new under a listed key.
SparesUnlisted ==
    \A e \in lost :
      IF versioned THEN e \in req.got
      ELSE e.key \in KeysOf(req.got) \/ (req.op = "file" /\ e.key = req.key)

\* The bytes in a tar archive never exceed the limit, although objects are
\* replaced between listing and copying: an entry is as long as listed.  A zip
\* archive, whose entries are as long as the bodies GetObject returns, exceeds
\* it by no more than its objects have grown since they were listed.
ArchiveBounded ==
    req.written <= MaxBytes + IF req.format = "zip" THEN req.grown ELSE 0

\* Every request but a browser's ends, unless the store sends pages without a
\* marker again and again: any other page takes it on in the listing, whatever
\* is added meanwhile.  "Do not loop forever if a provider marks an empty page
\* as truncated": the listing of the uploads ends with any store.
Terminates == req.op # "browse" ~> ~Running \/ (req.rude /\ req.op # "uploads")

-----------------------------------------------------------------------------
(* The inductive invariant behind the proofs                                *)

Collects == {"browse", "search", "versions", "uploads"}

\* Which step of which request may be next, and what it has then.
Flow ==
    /\ req.op # "folder" => lists /\ req.what = What(req.op)
    /\ req.op = "folder" => req.what # "uploads" /\ req.todo \subseteq req.got
    /\ versioned => lists
    /\ At("list") => req.op # "file"
    /\ At("list") /\ req.op = "folder" /\ ~lists /\ req.what = "versions" => req.todo = {}
    /\ At("delete") => req.op = "folder" /\ (req.what = "versions" => lists)
    /\ At("head") \/ At("remove") => req.op = "file"
    /\ At("copy") => req.op = "archive"
    /\ req.op \in Collects => ~req.last
    /\ At("list") /\ req.op = "archive" => ~req.last /\ req.todo = {}
    /\ At("done") /\ req.op = "archive" => req.last /\ req.todo = {}
    /\ At("list") /\ req.op = "uploads" => ~req.rude

\* The histories keep up with the bucket.
Tracked == always \subseteq Places(Watched, bucket) /\ Places(Watched, bucket) \subseteq ever

\* An entry is known by its key and its number.
Unique ==
    /\ \A e, f \in bucket \cup req.todo : e.key = f.key /\ e.n = f.n => e = f
    /\ \A e \in req.todo : e.n <= writes

\* What was there all along and lies behind the request has been reported, or
\* is on the page that is being copied.
Reports(p) ==
    \/ \E e \in req.got : Place(req.what, e) = p
    \/ At("copy") /\ \E e \in req.todo : Place(req.what, e) = p
Behind(p) == At("done") \/ req.last \/ ~Precedes(req.after, p)
Seen ==
    req.op \in Collects \cup {"archive"} /\ ~At("failed") /\ ~(req.op = "uploads" /\ req.rude) =>
      \A p \in always : p[1] \in Wanted /\ Behind(p) => Reports(p)

\* Archives count listed sizes; a zip archive holds what has grown besides.
Counted ==
    /\ req.total <= MaxBytes
    /\ req.written <= req.total + req.grown
    /\ req.format # "zip" => req.grown = 0

Known ==
    req.op \in Collects \cup {"archive"} =>
      \A e \in req.got : Place(req.what, e) \in ever

\* What was in the folder all along is on the list of what is to be deleted,
\* or ahead of the request.
ToDelete(p) == \E e \in req.todo : Place(req.what, e) = p
Gone ==
    req.op = "folder" =>
      /\ At("list") /\ req.what = "versions" /\ lists =>
           \A p \in always : Precedes(req.after, p) \/ ToDelete(p)
      /\ At("delete") /\ req.what = "versions" => \A p \in always : ToDelete(p)
      /\ req.what = "objects" /\ lists => always = {}
      /\ At("list") /\ req.what = "objects" => \A p \in always : Precedes(req.after, p)
      /\ At("delete") /\ req.what = "objects" =>
           \A p \in always : (~req.last /\ Precedes(req.after, p)) \/ ToDelete(p)
      /\ At("done") => always = {}

IInv ==
    /\ TypeOK /\ Flow /\ Tracked /\ Unique /\ Seen /\ Known /\ Gone
    /\ SparesUnlisted /\ Counted
=============================================================================
