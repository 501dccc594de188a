----------------------------- MODULE DiskStore -----------------------------
(***************************************************************************)
(* The blob port on a directory (internal/storage/disk).  A Put writes a   *)
(* file under .tmp, makes the folders its key needs, one by one, and       *)
(* renames; a Delete removes the file and the folders it leaves empty,     *)
(* with the call that removes a file or a folder.  Each is a system call   *)
(* of its own, between which another request, or the end of the process,   *)
(* may come.  The ranges of range.go and the walk of List are here too,    *)
(* with the ranged read of the bucket.                                     *)
(*                                                                         *)
(* A key is the sequence of its characters; 0 is the slash.                *)
(***************************************************************************)
EXTENDS Integers, Sequences, FiniteSets

CONSTANTS
  DiskKeys,     \* keys
  Writers,      \* requests at once
  Contents,     \* bodies of a Put
  UploadIds,    \* uploads
  MaxSize       \* bytes in the file that is uploaded

VARIABLES
  files,        \* key -> bytes
  dirs,         \* the folders there are
  growing,      \* upload -> bytes, under .uploads
  writer        \* request -> where it is

diskVars == <<files, dirs, growing, writer>>

Slash == 0
Idle == [phase |-> "idle"]

Init ==
  /\ files = [k \in {} |-> <<>>]
  /\ dirs = {}
  /\ growing = [u \in {} |-> <<>>]
  /\ writer = [w \in Writers |-> Idle]

\* path.Dir, again and again: the folders above a key.
Parents(k) == {SubSeq(k, 1, n - 1) : n \in {n \in 1..Len(k) : k[n] = Slash}}

Dir(k) == IF Parents(k) = {} THEN <<>> ELSE CHOOSE d \in Parents(k) : \A e \in Parents(k) : Len(e) <= Len(d)

HoldsSomething(d) == \E x \in DOMAIN files \cup dirs : Dir(x) = d

With(f, x, v) == [y \in DOMAIN f \cup {x} |-> IF y = x THEN v ELSE f[y]]
Without(f, x) == [y \in DOMAIN f \ {x} |-> f[y]]

Goto(w, to) == writer' = [writer EXCEPT ![w] = to]

\* ExactReader: a body that is not as long as it was said to be is an error.
Exact(body, declared) == declared < 0 \/ Len(body) = declared

\* A rename takes the place of a file, never of a folder, in a folder that is
\* there.
MayRename(k) == k \notin dirs /\ (Dir(k) = <<>> \/ Dir(k) \in dirs)

\* A folder is made where nothing is, in a folder that is there.
MayMkdir(d) == d \notin DOMAIN files /\ (Dir(d) = <<>> \/ Dir(d) \in dirs)

\* Remove takes a file, and a folder with nothing in it.
MayRemove(x) == x \in DOMAIN files \/ (x \in dirs /\ ~HoldsSomething(x))

\* root.Remove, and pruneParents after it.
Removes(w, x) ==
  /\ files' = Without(files, x)
  /\ dirs' = dirs \ {x}
  /\ Goto(w, [phase |-> "prune", dir |-> Dir(x)])
-----------------------------------------------------------------------------
\* writeTemp, with nothing to see of it but what it costs.
WriteTemp(w, k, body, declared) ==
  /\ writer[w] = Idle
  /\ Exact(body, declared)
  /\ Goto(w, [phase |-> "publish", key |-> k, body |-> body, above |-> Parents(k)])
  /\ UNCHANGED <<files, dirs, growing>>

Begin(w, k, u) ==
  /\ writer[w] = Idle
  /\ u \in DOMAIN growing
  /\ growing[u] = [n \in 1..MaxSize |-> n]
  /\ Goto(w, [phase |-> "publish", key |-> k, upload |-> u, above |-> Parents(k)])
  /\ UNCHANGED <<files, dirs, growing>>

\* MkdirAll, the next folder down: it is there, is made, or the request fails.
MakeParents(w) ==
  /\ writer[w].phase = "publish"
  /\ \E d \in writer[w].above :
       /\ \A e \in writer[w].above : Len(d) <= Len(e)
       /\ \/ /\ d \in dirs \/ MayMkdir(d)
             /\ dirs' = dirs \cup {d}
             /\ Goto(w, [writer[w] EXCEPT !.above = @ \ {d}])
          \/ UNCHANGED dirs /\ Goto(w, Idle)
  /\ UNCHANGED <<files, growing>>

\* The end of Put and of CompleteUpload.
Rename(w) ==
  /\ writer[w].phase = "publish" /\ writer[w].above = {}
  /\ LET q == writer[w]
     IN IF "upload" \in DOMAIN q
        THEN IF MayRename(q.key) /\ q.upload \in DOMAIN growing
             THEN files' = With(files, q.key, growing[q.upload]) /\ growing' = Without(growing, q.upload)
             ELSE UNCHANGED <<files, growing>>
        ELSE /\ files' = IF MayRename(q.key) THEN With(files, q.key, q.body) ELSE files
             /\ UNCHANGED growing
  /\ Goto(w, Idle)
  /\ UNCHANGED dirs

Delete(w, k) ==
  /\ writer[w] = Idle
  /\ Goto(w, [phase |-> "delete", key |-> k])
  /\ UNCHANGED <<files, dirs, growing>>

\* What is not there, or cannot be removed, ends the call.
Remove(w) ==
  /\ writer[w].phase = "delete"
  /\ IF MayRemove(writer[w].key) THEN Removes(w, writer[w].key) ELSE UNCHANGED <<files, dirs>> /\ Goto(w, Idle)
  /\ UNCHANGED growing

\* Mutant: a prune takes the folder with what another request put in it.
PruneTrees(w) ==
  /\ writer[w].phase = "prune"
  /\ files' = [k \in {k \in DOMAIN files : writer[w].dir \notin Parents(k)} |-> files[k]]
  /\ dirs' = {d \in dirs : writer[w].dir \notin Parents(d) \cup {d}}
  /\ Goto(w, Idle)
  /\ UNCHANGED growing

\* Up to the first folder that is not empty, or not there.
PruneParents(w) ==
  /\ writer[w].phase = "prune"
  /\ IF MayRemove(writer[w].dir) THEN Removes(w, writer[w].dir) ELSE UNCHANGED <<files, dirs>> /\ Goto(w, Idle)
  /\ UNCHANGED growing

StartUpload(u) ==
  /\ u \notin DOMAIN growing
  /\ growing' = With(growing, u, <<>>)
  /\ UNCHANGED <<files, dirs, writer>>

\* The body is the file's bytes after offset, as far as ends.
AppendUpload(u, offset, ends) ==
  /\ u \in DOMAIN growing
  /\ offset = Len(growing[u])
  /\ offset < ends
  /\ growing' = [growing EXCEPT ![u] = @ \o [n \in 1..(ends - offset) |-> offset + n]]
  /\ UNCHANGED <<files, dirs, writer>>

AbortUpload(w, u) ==
  /\ writer[w] = Idle
  /\ Goto(w, [phase |-> "abort", upload |-> u])
  /\ UNCHANGED <<files, dirs, growing>>

RemoveUpload(w) ==
  /\ writer[w].phase = "abort"
  /\ growing' = Without(growing, writer[w].upload)
  /\ Goto(w, Idle)
  /\ UNCHANGED <<files, dirs>>

\* sweepTemp empties .tmp and leaves .uploads.
Restart ==
  /\ writer' = [w \in Writers |-> Idle]
  /\ UNCHANGED <<files, dirs, growing>>

Next ==
  \/ \E w \in Writers, k \in DiskKeys :
       \/ \E body \in Contents, declared \in {-1, 1} : WriteTemp(w, k, body, declared)
       \/ \E u \in UploadIds : Begin(w, k, u)
       \/ Delete(w, k)
  \/ \E w \in Writers :
       \/ MakeParents(w) \/ Rename(w) \/ Remove(w) \/ PruneParents(w) \/ RemoveUpload(w)
       \/ \E u \in UploadIds : AbortUpload(w, u)
  \/ \E u \in UploadIds :
       \/ StartUpload(u)
       \/ \E offset, ends \in 0..MaxSize : AppendUpload(u, offset, ends)
  \/ Restart

Spec == Init /\ [][Next]_diskVars
-----------------------------------------------------------------------------
(* Ranges and listings.                                                    *)

All == [off |-> 0, n |-> 0, hasLen |-> FALSE, suffix |-> FALSE]
From(off) == [All EXCEPT !.off = off]
Slice(off, n) == [off |-> off, n |-> n, hasLen |-> TRUE, suffix |-> FALSE]
Suffix(n) == [off |-> 0, n |-> n, hasLen |-> TRUE, suffix |-> TRUE]

Min2(a, b) == IF a < b THEN a ELSE b

Nothing == [off |-> 0, n |-> 0, ok |-> FALSE]
Span(off, n) == [off |-> off, n |-> n, ok |-> TRUE]

\* Range.Resolve
Resolve(r, size) ==
  IF r.suffix
  THEN IF r.n <= 0 THEN Nothing ELSE IF r.n >= size THEN Span(0, size) ELSE Span(size - r.n, r.n)
  ELSE IF r.off < 0 \/ r.off > size \/ (r.hasLen /\ r.n < 0) THEN Nothing
  ELSE Span(r.off, IF r.hasLen THEN Min2(r.n, size - r.off) ELSE size - r.off)

\* A seek, and a reader that stops after n.
diskGet(bytes, r) ==
  LET span == Resolve(r, Len(bytes))
  IN SubSeq(bytes, span.off + 1, Min2(span.off + span.n, Len(bytes)))

\* An HTTP range names its last byte, so nothing is asked for no bytes.
s3Get(bytes, r) ==
  LET span == Resolve(r, Len(bytes))
      first == span.off
      last == span.off + span.n - 1
  IN IF span.n = 0 THEN <<>> ELSE SubSeq(bytes, first + 1, Min2(last + 1, Len(bytes)))

HasPrefix(k, prefix) == Len(k) >= Len(prefix) /\ SubSeq(k, 1, Len(prefix)) = prefix

\* WalkDir does not go down into a folder neither above nor under the prefix.
Entered(d, prefix) ==
  LET p == Append(d, Slash) IN HasPrefix(p, prefix) \/ HasPrefix(prefix, p)

List(prefix) ==
  {k \in DOMAIN files : HasPrefix(k, prefix) /\ \A d \in Parents(k) : Entered(d, prefix)}

SomeRanges ==
  {All} \cup {From(i) : i \in -1..4} \cup {Suffix(i) : i \in -1..4} \cup {Slice(i, n) : i \in -1..4, n \in -1..4}
-----------------------------------------------------------------------------
\* What a request was asked for and has not done: one that prunes has.
CallOf(q) ==
  CASE q.phase = "delete" -> [op |-> "delete", key |-> q.key]
    [] q.phase = "abort"  -> [op |-> "abort", upload |-> q.upload]
    [] q.phase = "publish" /\ "upload" \in DOMAIN q -> [op |-> "complete", upload |-> q.upload, key |-> q.key]
    [] OTHER              -> [op |-> "put", key |-> q.key, body |-> q.body]

Calls == {<<w, CallOf(writer[w])>> : w \in {w \in Writers : writer[w].phase \in {"publish", "delete", "abort"}}}

Port == INSTANCE Store WITH
  Keys <- DiskKeys, Bodies <- Contents, objects <- files, staged <- growing, calls <- Calls, expired <- {}

\* Two requests in one folder, and a restart anywhere: an object is the old one
\* or the new one, none goes but by a Delete of its key, and an upload is the
\* bytes it was given, in order (disk.Put, Delete, AppendUpload).  What
\* pruneParents removes may be an object if a key is another's folder.
PortStep == Port!Next \/ UNCHANGED <<files, growing>>

ImplementsThePort == [][PortStep]_<<files, growing>>

\* An object is in a folder that is there, and is not one: pruneParents and
\* MkdirAll of two requests never leave a key without its folder.
FoldersHoldTheKeys ==
  /\ \A k \in DOMAIN files : Parents(k) \subseteq dirs /\ k \notin dirs
  /\ \A d \in dirs : Parents(d) \subseteq dirs

\* What a range reads is the same from the disk and from the bucket, and is
\* what the port says; a walk skips no key it should list.
ReadsAgree ==
  /\ \A bytes \in {<<>>} \cup {files[k] : k \in DOMAIN files}, r \in SomeRanges :
       /\ Resolve(r, Len(bytes)).ok <=> ~Port!Refused(bytes, r)
       /\ Resolve(r, Len(bytes)).ok =>
            diskGet(bytes, r) = Port!Part(bytes, r) /\ s3Get(bytes, r) = Port!Part(bytes, r)
  /\ \A k \in DiskKeys, n \in 0..3 :
       n <= Len(k) => List(SubSeq(k, 1, n)) = Port!Listed(DOMAIN files, SubSeq(k, 1, n))
=============================================================================
