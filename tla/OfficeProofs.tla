----------------------------- MODULE OfficeProofs -----------------------------
(***************************************************************************)
(* What is proved about uploaded files, about passwords, about what is     *)
(* read through a cache and about prices, for every set of plans,          *)
(* documents, accounts, logins, settings, workers and requests.            *)
(***************************************************************************)
EXTENDS Uploads, Logins, Settings, Pricing,
        SequenceTheorems, FiniteSetTheorems, WellFoundedInduction, TLAPS

-----------------------------------------------------------------------------
(* Uploads: what always holds                                               *)

FileNames == FileRequests \cup {NoFile}
FileRows == [file : FileNames]
Replied == {"ok", "refused", "failed", "unread", "sent", "missing"}
Steps == {"logo", "unlogo", "looked", "unlinked", "document", "meta", "checked", "previous",
          "upserted", "remove", "removing", "removed", "download", "sending", "done"}
Operations == {"logo", "unlogo", "document", "meta", "remove", "download"}
FileJobs == [pc : Steps, slot : FileSlots, op : Operations, prev : FileNames, file : FileNames,
             how : Replied \cup {NoFile}]

Begun(t) == request[t].pc # "new"

(* The file that each row names.                                            *)
There == [s \in FileSlots |-> FileThere(s)]

(* A request takes the steps of its operation, on a slot of its kind.       *)
InOrder(r) ==
  /\ r.op = "logo" => r.slot \in Plans /\ r.pc \in {"logo", "looked", "unlinked", "done"}
  /\ r.op = "unlogo" => r.slot \in Plans /\ r.pc \in {"unlogo", "looked", "unlinked", "done"}
  /\ r.op = "document" =>
       r.slot \in Docs /\ r.pc \in {"document", "checked", "previous", "upserted", "done"}
  /\ r.op = "meta" => r.slot \in Docs /\ r.pc \in {"meta", "checked", "previous", "upserted", "done"}
  /\ r.op = "remove" => r.slot \in Docs /\ r.pc \in {"remove", "removing", "removed", "done"}
  /\ r.op = "download" => r.slot \in Docs /\ r.pc \in {"download", "sending", "done"}

FileShapes ==
  /\ row \in [FileSlots -> {NoFile} \cup FileRows]
  /\ deleted \subseteq Plans /\ disk \subseteq FileRequests /\ crowded \subseteq FileSlots
  /\ putBack \subseteq FileRequests
  /\ fileFaults \in Nat
  /\ DOMAIN request = FileRequests
  /\ \A t \in FileRequests : Begun(t) => request[t] \in FileJobs /\ InOrder(request[t])
  /\ \A s \in deleted : row[s] = NoFile
  /\ \A s \in Docs : row[s] # NoFile => row[s].file # NoFile

(* A file whose request has still to name it in its row, and one that has   *)
(* been named.                                                              *)
Unnamed(f) ==
  \/ request[f].pc \in {"logo", "looked", "unlinked"} /\ request[f].op = "logo"
  \/ request[f].pc \in {"document", "checked", "previous"} /\ request[f].op = "document"
Named(f) ==
  \/ request[f].pc = "upserted" /\ request[f].op = "document"
  \/ request[f].pc = "done" /\ request[f].op \in {"logo", "document"}

(* Whatever a row or a request remembers is a file that was brought for its *)
(* slot and has been named, or the file of the request itself.              *)
OnDisk ==
  /\ \A f \in disk : Begun(f) /\ request[f].op \in {"logo", "document"}
  /\ \A f \in FileRequests : Unnamed(f) => f \in disk

RowsKnown ==
  \A s \in FileSlots : LET f == There[s] IN f # NoFile => Named(f) /\ request[f].slot = s

Remembers(t, f) == Named(f) /\ request[f].slot = request[t].slot

RequestsKnow ==
  \A t \in FileRequests : Begun(t) =>
    /\ request[t].prev # NoFile => Remembers(t, request[t].prev)
    /\ request[t].pc \in {"removing", "removed", "sending"} => request[t].prev # NoFile

DocumentsNamed ==
  \A t \in FileRequests : request[t].pc \in {"checked", "previous", "upserted"} =>
    /\ request[t].op = "document" => request[t].file = t
    /\ request[t].op = "meta" => request[t].file # NoFile /\ Remembers(t, request[t].file)

FilesKnown == OnDisk /\ RowsKnown /\ RequestsKnow /\ DocumentsNamed

(* As long as no request overlaps another on a slot, only one works on it.  *)
OneOnSlot ==
  \A t, u \in FileRequests :
    Busy(t) /\ Busy(u) /\ request[t].slot = request[u].slot /\ request[t].slot \notin crowded => t = u

-----------------------------------------------------------------------------
(* Uploads: what is there                                                   *)

(* Somebody is about to unlink f, and it is no longer his row's file.       *)
Unlinks(t, f) ==
  /\ \/ request[t].pc = "removed"
     \/ request[t].pc = "upserted" /\ request[t].op = "document"
  /\ request[t].prev = f

(* A plan's logo is missing only while its replacement is under way or when *)
(* it has failed.                                                           *)
LogosThere ==
  \A s \in Plans : LET f == There[s] IN
    f # NoFile /\ f \notin disk =>
      \E t \in FileRequests : Begun(t) /\ request[t].prev = f /\ Unlinked(t)

(* A document that has not been put back is there, and stays, unless its    *)
(* own request could not read its row again.                                *)
DocumentsThere ==
  \A s \in Docs : LET f == There[s] IN
    f # NoFile /\ f \notin putBack =>
      /\ f \in disk \/ Unread(f)
      /\ \A t \in FileRequests : Begun(t) => ~Unlinks(t, f)

(* A file is put back only where requests overlap.                          *)
BackByRace == \A f \in putBack : Begun(f) /\ request[f].slot \in crowded

(* A request that is alone on its slot remembers what is there.             *)
StillThere(t) ==
  LET s == request[t].slot
      f == There[s] IN
  /\ request[t].pc \in {"checked", "previous", "upserted"} /\ request[t].op = "meta"
       => request[t].file = f
  /\ request[t].pc = "upserted" /\ request[t].op = "document" => f = t
  /\ request[t].pc \in {"previous", "removing", "sending"} => request[t].prev = f
  /\ request[t].pc = "removed" => f = NoFile
  /\ request[t].pc \in {"looked", "unlinked"}
       => s \in deleted \/ (row[s] # NoFile /\ request[t].prev = f)
  /\ request[t].pc = "unlinked" => request[t].prev \notin disk

AloneIsRight ==
  \A t \in FileRequests : Busy(t) /\ request[t].slot \notin crowded => StillThere(t)

(* A file on disk is named, will be named, will be unlinked, or was left    *)
(* behind by a request that could not read its row again.                   *)
NoneForgotten ==
  \A f \in disk : LET s == request[f].slot IN
    s \notin crowded \cup deleted =>
      \/ There[s] = f
      \/ Unnamed(f)
      \/ \E t \in FileRequests : Begun(t) /\ request[t].slot = s /\ Unlinks(t, f)
      \/ \E t \in FileRequests : LeavesBehind(t, f)

FilesKept == LogosThere /\ DocumentsThere /\ BackByRace /\ AloneIsRight /\ NoneForgotten

UploadsIInv ==
  /\ FileShapes /\ FilesKnown /\ OneOnSlot /\ FilesKept /\ MissingOnlyIfRaced

-----------------------------------------------------------------------------
(* Uploads: the steps                                                       *)

(* A request begins.                                                        *)
LEMMA Starting ==
  ASSUME UploadsIInv, NEW t \in FileRequests, NEW q \in FileSlots, NEW op \in Operations,
         Starts(t, q, op), UNCHANGED <<row, deleted, putBack, fileFaults>>,
         IF op \in {"logo", "unlogo"} THEN q \in Plans ELSE q \in Docs,
         disk' = IF op \in {"logo", "document"} THEN disk \cup {t} ELSE disk
  PROVE  UploadsIInv'
<1> DEFINE r == request[t]
<1> USE UploadsAssumption DEF FileSlots, FileNames, Begun, Busy
<1>1. /\ FileShapes /\ FilesKnown /\ OneOnSlot /\ MissingOnlyIfRaced
      /\ LogosThere /\ DocumentsThere /\ BackByRace /\ AloneIsRight /\ NoneForgotten
      /\ There \in [FileSlots -> FileNames]
      /\ \A u \in FileRequests : Begun(u) =>
           /\ request[u].slot \in FileSlots /\ request[u].prev \in FileNames
           /\ request[u].file \in FileNames
  BY DEF UploadsIInv, FilesKept, FileJobs, There, FileThere, FileShapes, FileRows
<1>2. /\ r.pc = "new"
  BY DEF Starts, Stands
<1>3. /\ DOMAIN request' = FileRequests
      /\ \A u \in FileRequests : u # t => request'[u] = request[u]
      /\ request'[t] \in FileJobs /\ InOrder(request'[t])
      /\ request'[t].pc = op /\ request'[t].op = op /\ request'[t].slot = q
      /\ request'[t].prev = NoFile /\ request'[t].file = NoFile /\ request'[t].how = NoFile
  BY <1>1 DEF Starts, Becomes, FileShapes, FileJobs, Steps, Operations, InOrder
<1>4. /\ row' = row /\ There' = There
      /\ deleted' = deleted /\ putBack' = putBack /\ fileFaults' = fileFaults
      /\ disk' = IF op \in {"logo", "document"} THEN disk \cup {t} ELSE disk
      /\ crowded' \in {crowded, crowded \cup {q}}
      /\ (\E u \in FileRequests : Busy(u) /\ request[u].slot = q) => q \in crowded'
  BY DEF Starts, There, FileThere
<1>5. FileShapes'
  BY <1>1, <1>3, <1>4 DEF FileShapes
<1>6. FilesKnown'
  <2>1. OnDisk'
    BY <1>1, <1>2, <1>3 DEF FilesKnown, OnDisk, FileShapes, Unnamed
  <2>2. RowsKnown'
    BY <1>1, <1>2, <1>3, <1>4 DEF FilesKnown, RowsKnown, Named
  <2>3. RequestsKnow'
    BY <1>1, <1>2, <1>3 DEF FilesKnown, Operations, RequestsKnow, Remembers, Named
  <2>4. DocumentsNamed'
    BY <1>1, <1>2, <1>3 DEF FilesKnown, DocumentsNamed, Remembers, Named
  <2>5. QED  BY <2>1, <2>2, <2>3, <2>4 DEF FilesKnown
<1>7. OneOnSlot'
  BY <1>1, <1>3, <1>4 DEF OneOnSlot
<1>8. MissingOnlyIfRaced'
  BY <1>1, <1>2, <1>3, <1>4 DEF Operations, MissingOnlyIfRaced, Unread
<1>9. FilesKept'
  <2>1. LogosThere /\ DocumentsThere /\ BackByRace /\ AloneIsRight /\ NoneForgotten
    BY <1>1
  <2>2. LogosThere'
    BY <1>2, <1>3, <1>4, <2>1 DEF LogosThere, Unlinked
  <2>3. DocumentsThere'
    BY <1>2, <1>3, <1>4, <2>1 DEF DocumentsThere, Unread, Unlinks
  <2>4. AloneIsRight'
    BY <1>3, <1>4, <1>6, <2>1 DEF Operations, AloneIsRight, StillThere, FilesKnown,
       RequestsKnow, Remembers
  <2>5. NoneForgotten'
    BY <1>1, <1>2, <1>3, <1>4, <2>1 DEF NoneForgotten, Unnamed, Unlinks, LeavesBehind, Unread, FileShapes, FilesKnown,
       OnDisk
  <2>6. BackByRace'
    BY <1>1, <1>2, <1>3, <1>4, <2>1 DEF BackByRace, FileShapes
  <2>7. QED  BY <2>2, <2>3, <2>4, <2>5, <2>6 DEF FilesKept
<1>10. QED  BY <1>5, <1>6, <1>7, <1>8, <1>9 DEF UploadsIInv

(* A step of one request that puts nothing back.                            *)
LEMMA NonePutBack ==
  ASSUME BackByRace, NEW t \in FileRequests, putBack \subseteq FileRequests,
         \A u \in FileRequests : u # t => request'[u] = request[u],
         request'[t].pc # "new", request'[t].slot = request[t].slot,
         putBack' = putBack, crowded' = crowded
  PROVE  BackByRace'
<1>1. ASSUME NEW f \in putBack PROVE request'[f].pc # "new" /\ request'[f].slot \in crowded
  <2>1. CASE f = t
    BY <2>1 DEF BackByRace
  <2>2. CASE f # t
    BY <2>2 DEF BackByRace, Begun
  <2>3. QED  BY <2>1, <2>2
<1>2. QED  BY <1>1 DEF BackByRace, Begun

(* A request is answered with an error, and what it brought removed.        *)
LEMMA Refusing ==
  ASSUME UploadsIInv, NEW t \in FileRequests, NEW how \in {"refused", "failed", "unread"},
         Discards(t, how), UNCHANGED <<row, deleted, crowded, putBack>>, fileFaults' \in Nat,
         request[t].pc \in {"logo", "unlogo", "unlinked", "document", "meta", "checked", "previous",
                            "upserted", "remove", "removing", "download"},
         how = "unread" <=> request[t].pc = "upserted",
         request[t].pc = "unlinked" => how = "failed"
  PROVE  UploadsIInv'
<1> DEFINE r == request[t]
<1> USE UploadsAssumption DEF FileSlots, FileNames, Begun, Busy
<1>1. /\ FileShapes /\ FilesKnown /\ OneOnSlot /\ MissingOnlyIfRaced
      /\ LogosThere /\ DocumentsThere /\ BackByRace /\ AloneIsRight /\ NoneForgotten
      /\ There \in [FileSlots -> FileNames]
      /\ \A u \in FileRequests : Begun(u) =>
           /\ request[u].slot \in FileSlots /\ request[u].prev \in FileNames
           /\ request[u].file \in FileNames
  BY DEF UploadsIInv, FilesKept, FileJobs, There, FileThere, FileShapes, FileRows
<1>2. /\ r \in FileJobs /\ InOrder(r)
      /\ Named(t) => r.pc = "upserted" /\ r.op = "document"
  BY <1>1 DEF Named, FileShapes
<1>3. PICK s \in FileSlots : s = r.slot
  BY <1>2 DEF FileJobs
<1>4. /\ DOMAIN request' = FileRequests
      /\ \A u \in FileRequests : u # t => request'[u] = request[u]
      /\ request'[t] \in FileJobs /\ request'[t].pc = "done"
      /\ request'[t].slot = s /\ request'[t].op = r.op
      /\ request'[t].prev = r.prev
      /\ request'[t].file = r.file
      /\ request'[t].how = how
  <2>1. request' = [request EXCEPT ![t] = [r EXCEPT !.pc = "done", !.how = how]]
    BY DEF Discards, Replies, Becomes
  <2>2. DOMAIN request' = FileRequests /\ \A u \in FileRequests : u # t => request'[u] = request[u]
    BY <1>1, <2>1 DEF FileShapes
  <2>3. request'[t] = [r EXCEPT !.pc = "done", !.how = how]
    BY <1>1, <2>1 DEF FileShapes
  <2>4. /\ request'[t] \in FileJobs /\ request'[t].pc = "done"
        /\ request'[t].slot = s /\ request'[t].op = r.op
        /\ request'[t].prev = r.prev
        /\ request'[t].file = r.file
        /\ request'[t].how = how
    BY <1>2, <1>3, <2>3 DEF FileJobs, Steps, Replied
  <2>5. QED  BY <2>2, <2>4
<1>5. /\ row' = row /\ There' = There
      /\ deleted' = deleted /\ putBack' = putBack /\ crowded' = crowded /\ disk' = disk \ {t}
  BY <1>1 DEF Discards, There, FileThere, FileShapes
<1>6. FileShapes'
  BY <1>1, <1>3, <1>4, <1>5 DEF FileShapes, InOrder
<1>7. FilesKnown'
  <2>1. OnDisk'
    BY <1>1, <1>4, <1>5 DEF FilesKnown, OnDisk, FileShapes, Unnamed
  <2>2. RowsKnown'
    BY <1>1, <1>3, <1>4, <1>5 DEF FilesKnown, RowsKnown, Named
  <2>3. RequestsKnow'
    BY <1>1, <1>3, <1>4 DEF FilesKnown, RequestsKnow, Remembers, Named
  <2>4. DocumentsNamed'
    BY <1>1, <1>3, <1>4 DEF FilesKnown, DocumentsNamed, Remembers, Named
  <2>5. QED  BY <2>1, <2>2, <2>3, <2>4 DEF FilesKnown
<1>8. OneOnSlot'
  BY <1>1, <1>4 DEF OneOnSlot
<1>9. MissingOnlyIfRaced'
  BY <1>1, <1>2, <1>4, <1>5 DEF MissingOnlyIfRaced, Unread
<1>10. FilesKept'
  <2>1. LogosThere /\ DocumentsThere /\ BackByRace /\ AloneIsRight /\ NoneForgotten
    BY <1>1
  <2>2. LogosThere'
    BY <1>1, <1>2, <1>3, <1>4, <1>5 DEF LogosThere, Unlinked, FilesKnown, RowsKnown, InOrder
  <2>3. DocumentsThere'
    BY <1>1, <1>2, <1>3, <1>4, <1>5 DEF DocumentsThere, Unread, Unlinks, FilesKnown,
       RowsKnown
  <2>4. AloneIsRight'
    BY <1>4, <1>5, <2>1 DEF AloneIsRight, StillThere
  <2>5. NoneForgotten'
    BY <1>1, <1>2, <1>4, <1>5, <1>6, <2>1 DEF NoneForgotten, Unnamed, Unlinks, LeavesBehind,
       Unread, FileShapes
  <2>6. BackByRace'
    BY <1>1, <1>2, <1>3, <1>4, <1>5, <2>1, NonePutBack DEF FileShapes
  <2>7. QED  BY <2>2, <2>3, <2>4, <2>5, <2>6 DEF FilesKept
<1>11. QED  BY <1>6, <1>7, <1>8, <1>9, <1>10 DEF UploadsIInv

(* A request is answered, and that is all.                                  *)
LEMMA Replying ==
  ASSUME UploadsIInv, NEW t \in FileRequests, NEW how \in Replied, Replies(t, how),
         UNCHANGED <<row, deleted, disk, crowded, putBack, fileFaults>>,
         request[t].pc \in {"meta", "remove", "download", "sending"},
         how \notin {"failed", "unread"},
         how = "missing" => request[t].slot \in crowded \/ Unread(request[t].prev)
  PROVE  UploadsIInv'
<1> DEFINE r == request[t]
<1> USE UploadsAssumption DEF FileSlots, FileNames, Begun, Busy
<1>1. /\ FileShapes /\ FilesKnown /\ OneOnSlot /\ MissingOnlyIfRaced
      /\ LogosThere /\ DocumentsThere /\ BackByRace /\ AloneIsRight /\ NoneForgotten
      /\ There \in [FileSlots -> FileNames]
      /\ \A u \in FileRequests : Begun(u) =>
           /\ request[u].slot \in FileSlots /\ request[u].prev \in FileNames
           /\ request[u].file \in FileNames
  BY DEF UploadsIInv, FilesKept, FileJobs, There, FileThere, FileShapes, FileRows
<1>2. /\ r \in FileJobs /\ InOrder(r)
  BY <1>1 DEF FileShapes
<1>3. PICK s \in FileSlots : s = r.slot
  BY <1>2 DEF FileJobs
<1>4. request' = [request EXCEPT ![t] = [r EXCEPT !.pc = "done", !.how = how]]
  BY DEF Replies, Becomes
<1>5. request'[t] = [r EXCEPT !.pc = "done", !.how = how]
  BY <1>1, <1>4 DEF FileShapes
<1>6. /\ DOMAIN request' = FileRequests
      /\ \A u \in FileRequests : u # t => request'[u] = request[u]
      /\ request'[t] \in FileJobs /\ request'[t].pc = "done"
      /\ request'[t].slot = s /\ request'[t].op = r.op
      /\ request'[t].prev = r.prev
      /\ request'[t].file = r.file
      /\ request'[t].how = how
  <2>1. DOMAIN request' = FileRequests /\ \A u \in FileRequests : u # t => request'[u] = request[u]
    BY <1>1, <1>4 DEF FileShapes
  <2>2. /\ request'[t] \in FileJobs /\ request'[t].pc = "done"
        /\ request'[t].slot = s /\ request'[t].op = r.op
        /\ request'[t].prev = r.prev
        /\ request'[t].file = r.file
        /\ request'[t].how = how
    BY <1>1, <1>2, <1>3, <1>5 DEF FileJobs, Steps
  <2>3. QED  BY <2>1, <2>2
<1>7. /\ row' = row /\ There' = There
      /\ deleted' = deleted /\ putBack' = putBack /\ disk' = disk /\ crowded' = crowded /\ fileFaults' = fileFaults
  BY DEF There, FileThere
<1>8. FileShapes'
  BY <1>1, <1>4, <1>6 DEF FileShapes, InOrder
<1>9. FilesKnown'
  <2>1. OnDisk'
    BY <1>1, <1>4 DEF FilesKnown, OnDisk, Unnamed
  <2>2. RowsKnown'
    BY <1>1, <1>6, <1>7 DEF FilesKnown, RowsKnown, Named
  <2>3. RequestsKnow'
    BY <1>1, <1>4 DEF FilesKnown, RequestsKnow, Remembers, Named
  <2>4. DocumentsNamed'
    BY <1>1, <1>4 DEF FilesKnown, DocumentsNamed, Remembers, Named
  <2>5. QED  BY <2>1, <2>2, <2>3, <2>4 DEF FilesKnown
<1>10. OneOnSlot'
  BY <1>1, <1>4 DEF OneOnSlot
<1>11. MissingOnlyIfRaced'
  BY <1>1, <1>2, <1>4 DEF MissingOnlyIfRaced, Unread
<1>12. FilesKept'
  <2>1. LogosThere /\ DocumentsThere /\ BackByRace /\ AloneIsRight /\ NoneForgotten
    BY <1>1
  <2>2. LogosThere'
    BY <1>6, <1>7, <2>1 DEF LogosThere, Unlinked
  <2>3. DocumentsThere'
    BY <1>1, <1>2, <1>6, <1>7, <2>1 DEF DocumentsThere, Unread, Unlinks
  <2>4. AloneIsRight'
    BY <1>4, <1>7, <2>1 DEF AloneIsRight, StillThere
  <2>5. NoneForgotten'
    BY <1>4, <1>7, <2>1 DEF NoneForgotten, Unnamed, Unlinks, LeavesBehind, Unread
  <2>6. BackByRace'
    BY <1>1, <1>2, <1>3, <1>6, <1>7, <2>1, NonePutBack DEF FileShapes
  <2>7. QED  BY <2>2, <2>3, <2>4, <2>5, <2>6 DEF FilesKept
<1>13. QED  BY <1>8, <1>9, <1>10, <1>11, <1>12 DEF UploadsIInv

(* The logo that is there is noted.                                         *)
LEMMA LookingAtPlan ==
  ASSUME UploadsIInv, NEW t \in FileRequests, LookAtPlan(t), row[request[t].slot] # NoFile
  PROVE  UploadsIInv'
<1> DEFINE r == request[t]
<1> USE UploadsAssumption DEF FileSlots, FileNames, Begun, Busy
<1>1. /\ FileShapes /\ FilesKnown /\ OneOnSlot /\ MissingOnlyIfRaced
      /\ LogosThere /\ DocumentsThere /\ BackByRace /\ AloneIsRight /\ NoneForgotten
      /\ There \in [FileSlots -> FileNames]
      /\ \A u \in FileRequests : Begun(u) =>
           /\ request[u].slot \in FileSlots /\ request[u].prev \in FileNames
           /\ request[u].file \in FileNames
  BY DEF UploadsIInv, FilesKept, FileJobs, There, FileThere, FileShapes, FileRows
<1>2. /\ r \in FileJobs /\ InOrder(r)
      /\ r.pc \in {"logo", "unlogo"} /\ r.slot \in Plans
  BY <1>1 DEF LookAtPlan, Stands, FileShapes, FileJobs, InOrder, Operations
<1>3. PICK s \in FileSlots : s = r.slot
  BY <1>2 DEF FileJobs
<1>4. request' = [request EXCEPT ![t] = [r EXCEPT !.pc = "looked", !.prev = There[s]]]
  BY <1>1, <1>2, <1>3 DEF LookAtPlan, Stands, Becomes, There, FileThere, FileSlots
<1>5. request'[t] = [r EXCEPT !.pc = "looked", !.prev = There[s]]
  BY <1>1, <1>4 DEF FileShapes
<1>6. /\ DOMAIN request' = FileRequests
      /\ \A u \in FileRequests : u # t => request'[u] = request[u]
      /\ request'[t] \in FileJobs /\ request'[t].pc = "looked"
      /\ request'[t].slot = s /\ request'[t].op = r.op
      /\ request'[t].file = r.file
      /\ request'[t].how = r.how
      /\ request'[t].prev = There[s]
  <2>1. DOMAIN request' = FileRequests /\ \A u \in FileRequests : u # t => request'[u] = request[u]
    BY <1>1, <1>4 DEF FileShapes
  <2>2. /\ request'[t] \in FileJobs /\ request'[t].pc = "looked"
        /\ request'[t].slot = s /\ request'[t].op = r.op
        /\ request'[t].file = r.file
        /\ request'[t].how = r.how
        /\ request'[t].prev = There[s]
    BY <1>1, <1>2, <1>3, <1>5 DEF FileJobs, Steps
  <2>3. QED  BY <2>1, <2>2
<1>7. /\ row' = row /\ There' = There
      /\ deleted' = deleted /\ putBack' = putBack /\ disk' = disk /\ crowded' = crowded /\ fileFaults' = fileFaults
  BY DEF LookAtPlan, There, FileThere
<1>8. FileShapes'
  BY <1>1, <1>2, <1>4, <1>6, <1>7 DEF FileShapes, InOrder
<1>9. FilesKnown'
  <2>1. OnDisk'
    BY <1>1, <1>2, <1>4, <1>7 DEF FilesKnown, OnDisk, Unnamed, InOrder
  <2>2. RowsKnown'
    BY <1>1, <1>2, <1>6, <1>7 DEF FilesKnown, RowsKnown, Named
  <2>3. RequestsKnow'
    BY <1>1, <1>2, <1>3, <1>4 DEF FilesKnown, RequestsKnow, RowsKnown, Remembers, Named
  <2>4. DocumentsNamed'
    BY <1>1, <1>2, <1>4 DEF FilesKnown, DocumentsNamed, Remembers, Named
  <2>5. QED  BY <2>1, <2>2, <2>3, <2>4 DEF FilesKnown
<1>10. OneOnSlot'
  BY <1>1, <1>2, <1>4, <1>7 DEF OneOnSlot
<1>11. MissingOnlyIfRaced'
  BY <1>1, <1>2, <1>6, <1>7 DEF MissingOnlyIfRaced, Unread
<1>12. FilesKept'
  <2>1. LogosThere /\ DocumentsThere /\ BackByRace /\ AloneIsRight /\ NoneForgotten
    BY <1>1
  <2>2. LogosThere'
    BY <1>2, <1>6, <1>7, <2>1 DEF LogosThere, Unlinked
  <2>3. DocumentsThere'
    BY <1>1, <1>2, <1>6, <1>7, <2>1 DEF DocumentsThere, Unread, Unlinks
  <2>4. AloneIsRight'
    BY <1>3, <1>4, <1>7, <2>1 DEF AloneIsRight, StillThere
  <2>5. NoneForgotten'
    BY <1>2, <1>4, <1>7, <2>1 DEF NoneForgotten, Unnamed, Unlinks, LeavesBehind, Unread
  <2>6. BackByRace'
    BY <1>1, <1>2, <1>3, <1>6, <1>7, <2>1, NonePutBack DEF FileShapes
  <2>7. QED  BY <2>2, <2>3, <2>4, <2>5, <2>6 DEF FilesKept
<1>13. QED  BY <1>8, <1>9, <1>10, <1>11, <1>12 DEF UploadsIInv

(* The logo before is unlinked.                                             *)
LEMMA UnlinkingLogo ==
  ASSUME UploadsIInv, NEW t \in FileRequests, UnlinkLogo(t)
  PROVE  UploadsIInv'
<1> DEFINE r == request[t]
<1> USE UploadsAssumption DEF FileSlots, FileNames, Begun, Busy
<1>1. /\ FileShapes /\ FilesKnown /\ OneOnSlot /\ MissingOnlyIfRaced
      /\ LogosThere /\ DocumentsThere /\ BackByRace /\ AloneIsRight /\ NoneForgotten
      /\ There \in [FileSlots -> FileNames]
      /\ \A u \in FileRequests : Begun(u) =>
           /\ request[u].slot \in FileSlots /\ request[u].prev \in FileNames
           /\ request[u].file \in FileNames
  BY DEF UploadsIInv, FilesKept, FileJobs, There, FileThere, FileShapes, FileRows
<1>2. /\ r \in FileJobs /\ InOrder(r)
      /\ r.pc = "looked" /\ r.slot \in Plans
  BY <1>1 DEF UnlinkLogo, Stands, FileShapes, FileJobs, InOrder, Operations
<1>3. PICK s \in FileSlots : s = r.slot
  BY <1>2 DEF FileJobs
<1>4. /\ DOMAIN request' = FileRequests
      /\ \A u \in FileRequests : u # t => request'[u] = request[u]
      /\ request'[t] \in FileJobs /\ request'[t].pc = "unlinked"
      /\ request'[t].slot = s /\ request'[t].op = r.op
      /\ request'[t].prev = r.prev
      /\ request'[t].file = r.file
      /\ request'[t].how = r.how
  BY <1>1, <1>3 DEF UnlinkLogo, Stands, Becomes, FileShapes, FileJobs, Steps
<1>5. /\ row' = row /\ There' = There
      /\ deleted' = deleted /\ putBack' = putBack /\ crowded' = crowded /\ fileFaults' = fileFaults
      /\ disk' = disk \ {r.prev}
  BY DEF UnlinkLogo, There, FileThere
<1>6. FileShapes'
  BY <1>1, <1>2, <1>3, <1>4, <1>5 DEF FileShapes, InOrder
<1>7. FilesKnown'
  <2>1. OnDisk'
    BY <1>1, <1>2, <1>4, <1>5 DEF FilesKnown, OnDisk, RequestsKnow, Remembers, FileShapes,
       Named, Unnamed
  <2>2. RowsKnown'
    BY <1>1, <1>2, <1>4, <1>5 DEF FilesKnown, RowsKnown, Named
  <2>3. RequestsKnow'
    BY <1>1, <1>2, <1>3, <1>4 DEF FilesKnown, RequestsKnow, Remembers, Named
  <2>4. DocumentsNamed'
    BY <1>1, <1>2, <1>4 DEF FilesKnown, DocumentsNamed, Remembers, Named
  <2>5. QED  BY <2>1, <2>2, <2>3, <2>4 DEF FilesKnown
<1>8. OneOnSlot'
  BY <1>1, <1>2, <1>3, <1>4, <1>5 DEF OneOnSlot
<1>9. MissingOnlyIfRaced'
  BY <1>1, <1>2, <1>4, <1>5 DEF MissingOnlyIfRaced, Unread
<1>10. FilesKept'
  <2>1. LogosThere /\ DocumentsThere /\ BackByRace /\ AloneIsRight /\ NoneForgotten
    BY <1>1
  <2>2. LogosThere'
    BY <1>1, <1>2, <1>3, <1>4, <1>5, <2>1 DEF LogosThere, Unlinked, FilesKnown, RowsKnown, RequestsKnow,
       Remembers
  <2>3. DocumentsThere'
    BY <1>1, <1>2, <1>4, <1>5, <2>1 DEF DocumentsThere, Unread, Unlinks, FilesKnown, RowsKnown,
       RequestsKnow, Remembers
  <2>4. AloneIsRight'
    BY <1>2, <1>3, <1>4, <1>5, <2>1 DEF AloneIsRight, StillThere
  <2>5. NoneForgotten'
    BY <1>2, <1>3, <1>4, <1>5, <1>6, <2>1 DEF NoneForgotten, Unnamed, Unlinks, LeavesBehind, Unread, FileShapes
  <2>6. BackByRace'
    BY <1>1, <1>2, <1>3, <1>4, <1>5, <2>1, NonePutBack DEF FileShapes
  <2>7. QED  BY <2>2, <2>3, <2>4, <2>5, <2>6 DEF FilesKept
<1>11. QED  BY <1>6, <1>7, <1>8, <1>9, <1>10 DEF UploadsIInv

(* The new logo is named.                                                   *)
LEMMA WritingLogo ==
  ASSUME UploadsIInv, NEW t \in FileRequests, WriteLogo(t)
  PROVE  UploadsIInv'
<1> DEFINE r == request[t]
<1> USE UploadsAssumption DEF FileSlots, FileNames, Begun, Busy
<1>1. /\ FileShapes /\ FilesKnown /\ OneOnSlot /\ MissingOnlyIfRaced
      /\ LogosThere /\ DocumentsThere /\ BackByRace /\ AloneIsRight /\ NoneForgotten
      /\ There \in [FileSlots -> FileNames]
      /\ \A u \in FileRequests : Begun(u) =>
           /\ request[u].slot \in FileSlots /\ request[u].prev \in FileNames
           /\ request[u].file \in FileNames
  BY DEF UploadsIInv, FilesKept, FileJobs, There, FileThere, FileShapes, FileRows
<1>2. /\ r \in FileJobs /\ InOrder(r)
      /\ r.pc = "unlinked" /\ r.slot \in Plans
  BY <1>1 DEF WriteLogo, Stands, FileShapes, FileJobs, InOrder, Operations
<1>3. PICK s \in FileSlots : s = r.slot
  BY <1>2 DEF FileJobs
<1>4. /\ DOMAIN request' = FileRequests
      /\ \A u \in FileRequests : u # t => request'[u] = request[u]
      /\ request'[t] \in FileJobs /\ request'[t].pc = "done"
      /\ request'[t].slot = s /\ request'[t].op = r.op
      /\ request'[t].prev = r.prev
      /\ request'[t].file = r.file
      /\ request'[t].how = "ok"
  BY <1>1, <1>2, <1>3 DEF WriteLogo, Replies, Stands, Becomes, There, FileThere, FileShapes,
     FileJobs, FileRows, Steps, Operations, Replied, InOrder
<1>5. /\ row' \in [FileSlots -> {NoFile} \cup FileRows]
      /\ There' \in [FileSlots -> FileNames]
      /\ \A q \in FileSlots : q # s => row'[q] = row[q] /\ There'[q] = There[q]
      /\ (row'[s] = NoFile) <=> (row[s] = NoFile)
      /\ There'[s] = IF row[s] # NoFile /\ r.op = "logo" THEN t ELSE NoFile
      /\ deleted' = deleted /\ putBack' = putBack /\ crowded' = crowded /\ fileFaults' = fileFaults /\ disk' = disk
  BY <1>1, <1>3 DEF WriteLogo, There, FileThere, FileShapes, FileRows
<1>6. FileShapes'
  BY <1>1, <1>2, <1>3, <1>4, <1>5 DEF FileShapes, InOrder
<1>7. FilesKnown'
  <2>1. OnDisk'
    BY <1>1, <1>4, <1>5 DEF FilesKnown, OnDisk, FileShapes, Unnamed
  <2>2. RowsKnown'
    BY <1>1, <1>3, <1>4, <1>5 DEF FilesKnown, RowsKnown, Named
  <2>3. RequestsKnow'
    BY <1>1, <1>2, <1>3, <1>4 DEF FilesKnown, RequestsKnow, Remembers, Named
  <2>4. DocumentsNamed'
    BY <1>1, <1>3, <1>4 DEF FilesKnown, DocumentsNamed, Remembers, Named
  <2>5. QED  BY <2>1, <2>2, <2>3, <2>4 DEF FilesKnown
<1>8. OneOnSlot'
  BY <1>1, <1>4, <1>5 DEF OneOnSlot
<1>9. MissingOnlyIfRaced'
  BY <1>1, <1>2, <1>4, <1>5 DEF MissingOnlyIfRaced, Unread
<1>10. FilesKept'
  <2>1. LogosThere /\ DocumentsThere /\ BackByRace /\ AloneIsRight /\ NoneForgotten
    BY <1>1
  <2>2. LogosThere'
    BY <1>1, <1>2, <1>3, <1>4, <1>5, <2>1 DEF LogosThere, Unlinked, FilesKnown, OnDisk, Unnamed,
       InOrder, RowsKnown, RequestsKnow, Remembers
  <2>3. DocumentsThere'
    BY <1>2, <1>3, <1>4, <1>5, <2>1 DEF DocumentsThere, Unread, Unlinks
  <2>4. AloneIsRight'
    BY <1>1, <1>2, <1>3, <1>4, <1>5, <2>1 DEF AloneIsRight, StillThere, OneOnSlot
  <2>5. NoneForgotten'
    BY <1>1, <1>2, <1>3, <1>4, <1>5, <2>1 DEF NoneForgotten, Unnamed, Unlinks, LeavesBehind, Unread, AloneIsRight,
       StillThere, FileShapes, FilesKnown, OnDisk
  <2>6. BackByRace'
    BY <1>1, <1>2, <1>3, <1>4, <1>5, <2>1, NonePutBack DEF FileShapes
  <2>7. QED  BY <2>2, <2>3, <2>4, <2>5, <2>6 DEF FilesKept
<1>11. QED  BY <1>6, <1>7, <1>8, <1>9, <1>10 DEF UploadsIInv

(* The file to name is chosen.                                              *)
LEMMA LookingAtDocument ==
  ASSUME UploadsIInv, NEW t \in FileRequests, NEW g \in FileNames, LookAtDocument(t),
         g = FileToName(t, FileThere(request[t].slot)), ~(request[t].op = "meta" /\ g = NoFile)
  PROVE  UploadsIInv'
<1> DEFINE r == request[t]
<1> USE UploadsAssumption DEF FileSlots, FileNames, Begun, Busy
<1>1. /\ FileShapes /\ FilesKnown /\ OneOnSlot /\ MissingOnlyIfRaced
      /\ LogosThere /\ DocumentsThere /\ BackByRace /\ AloneIsRight /\ NoneForgotten
      /\ There \in [FileSlots -> FileNames]
      /\ \A u \in FileRequests : Begun(u) =>
           /\ request[u].slot \in FileSlots /\ request[u].prev \in FileNames
           /\ request[u].file \in FileNames
  BY DEF UploadsIInv, FilesKept, FileJobs, There, FileThere, FileShapes, FileRows
<1>2. /\ r \in FileJobs /\ InOrder(r)
      /\ r.pc \in {"document", "meta"} /\ r.slot \in Docs /\ r.op = r.pc
      /\ r.op = "meta" => g # NoFile /\ g = There[r.slot]
      /\ r.op = "document" => g = t
  BY <1>1 DEF LookAtDocument, FileToName, Stands, FileShapes, FileJobs, InOrder, Operations,
     There
<1>3. PICK s \in FileSlots : s = r.slot
  BY <1>2 DEF FileJobs
<1>4. request' = [request EXCEPT ![t] = [r EXCEPT !.pc = "checked", !.file = g]]
  BY DEF LookAtDocument, FileToName, Becomes
<1>5. request'[t] = [r EXCEPT !.pc = "checked", !.file = g]
  BY <1>1, <1>4 DEF FileShapes
<1>6. /\ DOMAIN request' = FileRequests
      /\ \A u \in FileRequests : u # t => request'[u] = request[u]
      /\ request'[t] \in FileJobs /\ request'[t].pc = "checked"
      /\ request'[t].slot = s /\ request'[t].op = r.op
      /\ request'[t].prev = r.prev
      /\ request'[t].how = r.how
      /\ request'[t].file = g
  <2>1. DOMAIN request' = FileRequests /\ \A u \in FileRequests : u # t => request'[u] = request[u]
    BY <1>1, <1>4 DEF FileShapes
  <2>2. /\ request'[t] \in FileJobs /\ request'[t].pc = "checked"
        /\ request'[t].slot = s /\ request'[t].op = r.op
        /\ request'[t].prev = r.prev
        /\ request'[t].how = r.how
        /\ request'[t].file = g
    BY <1>1, <1>2, <1>3, <1>5 DEF FileJobs, Steps
  <2>3. QED  BY <2>1, <2>2
<1>7. /\ row' = row /\ There' = There
      /\ deleted' = deleted /\ putBack' = putBack /\ disk' = disk /\ crowded' = crowded /\ fileFaults' = fileFaults
  BY DEF LookAtDocument, There, FileThere
<1>8. FileShapes'
  BY <1>1, <1>2, <1>4, <1>6, <1>7 DEF FileShapes, InOrder
<1>9. FilesKnown'
  <2>1. OnDisk'
    BY <1>1, <1>2, <1>4, <1>7 DEF FilesKnown, OnDisk, Unnamed
  <2>2. RowsKnown'
    BY <1>1, <1>2, <1>6, <1>7 DEF FilesKnown, RowsKnown, Named
  <2>3. RequestsKnow'
    BY <1>1, <1>2, <1>4 DEF FilesKnown, RequestsKnow, Remembers, Named
  <2>4. DocumentsNamed'
    BY <1>1, <1>2, <1>4 DEF FilesKnown, DocumentsNamed, RowsKnown, Remembers, Named
  <2>5. QED  BY <2>1, <2>2, <2>3, <2>4 DEF FilesKnown
<1>10. OneOnSlot'
  BY <1>1, <1>2, <1>4, <1>7 DEF OneOnSlot
<1>11. MissingOnlyIfRaced'
  BY <1>1, <1>2, <1>6, <1>7 DEF MissingOnlyIfRaced, Unread
<1>12. FilesKept'
  <2>1. LogosThere /\ DocumentsThere /\ BackByRace /\ AloneIsRight /\ NoneForgotten
    BY <1>1
  <2>2. LogosThere'
    BY <1>2, <1>6, <1>7, <2>1 DEF LogosThere, Unlinked
  <2>3. DocumentsThere'
    BY <1>1, <1>2, <1>6, <1>7, <2>1 DEF DocumentsThere, Unread, Unlinks
  <2>4. AloneIsRight'
    BY <1>2, <1>4, <1>7, <2>1 DEF AloneIsRight, StillThere
  <2>5. NoneForgotten'
    BY <1>2, <1>4, <1>7, <2>1 DEF NoneForgotten, Unnamed, Unlinks, LeavesBehind, Unread
  <2>6. BackByRace'
    BY <1>1, <1>2, <1>3, <1>6, <1>7, <2>1, NonePutBack DEF FileShapes
  <2>7. QED  BY <2>2, <2>3, <2>4, <2>5, <2>6 DEF FilesKept
<1>13. QED  BY <1>8, <1>9, <1>10, <1>11, <1>12 DEF UploadsIInv

(* The file before is noted.                                                *)
LEMMA NotingPrevious ==
  ASSUME UploadsIInv, NEW t \in FileRequests, Previous(t)
  PROVE  UploadsIInv'
<1> DEFINE r == request[t]
<1> USE UploadsAssumption DEF FileSlots, FileNames, Begun, Busy
<1>1. /\ FileShapes /\ FilesKnown /\ OneOnSlot /\ MissingOnlyIfRaced
      /\ LogosThere /\ DocumentsThere /\ BackByRace /\ AloneIsRight /\ NoneForgotten
      /\ There \in [FileSlots -> FileNames]
      /\ \A u \in FileRequests : Begun(u) =>
           /\ request[u].slot \in FileSlots /\ request[u].prev \in FileNames
           /\ request[u].file \in FileNames
  BY DEF UploadsIInv, FilesKept, FileJobs, There, FileThere, FileShapes, FileRows
<1>2. /\ r \in FileJobs /\ InOrder(r)
      /\ r.pc = "checked" /\ r.slot \in Docs
  BY <1>1 DEF Previous, Stands, FileShapes, FileJobs, InOrder, Operations
<1>3. PICK s \in FileSlots : s = r.slot
  BY <1>2 DEF FileJobs
<1>4. request' = [request EXCEPT ![t] = [r EXCEPT !.pc = "previous", !.prev = There[s]]]
  BY <1>1, <1>2, <1>3 DEF Previous, Stands, Becomes, There, FileThere, FileSlots
<1>5. request'[t] = [r EXCEPT !.pc = "previous", !.prev = There[s]]
  BY <1>1, <1>4 DEF FileShapes
<1>6. /\ DOMAIN request' = FileRequests
      /\ \A u \in FileRequests : u # t => request'[u] = request[u]
      /\ request'[t] \in FileJobs /\ request'[t].pc = "previous"
      /\ request'[t].slot = s /\ request'[t].op = r.op
      /\ request'[t].file = r.file
      /\ request'[t].how = r.how
      /\ request'[t].prev = There[s]
  <2>1. DOMAIN request' = FileRequests /\ \A u \in FileRequests : u # t => request'[u] = request[u]
    BY <1>1, <1>4 DEF FileShapes
  <2>2. /\ request'[t] \in FileJobs /\ request'[t].pc = "previous"
        /\ request'[t].slot = s /\ request'[t].op = r.op
        /\ request'[t].file = r.file
        /\ request'[t].how = r.how
        /\ request'[t].prev = There[s]
    BY <1>1, <1>2, <1>3, <1>5 DEF FileJobs, Steps
  <2>3. QED  BY <2>1, <2>2
<1>7. /\ row' = row /\ There' = There
      /\ deleted' = deleted /\ putBack' = putBack /\ disk' = disk /\ crowded' = crowded /\ fileFaults' = fileFaults
  BY DEF Previous, There, FileThere
<1>8. FileShapes'
  BY <1>1, <1>2, <1>4, <1>6, <1>7 DEF FileShapes, InOrder
<1>9. FilesKnown'
  <2>1. OnDisk'
    BY <1>1, <1>2, <1>4, <1>7 DEF FilesKnown, OnDisk, Unnamed
  <2>2. RowsKnown'
    BY <1>1, <1>2, <1>6, <1>7 DEF FilesKnown, RowsKnown, Named
  <2>3. RequestsKnow'
    BY <1>1, <1>2, <1>3, <1>4 DEF FilesKnown, RequestsKnow, RowsKnown, Remembers, Named
  <2>4. DocumentsNamed'
    BY <1>1, <1>2, <1>4 DEF FilesKnown, DocumentsNamed, Remembers, Named
  <2>5. QED  BY <2>1, <2>2, <2>3, <2>4 DEF FilesKnown
<1>10. OneOnSlot'
  BY <1>1, <1>2, <1>4, <1>7 DEF OneOnSlot
<1>11. MissingOnlyIfRaced'
  BY <1>1, <1>2, <1>6, <1>7 DEF MissingOnlyIfRaced, Unread
<1>12. FilesKept'
  <2>1. LogosThere /\ DocumentsThere /\ BackByRace /\ AloneIsRight /\ NoneForgotten
    BY <1>1
  <2>2. LogosThere'
    BY <1>2, <1>6, <1>7, <2>1 DEF LogosThere, Unlinked
  <2>3. DocumentsThere'
    BY <1>1, <1>2, <1>6, <1>7, <2>1 DEF DocumentsThere, Unread, Unlinks
  <2>4. AloneIsRight'
    BY <1>2, <1>3, <1>4, <1>7, <2>1 DEF AloneIsRight, StillThere
  <2>5. NoneForgotten'
    BY <1>2, <1>4, <1>7, <2>1 DEF NoneForgotten, Unnamed, Unlinks, LeavesBehind, Unread
  <2>6. BackByRace'
    BY <1>1, <1>2, <1>3, <1>6, <1>7, <2>1, NonePutBack DEF FileShapes
  <2>7. QED  BY <2>2, <2>3, <2>4, <2>5, <2>6 DEF FilesKept
<1>13. QED  BY <1>8, <1>9, <1>10, <1>11, <1>12 DEF UploadsIInv

(* The document is named.                                                   *)
LEMMA Upserting ==
  ASSUME UploadsIInv, NEW t \in FileRequests, Upsert(t)
  PROVE  UploadsIInv'
<1> DEFINE r == request[t]
<1> USE UploadsAssumption DEF FileSlots, FileNames, Begun, Busy
<1>1. /\ FileShapes /\ FilesKnown /\ OneOnSlot /\ MissingOnlyIfRaced
      /\ LogosThere /\ DocumentsThere /\ BackByRace /\ AloneIsRight /\ NoneForgotten
      /\ There \in [FileSlots -> FileNames]
      /\ \A u \in FileRequests : Begun(u) =>
           /\ request[u].slot \in FileSlots /\ request[u].prev \in FileNames
           /\ request[u].file \in FileNames
  BY DEF UploadsIInv, FilesKept, FileJobs, There, FileThere, FileShapes, FileRows
<1>2. /\ r \in FileJobs /\ InOrder(r)
      /\ r.pc = "previous" /\ r.slot \in Docs /\ r.op \in {"document", "meta"}
  BY <1>1 DEF Upsert, Stands, FileShapes, FileJobs, InOrder, Operations
<1>3. PICK s \in FileSlots : s = r.slot
  BY <1>2 DEF FileJobs
<1>4. /\ DOMAIN request' = FileRequests
      /\ \A u \in FileRequests : u # t => request'[u] = request[u]
      /\ request'[t] \in FileJobs /\ request'[t].pc = "upserted"
      /\ request'[t].slot = s /\ request'[t].op = r.op
      /\ request'[t].file = r.file
      /\ request'[t].how = r.how
      /\ request'[t].prev = r.prev
  BY <1>1, <1>3 DEF Upsert, Stands, Becomes, FileShapes, FileJobs, Steps
<1>5. /\ row' \in [FileSlots -> {NoFile} \cup FileRows]
      /\ There' \in [FileSlots -> FileNames]
      /\ \A q \in FileSlots : q # s => row'[q] = row[q] /\ There'[q] = There[q]
      /\ row'[s] # NoFile /\ row'[s].file = r.file /\ There'[s] = r.file
      /\ putBack' = IF r.op = "meta" /\ There[s] # r.file THEN putBack \cup {r.file} ELSE putBack
      /\ deleted' = deleted /\ crowded' = crowded /\ fileFaults' = fileFaults /\ disk' = disk
  BY <1>1, <1>2, <1>3 DEF Upsert, There, FileThere, FileShapes, FileRows
<1>6. FileShapes'
  BY <1>1, <1>2, <1>3, <1>4, <1>5 DEF FileShapes, InOrder, FilesKnown, DocumentsNamed
<1>7. FilesKnown'
  <2>1. OnDisk'
    BY <1>1, <1>4, <1>5 DEF FilesKnown, OnDisk, FileShapes, Unnamed
  <2>2. RowsKnown'
    BY <1>1, <1>2, <1>3, <1>4, <1>5 DEF FilesKnown, RowsKnown, DocumentsNamed, Remembers, Named
  <2>3. RequestsKnow'
    BY <1>1, <1>2, <1>3, <1>4 DEF FilesKnown, RequestsKnow, Remembers, Named
  <2>4. DocumentsNamed'
    BY <1>1, <1>2, <1>3, <1>4 DEF FilesKnown, DocumentsNamed, Remembers, Named
  <2>5. QED  BY <2>1, <2>2, <2>3, <2>4 DEF FilesKnown
<1>8. OneOnSlot'
  BY <1>1, <1>2, <1>3, <1>4, <1>5 DEF OneOnSlot
<1>9. MissingOnlyIfRaced'
  BY <1>1, <1>2, <1>4, <1>5 DEF MissingOnlyIfRaced, Unread
<1>10. FilesKept'
  <2>1. LogosThere /\ DocumentsThere /\ BackByRace /\ AloneIsRight /\ NoneForgotten
    BY <1>1
  <2>2. LogosThere'
    BY <1>2, <1>3, <1>4, <1>5, <2>1 DEF LogosThere, Unlinked
  <2>3. DocumentsThere'
    BY <1>1, <1>2, <1>3, <1>4, <1>5, <2>1 DEF DocumentsThere, Unread, Unlinks, FilesKnown, OnDisk,
       RowsKnown, RequestsKnow, DocumentsNamed, Remembers, Named, Unnamed, AloneIsRight,
       StillThere
  <2>4. AloneIsRight'
    BY <1>1, <1>2, <1>3, <1>4, <1>5, <2>1 DEF AloneIsRight, StillThere, OneOnSlot, FilesKnown,
       DocumentsNamed
  <2>5. NoneForgotten'
    <3> SUFFICES ASSUME NEW f \in disk', request'[f].slot \notin crowded' \cup deleted'
                 PROVE  \/ There'[request'[f].slot] = f
                        \/ Unnamed(f)'
                        \/ \E u \in FileRequests : /\ Begun(u)' /\ request'[u].slot = request'[f].slot
                                                   /\ Unlinks(u, f)'
                        \/ \E u \in FileRequests : LeavesBehind(u, f)'
      BY DEF NoneForgotten
    <3>1. /\ f \in disk /\ f \in FileRequests /\ Begun(f) /\ request'[f].slot = request[f].slot
          /\ request[f].slot \in FileSlots /\ request[f].slot \notin crowded \cup deleted
      BY <1>1, <1>3, <1>4, <1>5 DEF FileShapes, FilesKnown, OnDisk
    <3>2. \/ There[request[f].slot] = f \/ Unnamed(f)
          \/ \E u \in FileRequests : Begun(u) /\ request[u].slot = request[f].slot /\ Unlinks(u, f)
          \/ \E u \in FileRequests : LeavesBehind(u, f)
      BY <2>1, <3>1 DEF NoneForgotten
    <3>3. CASE request[f].slot # s
      BY <1>2, <1>3, <1>4, <1>5, <3>1, <3>2, <3>3 DEF Unnamed, Unlinks, LeavesBehind, Unread
    <3>4. CASE request[f].slot = s
      <4>1. StillThere(t) /\ \A u \in FileRequests : Busy(u) /\ request[u].slot = s => u = t
        BY <1>1, <1>2, <1>3, <2>1, <3>1, <3>4 DEF AloneIsRight, OneOnSlot
      <4>2. CASE There[s] = f
        BY <1>2, <1>3, <1>4, <1>5, <3>1, <3>4, <4>1, <4>2 DEF StillThere, Unlinks
      <4>3. CASE Unnamed(f)
        BY <1>1, <1>2, <1>5, <3>1, <3>4, <4>1, <4>3 DEF Unnamed, FilesKnown, DocumentsNamed
      <4>4. CASE \E u \in FileRequests : Begun(u) /\ request[u].slot = s /\ Unlinks(u, f)
        BY <1>2, <4>1, <4>4 DEF Unlinks
      <4>5. CASE \E u \in FileRequests : LeavesBehind(u, f)
        BY <1>2, <1>4, <4>5 DEF LeavesBehind, Unread
      <4>6. QED  BY <3>2, <3>4, <4>2, <4>3, <4>4, <4>5
    <3>5. QED  BY <3>3, <3>4
  <2>6. BackByRace'
    <3>1. r.op = "meta" /\ There[s] # r.file => s \in crowded /\ Begun(r.file) /\ request[r.file].slot = s
      BY <1>1, <1>2, <1>3 DEF AloneIsRight, StillThere, FilesKnown, DocumentsNamed, Remembers, Named
    <3>2. putBack' \subseteq FileRequests /\ \A f \in putBack' : Begun(f) /\ request[f].slot \in crowded
      BY <1>1, <1>2, <1>3, <1>5, <3>1 DEF BackByRace, FileShapes, FilesKnown, DocumentsNamed,
         Remembers, Named
    <3>3. ASSUME NEW f \in putBack' PROVE request'[f].pc # "new" /\ request'[f].slot \in crowded'
      BY <1>2, <1>3, <1>4, <1>5, <3>2, <3>3
    <3>4. QED  BY <3>3 DEF BackByRace
  <2>7. QED  BY <2>2, <2>3, <2>4, <2>5, <2>6 DEF FilesKept
<1>11. QED  BY <1>6, <1>7, <1>8, <1>9, <1>10 DEF UploadsIInv

(* The document before is unlinked.                                         *)
LEMMA UnlinkingReplaced ==
  ASSUME UploadsIInv, NEW t \in FileRequests, Current(t)
  PROVE  UploadsIInv'
<1> DEFINE r == request[t]
<1> USE UploadsAssumption DEF FileSlots, FileNames, Begun, Busy
<1>1. /\ FileShapes /\ FilesKnown /\ OneOnSlot /\ MissingOnlyIfRaced
      /\ LogosThere /\ DocumentsThere /\ BackByRace /\ AloneIsRight /\ NoneForgotten
      /\ There \in [FileSlots -> FileNames]
      /\ \A u \in FileRequests : Begun(u) =>
           /\ request[u].slot \in FileSlots /\ request[u].prev \in FileNames
           /\ request[u].file \in FileNames
  BY DEF UploadsIInv, FilesKept, FileJobs, There, FileThere, FileShapes, FileRows
<1>2. /\ r \in FileJobs /\ InOrder(r)
      /\ r.pc = "upserted" /\ r.slot \in Docs /\ r.op \in {"document", "meta"}
  BY <1>1 DEF Current, Stands, FileShapes, FileJobs, InOrder, Operations
<1>3. PICK s \in FileSlots : s = r.slot
  BY <1>2 DEF FileJobs
<1>4. /\ DOMAIN request' = FileRequests
      /\ \A u \in FileRequests : u # t => request'[u] = request[u]
      /\ request'[t] \in FileJobs /\ request'[t].pc = "done"
      /\ request'[t].slot = s /\ request'[t].op = r.op
      /\ request'[t].file = r.file
      /\ request'[t].prev = r.prev
      /\ request'[t].how = "ok"
  BY <1>1, <1>2, <1>3 DEF Current, Replaced, Replies, Stands, Becomes, There, FileThere,
     FileShapes, FileJobs, FileRows, Steps, Operations, Replied, InOrder
<1>5. /\ row' = row /\ There' = There
      /\ deleted' = deleted /\ putBack' = putBack /\ crowded' = crowded /\ fileFaults' = fileFaults
      /\ disk' = IF r.op = "document" /\ r.prev # r.file THEN disk \ {r.prev} ELSE disk
  BY DEF Current, Replaced, There, FileThere
<1>6. FileShapes'
  BY <1>1, <1>2, <1>3, <1>4, <1>5 DEF FileShapes, InOrder
<1>7. FilesKnown'
  <2>1. OnDisk'
    BY <1>1, <1>2, <1>4, <1>5 DEF FilesKnown, OnDisk, RequestsKnow, Remembers, FileShapes,
       Named, Unnamed
  <2>2. RowsKnown'
    BY <1>1, <1>3, <1>4, <1>5 DEF FilesKnown, RowsKnown, Named
  <2>3. RequestsKnow'
    BY <1>1, <1>2, <1>3, <1>4 DEF FilesKnown, RequestsKnow, Remembers, Named
  <2>4. DocumentsNamed'
    BY <1>1, <1>3, <1>4 DEF FilesKnown, DocumentsNamed, Remembers, Named
  <2>5. QED  BY <2>1, <2>2, <2>3, <2>4 DEF FilesKnown
<1>8. OneOnSlot'
  BY <1>1, <1>4, <1>5 DEF OneOnSlot
<1>9. MissingOnlyIfRaced'
  BY <1>1, <1>2, <1>4, <1>5 DEF MissingOnlyIfRaced, Unread
<1>10. FilesKept'
  <2>1. LogosThere /\ DocumentsThere /\ BackByRace /\ AloneIsRight /\ NoneForgotten
    BY <1>1
  <2>2. LogosThere'
    BY <1>1, <1>2, <1>4, <1>5, <2>1 DEF LogosThere, Unlinked, FilesKnown, RowsKnown, RequestsKnow,
       Remembers
  <2>3. DocumentsThere'
    BY <1>2, <1>3, <1>4, <1>5, <2>1 DEF DocumentsThere, Unread, Unlinks
  <2>4. AloneIsRight'
    BY <1>4, <1>5, <2>1 DEF AloneIsRight, StillThere
  <2>5. NoneForgotten'
    <3> SUFFICES ASSUME NEW f \in disk', request'[f].slot \notin crowded' \cup deleted'
                 PROVE  \/ There'[request'[f].slot] = f
                        \/ Unnamed(f)'
                        \/ \E u \in FileRequests : /\ Begun(u)' /\ request'[u].slot = request'[f].slot
                                                   /\ Unlinks(u, f)'
                        \/ \E u \in FileRequests : LeavesBehind(u, f)'
      BY DEF NoneForgotten
    <3>1. /\ f \in disk /\ f \in FileRequests /\ Begun(f) /\ request'[f].slot = request[f].slot
          /\ request[f].slot \in FileSlots /\ request[f].slot \notin crowded \cup deleted
      BY <1>1, <1>3, <1>4, <1>5 DEF FileShapes, FilesKnown, OnDisk
    <3>2. \/ There[request[f].slot] = f \/ Unnamed(f)
          \/ \E u \in FileRequests : Begun(u) /\ request[u].slot = request[f].slot /\ Unlinks(u, f)
          \/ \E u \in FileRequests : LeavesBehind(u, f)
      BY <2>1, <3>1 DEF NoneForgotten
    <3>3. CASE request[f].slot # s
      BY <1>2, <1>3, <1>4, <1>5, <3>1, <3>2, <3>3 DEF Unnamed, Unlinks, LeavesBehind, Unread
    <3>4. CASE request[f].slot = s
      <4>1. StillThere(t) /\ \A u \in FileRequests : Busy(u) /\ request[u].slot = s => u = t
        BY <1>1, <1>2, <1>3, <2>1, <3>1, <3>4 DEF AloneIsRight, OneOnSlot
      <4>2. CASE There[s] = f
        BY <1>5, <3>1, <3>4, <4>2
      <4>3. CASE Unnamed(f)
        BY <1>2, <3>1, <3>4, <4>1, <4>3 DEF Unnamed
      <4>4. CASE \E u \in FileRequests : Begun(u) /\ request[u].slot = s /\ Unlinks(u, f)
        BY <1>1, <1>2, <1>4, <1>5, <4>1, <4>4 DEF StillThere, Unlinks, FilesKnown,
           DocumentsNamed
      <4>5. CASE \E u \in FileRequests : LeavesBehind(u, f)
        BY <1>2, <1>4, <4>5 DEF LeavesBehind, Unread
      <4>6. QED  BY <3>2, <3>4, <4>2, <4>3, <4>4, <4>5
    <3>5. QED  BY <3>3, <3>4
  <2>6. BackByRace'
    BY <1>1, <1>2, <1>3, <1>4, <1>5, <2>1, NonePutBack DEF FileShapes
  <2>7. QED  BY <2>2, <2>3, <2>4, <2>5, <2>6 DEF FilesKept
<1>11. QED  BY <1>6, <1>7, <1>8, <1>9, <1>10 DEF UploadsIInv

(* The file to remove is noted.                                             *)
LEMMA LookingBeforeRemoval ==
  ASSUME UploadsIInv, NEW t \in FileRequests, LookBeforeRemoval(t), row[request[t].slot] # NoFile
  PROVE  UploadsIInv'
<1> DEFINE r == request[t]
<1> USE UploadsAssumption DEF FileSlots, FileNames, Begun, Busy
<1>1. /\ FileShapes /\ FilesKnown /\ OneOnSlot /\ MissingOnlyIfRaced
      /\ LogosThere /\ DocumentsThere /\ BackByRace /\ AloneIsRight /\ NoneForgotten
      /\ There \in [FileSlots -> FileNames]
      /\ \A u \in FileRequests : Begun(u) =>
           /\ request[u].slot \in FileSlots /\ request[u].prev \in FileNames
           /\ request[u].file \in FileNames
  BY DEF UploadsIInv, FilesKept, FileJobs, There, FileThere, FileShapes, FileRows
<1>2. /\ r \in FileJobs /\ InOrder(r)
      /\ r.pc = "remove" /\ r.slot \in Docs /\ There[r.slot] # NoFile
  BY <1>1 DEF LookBeforeRemoval, Stands, FileShapes, FileJobs, InOrder, Operations, There,
     FileThere
<1>3. PICK s \in FileSlots : s = r.slot
  BY <1>2 DEF FileJobs
<1>4. request' = [request EXCEPT ![t] = [r EXCEPT !.pc = "removing", !.prev = There[s]]]
  BY <1>1, <1>2, <1>3 DEF LookBeforeRemoval, Stands, Becomes, There, FileThere, FileSlots
<1>5. request'[t] = [r EXCEPT !.pc = "removing", !.prev = There[s]]
  BY <1>1, <1>4 DEF FileShapes
<1>6. /\ DOMAIN request' = FileRequests
      /\ \A u \in FileRequests : u # t => request'[u] = request[u]
      /\ request'[t] \in FileJobs /\ request'[t].pc = "removing"
      /\ request'[t].slot = s /\ request'[t].op = r.op
      /\ request'[t].file = r.file
      /\ request'[t].how = r.how
      /\ request'[t].prev = There[s]
  <2>1. DOMAIN request' = FileRequests /\ \A u \in FileRequests : u # t => request'[u] = request[u]
    BY <1>1, <1>4 DEF FileShapes
  <2>2. /\ request'[t] \in FileJobs /\ request'[t].pc = "removing"
        /\ request'[t].slot = s /\ request'[t].op = r.op
        /\ request'[t].file = r.file
        /\ request'[t].how = r.how
        /\ request'[t].prev = There[s]
    BY <1>1, <1>2, <1>3, <1>5 DEF FileJobs, Steps
  <2>3. QED  BY <2>1, <2>2
<1>7. /\ row' = row /\ There' = There
      /\ deleted' = deleted /\ putBack' = putBack /\ disk' = disk /\ crowded' = crowded /\ fileFaults' = fileFaults
  BY DEF LookBeforeRemoval, There, FileThere
<1>8. FileShapes'
  BY <1>1, <1>2, <1>4, <1>6, <1>7 DEF FileShapes, InOrder
<1>9. FilesKnown'
  <2>1. OnDisk'
    BY <1>1, <1>4, <1>7 DEF FilesKnown, OnDisk, Unnamed
  <2>2. RowsKnown'
    BY <1>1, <1>2, <1>6, <1>7 DEF FilesKnown, RowsKnown, Named
  <2>3. RequestsKnow'
    BY <1>1, <1>2, <1>3, <1>4 DEF FilesKnown, RequestsKnow, RowsKnown, Remembers, Named
  <2>4. DocumentsNamed'
    BY <1>1, <1>2, <1>4 DEF FilesKnown, DocumentsNamed, Remembers, Named
  <2>5. QED  BY <2>1, <2>2, <2>3, <2>4 DEF FilesKnown
<1>10. OneOnSlot'
  BY <1>1, <1>2, <1>4, <1>7 DEF OneOnSlot
<1>11. MissingOnlyIfRaced'
  BY <1>1, <1>2, <1>6, <1>7 DEF MissingOnlyIfRaced, Unread
<1>12. FilesKept'
  <2>1. LogosThere /\ DocumentsThere /\ BackByRace /\ AloneIsRight /\ NoneForgotten
    BY <1>1
  <2>2. LogosThere'
    BY <1>2, <1>6, <1>7, <2>1 DEF LogosThere, Unlinked
  <2>3. DocumentsThere'
    BY <1>1, <1>2, <1>6, <1>7, <2>1 DEF DocumentsThere, Unread, Unlinks
  <2>4. AloneIsRight'
    BY <1>3, <1>4, <1>7, <2>1 DEF AloneIsRight, StillThere
  <2>5. NoneForgotten'
    BY <1>2, <1>4, <1>7, <2>1 DEF NoneForgotten, Unnamed, Unlinks, LeavesBehind, Unread
  <2>6. BackByRace'
    BY <1>1, <1>2, <1>3, <1>6, <1>7, <2>1, NonePutBack DEF FileShapes
  <2>7. QED  BY <2>2, <2>3, <2>4, <2>5, <2>6 DEF FilesKept
<1>13. QED  BY <1>8, <1>9, <1>10, <1>11, <1>12 DEF UploadsIInv

(* The row is deleted.                                                      *)
LEMMA DeletingRow ==
  ASSUME UploadsIInv, NEW t \in FileRequests, DeleteRow(t)
  PROVE  UploadsIInv'
<1> DEFINE r == request[t]
<1> USE UploadsAssumption DEF FileSlots, FileNames, Begun, Busy
<1>1. /\ FileShapes /\ FilesKnown /\ OneOnSlot /\ MissingOnlyIfRaced
      /\ LogosThere /\ DocumentsThere /\ BackByRace /\ AloneIsRight /\ NoneForgotten
      /\ There \in [FileSlots -> FileNames]
      /\ \A u \in FileRequests : Begun(u) =>
           /\ request[u].slot \in FileSlots /\ request[u].prev \in FileNames
           /\ request[u].file \in FileNames
  BY DEF UploadsIInv, FilesKept, FileJobs, There, FileThere, FileShapes, FileRows
<1>2. /\ r \in FileJobs /\ InOrder(r)
      /\ r.pc = "removing" /\ r.slot \in Docs
  BY <1>1 DEF DeleteRow, Stands, FileShapes, FileJobs, InOrder, Operations
<1>3. PICK s \in FileSlots : s = r.slot
  BY <1>2 DEF FileJobs
<1>4. /\ DOMAIN request' = FileRequests
      /\ \A u \in FileRequests : u # t => request'[u] = request[u]
      /\ request'[t] \in FileJobs /\ request'[t].pc = "removed"
      /\ request'[t].slot = s /\ request'[t].op = r.op
      /\ request'[t].file = r.file
      /\ request'[t].how = r.how
      /\ request'[t].prev = r.prev
  BY <1>1, <1>3 DEF DeleteRow, Stands, Becomes, FileShapes, FileJobs, Steps
<1>5. /\ row' \in [FileSlots -> {NoFile} \cup FileRows]
      /\ There' \in [FileSlots -> FileNames]
      /\ \A q \in FileSlots : q # s => row'[q] = row[q] /\ There'[q] = There[q]
      /\ row'[s] = NoFile /\ There'[s] = NoFile
      /\ deleted' = deleted /\ putBack' = putBack /\ crowded' = crowded /\ fileFaults' = fileFaults /\ disk' = disk
  BY <1>1, <1>3 DEF DeleteRow, There, FileThere, FileShapes
<1>6. FileShapes'
  BY <1>1, <1>2, <1>3, <1>4, <1>5 DEF FileShapes, InOrder
<1>7. FilesKnown'
  <2>1. OnDisk'
    BY <1>1, <1>4, <1>5 DEF FilesKnown, OnDisk, FileShapes, Unnamed
  <2>2. RowsKnown'
    BY <1>1, <1>3, <1>4, <1>5 DEF FilesKnown, RowsKnown, Named
  <2>3. RequestsKnow'
    BY <1>1, <1>2, <1>3, <1>4 DEF FilesKnown, RequestsKnow, Remembers, Named
  <2>4. DocumentsNamed'
    BY <1>1, <1>2, <1>4 DEF FilesKnown, DocumentsNamed, Remembers, Named
  <2>5. QED  BY <2>1, <2>2, <2>3, <2>4 DEF FilesKnown
<1>8. OneOnSlot'
  BY <1>1, <1>2, <1>3, <1>4, <1>5 DEF OneOnSlot
<1>9. MissingOnlyIfRaced'
  BY <1>1, <1>2, <1>4, <1>5 DEF MissingOnlyIfRaced, Unread
<1>10. FilesKept'
  <2>1. LogosThere /\ DocumentsThere /\ BackByRace /\ AloneIsRight /\ NoneForgotten
    BY <1>1
  <2>2. LogosThere'
    BY <1>1, <1>2, <1>3, <1>4, <1>5, <2>1 DEF LogosThere, Unlinked
  <2>3. DocumentsThere'
    BY <1>3, <1>4, <1>5, <1>7, <2>1 DEF DocumentsThere, Unread, Unlinks, FilesKnown, RowsKnown,
       RequestsKnow, Remembers
  <2>4. AloneIsRight'
    BY <1>1, <1>2, <1>3, <1>4, <1>5, <2>1 DEF AloneIsRight, StillThere, OneOnSlot
  <2>5. NoneForgotten'
    BY <1>1, <1>2, <1>3, <1>4, <1>5, <2>1 DEF NoneForgotten, Unnamed, Unlinks, LeavesBehind, Unread, AloneIsRight,
       StillThere, FileShapes, FilesKnown, OnDisk
  <2>6. BackByRace'
    BY <1>1, <1>2, <1>3, <1>4, <1>5, <2>1, NonePutBack DEF FileShapes
  <2>7. QED  BY <2>2, <2>3, <2>4, <2>5, <2>6 DEF FilesKept
<1>11. QED  BY <1>6, <1>7, <1>8, <1>9, <1>10 DEF UploadsIInv

(* The removed document is unlinked.                                        *)
LEMMA UnlinkingRemoved ==
  ASSUME UploadsIInv, NEW t \in FileRequests, UnlinkRemoved(t)
  PROVE  UploadsIInv'
<1> DEFINE r == request[t]
<1> USE UploadsAssumption DEF FileSlots, FileNames, Begun, Busy
<1>1. /\ FileShapes /\ FilesKnown /\ OneOnSlot /\ MissingOnlyIfRaced
      /\ LogosThere /\ DocumentsThere /\ BackByRace /\ AloneIsRight /\ NoneForgotten
      /\ There \in [FileSlots -> FileNames]
      /\ \A u \in FileRequests : Begun(u) =>
           /\ request[u].slot \in FileSlots /\ request[u].prev \in FileNames
           /\ request[u].file \in FileNames
  BY DEF UploadsIInv, FilesKept, FileJobs, There, FileThere, FileShapes, FileRows
<1>2. /\ r \in FileJobs /\ InOrder(r)
      /\ r.pc = "removed" /\ r.slot \in Docs
  BY <1>1 DEF UnlinkRemoved, Stands, FileShapes, FileJobs, InOrder, Operations
<1>3. PICK s \in FileSlots : s = r.slot
  BY <1>2 DEF FileJobs
<1>4. /\ DOMAIN request' = FileRequests
      /\ \A u \in FileRequests : u # t => request'[u] = request[u]
      /\ request'[t] \in FileJobs /\ request'[t].pc = "done"
      /\ request'[t].slot = s /\ request'[t].op = r.op
      /\ request'[t].file = r.file
      /\ request'[t].prev = r.prev
      /\ request'[t].how = "ok"
  BY <1>1, <1>2, <1>3 DEF UnlinkRemoved, Replies, Stands, Becomes, There, FileThere, FileShapes,
     FileJobs, FileRows, Steps, Operations, Replied, InOrder
<1>5. /\ row' = row /\ There' = There
      /\ deleted' = deleted /\ putBack' = putBack /\ crowded' = crowded /\ fileFaults' = fileFaults
      /\ disk' = disk \ {r.prev}
  BY DEF UnlinkRemoved, There, FileThere
<1>6. FileShapes'
  BY <1>1, <1>2, <1>3, <1>4, <1>5 DEF FileShapes, InOrder
<1>7. FilesKnown'
  <2>1. OnDisk'
    BY <1>1, <1>2, <1>4, <1>5 DEF FilesKnown, OnDisk, RequestsKnow, Remembers, FileShapes,
       Named, Unnamed
  <2>2. RowsKnown'
    BY <1>1, <1>3, <1>4, <1>5 DEF FilesKnown, RowsKnown, Named
  <2>3. RequestsKnow'
    BY <1>1, <1>2, <1>3, <1>4 DEF FilesKnown, RequestsKnow, Remembers, Named
  <2>4. DocumentsNamed'
    BY <1>1, <1>3, <1>4 DEF FilesKnown, DocumentsNamed, Remembers, Named
  <2>5. QED  BY <2>1, <2>2, <2>3, <2>4 DEF FilesKnown
<1>8. OneOnSlot'
  BY <1>1, <1>4, <1>5 DEF OneOnSlot
<1>9. MissingOnlyIfRaced'
  BY <1>1, <1>2, <1>4, <1>5 DEF MissingOnlyIfRaced, Unread
<1>10. FilesKept'
  <2>1. LogosThere /\ DocumentsThere /\ BackByRace /\ AloneIsRight /\ NoneForgotten
    BY <1>1
  <2>2. LogosThere'
    BY <1>1, <1>2, <1>4, <1>5, <2>1 DEF LogosThere, Unlinked, FilesKnown, RowsKnown, RequestsKnow,
       Remembers
  <2>3. DocumentsThere'
    BY <1>2, <1>3, <1>4, <1>5, <2>1 DEF DocumentsThere, Unread, Unlinks
  <2>4. AloneIsRight'
    BY <1>4, <1>5, <2>1 DEF AloneIsRight, StillThere
  <2>5. NoneForgotten'
    BY <1>2, <1>3, <1>4, <1>5, <1>6, <2>1 DEF NoneForgotten, Unnamed, Unlinks, LeavesBehind, Unread, FileShapes
  <2>6. BackByRace'
    BY <1>1, <1>2, <1>3, <1>4, <1>5, <2>1, NonePutBack DEF FileShapes
  <2>7. QED  BY <2>2, <2>3, <2>4, <2>5, <2>6 DEF FilesKept
<1>11. QED  BY <1>6, <1>7, <1>8, <1>9, <1>10 DEF UploadsIInv

(* The file to send is noted.                                               *)
LEMMA LookingBeforeDownload ==
  ASSUME UploadsIInv, NEW t \in FileRequests, LookBeforeDownload(t), row[request[t].slot] # NoFile
  PROVE  UploadsIInv'
<1> DEFINE r == request[t]
<1> USE UploadsAssumption DEF FileSlots, FileNames, Begun, Busy
<1>1. /\ FileShapes /\ FilesKnown /\ OneOnSlot /\ MissingOnlyIfRaced
      /\ LogosThere /\ DocumentsThere /\ BackByRace /\ AloneIsRight /\ NoneForgotten
      /\ There \in [FileSlots -> FileNames]
      /\ \A u \in FileRequests : Begun(u) =>
           /\ request[u].slot \in FileSlots /\ request[u].prev \in FileNames
           /\ request[u].file \in FileNames
  BY DEF UploadsIInv, FilesKept, FileJobs, There, FileThere, FileShapes, FileRows
<1>2. /\ r \in FileJobs /\ InOrder(r)
      /\ r.pc = "download" /\ r.slot \in Docs /\ There[r.slot] # NoFile
  BY <1>1 DEF LookBeforeDownload, Stands, FileShapes, FileJobs, InOrder, Operations, There,
     FileThere
<1>3. PICK s \in FileSlots : s = r.slot
  BY <1>2 DEF FileJobs
<1>4. request' = [request EXCEPT ![t] = [r EXCEPT !.pc = "sending", !.prev = There[s]]]
  BY <1>1, <1>2, <1>3 DEF LookBeforeDownload, Stands, Becomes, There, FileThere, FileSlots
<1>5. request'[t] = [r EXCEPT !.pc = "sending", !.prev = There[s]]
  BY <1>1, <1>4 DEF FileShapes
<1>6. /\ DOMAIN request' = FileRequests
      /\ \A u \in FileRequests : u # t => request'[u] = request[u]
      /\ request'[t] \in FileJobs /\ request'[t].pc = "sending"
      /\ request'[t].slot = s /\ request'[t].op = r.op
      /\ request'[t].file = r.file
      /\ request'[t].how = r.how
      /\ request'[t].prev = There[s]
  <2>1. DOMAIN request' = FileRequests /\ \A u \in FileRequests : u # t => request'[u] = request[u]
    BY <1>1, <1>4 DEF FileShapes
  <2>2. /\ request'[t] \in FileJobs /\ request'[t].pc = "sending"
        /\ request'[t].slot = s /\ request'[t].op = r.op
        /\ request'[t].file = r.file
        /\ request'[t].how = r.how
        /\ request'[t].prev = There[s]
    BY <1>1, <1>2, <1>3, <1>5 DEF FileJobs, Steps
  <2>3. QED  BY <2>1, <2>2
<1>7. /\ row' = row /\ There' = There
      /\ deleted' = deleted /\ putBack' = putBack /\ disk' = disk /\ crowded' = crowded /\ fileFaults' = fileFaults
  BY DEF LookBeforeDownload, There, FileThere
<1>8. FileShapes'
  BY <1>1, <1>2, <1>4, <1>6, <1>7 DEF FileShapes, InOrder
<1>9. FilesKnown'
  <2>1. OnDisk'
    BY <1>1, <1>4, <1>7 DEF FilesKnown, OnDisk, Unnamed
  <2>2. RowsKnown'
    BY <1>1, <1>2, <1>6, <1>7 DEF FilesKnown, RowsKnown, Named
  <2>3. RequestsKnow'
    BY <1>1, <1>2, <1>3, <1>4 DEF FilesKnown, RequestsKnow, RowsKnown, Remembers, Named
  <2>4. DocumentsNamed'
    BY <1>1, <1>2, <1>4 DEF FilesKnown, DocumentsNamed, Remembers, Named
  <2>5. QED  BY <2>1, <2>2, <2>3, <2>4 DEF FilesKnown
<1>10. OneOnSlot'
  BY <1>1, <1>2, <1>4, <1>7 DEF OneOnSlot
<1>11. MissingOnlyIfRaced'
  BY <1>1, <1>2, <1>6, <1>7 DEF MissingOnlyIfRaced, Unread
<1>12. FilesKept'
  <2>1. LogosThere /\ DocumentsThere /\ BackByRace /\ AloneIsRight /\ NoneForgotten
    BY <1>1
  <2>2. LogosThere'
    BY <1>2, <1>6, <1>7, <2>1 DEF LogosThere, Unlinked
  <2>3. DocumentsThere'
    BY <1>1, <1>2, <1>6, <1>7, <2>1 DEF DocumentsThere, Unread, Unlinks
  <2>4. AloneIsRight'
    BY <1>3, <1>4, <1>7, <2>1 DEF AloneIsRight, StillThere
  <2>5. NoneForgotten'
    BY <1>2, <1>4, <1>7, <2>1 DEF NoneForgotten, Unnamed, Unlinks, LeavesBehind, Unread
  <2>6. BackByRace'
    BY <1>1, <1>2, <1>3, <1>6, <1>7, <2>1, NonePutBack DEF FileShapes
  <2>7. QED  BY <2>2, <2>3, <2>4, <2>5, <2>6 DEF FilesKept
<1>13. QED  BY <1>8, <1>9, <1>10, <1>11, <1>12 DEF UploadsIInv

(* A plan is created.                                                       *)
LEMMA CreatingPlan ==
  ASSUME UploadsIInv, NEW s \in Plans, CreateCatalogue(s)
  PROVE  UploadsIInv'
<1> USE UploadsAssumption DEF FileSlots, FileNames, Begun, Busy
<1>1. /\ FileShapes /\ FilesKnown /\ OneOnSlot /\ MissingOnlyIfRaced
      /\ LogosThere /\ DocumentsThere /\ BackByRace /\ AloneIsRight /\ NoneForgotten
      /\ There \in [FileSlots -> FileNames]
      /\ \A u \in FileRequests : Begun(u) =>
           /\ request[u].slot \in FileSlots /\ request[u].prev \in FileNames
           /\ request[u].file \in FileNames
  BY DEF UploadsIInv, FilesKept, FileJobs, There, FileThere, FileShapes, FileRows
<1>2. /\ row[s] = NoFile /\ s \notin deleted
  BY DEF CreateCatalogue
<1>3. /\ request' = request
  BY DEF CreateCatalogue
<1>4. /\ row' \in [FileSlots -> {NoFile} \cup FileRows] /\ There' = There
      /\ \A q \in FileSlots : q # s => row'[q] = row[q]
      /\ deleted' = deleted /\ putBack' = putBack /\ crowded' = crowded /\ fileFaults' = fileFaults /\ disk' = disk
  BY <1>1 DEF CreateCatalogue, There, FileThere, FileShapes, FileRows
<1>5. FileShapes'
  BY <1>1, <1>2, <1>3, <1>4 DEF FileShapes
<1>6. FilesKnown'
  <2>1. OnDisk'
    BY <1>1, <1>3, <1>4 DEF FilesKnown, OnDisk, Unnamed
  <2>2. RowsKnown'
    BY <1>1, <1>3, <1>4 DEF FilesKnown, RowsKnown, Named
  <2>3. RequestsKnow'
    BY <1>1, <1>3 DEF FilesKnown, RequestsKnow, Remembers, Named
  <2>4. DocumentsNamed'
    BY <1>1, <1>3 DEF FilesKnown, DocumentsNamed, Remembers, Named
  <2>5. QED  BY <2>1, <2>2, <2>3, <2>4 DEF FilesKnown
<1>7. OneOnSlot'
  BY <1>1, <1>3, <1>4 DEF OneOnSlot
<1>8. MissingOnlyIfRaced'
  BY <1>1, <1>2, <1>3, <1>4 DEF MissingOnlyIfRaced, Unread
<1>9. FilesKept'
  <2>1. LogosThere /\ DocumentsThere /\ BackByRace /\ AloneIsRight /\ NoneForgotten
    BY <1>1
  <2>2. LogosThere'
    BY <1>3, <1>4, <2>1 DEF LogosThere, Unlinked
  <2>3. DocumentsThere'
    BY <1>3, <1>4, <2>1 DEF DocumentsThere, Unread, Unlinks
  <2>4. AloneIsRight'
    BY <1>1, <1>2, <1>3, <1>4, <2>1 DEF AloneIsRight, StillThere
  <2>5. NoneForgotten'
    BY <1>3, <1>4, <2>1 DEF NoneForgotten, Unnamed, Unlinks, LeavesBehind, Unread
  <2>6. BackByRace'
    BY <1>1, <1>2, <1>3, <1>4, <2>1 DEF BackByRace, FileShapes
  <2>7. QED  BY <2>2, <2>3, <2>4, <2>5, <2>6 DEF FilesKept
<1>10. QED  BY <1>5, <1>6, <1>7, <1>8, <1>9 DEF UploadsIInv

(* A plan is deleted.                                                       *)
LEMMA DeletingPlan ==
  ASSUME UploadsIInv, NEW s \in Plans, DeleteCatalogue(s)
  PROVE  UploadsIInv'
<1> USE UploadsAssumption DEF FileSlots, FileNames, Begun, Busy
<1>1. /\ FileShapes /\ FilesKnown /\ OneOnSlot /\ MissingOnlyIfRaced
      /\ LogosThere /\ DocumentsThere /\ BackByRace /\ AloneIsRight /\ NoneForgotten
      /\ There \in [FileSlots -> FileNames]
      /\ \A u \in FileRequests : Begun(u) =>
           /\ request[u].slot \in FileSlots /\ request[u].prev \in FileNames
           /\ request[u].file \in FileNames
  BY DEF UploadsIInv, FilesKept, FileJobs, There, FileThere, FileShapes, FileRows
<1>2. /\ row[s] # NoFile
  BY DEF DeleteCatalogue
<1>3. /\ request' = request
  BY DEF DeleteCatalogue
<1>4. /\ row' \in [FileSlots -> {NoFile} \cup FileRows]
      /\ There' \in [FileSlots -> FileNames]
      /\ \A q \in FileSlots : q # s => row'[q] = row[q] /\ There'[q] = There[q]
      /\ row'[s] = NoFile /\ There'[s] = NoFile
      /\ deleted' = deleted \cup {s} /\ putBack' = putBack /\ crowded' = crowded /\ fileFaults' = fileFaults /\ disk' = disk
  BY <1>1 DEF DeleteCatalogue, There, FileThere, FileShapes
<1>5. FileShapes'
  BY <1>1, <1>3, <1>4 DEF FileShapes
<1>6. FilesKnown'
  <2>1. OnDisk'
    BY <1>1, <1>3, <1>4 DEF FilesKnown, OnDisk, Unnamed
  <2>2. RowsKnown'
    BY <1>1, <1>3, <1>4 DEF FilesKnown, RowsKnown, Named
  <2>3. RequestsKnow'
    BY <1>1, <1>3 DEF FilesKnown, RequestsKnow, Remembers, Named
  <2>4. DocumentsNamed'
    BY <1>1, <1>3 DEF FilesKnown, DocumentsNamed, Remembers, Named
  <2>5. QED  BY <2>1, <2>2, <2>3, <2>4 DEF FilesKnown
<1>7. OneOnSlot'
  BY <1>1, <1>3, <1>4 DEF OneOnSlot
<1>8. MissingOnlyIfRaced'
  BY <1>1, <1>2, <1>3, <1>4 DEF MissingOnlyIfRaced, Unread
<1>9. FilesKept'
  <2>1. LogosThere /\ DocumentsThere /\ BackByRace /\ AloneIsRight /\ NoneForgotten
    BY <1>1
  <2>2. LogosThere'
    BY <1>3, <1>4, <2>1 DEF LogosThere, Unlinked
  <2>3. DocumentsThere'
    BY <1>3, <1>4, <2>1 DEF DocumentsThere, Unread, Unlinks
  <2>4. AloneIsRight'
    BY <1>1, <1>3, <1>4, <2>1 DEF Operations, FileJobs, AloneIsRight, StillThere, FileShapes,
       InOrder
  <2>5. NoneForgotten'
    BY <1>1, <1>3, <1>4, <2>1 DEF NoneForgotten, Unnamed, Unlinks, LeavesBehind, Unread, FileShapes, FilesKnown,
       OnDisk
  <2>6. BackByRace'
    BY <1>1, <1>2, <1>3, <1>4, <2>1 DEF BackByRace, FileShapes
  <2>7. QED  BY <2>2, <2>3, <2>4, <2>5, <2>6 DEF FilesKept
<1>10. QED  BY <1>5, <1>6, <1>7, <1>8, <1>9 DEF UploadsIInv

(* Uploads: every step keeps what always holds.                             *)
LEMMA UploadsStep ==
  ASSUME UploadsIInv, UploadsNext
  PROVE  UploadsIInv'
<1> USE UploadsAssumption DEF FileSlots
<1>1. FileShapes
  BY DEF UploadsIInv
<1>2. ASSUME NEW s \in Plans, CreateCatalogue(s) PROVE UploadsIInv'
  BY <1>2, CreatingPlan
<1>3. ASSUME NEW s \in Plans, DeleteCatalogue(s) PROVE UploadsIInv'
  BY <1>3, DeletingPlan
<1>4. ASSUME NEW t \in FileRequests, NEW s \in FileSlots, UploadLogo(t, s) PROVE UploadsIInv'
  <2>1. s \in Plans /\ Starts(t, s, "logo") /\ UNCHANGED <<row, deleted, putBack, fileFaults>> /\ disk' = disk \cup {t}
    BY <1>4 DEF UploadLogo
  <2>2. QED  BY <2>1, Starting DEF Operations
<1>5. ASSUME NEW t \in FileRequests, NEW s \in FileSlots, RemoveLogo(t, s) PROVE UploadsIInv'
  <2>1. s \in Plans /\ Starts(t, s, "unlogo") /\ UNCHANGED <<row, deleted, putBack, fileFaults>> /\ disk' = disk
    BY <1>5 DEF RemoveLogo
  <2>2. QED  BY <2>1, Starting DEF Operations
<1>6. ASSUME NEW t \in FileRequests, NEW s \in FileSlots, RemoveDocument(t, s) PROVE UploadsIInv'
  <2>1. s \in Docs /\ Starts(t, s, "remove") /\ UNCHANGED <<row, deleted, putBack, fileFaults>> /\ disk' = disk
    BY <1>6 DEF RemoveDocument
  <2>2. QED  BY <2>1, Starting DEF Operations
<1>7. ASSUME NEW t \in FileRequests, NEW s \in FileSlots, Download(t, s) PROVE UploadsIInv'
  <2>1. s \in Docs /\ Starts(t, s, "download") /\ UNCHANGED <<row, deleted, putBack, fileFaults>> /\ disk' = disk
    BY <1>7 DEF Download
  <2>2. QED  BY <2>1, Starting DEF Operations
<1>8. ASSUME NEW t \in FileRequests, NEW s \in FileSlots, NEW brings \in BOOLEAN,
             UploadDocument(t, s, brings)
      PROVE  UploadsIInv'
  <2>1. s \in Docs /\ UNCHANGED <<row, deleted, putBack, fileFaults>>
    BY <1>8 DEF UploadDocument
  <2>2. CASE brings
    <3>1. Starts(t, s, "document") /\ disk' = disk \cup {t}
      BY <1>8, <2>2 DEF UploadDocument
    <3>2. QED  BY <2>1, <3>1, Starting DEF Operations
  <2>3. CASE ~brings
    <3>1. Starts(t, s, "meta") /\ disk' = disk
      BY <1>8, <2>3 DEF UploadDocument
    <3>2. QED  BY <2>1, <3>1, Starting DEF Operations
  <2>4. QED  BY <2>2, <2>3
<1>9. ASSUME NEW t \in FileRequests, LookAtPlan(t) PROVE UploadsIInv'
  <2>1. CASE row[request[t].slot] = NoFile
    <3>1. /\ Discards(t, "refused") /\ UNCHANGED <<row, deleted, crowded, putBack>>
          /\ fileFaults' = fileFaults /\ request[t].pc \in {"logo", "unlogo"}
      BY <1>9, <2>1 DEF LookAtPlan, Stands
    <3>2. QED  BY <1>1, <3>1, Refusing DEF FileShapes
  <2>2. QED  BY <1>9, <2>1, LookingAtPlan
<1>10. ASSUME NEW t \in FileRequests, Invalid(t) PROVE UploadsIInv'
  <2>1. /\ Discards(t, "refused") /\ UNCHANGED <<row, deleted, crowded, putBack>>
        /\ fileFaults' = fileFaults /\ request[t].pc \in {"document", "meta"}
    BY <1>10 DEF Invalid, Stands
  <2>2. QED  BY <1>1, <2>1, Refusing DEF FileShapes
<1>11. ASSUME NEW t \in FileRequests, NotAPdf(t) PROVE UploadsIInv'
  <2>1. /\ Discards(t, "refused") /\ UNCHANGED <<row, deleted, crowded, putBack>>
        /\ fileFaults' = fileFaults /\ request[t].pc = "checked"
    BY <1>11 DEF NotAPdf, Stands
  <2>2. QED  BY <1>1, <2>1, Refusing DEF FileShapes
<1>12. ASSUME NEW t \in FileRequests, StatementFails(t) PROVE UploadsIInv'
  <2>1. /\ Discards(t, IF request[t].pc = "upserted" THEN "unread" ELSE "failed")
        /\ UNCHANGED <<row, deleted, crowded, putBack>> /\ fileFaults' = fileFaults + 1
        /\ request[t].pc \in {"logo", "unlogo", "unlinked", "document", "meta", "checked", "previous",
                              "upserted", "remove", "removing", "download"}
    BY <1>12 DEF StatementFails, Stands
  <2>2. PICK how \in {"failed", "unread"} : how = IF request[t].pc = "upserted" THEN "unread" ELSE "failed"
    OBVIOUS
  <2>3. Discards(t, how) /\ (how = "unread" <=> request[t].pc = "upserted")
    BY <2>1, <2>2
  <2>4. fileFaults' \in Nat /\ (request[t].pc = "unlinked" => how = "failed")
    BY <1>1, <2>1, <2>2 DEF FileShapes
  <2>5. QED  BY <2>1, <2>3, <2>4, Refusing
<1>13. ASSUME NEW t \in FileRequests, LookAtDocument(t) PROVE UploadsIInv'
  <2>1. request[t] \in FileJobs /\ request[t].pc \in {"document", "meta"}
    BY <1>1, <1>13 DEF LookAtDocument, Stands, FileShapes, Begun
  <2>2. FileToName(t, FileThere(request[t].slot)) \in FileNames
    BY <1>1, <2>1 DEF FileToName, FileThere, FileNames, FileShapes, FileRows, FileJobs
  <2>3. CASE request[t].op = "meta" /\ FileThere(request[t].slot) = NoFile
    <3>1. Replies(t, "refused") /\ UNCHANGED <<row, deleted, disk, crowded, putBack, fileFaults>>
      BY <1>13, <2>3 DEF LookAtDocument
    <3>2. request[t].pc = "meta"
      BY <1>1, <2>1, <2>3 DEF FileShapes, InOrder, Begun
    <3>3. QED  BY <3>1, <3>2, Replying DEF Replied
  <2>4. CASE ~(request[t].op = "meta" /\ FileThere(request[t].slot) = NoFile)
    <3>1. ~(request[t].op = "meta" /\ FileToName(t, FileThere(request[t].slot)) = NoFile)
      BY <2>4 DEF FileToName
    <3>2. PICK g \in FileNames : g = FileToName(t, FileThere(request[t].slot))
      BY <2>2
    <3>3. QED  BY <1>13, <3>1, <3>2, LookingAtDocument
  <2>5. QED  BY <2>3, <2>4
<1>14. ASSUME NEW t \in FileRequests, LookBeforeRemoval(t) PROVE UploadsIInv'
  <2>1. CASE row[request[t].slot] = NoFile
    <3>1. /\ Replies(t, "refused") /\ UNCHANGED <<row, deleted, disk, crowded, putBack, fileFaults>>
          /\ request[t].pc = "remove"
      BY <1>14, <2>1 DEF LookBeforeRemoval, Stands
    <3>2. QED  BY <3>1, Replying DEF Replied
  <2>2. QED  BY <1>14, <2>1, LookingBeforeRemoval
<1>15. ASSUME NEW t \in FileRequests, LookBeforeDownload(t) PROVE UploadsIInv'
  <2>1. CASE row[request[t].slot] = NoFile
    <3>1. /\ Replies(t, "refused") /\ UNCHANGED <<row, deleted, disk, crowded, putBack, fileFaults>>
          /\ request[t].pc = "download"
      BY <1>15, <2>1 DEF LookBeforeDownload, Stands
    <3>2. QED  BY <3>1, Replying DEF Replied
  <2>2. QED  BY <1>15, <2>1, LookingBeforeDownload
<1>16. ASSUME NEW t \in FileRequests, SendFile(t) PROVE UploadsIInv'
  <2>1. /\ UNCHANGED <<row, deleted, disk, crowded, putBack, fileFaults>> /\ request[t].pc = "sending"
        /\ Replies(t, IF request[t].prev \in disk THEN "sent" ELSE "missing")
    BY <1>16 DEF SendFile, Stands
  <2>2. CASE request[t].prev \in disk
    <3>1. Replies(t, "sent")
      BY <2>1, <2>2
    <3>2. QED  BY <2>1, <3>1, Replying DEF Replied
  <2>3. CASE request[t].prev \notin disk
    <3>1. Replies(t, "missing")
      BY <2>1, <2>3
    <3>2. request[t].slot \in crowded \/ Unread(request[t].prev)
      <4> SUFFICES ASSUME request[t].slot \notin crowded PROVE Unread(request[t].prev)
        OBVIOUS
      <4>1. AloneIsRight /\ DocumentsThere /\ FilesKnown /\ BackByRace
        BY DEF UploadsIInv, FilesKept
      <4>2. /\ request[t].slot \in Docs /\ request[t].prev # NoFile
            /\ request[request[t].prev].slot = request[t].slot
        BY <1>1, <2>1, <4>1 DEF FileShapes, FileJobs, Operations, InOrder, Begun, FilesKnown,
           RequestsKnow, Remembers
      <4>3. request[t].prev = There[request[t].slot]
        BY <2>1, <4>1 DEF AloneIsRight, StillThere, Busy
      <4>4. request[t].prev \notin putBack
        BY <4>1, <4>2 DEF BackByRace, FileShapes
      <4>5. QED  BY <2>3, <4>1, <4>2, <4>3, <4>4 DEF DocumentsThere
    <3>3. QED  BY <2>1, <3>1, <3>2, Replying DEF Replied
  <2>4. QED  BY <2>2, <2>3
<1>17. ASSUME NEW t \in FileRequests,
              UnlinkLogo(t) \/ WriteLogo(t) \/ Previous(t) \/ Upsert(t) \/ Current(t) \/ DeleteRow(t)
              \/ UnlinkRemoved(t)
       PROVE  UploadsIInv'
  BY <1>17, UnlinkingLogo, WritingLogo, NotingPrevious, Upserting, UnlinkingReplaced,
     DeletingRow, UnlinkingRemoved
<1>18. QED
  BY <1>2, <1>3, <1>4, <1>5, <1>6, <1>7, <1>8, <1>9, <1>10, <1>11, <1>12, <1>13, <1>14, <1>15,
     <1>16,
     <1>17 DEF UploadsNext

(* Nothing moves: all stays as it is.                                       *)
LEMMA UploadsStutter ==
  ASSUME UploadsIInv, UNCHANGED uploadVars
  PROVE  UploadsIInv'
<1>1. There' = There
  BY DEF uploadVars, There, FileThere
<1>2. QED
  BY <1>1 DEF UploadsIInv, uploadVars, FileShapes, FilesKnown, OnDisk, RowsKnown, RequestsKnow,
     Remembers, DocumentsNamed, OneOnSlot, FilesKept, LogosThere, DocumentsThere, BackByRace,
     AloneIsRight, StillThere, NoneForgotten, LeavesBehind, Unnamed, Named, Unlinks, Unlinked,
     Unread, Begun, Busy, MissingOnlyIfRaced

(* At first nothing is uploaded.                                            *)
LEMMA UploadsStarts ==
  ASSUME UploadsInit
  PROVE  UploadsIInv
<1> USE UploadsAssumption DEF UploadsInit, FileSlots, Begun, Busy
<1>1. There = [s \in FileSlots |-> NoFile]
  BY DEF There, FileThere
<1>2. FileShapes
  BY DEF FileShapes
<1>3. FilesKnown
  BY <1>1 DEF FilesKnown, OnDisk, RowsKnown, RequestsKnow, DocumentsNamed, Unnamed
<1>4. OneOnSlot /\ MissingOnlyIfRaced
  BY DEF OneOnSlot, MissingOnlyIfRaced
<1>5. LogosThere /\ DocumentsThere /\ BackByRace
  BY <1>1 DEF LogosThere, DocumentsThere, BackByRace
<1>6. AloneIsRight /\ NoneForgotten
  BY DEF AloneIsRight, NoneForgotten
<1>7. QED
  BY <1>2, <1>3, <1>4, <1>5, <1>6 DEF UploadsIInv, FilesKept

(* Whatever requests on logos and documents overlap, and whichever of their *)
(* statements fail: what the rows, the requests and the disk know of each   *)
(* other stays consistent.                                                  *)
THEOREM UploadsInvariant == UploadsSpec => []UploadsIInv
<1>1. UploadsIInv /\ [UploadsNext]_uploadVars => UploadsIInv'
  BY UploadsStep, UploadsStutter
<1>2. QED
  BY <1>1, UploadsStarts, PTL DEF UploadsSpec

-----------------------------------------------------------------------------
(* Uploads: what is promised                                                *)

(* What a row names is on disk, but for the cases that are named.           *)
LEMMA NamedFiles ==
  ASSUME UploadsIInv
  PROVE  NamedFileIsThere
<1> USE UploadsAssumption DEF FileSlots
<1> SUFFICES ASSUME NEW s \in FileSlots, FileThere(s) # NoFile, FileThere(s) \notin disk
             PROVE  IF s \in Plans
                    THEN \E t \in FileRequests : request[t].pc # "new" /\ request[t].prev = FileThere(s) /\ Unlinked(t)
                    ELSE FileThere(s) \in putBack \/ Unread(FileThere(s))
  BY DEF NamedFileIsThere
<1>1. There[s] = FileThere(s)
  BY DEF There
<1>2. LogosThere /\ DocumentsThere
  BY DEF UploadsIInv, FilesKept
<1>3. CASE s \in Plans
  BY <1>1, <1>2, <1>3 DEF LogosThere, Begun
<1>4. CASE s \in Docs
  BY <1>1, <1>2, <1>4 DEF DocumentsThere
<1>5. QED  BY <1>3, <1>4

(* Where requests do not overlap, no file stays that no row names, but for  *)
(* one whose successor's request could not read its row again.              *)
LEMMA NoLeftovers ==
  ASSUME UploadsIInv
  PROVE  NothingLeftBehind
<1> USE UploadsAssumption DEF FileSlots
<1> SUFFICES ASSUME NEW f \in disk, Quiet(request[f].slot),
                    request[f].slot \notin crowded \cup deleted
             PROVE  FileThere(request[f].slot) = f \/ \E t \in FileRequests : LeavesBehind(t, f)
  BY DEF NothingLeftBehind
<1>1. f \in FileRequests /\ Begun(f) /\ request[f].slot \in FileSlots
  BY DEF UploadsIInv, FileShapes, FileJobs, FilesKnown, OnDisk
<1>2. ~Unnamed(f)
  BY <1>1 DEF Quiet, Busy, Unnamed
<1>3. ~\E t \in FileRequests : Begun(t) /\ request[t].slot = request[f].slot /\ Unlinks(t, f)
  BY DEF Quiet, Busy, Begun, Unlinks
<1>4. There[request[f].slot] = f \/ \E t \in FileRequests : LeavesBehind(t, f)
  BY <1>2, <1>3 DEF UploadsIInv, FilesKept, NoneForgotten
<1>5. QED  BY <1>1, <1>4 DEF There

(* However uploads, removals, edits and downloads overlap and whichever of  *)
(* their statements fail: a row names a file that is gone only while a logo *)
(* is being replaced or after its UPDATE failed, after a document's row     *)
(* could not be read again, or when a save of the text alone has put the    *)
(* file back over a later change; only after the second of these, where     *)
(* requests do not overlap, is a file left behind or missed by a reader.    *)
THEOREM FilesAndRowsAgree == UploadsSpec => []DiskMatchesRows
<1>1. UploadsIInv => DiskMatchesRows
  BY NamedFiles, NoLeftovers DEF DiskMatchesRows, UploadsIInv
<1>2. QED
  BY <1>1, UploadsInvariant, PTL

(* Files come from requests that brought one for their slot, and a plan     *)
(* that is deleted stays without a row.                                     *)
THEOREM FilesHaveTypes == UploadsSpec => []UploadsTypeOK
<1>1. ASSUME UploadsIInv PROVE UploadsTypeOK
  <2>1. FileShapes /\ FilesKnown
    BY <1>1 DEF UploadsIInv
  <2>2. \A s \in FileSlots : There[s] = FileThere(s)
    BY DEF There
  <2>3. \A f \in disk : request[f].pc # "new" /\ request[f].op \in {"logo", "document"}
    BY <2>1 DEF FilesKnown, OnDisk, Begun
  <2>4. \A s \in FileSlots : FileThere(s) # NoFile =>
          request[FileThere(s)].slot = s /\ request[FileThere(s)].op \in {"logo", "document"}
    BY <2>1, <2>2 DEF FilesKnown, RowsKnown, Named
  <2>5. QED  BY <2>1, <2>3, <2>4 DEF UploadsTypeOK, FileShapes
<1>2. QED
  BY <1>1, UploadsInvariant, PTL

-----------------------------------------------------------------------------
(* Logins: what always holds                                                *)

UserRows == [email : Emails, temporary : BOOLEAN, force : BOOLEAN]
StoredCodes == [code : Attempts, email : Emails, until : Nat, for : SUBSET Users,
                moves : [Users -> Nat], after : SUBSET Attempts]

LoginShapes ==
  /\ user \in [Users -> UserRows] /\ moves \in [Users -> Nat]
  /\ codes \subseteq StoredCodes /\ tokens \subseteq [id : Users, email : Emails]
  /\ clock \in Nat /\ DOMAIN attempt = Attempts

(* Whoever has a login.                                                     *)
Holders == [e \in Emails |-> ByEmail(e)]

(* Nobody shares a login, and it is the first one until it is changed.      *)
LoginsApart ==
  /\ \A u, v \in Users : user[u].email = user[v].email => u = v
  /\ \A u \in Users : moves[u] = 0 => user[u].email = First[u]

(* A token, or a request about an account, names a login it once had.       *)
OnceHis(k) == k.id \in Users /\ k.email \in Emails /\ (moves[k.id] = 0 => k.email = First[k.id])

(* A code was made for whoever had the login, and he has it still unless    *)
(* some login was changed.                                                  *)
MadeFor(c) ==
  /\ \A u \in Users : c.moves[u] <= moves[u]
  /\ (\A u \in Users : moves[u] = c.moves[u]) => Holders[c.email] = c.for
  /\ c.for = {} => \E u \in Users : moves[u] > 0

(* A code that is left is newer than every reset of its login.              *)
Newer(c) == \A r \in Resets : attempt[r].email = c.email => r \in c.after

IsReset(a) == a.pc = "done" /\ a.how = "reset"

(* Whoever changes a password knew it, unless some login had been changed.  *)
Knew(a) == a.owner # a.id => \E u \in Users : a.moves[u] > 0

(* Whoever resets a password presents a code that was made for the login,   *)
(* newer than the resets before.                                            *)
Presents(a) ==
  /\ a.with \in StoredCodes /\ a.with.email = a.email /\ MadeFor(a.with)
  /\ a.after \subseteq Resets
  /\ \A r \in a.after : attempt[r].email = a.email => r \in a.with.after

(* What a request knows, step by step.                                      *)
Knows(a) ==
  /\ a.pc = "comparing" => OnceHis(a)
  /\ a.pc \in {"proved", "made"} => a.id \in Users
  /\ a.pc = "proved" \/ (a.pc = "done" /\ a.how = "changed") => Knew(a)
  /\ a.pc = "known" => a.email \in Emails /\ \E u \in Users : First[u] = a.email \/ moves[u] > 0
  /\ a.pc \in {"presented", "written"} \/ IsReset(a) => Presents(a)
  /\ a.pc = "written" \/ IsReset(a) =>
       (a.ids # a.with.for => \E u \in Users : moves[u] > a.with.moves[u])

LoginsIInv ==
  /\ LoginShapes /\ LoginsApart /\ TemporaryMustBeChanged
  /\ \A k \in tokens : OnceHis(k)
  /\ \A c \in codes : MadeFor(c) /\ Newer(c)
  /\ \A t \in Attempts : Knows(attempt[t])

-----------------------------------------------------------------------------
(* Logins: the steps                                                        *)

(* What a request knows stays true while logins move and passwords are reset*)
LEMMA KnowsStill ==
  ASSUME LoginShapes, moves' \in [Users -> Nat], \A u \in Users : moves[u] <= moves'[u],
         \A r \in Resets : r \in Resets' /\ attempt'[r] = attempt[r],
         \A c \in StoredCodes : MadeFor(c) => MadeFor(c)',
         NEW b, Knows(b), NEW u, b = attempt'[u]
  PROVE  Knows(attempt[u])'
<1>1. OnceHis(b) => OnceHis(b)'
  BY DEF LoginShapes, OnceHis
<1>2. Presents(b) => Presents(b)'
  BY DEF Presents
<1>3. /\ b.pc = "known" => \E v \in Users : First[v] = b.email \/ moves'[v] > 0
      /\ b.pc = "written" \/ IsReset(b) =>
           (b.ids # b.with.for => \E v \in Users : moves'[v] > b.with.moves[v])
  <2>1. ASSUME NEW v \in Users, moves[v] > 0 PROVE moves'[v] > 0
    BY <2>1 DEF LoginShapes
  <2>2. ASSUME b.pc = "written" \/ IsReset(b), NEW v \in Users, moves[v] > b.with.moves[v]
        PROVE  moves'[v] > b.with.moves[v]
    <3>1. b.with.moves[v] \in Nat
      BY <2>2 DEF Knows, Presents, StoredCodes
    <3>2. QED  BY <2>2, <3>1 DEF LoginShapes
  <2>3. QED  BY <2>1, <2>2 DEF Knows
<1>4. Knows(b)'
  BY <1>1, <1>2, <1>3 DEF Knows, Knew
<1>5. QED
  BY <1>4 DEF Knows, OnceHis, Knew, IsReset, Presents, MadeFor

(* A request goes on, and changes no login, no code and no reset: it may    *)
(* set a password or bring a token.                                         *)
LEMMA GoesOn ==
  ASSUME LoginsIInv, NEW t \in Attempts, NEW a, attempt' = [attempt EXCEPT ![t] = a],
         attempt[t].pc # "done", ~IsReset(a), Knows(a),
         user' \in [Users -> UserRows], \A u \in Users : user'[u].email = user[u].email,
         TemporaryMustBeChanged',
         tokens' \subseteq [id : Users, email : Emails], \A k \in tokens' : OnceHis(k),
         UNCHANGED <<codes, moves>>, clock' \in Nat
  PROVE  LoginsIInv'
<1>1. /\ LoginShapes /\ LoginsApart
      /\ \A c \in codes : MadeFor(c) /\ Newer(c)
      /\ \A u \in Attempts : Knows(attempt[u])
  BY DEF LoginsIInv
<1>2. Holders' = Holders
  BY DEF Holders, ByEmail
<1>3. /\ attempt'[t] = a /\ DOMAIN attempt' = Attempts
      /\ \A u \in Attempts : u # t => attempt'[u] = attempt[u]
  BY <1>1 DEF LoginShapes
<1>4. Resets' = Resets /\ t \notin Resets
  BY <1>3 DEF Resets, At, IsReset
<1>5. LoginShapes' /\ LoginsApart'
  BY <1>1, <1>3 DEF LoginShapes, LoginsApart
<1>6. \A k \in tokens' : OnceHis(k)'
  BY DEF OnceHis
<1>7. \A c \in StoredCodes : MadeFor(c) => MadeFor(c)'
  BY <1>2 DEF MadeFor
<1>8. \A r \in Resets : attempt'[r] = attempt[r]
  BY <1>3, <1>4 DEF Resets
<1>9. \A c \in codes' : MadeFor(c)' /\ Newer(c)'
  BY <1>1, <1>4, <1>7, <1>8 DEF LoginShapes, Newer
<1>10. moves' \in [Users -> Nat] /\ \A u \in Users : moves[u] <= moves'[u]
  BY <1>1 DEF LoginShapes
<1>11. ASSUME NEW u \in Attempts PROVE Knows(attempt[u])'
  <2>1. PICK b : b = attempt'[u]
    OBVIOUS
  <2>2. Knows(b)
    BY <1>1, <1>3, <2>1
  <2>3. QED  BY <1>1, <1>4, <1>7, <1>8, <1>10, <2>1, <2>2, KnowsStill
<1>12. QED  BY <1>5, <1>6, <1>9, <1>11 DEF LoginsIInv

(* Most steps change nothing but the request.                               *)
LEMMA Turns ==
  ASSUME LoginsIInv, NEW t \in Attempts, NEW a, Sets(t, a), attempt[t].pc # "done",
         ~IsReset(a), Knows(a), UNCHANGED <<user, codes, tokens, moves, clock>>
  PROVE  LoginsIInv'
<1>1. LoginShapes /\ TemporaryMustBeChanged /\ \A k \in tokens : OnceHis(k)
  BY DEF LoginsIInv
<1>2. TemporaryMustBeChanged'
  BY <1>1 DEF TemporaryMustBeChanged
<1>3. attempt' = [attempt EXCEPT ![t] = a] /\ user' = user /\ tokens' = tokens /\ clock' = clock
      /\ UNCHANGED <<codes, moves>>
  BY DEF Sets
<1>4. QED  BY <1>1, <1>2, <1>3, GoesOn DEF LoginShapes

(* A request that was turned away knows nothing and has reset nothing.      *)
LEMMA RejectedKnows == Knows(Rejected) /\ ~IsReset(Rejected)
BY DEF Knows, IsReset, Rejected

(* An account is looked up, and its password compared.                      *)
LEMMA LookingUp ==
  ASSUME LoginsIInv, NEW t \in Attempts, NEW e \in Emails, LookUp(t, e)
  PROVE  LoginsIInv'
<1>1. CASE ByEmail(e) = {}
  <2>1. Sets(t, Rejected) /\ attempt[t].pc # "done" /\ UNCHANGED <<user, codes, tokens, moves, clock>>
    BY <1>1 DEF LookUp, At
  <2>2. QED  BY <2>1, RejectedKnows, Turns
<1>2. CASE ByEmail(e) # {}
  <2>1. PICK u : u = CHOOSE v \in ByEmail(e) : TRUE
    OBVIOUS
  <2>2. u \in ByEmail(e)
    BY <1>2, <2>1
  <2>3. PICK a : a = [pc |-> "comparing", id |-> u, email |-> e]
    OBVIOUS
  <2>4. Sets(t, a) /\ attempt[t].pc # "done" /\ UNCHANGED <<user, codes, tokens, moves, clock>>
    BY <1>2, <2>1, <2>3 DEF LookUp, At
  <2>5. OnceHis(a)
    BY <2>2, <2>3 DEF OnceHis, ByEmail, LoginsIInv, LoginsApart
  <2>6. Knows(a) /\ ~IsReset(a)
    BY <2>3, <2>5 DEF Knows, IsReset
  <2>7. QED  BY <2>4, <2>6, Turns
<1>3. QED  BY <1>1, <1>2

(* A login hands out a token for the account and the login it found.        *)
LEMMA LoggingIn ==
  ASSUME LoginsIInv, NEW t \in Attempts, NEW welcome \in BOOLEAN, LogIn(t, welcome)
  PROVE  LoginsIInv'
<1>1. LoginShapes /\ TemporaryMustBeChanged /\ (\A k \in tokens : OnceHis(k)) /\ Knows(attempt[t])
  BY DEF LoginsIInv
<1>2. attempt[t].pc = "comparing" /\ UNCHANGED <<user, codes, moves, clock>>
  BY DEF LogIn, At
<1>3. CASE welcome
  <2>1. PICK a : a = [Rejected EXCEPT !.how = "in"]
    OBVIOUS
  <2>2. PICK k : k = [id |-> attempt[t].id, email |-> attempt[t].email]
    OBVIOUS
  <2>3. k \in [id : Users, email : Emails] /\ OnceHis(k)
    BY <1>1, <1>2, <2>2 DEF Knows, OnceHis
  <2>4. attempt' = [attempt EXCEPT ![t] = a] /\ tokens' = tokens \cup {k}
    BY <1>3, <2>1, <2>2 DEF LogIn, Sets
  <2>5. Knows(a) /\ ~IsReset(a)
    BY <2>1 DEF Knows, IsReset, Rejected
  <2>6. TemporaryMustBeChanged' /\ user' = user /\ user \in [Users -> UserRows] /\ clock' \in Nat
    BY <1>1, <1>2 DEF TemporaryMustBeChanged, LoginShapes
  <2>7. tokens' \subseteq [id : Users, email : Emails] /\ \A j \in tokens' : OnceHis(j)
    BY <1>1, <2>3, <2>4 DEF LoginShapes
  <2>8. QED  BY <1>2, <2>4, <2>5, <2>6, <2>7, GoesOn
<1>4. CASE ~welcome
  <2>1. Sets(t, Rejected) /\ tokens' = tokens
    BY <1>4 DEF LogIn
  <2>2. QED  BY <1>2, <2>1, RejectedKnows, Turns
<1>5. QED  BY <1>3, <1>4

(* The password that one knows is proved.                                   *)
LEMMA Proving ==
  ASSUME LoginsIInv, NEW t \in Attempts, NEW token \in tokens, NEW knows \in BOOLEAN,
         ChangePassword(t, token, knows) \/ ChangeInProfile(t, token, knows)
  PROVE  LoginsIInv'
<1>1. LoginShapes /\ LoginsApart /\ OnceHis(token)
  BY DEF LoginsIInv
<1>2. attempt[t].pc # "done" /\ UNCHANGED <<user, codes, tokens, moves, clock>>
  BY DEF ChangePassword, ChangeInProfile, At
<1>3. CASE Sets(t, Rejected)
  BY <1>2, <1>3, RejectedKnows, Turns
<1>4. ASSUME NEW owner, Sets(t, Proved(token, owner)),
             owner # token.id => \E u \in Users : moves[u] > 0
      PROVE  LoginsIInv'
  <2>1. PICK a : a = Proved(token, owner)
    OBVIOUS
  <2>2. Sets(t, a)
    BY <1>4, <2>1
  <2>3. Knows(a) /\ ~IsReset(a)
    BY <1>1, <1>4, <2>1 DEF Knows, IsReset, Knew, Proved, OnceHis
  <2>4. QED  BY <1>2, <2>2, <2>3, Turns
<1>5. CASE ChangeInProfile(t, token, knows)
  BY <1>3, <1>4, <1>5 DEF ChangeInProfile
<1>6. CASE ChangePassword(t, token, knows) /\ ByEmail(token.email) # {} /\ knows
  <2>1. PICK owner : owner = CHOOSE v \in ByEmail(token.email) : TRUE
    OBVIOUS
  <2>2. owner \in Users /\ user[owner].email = token.email
    BY <1>6, <2>1 DEF ByEmail
  <2>3. owner # token.id => \E u \in Users : moves[u] > 0
    <3> SUFFICES ASSUME owner # token.id, \A u \in Users : ~(moves[u] > 0) PROVE FALSE
      OBVIOUS
    <3>1. token.id \in Users /\ moves[token.id] = 0
      BY <1>1 DEF LoginShapes, OnceHis
    <3>2. user[token.id].email = token.email
      BY <1>1, <3>1 DEF LoginsApart, OnceHis
    <3>3. QED  BY <1>1, <2>2, <3>1, <3>2 DEF LoginsApart
  <2>4. Sets(t, Proved(token, owner))
    BY <1>6, <2>1 DEF ChangePassword
  <2>5. QED  BY <1>4, <2>3, <2>4
<1>7. CASE ChangePassword(t, token, knows) /\ (ByEmail(token.email) = {} \/ ~knows)
  BY <1>3, <1>7 DEF ChangePassword
<1>8. QED  BY <1>5, <1>6, <1>7

(* A password is set, which changes no login: the request's own, the one of *)
(* the code's login, or one the office made up.                             *)
LEMMA SettingPassword ==
  ASSUME LoginsIInv, NEW t \in Attempts, UpdatePassword(t) \/ SendPassword(t) \/ ResetPassword(t)
  PROVE  LoginsIInv'
<1>1. LoginShapes /\ TemporaryMustBeChanged /\ Knows(attempt[t]) /\ \A k \in tokens : OnceHis(k)
  BY DEF LoginsIInv
<1>2. ASSUME NEW a, Sets(t, a), Knows(a), ~IsReset(a), attempt[t].pc # "done",
             user' \in [Users -> UserRows],
             \A u \in Users : /\ user'[u].email = user[u].email
                              /\ user'[u].temporary <=> user'[u].force,
             UNCHANGED <<codes, tokens, moves, clock>>
      PROVE  LoginsIInv'
  BY <1>1, <1>2, GoesOn DEF Sets, TemporaryMustBeChanged, LoginShapes
<1>3. CASE UpdatePassword(t)
  <2>1. PICK a : a = Changed(t)
    OBVIOUS
  <2>2. /\ attempt[t].pc = "proved" /\ Sets(t, a) /\ UNCHANGED <<codes, tokens, moves, clock>>
        /\ user' = [user EXCEPT ![attempt[t].id] = [@ EXCEPT !.temporary = FALSE, !.force = FALSE]]
    BY <1>3, <2>1 DEF UpdatePassword, At
  <2>3. Knows(a) /\ ~IsReset(a)
    BY <1>1, <2>1, <2>2 DEF Knows, IsReset, Knew, Changed
  <2>4. /\ user' \in [Users -> UserRows]
        /\ \A u \in Users : user'[u].email = user[u].email /\ (user'[u].temporary <=> user'[u].force)
    BY <1>1, <2>2 DEF Knows, LoginShapes, UserRows, TemporaryMustBeChanged
  <2>5. QED  BY <1>2, <2>2, <2>3, <2>4
<1>4. CASE SendPassword(t)
  <2>1. PICK a : a = [pc |-> "done", how |-> "sent"]
    OBVIOUS
  <2>2. /\ attempt[t].pc = "made" /\ Sets(t, a) /\ UNCHANGED <<codes, tokens, moves, clock>>
        /\ user' = [user EXCEPT ![attempt[t].id] = [@ EXCEPT !.temporary = TRUE, !.force = TRUE]]
    BY <1>4, <2>1 DEF SendPassword, At
  <2>3. Knows(a) /\ ~IsReset(a)
    BY <2>1 DEF Knows, IsReset
  <2>4. /\ user' \in [Users -> UserRows]
        /\ \A u \in Users : user'[u].email = user[u].email /\ (user'[u].temporary <=> user'[u].force)
    BY <1>1, <2>2 DEF Knows, LoginShapes, UserRows, TemporaryMustBeChanged
  <2>5. QED  BY <1>2, <2>2, <2>3, <2>4
<1>5. CASE ResetPassword(t)
  <2> DEFINE e == attempt[t].email
             w == attempt[t].with
  <2>1. PICK a : a = [pc |-> "written", with |-> w, email |-> e, after |-> attempt[t].after,
                      ids |-> ByEmail(e)]
    OBVIOUS
  <2>2. /\ attempt[t].pc = "presented" /\ Sets(t, a) /\ UNCHANGED <<codes, tokens, moves, clock>>
        /\ user' = [u \in Users |-> IF user[u].email = e
                                    THEN [user[u] EXCEPT !.temporary = FALSE, !.force = FALSE]
                                    ELSE user[u]]
    BY <1>5, <2>1 DEF ResetPassword, At
  <2>3. Presents(attempt[t])
    BY <1>1, <2>2 DEF Knows
  <2>4. ByEmail(e) # w.for => \E u \in Users : moves[u] > w.moves[u]
    <3> SUFFICES ASSUME \A u \in Users : ~(moves[u] > w.moves[u]) PROVE ByEmail(e) = w.for
      OBVIOUS
    <3>1. w \in StoredCodes /\ MadeFor(w) /\ w.email = e
      BY <2>3 DEF Presents
    <3>2. \A u \in Users : moves[u] = w.moves[u]
      BY <1>1, <3>1 DEF MadeFor, LoginShapes, StoredCodes
    <3>3. Holders[e] = w.for /\ e \in Emails
      BY <3>1, <3>2 DEF MadeFor, StoredCodes
    <3>4. QED  BY <3>3 DEF Holders
  <2>5. Knows(a) /\ ~IsReset(a)
    BY <2>1, <2>3, <2>4 DEF Knows, IsReset, Presents
  <2>6. /\ user' \in [Users -> UserRows]
        /\ \A u \in Users : user'[u].email = user[u].email /\ (user'[u].temporary <=> user'[u].force)
    BY <1>1, <2>2 DEF LoginShapes, UserRows, TemporaryMustBeChanged
  <2>7. QED  BY <1>2, <2>2, <2>5, <2>6
<1>6. QED  BY <1>3, <1>4, <1>5

(* A forgotten password: who has the login is looked up, and a code comes   *)
(* back.                                                                    *)
LEMMA Forgetting ==
  ASSUME LoginsIInv, NEW t \in Attempts, NEW e \in Emails, Forgot(t, e)
  PROVE  LoginsIInv'
<1>1. attempt[t].pc # "done" /\ UNCHANGED <<user, codes, tokens, moves, clock>>
  BY DEF Forgot, At
<1>2. CASE ByEmail(e) = {}
  <2>1. Sets(t, Rejected)
    BY <1>2 DEF Forgot
  <2>2. QED  BY <1>1, <2>1, RejectedKnows, Turns
<1>3. CASE ByEmail(e) # {}
  <2>1. PICK a : a = [pc |-> "known", email |-> e]
    OBVIOUS
  <2>2. Sets(t, a)
    BY <1>3, <2>1 DEF Forgot
  <2>3. PICK u \in Users : user[u].email = e
    BY <1>3 DEF ByEmail
  <2>4. First[u] = e \/ moves[u] > 0
    BY <2>3 DEF LoginsIInv, LoginsApart, LoginShapes
  <2>5. Knows(a) /\ ~IsReset(a)
    BY <2>1, <2>4 DEF Knows, IsReset
  <2>6. QED  BY <1>1, <2>2, <2>5, Turns
<1>4. QED  BY <1>2, <1>3

(* A code is presented: it was made for whoever had the login.              *)
LEMMA Presenting ==
  ASSUME LoginsIInv, NEW t \in Attempts, NEW c \in codes, NEW e \in Emails,
         PresentCode(t, c, e) \/ VerifyResetCode(t, c, e)
  PROVE  LoginsIInv'
<1>1. attempt[t].pc # "done" /\ UNCHANGED <<user, codes, tokens, moves, clock>>
  BY DEF PresentCode, VerifyResetCode, At
<1>2. CASE Sets(t, Rejected)
  BY <1>1, <1>2, RejectedKnows, Turns
<1>3. CASE VerifyResetCode(t, c, e) /\ Valid(c, e)
  <2>1. PICK a : a = [Rejected EXCEPT !.how = "valid"]
    OBVIOUS
  <2>2. Sets(t, a)
    BY <1>3, <2>1 DEF VerifyResetCode
  <2>3. Knows(a) /\ ~IsReset(a)
    BY <2>1 DEF Knows, IsReset, Rejected
  <2>4. QED  BY <1>1, <2>2, <2>3, Turns
<1>4. CASE PresentCode(t, c, e) /\ Valid(c, e)
  <2>1. PICK a : a = [pc |-> "presented", with |-> c, email |-> e, after |-> Resets]
    OBVIOUS
  <2>2. Sets(t, a)
    BY <1>4, <2>1 DEF PresentCode
  <2>3. c \in StoredCodes /\ c.email = e /\ MadeFor(c) /\ Newer(c)
    BY <1>4 DEF LoginsIInv, LoginShapes, Valid
  <2>4. Presents(a)
    BY <2>1, <2>3 DEF Presents, Newer
  <2>5. Knows(a) /\ ~IsReset(a)
    BY <2>1, <2>4 DEF Knows, IsReset
  <2>6. QED  BY <1>1, <2>2, <2>5, Turns
<1>5. QED  BY <1>2, <1>3, <1>4 DEF PresentCode, VerifyResetCode

(* A request is refused or fails, or the office makes a password up.        *)
LEMMA Ending ==
  ASSUME LoginsIInv, NEW t \in Attempts,
         RefuseReset(t) \/ LoginStatementFails(t) \/ \E u \in Users : MakePassword(t, u)
  PROVE  LoginsIInv'
<1>1. attempt[t].pc # "done" /\ UNCHANGED <<user, codes, tokens, moves, clock>>
  BY DEF RefuseReset, LoginStatementFails, MakePassword, At
<1>2. CASE RefuseReset(t) \/ LoginStatementFails(t)
  <2>1. Sets(t, Rejected)
    BY <1>2 DEF RefuseReset, LoginStatementFails
  <2>2. QED  BY <1>1, <2>1, RejectedKnows, Turns
<1>3. ASSUME NEW u \in Users, MakePassword(t, u) PROVE LoginsIInv'
  <2>1. PICK a : a = [pc |-> "made", id |-> u]
    OBVIOUS
  <2>2. Sets(t, a)
    BY <1>3, <2>1 DEF MakePassword
  <2>3. Knows(a) /\ ~IsReset(a)
    BY <2>1 DEF Knows, IsReset
  <2>4. QED  BY <1>1, <2>2, <2>3, Turns
<1>4. QED  BY <1>2, <1>3

(* A code is stored, for whoever has the login now and after every reset so *)
(* far.                                                                     *)
LEMMA Storing ==
  ASSUME LoginsIInv, NEW t \in Attempts, StoreCode(t)
  PROVE  LoginsIInv'
<1> USE LoginsAssumption
<1>1. /\ LoginShapes /\ LoginsApart /\ TemporaryMustBeChanged /\ \A k \in tokens : OnceHis(k)
      /\ \A c \in codes : MadeFor(c) /\ Newer(c)
      /\ \A u \in Attempts : Knows(attempt[u])
  BY DEF LoginsIInv
<1> DEFINE e == attempt[t].email
<1>2. attempt[t].pc = "known" /\ UNCHANGED <<user, tokens, moves, clock>> /\ e \in Emails
  BY <1>1 DEF StoreCode, At, Knows
<1>3. PICK c : c = [code |-> t, email |-> e, until |-> clock + CodeTTL, for |-> ByEmail(e),
                    moves |-> moves, after |-> Resets]
  OBVIOUS
<1>4. codes' = codes \cup {c} /\ attempt' = [attempt EXCEPT ![t] = [pc |-> "done", how |-> "mailed"]]
  BY <1>3 DEF StoreCode, Sets
<1>5. c \in StoredCodes
  BY <1>1, <1>2, <1>3 DEF StoredCodes, LoginShapes, ByEmail, Resets
<1>6. MadeFor(c)
  <2>1. \A u \in Users : c.moves[u] <= moves[u]
    BY <1>1, <1>3 DEF LoginShapes
  <2>2. Holders[c.email] = c.for
    BY <1>2, <1>3 DEF Holders
  <2>3. ASSUME ByEmail(e) = {} PROVE \E u \in Users : moves[u] > 0
    <3>1. PICK u \in Users : First[u] = e \/ moves[u] > 0
      BY <1>1, <1>2 DEF Knows
    <3>2. user[u].email # e
      BY <2>3 DEF ByEmail
    <3>3. QED  BY <1>1, <3>1, <3>2 DEF LoginsApart, LoginShapes
  <2>4. QED  BY <1>3, <2>1, <2>2, <2>3 DEF MadeFor
<1>7. /\ DOMAIN attempt' = Attempts /\ attempt'[t] = [pc |-> "done", how |-> "mailed"]
      /\ \A u \in Attempts : u # t => attempt'[u] = attempt[u]
  BY <1>1, <1>4 DEF LoginShapes
<1>8. Resets' = Resets /\ \A r \in Resets : attempt'[r] = attempt[r]
  BY <1>2, <1>7 DEF Resets, At
<1>9. Holders' = Holders
  BY <1>2 DEF Holders, ByEmail
<1>10. \A d \in StoredCodes : MadeFor(d) => MadeFor(d)'
  BY <1>2, <1>9 DEF MadeFor
<1>11. \A d \in codes' : MadeFor(d)' /\ Newer(d)'
  <2>1. Newer(c)
    BY <1>3 DEF Newer
  <2>2. QED  BY <1>1, <1>4, <1>5, <1>6, <1>8, <1>10, <2>1 DEF LoginShapes, Newer
<1>12. LoginShapes' /\ LoginsApart' /\ TemporaryMustBeChanged'
  BY <1>1, <1>2, <1>4, <1>5, <1>7 DEF LoginShapes, LoginsApart, TemporaryMustBeChanged
<1>13. \A k \in tokens' : OnceHis(k)'
  BY <1>1, <1>2 DEF OnceHis
<1>14. ASSUME NEW u \in Attempts PROVE Knows(attempt[u])'
  <2>1. PICK b : b = attempt'[u]
    OBVIOUS
  <2>2. Knows(b)
    BY <1>1, <1>7, <2>1 DEF Knows, IsReset
  <2>3. moves' \in [Users -> Nat] /\ \A v \in Users : moves[v] <= moves'[v]
    BY <1>1, <1>2 DEF LoginShapes
  <2>4. QED  BY <1>1, <1>8, <1>10, <2>1, <2>2, <2>3, KnowsStill
<1>15. QED  BY <1>11, <1>12, <1>13, <1>14 DEF LoginsIInv

(* A reset is over: the codes of its login are gone.                        *)
LEMMA Deleting ==
  ASSUME LoginsIInv, NEW t \in Attempts, DeleteCodes(t)
  PROVE  LoginsIInv'
<1>1. /\ LoginShapes /\ LoginsApart /\ TemporaryMustBeChanged /\ \A k \in tokens : OnceHis(k)
      /\ \A c \in codes : MadeFor(c) /\ Newer(c)
      /\ \A u \in Attempts : Knows(attempt[u])
  BY DEF LoginsIInv
<1>2. attempt[t].pc = "written" /\ UNCHANGED <<user, tokens, moves, clock>>
      /\ codes' = {c \in codes : c.email # attempt[t].email}
  BY DEF DeleteCodes, At, UsedUp
<1>3. PICK a : a = [pc |-> "done", how |-> "reset", with |-> attempt[t].with, email |-> attempt[t].email,
                    after |-> attempt[t].after, ids |-> attempt[t].ids]
  OBVIOUS
<1>4. /\ DOMAIN attempt' = Attempts /\ attempt'[t] = a
      /\ \A u \in Attempts : u # t => attempt'[u] = attempt[u]
  BY <1>1, <1>3 DEF DeleteCodes, Sets, LoginShapes
<1>5. Resets' = Resets \cup {t} /\ t \notin Resets
  BY <1>2, <1>3, <1>4 DEF Resets, At
<1>6. \A r \in Resets : r \in Resets' /\ attempt'[r] = attempt[r]
  BY <1>4, <1>5 DEF Resets
<1>7. Holders' = Holders
  BY <1>2 DEF Holders, ByEmail
<1>8. \A d \in StoredCodes : MadeFor(d) => MadeFor(d)'
  BY <1>2, <1>7 DEF MadeFor
<1>9. \A d \in codes' : MadeFor(d)' /\ Newer(d)'
  BY <1>1, <1>2, <1>3, <1>4, <1>5, <1>6, <1>8 DEF LoginShapes, Newer
<1>10. LoginShapes' /\ LoginsApart' /\ TemporaryMustBeChanged'
  BY <1>1, <1>2, <1>4 DEF LoginShapes, LoginsApart, TemporaryMustBeChanged
<1>11. \A k \in tokens' : OnceHis(k)'
  BY <1>1, <1>2 DEF OnceHis
<1>12. ASSUME NEW u \in Attempts PROVE Knows(attempt[u])'
  <2>1. PICK b : b = attempt'[u]
    OBVIOUS
  <2>2. Knows(a)
    BY <1>1, <1>2, <1>3 DEF Knows, IsReset, Presents
  <2>3. Knows(b)
    BY <1>1, <1>4, <2>1, <2>2
  <2>4. moves' \in [Users -> Nat] /\ \A v \in Users : moves[v] <= moves'[v]
    BY <1>1, <1>2 DEF LoginShapes
  <2>5. QED  BY <1>1, <1>6, <1>8, <2>1, <2>3, <2>4, KnowsStill
<1>13. QED  BY <1>9, <1>10, <1>11, <1>12 DEF LoginsIInv

(* A login is changed: whatever was proved before is known to be old.       *)
LEMMA Moving ==
  ASSUME LoginsIInv, NEW u \in Users, NEW e \in Emails, ChangeEmail(u, e)
  PROVE  LoginsIInv'
<1>1. /\ LoginShapes /\ LoginsApart /\ TemporaryMustBeChanged /\ \A k \in tokens : OnceHis(k)
      /\ \A c \in codes : MadeFor(c) /\ Newer(c)
      /\ \A t \in Attempts : Knows(attempt[t])
  BY DEF LoginsIInv
<1>2. /\ UNCHANGED <<codes, tokens, attempt, clock>> /\ ByEmail(e) \ {u} = {}
      /\ user' = [user EXCEPT ![u].email = e] /\ moves' = [moves EXCEPT ![u] = @ + 1]
  BY DEF ChangeEmail, Taken
<1>3. /\ moves' \in [Users -> Nat] /\ moves'[u] = moves[u] + 1
      /\ \A v \in Users : moves[v] <= moves'[v]
  BY <1>1, <1>2 DEF LoginShapes
<1>4. /\ user' \in [Users -> UserRows] /\ user'[u].email = e
      /\ \A v \in Users : v # u => user'[v] = user[v]
      /\ \A v \in Users : user'[v].temporary = user[v].temporary /\ user'[v].force = user[v].force
  BY <1>1, <1>2 DEF LoginShapes, UserRows
<1>5. LoginShapes' /\ TemporaryMustBeChanged'
  BY <1>1, <1>2, <1>3, <1>4 DEF LoginShapes, TemporaryMustBeChanged
<1>6. LoginsApart'
  <2>1. \A v \in Users : v # u => user[v].email # e
    BY <1>2 DEF ByEmail
  <2>2. \A v \in Users : moves'[v] = 0 => v # u /\ moves[v] = 0
    BY <1>1, <1>2, <1>3 DEF LoginShapes
  <2>3. QED  BY <1>1, <1>4, <2>1, <2>2 DEF LoginsApart
<1>7. ASSUME NEW k, OnceHis(k) PROVE OnceHis(k)'
  BY <1>1, <1>3, <1>7 DEF OnceHis, LoginShapes
<1>8. ASSUME NEW c \in StoredCodes, MadeFor(c) PROVE MadeFor(c)'
  <2>1. c.moves[u] \in Nat /\ moves[u] \in Nat /\ c.moves[u] <= moves[u]
    BY <1>1, <1>8 DEF StoredCodes, LoginShapes, MadeFor
  <2>2. moves'[u] # c.moves[u] /\ moves'[u] > 0
    BY <1>3, <2>1
  <2>3. \A v \in Users : c.moves[v] <= moves'[v]
    BY <1>1, <1>3, <1>8 DEF StoredCodes, LoginShapes, MadeFor
  <2>4. QED  BY <2>2, <2>3 DEF MadeFor
<1>9. Resets' = Resets
  BY <1>2 DEF Resets, At
<1>10. \A c \in codes' : MadeFor(c)' /\ Newer(c)'
  BY <1>1, <1>2, <1>8, <1>9 DEF LoginShapes, Newer
<1>11. ASSUME NEW t \in Attempts PROVE Knows(attempt[t])'
  <2>1. PICK b : b = attempt'[t]
    OBVIOUS
  <2>2. Knows(b)
    BY <1>1, <1>2, <2>1
  <2>3. \A r \in Resets : r \in Resets' /\ attempt'[r] = attempt[r]
    BY <1>2, <1>9
  <2>4. QED  BY <1>1, <1>3, <1>8, <2>1, <2>2, <2>3, KnowsStill
<1>12. QED  BY <1>1, <1>2, <1>5, <1>6, <1>7, <1>10, <1>11 DEF LoginsIInv

(* Only time passes.                                                        *)
LEMMA Waiting ==
  ASSUME LoginsIInv, clock' \in Nat, UNCHANGED <<user, codes, tokens, attempt, moves>>
  PROVE  LoginsIInv'
<1>1. Resets' = Resets /\ Holders' = Holders
  BY DEF Resets, At, Holders, ByEmail
<1>2. QED
  BY <1>1 DEF LoginsIInv, LoginShapes, LoginsApart, TemporaryMustBeChanged, OnceHis, MadeFor,
     Newer, Knows, Knew, IsReset, Presents

(* Logins: every step keeps what always holds.                              *)
LEMMA LoginsStep ==
  ASSUME LoginsIInv, [LoginsNext]_loginVars
  PROVE  LoginsIInv'
<1>1. clock \in Nat
  BY DEF LoginsIInv, LoginShapes
<1>2. CASE UNCHANGED loginVars
  BY <1>1, <1>2, Waiting DEF loginVars
<1>3. CASE LoginTick
  BY <1>1, <1>3, Waiting DEF LoginTick
<1>4. ASSUME NEW u \in Users, NEW e \in Emails, ChangeEmail(u, e) PROVE LoginsIInv'
  BY <1>4, Moving
<1>5. ASSUME NEW t \in Attempts, AttemptStep(t, Users, Emails) PROVE LoginsIInv'
  <2>1. ASSUME NEW e \in Emails, LookUp(t, e) \/ Forgot(t, e) PROVE LoginsIInv'
    BY <2>1, LookingUp, Forgetting
  <2>2. ASSUME NEW b \in BOOLEAN, LogIn(t, b) PROVE LoginsIInv'
    BY <2>2, LoggingIn
  <2>3. ASSUME NEW token \in tokens, NEW knows \in BOOLEAN,
               ChangePassword(t, token, knows) \/ ChangeInProfile(t, token, knows)
        PROVE  LoginsIInv'
    BY <2>3, Proving
  <2>4. ASSUME NEW c \in codes, NEW e \in Emails, PresentCode(t, c, e) \/ VerifyResetCode(t, c, e)
        PROVE  LoginsIInv'
    BY <2>4, Presenting
  <2>5. CASE (\E u \in Users : MakePassword(t, u)) \/ RefuseReset(t) \/ LoginStatementFails(t)
    BY <2>5, Ending
  <2>6. CASE UpdatePassword(t) \/ SendPassword(t) \/ ResetPassword(t)
    BY <2>6, SettingPassword
  <2>7. CASE StoreCode(t) \/ DeleteCodes(t)
    BY <2>7, Storing, Deleting
  <2>8. QED  BY <1>5, <2>1, <2>2, <2>3, <2>4, <2>5, <2>6, <2>7 DEF AttemptStep
<1>6. QED  BY <1>2, <1>3, <1>4, <1>5 DEF LoginsNext

(* At first nobody has asked for anything.                                  *)
LEMMA LoginsStart ==
  ASSUME LoginsInit
  PROVE  LoginsIInv
<1> USE LoginsAssumption DEF LoginsInit
<1>1. LoginShapes
  BY DEF LoginShapes, UserRows
<1>2. LoginsApart /\ TemporaryMustBeChanged
  BY DEF LoginsApart, TemporaryMustBeChanged
<1>3. \A t \in Attempts : Knows(attempt[t])
  BY DEF Knows, IsReset
<1>4. QED  BY <1>1, <1>2, <1>3 DEF LoginsIInv

(* However logins, changes, resets and moved addresses interleave: nobody   *)
(* shares a login, and every proof that a request carries is as good as the *)
(* moves since allow.                                                       *)
THEOREM LoginsInvariant == LoginsSpec => []LoginsIInv
<1>1. QED
  BY LoginsStart, LoginsStep, PTL DEF LoginsSpec

-----------------------------------------------------------------------------
(* Logins: what is promised                                                 *)

(* Whoever sets a password has proved something about that account, unless  *)
(* a login was changed in between; the proof is used up by then, and a      *)
(* password that the office made up must be changed.                        *)
THEOREM ProofsHold == LoginsSpec => []PasswordsProven
<1>1. ASSUME LoginsIInv PROVE PasswordsProven
  <2>1. TemporaryMustBeChanged /\ \A t \in Attempts : Knows(attempt[t])
    BY <1>1 DEF LoginsIInv
  <2>2. ResetClosesCodes
    BY <2>1 DEF ResetClosesCodes, Resets, At, Knows, IsReset, Presents
  <2>3. RightAccount
    BY <2>1 DEF RightAccount, At, Knows, Knew, IsReset
  <2>4. QED  BY <2>1, <2>2, <2>3 DEF PasswordsProven
<1>2. QED
  BY <1>1, LoginsInvariant, PTL

(* No two accounts share a login; codes and tokens were given to accounts   *)
(* that had the login they name.                                            *)
THEOREM LoginsHaveTypes == LoginsSpec => []LoginsTypeOK
<1>1. ASSUME LoginsIInv PROVE LoginsTypeOK
  <2>1. \A k \in tokens : k.email # First[k.id] => moves[k.id] > 0
    BY <1>1 DEF LoginsIInv, LoginShapes, OnceHis
  <2>2. QED  BY <1>1, <2>1 DEF LoginsTypeOK, LoginsIInv, LoginsApart, MadeFor
<1>2. QED
  BY <1>1, LoginsInvariant, PTL

-----------------------------------------------------------------------------
(* Settings: what always holds                                              *)

Written == [Keys -> Savers \cup {Factory, Nil}]

(* The tables that may be handed out: the defaults, and all that were ever  *)
(* committed.                                                               *)
TableOf == [n \in 0 .. Len(past) |-> IF n = 0 THEN NoValues ELSE past[n].table]

SettingShapes ==
  /\ stored \in {"settings", "zones"} /\ values \in Written /\ time \in Nat
  /\ past \in Seq([table : Written, at : Nat]) /\ DOMAIN task = Tasks
  /\ lock \in [Keys -> Tasks \cup {Nil}] /\ inFlight \in [Workers -> Tasks \cup {Nil}]
  /\ served \in [Workers -> Nat] /\ DOMAIN cache = Workers

(* The table is the last that was committed.                                *)
Committed ==
  /\ Len(past) >= 1 /\ past[Len(past)].table = values
  /\ \A i \in 1 .. Len(past) : past[i].at <= time

(* A save has the locks of the rows it wrote.                               *)
SavesLock ==
  \A t \in Tasks :
    /\ task[t].pc = "saving" =>
         /\ t \in Savers /\ task[t].written \in Written
         /\ task[t] = [pc |-> "saving", left |-> task[t].left, written |-> task[t].written,
                       keys |-> task[t].keys, form |-> task[t].form, brief |-> task[t].brief]
    /\ \A k \in Keys : lock[k] = t <=> task[t].pc = "saving" /\ k \in task[t].keys

(* A cache has a whole table, and every save from before it was read.       *)
CachesTrue ==
  \A w \in Workers : cache[w] # Nil =>
    /\ cache[w] = [n |-> cache[w].n, table |-> cache[w].table, at |-> cache[w].at]
    /\ cache[w].n \in 0 .. Len(past) /\ cache[w].table = TableOf[cache[w].n]
    /\ cache[w].at \in 0 .. time
    /\ cache[w].n # 0 => \A i \in 1 .. Len(past) : past[i].at < cache[w].at => i <= cache[w].n

(* So has what was read to be kept, for as long as the load lasts.          *)
ReadTrue ==
  \A t \in Tasks : task[t].pc = "queried" =>
    /\ task[t].copy.n \in 1 .. Len(past) /\ task[t].copy.table = TableOf[task[t].copy.n]
    /\ \A i \in 1 .. Len(past) : past[i].at < time => i <= task[t].copy.n

(* What was handed out was whole and recent then.                           *)
HandedTrue ==
  \A t \in Tasks : task[t].pc = "handed" =>
    /\ task[t].n \in 0 .. Len(past) /\ task[t].table = TableOf[task[t].n] /\ task[t].at \in 0 .. time
    /\ task[t].how = "cached" /\ task[t].n # 0 =>
         \A i \in 1 .. Len(past) : past[i].at + TTL <= task[t].at => i <= task[t].n

(* A worker has one load at a time, which reads what is at least as new as  *)
(* what the worker has handed out or keeps.                                 *)
OneLoad ==
  stored = "settings" => \A w \in Workers, t \in Tasks :
    inFlight[w] = t <=> Home[t] = w /\ task[t].pc \in {"loading", "queried"}

NewerYet ==
  /\ \A w \in Workers : served[w] <= Len(past)
  /\ stored = "settings" =>
       /\ \A w \in Workers : cache[w] # Nil /\ cache[w].n # 0 => served[w] <= cache[w].n
       /\ \A t \in Tasks : task[t].pc = "queried" =>
            /\ served[Home[t]] <= task[t].copy.n
            /\ cache[Home[t]] # Nil => cache[Home[t]].n <= task[t].copy.n

SettingsIInv ==
  /\ SettingShapes /\ Committed /\ SavesLock /\ CachesTrue /\ ReadTrue /\ HandedTrue
  /\ OneLoad /\ NewerYet

-----------------------------------------------------------------------------
(* Settings: the steps                                                      *)

(* Who is not saving neither holds nor frees a row.                         *)
LEMMA LocksKept ==
  ASSUME SavesLock, lock' = lock,
         \A u \in Tasks : task'[u] = task[u] \/ (task'[u].pc # "saving" /\ task[u].pc # "saving")
  PROVE  SavesLock'
BY DEF SavesLock, Written

(* Every commit has its time.                                               *)
LEMMA CommitsDated ==
  ASSUME SettingShapes
  PROVE  \A i \in 1 .. Len(past) : past[i] \in [table : Written, at : Nat] /\ past[i].at \in Nat
<1>1. \A i \in 1 .. Len(past) : past[i] \in [table : Written, at : Nat]
  BY ElementOfSeq DEF SettingShapes
<1>2. QED  BY <1>1

(* At first only the table that was installed is there.                     *)
LEMMA SettingsStart ==
  ASSUME SettingsInit
  PROVE  SettingsIInv
<1> USE SettingsAssumption DEF SettingsInit
<1>1. values \in Written /\ past = <<[table |-> values, at |-> 0]>>
  BY DEF Written
<1>2. past \in Seq([table : Written, at : Nat]) /\ Len(past) = 1 /\ past[1] = [table |-> values, at |-> 0]
  BY <1>1
<1>3. SettingShapes
  BY <1>1, <1>2 DEF SettingShapes
<1>4. Committed
  BY <1>2 DEF Committed
<1>5. SavesLock
  BY DEF SavesLock
<1>6. CachesTrue /\ ReadTrue /\ HandedTrue /\ OneLoad
  BY DEF CachesTrue, ReadTrue, HandedTrue, OneLoad
<1>7. NewerYet
  BY <1>2 DEF NewerYet
<1>8. QED  BY <1>3, <1>4, <1>5, <1>6, <1>7 DEF SettingsIInv

(* Requests go on, without having read or been handed anything.             *)
LEMMA Preparing ==
  ASSUME SettingsIInv, NEW t \in Tasks, NEW j, task' = [task EXCEPT ![t] = j],
         j.pc \notin {"queried", "handed"}, lock' \in [Keys -> Tasks \cup {Nil}],
         inFlight' \in [Workers -> Tasks \cup {Nil}], SavesLock', OneLoad',
         UNCHANGED <<stored, values, past, cache, served, time>>
  PROVE  SettingsIInv'
<1>1. DOMAIN task = Tasks /\ TableOf' = TableOf
  BY DEF SettingsIInv, SettingShapes, TableOf, NoValues
<1>2. \A u \in Tasks : task'[u].pc \in {"queried", "handed"} => task'[u] = task[u]
  BY <1>1
<1>3. SettingShapes' /\ Committed'
  BY <1>1 DEF SettingsIInv, SettingShapes, Committed, Written
<1>4. CachesTrue' /\ ReadTrue' /\ HandedTrue'
  BY <1>1, <1>2 DEF SettingsIInv, CachesTrue, ReadTrue, HandedTrue
<1>5. NewerYet'
  BY <1>2 DEF SettingsIInv, NewerYet
<1>6. QED  BY <1>3, <1>4, <1>5 DEF SettingsIInv

(* A save starts, or is refused for its form.                               *)
LEMMA StartingToSave ==
  ASSUME SettingsIInv, NEW t \in Tasks, NEW form, StartSave(t, form) \/ Renew(t), UNCHANGED stored
  PROVE  SettingsIInv'
<1>1. PICK j : task' = [task EXCEPT ![t] = j] /\
        \/ j = [pc |-> "done"]
        \/ j = [pc |-> "saving", left |-> j.left, written |-> values, keys |-> {}, form |-> j.form,
                brief |-> j.brief]
  BY DEF StartSave, Renew, Acts, Saving
<1>2. /\ t \in Savers /\ task[t].pc = "new" /\ DOMAIN task = Tasks /\ values \in Written
      /\ UNCHANGED <<values, lock, past, cache, inFlight, served, time>>
  BY DEF StartSave, Renew, SettingsIInv, SettingShapes
<1>3. SavesLock'
  BY <1>1, <1>2 DEF SettingsIInv, SavesLock, Written
<1>4. OneLoad'
  BY <1>1, <1>2 DEF SettingsIInv, OneLoad, StartSave, Renew
<1>5. QED
  BY <1>1, <1>2, <1>3, <1>4, Preparing DEF SettingsIInv, SettingShapes, StartSave, Renew

(* A request asks for what is cached.                                       *)
LEMMA Asking ==
  ASSUME SettingsIInv, NEW t \in Tasks, NEW forced, Asks(t, forced), UNCHANGED stored
  PROVE  SettingsIInv'
<1>1. PICK j : task' = [task EXCEPT ![t] = j] /\ j = [pc |-> "looking", forced |-> forced]
  BY DEF Asks, Acts
<1>2. /\ task[t].pc = "new" /\ DOMAIN task = Tasks
      /\ UNCHANGED <<values, lock, past, cache, inFlight, served, time>>
  BY DEF Asks, SettingsIInv, SettingShapes
<1>3. SavesLock'
  BY <1>1, <1>2 DEF SettingsIInv, SavesLock, Written
<1>4. OneLoad'
  BY <1>1, <1>2 DEF SettingsIInv, OneLoad
<1>5. QED
  BY <1>1, <1>2, <1>3, <1>4, Preparing DEF SettingsIInv, SettingShapes

(* A save writes a row, which is then its own until it ends.                *)
LEMMA WritingRow ==
  ASSUME SettingsIInv, NEW t \in Tasks, WriteRow(t), UNCHANGED stored
  PROVE  SettingsIInv'
<1>1. PICK e : e = Head(task[t].left)
  OBVIOUS
<1>2. PICK j : j = [task[t] EXCEPT !.left = Tail(@), !.keys = @ \cup {e.key},
                                     !.written = [@ EXCEPT ![e.key] = Value(t, e)]]
  OBVIOUS
<1>3. /\ task' = [task EXCEPT ![t] = j] /\ DOMAIN task = Tasks
      /\ task[t].pc = "saving" /\ lock[e.key] \in {Nil, t}
      /\ lock' = [lock EXCEPT ![e.key] = t] /\ lock \in [Keys -> Tasks \cup {Nil}]
      /\ UNCHANGED <<values, past, cache, inFlight, served, time>>
  BY <1>1, <1>2 DEF WriteRow, Acts, SettingsIInv, SettingShapes
<1>4. /\ t \in Savers /\ task[t].written \in Written
      /\ task[t] = [pc |-> "saving", left |-> task[t].left, written |-> task[t].written,
                    keys |-> task[t].keys, form |-> task[t].form, brief |-> task[t].brief]
  BY <1>3 DEF SettingsIInv, SavesLock
<1>5. /\ j.pc = "saving" /\ j.keys = task[t].keys \cup {e.key}
      /\ j.written = [task[t].written EXCEPT ![e.key] = Value(t, e)]
      /\ j = [pc |-> "saving", left |-> j.left, written |-> j.written, keys |-> j.keys,
              form |-> j.form, brief |-> j.brief]
  <2>1. PICK left, written, keys, form, brief :
          /\ task[t] = [pc |-> "saving", left |-> left, written |-> written, keys |-> keys,
                        form |-> form, brief |-> brief]
          /\ keys = task[t].keys /\ written = task[t].written
    BY <1>4
  <2>2. PICK after : after = [written EXCEPT ![e.key] = Value(t, e)]
    OBVIOUS
  <2>3. j = [task[t] EXCEPT !.left = Tail(left), !.keys = keys \cup {e.key}, !.written = after]
    BY <1>2, <2>1, <2>2
  <2>4. PICK rest, grown : rest = Tail(left) /\ grown = keys \cup {e.key}
    OBVIOUS
  <2>5. j = [task[t] EXCEPT !.left = rest, !.keys = grown, !.written = after]
    BY <2>3, <2>4
  <2>6. task[t] \in [pc : {"saving"}, left : {left}, written : {written}, keys : {keys},
                     form : {form}, brief : {brief}]
    BY <2>1
  <2>7. j = [pc |-> "saving", left |-> rest, written |-> after, keys |-> grown,
             form |-> form, brief |-> brief]
    BY <2>5, <2>6
  <2>8. QED  BY <2>1, <2>2, <2>4, <2>7
<1>6. j.written \in Written
  BY <1>4, <1>5, SettingsAssumption DEF Written, Value
<1>7. SavesLock'
  <2>1. ASSUME NEW u \in Tasks, NEW k \in Keys
        PROVE  lock'[k] = u <=> task'[u].pc = "saving" /\ k \in task'[u].keys
    <3>1. lock[k] = u <=> task[u].pc = "saving" /\ k \in task[u].keys
      BY DEF SettingsIInv, SavesLock
    <3>2. CASE u = t
      BY <1>3, <1>5, <3>1, <3>2, SettingsAssumption
    <3>3. CASE u # t
      BY <1>3, <3>1, <3>3, SettingsAssumption
    <3>4. QED  BY <3>2, <3>3
  <2>2. QED  BY <1>3, <1>4, <1>5, <1>6, <2>1 DEF SettingsIInv, SavesLock, Written
<1>8. OneLoad'
  BY <1>3, <1>5 DEF SettingsIInv, OneLoad
<1>9. QED
  BY <1>3, <1>5, <1>7, <1>8, Preparing DEF SettingsIInv, SettingShapes

(* A save is rolled back.                                                   *)
LEMMA RefusingSave ==
  ASSUME SettingsIInv, NEW t \in Tasks, RefuseSave(t), UNCHANGED stored
  PROVE  SettingsIInv'
<1> USE SettingsAssumption
<1>1. PICK j : task' = [task EXCEPT ![t] = j] /\ j = [pc |-> "done"]
  BY DEF RefuseSave, Acts
<1>2. /\ task[t].pc = "saving" /\ DOMAIN task = Tasks
      /\ lock' = [k \in Keys |-> IF lock[k] = t THEN Nil ELSE lock[k]]
      /\ lock \in [Keys -> Tasks \cup {Nil}]
      /\ UNCHANGED <<values, past, cache, inFlight, served, time>>
  BY DEF RefuseSave, Unlocked, SettingsIInv, SettingShapes
<1>3. SavesLock'
  BY <1>1, <1>2 DEF SettingsIInv, SavesLock, Written
<1>4. OneLoad'
  BY <1>1, <1>2 DEF SettingsIInv, OneLoad
<1>5. QED
  BY <1>1, <1>2, <1>3, <1>4, Preparing DEF SettingsIInv, SettingShapes

(* A request begins a load, or joins the one there is.                      *)
LEMMA LookingInVain ==
  ASSUME SettingsIInv, NEW t \in Tasks, Look(t), UNCHANGED <<stored, served>>,
         ~Fresh(Home[t]) \/ task[t].forced
  PROVE  SettingsIInv'
<1> USE SettingsAssumption
<1>1. PICK j : /\ task' = [task EXCEPT ![t] = j]
               /\ \/ /\ j = [pc |-> "joined", load |-> inFlight[Home[t]], after |-> own[Home[t]]]
                     /\ Joins(Home[t]) /\ inFlight' = inFlight
                  \/ /\ j = [pc |-> "loading", after |-> own[Home[t]]]
                     /\ ~Joins(Home[t]) /\ inFlight' = [inFlight EXCEPT ![Home[t]] = t]
  BY DEF Look, Acts
<1>2. /\ task[t].pc = "looking" /\ DOMAIN task = Tasks /\ Home[t] \in Workers
      /\ inFlight \in [Workers -> Tasks \cup {Nil}]
      /\ UNCHANGED <<values, lock, past, cache, time>>
  BY DEF Look, SettingsIInv, SettingShapes
<1>3. SavesLock'
  BY <1>1, <1>2 DEF SettingsIInv, SavesLock, Written
<1>4. OneLoad'
  <2>1. SUFFICES ASSUME stored = "settings", NEW w \in Workers, NEW u \in Tasks
                 PROVE  inFlight'[w] = u <=> Home[u] = w /\ task'[u].pc \in {"loading", "queried"}
    BY DEF OneLoad
  <2>2. inFlight[w] = u <=> Home[u] = w /\ task[u].pc \in {"loading", "queried"}
    BY <2>1 DEF SettingsIInv, OneLoad
  <2>3. CASE u = t
    BY <1>1, <1>2, <2>2, <2>3
  <2>4. CASE u # t
    BY <1>1, <1>2, <2>1, <2>2, <2>4 DEF Joins
  <2>5. QED  BY <2>3, <2>4
<1>5. inFlight' \in [Workers -> Tasks \cup {Nil}]
  BY <1>1, <1>2
<1>6. QED
  BY <1>1, <1>2, <1>3, <1>4, <1>5, Preparing DEF SettingsIInv, SettingShapes

(* A request is handed the copy of its worker.                              *)
LEMMA HandingCopy ==
  ASSUME SettingsIInv, NEW t \in Tasks, Look(t), UNCHANGED <<stored, inFlight>>,
         Fresh(Home[t]), ~task[t].forced
  PROVE  SettingsIInv'
<1>1. PICK w \in Workers : w = Home[t]
  BY SettingsAssumption
<1>2. PICK c : c = cache[w]
  OBVIOUS
<1>3. PICK j : /\ task' = [task EXCEPT ![t] = j]
               /\ j = [pc |-> "handed", n |-> c.n, table |-> c.table, how |-> "cached", at |-> time,
                       after |-> own[w]]
  BY <1>1, <1>2 DEF Look, Acts, Handed
<1>4. /\ task[t].pc = "looking" /\ DOMAIN task = Tasks /\ time \in Nat
      /\ served' = [served EXCEPT ![w] = IF c.n = 0 THEN @ ELSE c.n] /\ served \in [Workers -> Nat]
      /\ c # Nil /\ time - c.at < TTL /\ past \in Seq([table : Written, at : Nat])
      /\ UNCHANGED <<values, lock, past, cache, time>>
  BY <1>1, <1>2 DEF Look, SettingsIInv, SettingShapes, Fresh
<1>5. /\ c.n \in 0 .. Len(past) /\ c.table = TableOf[c.n] /\ c.at \in 0 .. time
      /\ c.n # 0 => \A i \in 1 .. Len(past) : past[i].at < c.at => i <= c.n
  BY <1>2, <1>4 DEF SettingsIInv, CachesTrue
<1>6. TableOf' = TableOf
  BY <1>4 DEF TableOf, NoValues
<1>7. SavesLock'
  BY <1>3, <1>4 DEF SettingsIInv, SavesLock, Written
<1>8. OneLoad'
  BY <1>3, <1>4 DEF SettingsIInv, OneLoad
<1>9. HandedTrue'
  <2>1. \A i \in 1 .. Len(past) : past[i].at \in Nat
    BY CommitsDated DEF SettingsIInv
  <2>2. ASSUME NEW i \in 1 .. Len(past), past[i].at + TTL <= time, c.n # 0 PROVE i <= c.n
    <3>1. TTL \in Nat /\ past[i].at \in Nat /\ c.at \in Nat /\ time \in Nat /\ time - c.at < TTL
      BY <1>4, <1>5, <2>1, SettingsAssumption
    <3>2. past[i].at < c.at
      BY <2>2, <3>1
    <3>3. QED  BY <1>5, <2>2, <3>2
  <2>3. QED  BY <1>3, <1>4, <1>5, <1>6, <2>2 DEF SettingsIInv, HandedTrue
<1>10. NewerYet'
  <2>1. \A v \in Workers : served'[v] = IF v = w /\ c.n # 0 THEN c.n ELSE served[v]
    BY <1>4, <1>5
  <2>2. QED  BY <1>1, <1>2, <1>3, <1>4, <1>5, <2>1 DEF SettingsIInv, NewerYet
<1>11. SettingShapes' /\ Committed'
  BY <1>3, <1>4, <1>5 DEF SettingsIInv, SettingShapes, Committed, Written
<1>12. CachesTrue' /\ ReadTrue'
  BY <1>3, <1>4, <1>6 DEF SettingsIInv, CachesTrue, ReadTrue
<1>13. QED  BY <1>7, <1>8, <1>9, <1>10, <1>11, <1>12 DEF SettingsIInv

(* The database answers a load.                                             *)
LEMMA Reading ==
  ASSUME SettingsIInv, NEW t \in Tasks, Query(t), UNCHANGED stored
  PROVE  SettingsIInv'
<1>1. PICK c : c = [n |-> Len(past), table |-> values]
  OBVIOUS
<1>2. PICK j : task' = [task EXCEPT ![t] = j] /\ j = [pc |-> "queried", after |-> task[t].after, copy |-> c]
  BY <1>1 DEF Query, Acts
<1>3. /\ task[t].pc = "loading" /\ DOMAIN task = Tasks /\ Home[t] \in Workers
      /\ UNCHANGED <<values, lock, past, cache, inFlight, served, time>>
  BY SettingsAssumption DEF Query, SettingsIInv, SettingShapes
<1>4. TableOf' = TableOf
  BY <1>3 DEF TableOf, NoValues
<1>5. SavesLock'
  BY <1>2, <1>3 DEF SettingsIInv, SavesLock, Written
<1>6. OneLoad'
  BY <1>2, <1>3 DEF SettingsIInv, OneLoad
<1>7. c.n = Len(past) /\ c.n \in 1 .. Len(past) /\ c.table = TableOf[c.n]
  <2>1. Len(past) \in Nat /\ Len(past) >= 1 /\ past[Len(past)].table = values
    BY DEF SettingsIInv, SettingShapes, Committed
  <2>2. TableOf[Len(past)] = values
    BY <2>1 DEF TableOf
  <2>3. QED  BY <1>1, <2>1, <2>2
<1>8. ReadTrue'
  BY <1>2, <1>3, <1>4, <1>7 DEF SettingsIInv, ReadTrue
<1>9. NewerYet'
  <2>1. served[Home[t]] <= c.n
    BY <1>3, <1>7 DEF SettingsIInv, NewerYet
  <2>2. cache[Home[t]] # Nil => cache[Home[t]].n <= c.n
    <3>1. cache[Home[t]] # Nil => cache[Home[t]].n \in 0 .. Len(past)
      BY <1>3 DEF SettingsIInv, CachesTrue
    <3>2. QED  BY <1>7, <3>1
  <2>3. QED  BY <1>2, <1>3, <2>1, <2>2 DEF SettingsIInv, NewerYet
<1>10. SettingShapes' /\ Committed'
  BY <1>2, <1>3 DEF SettingsIInv, SettingShapes, Committed, Written
<1>11. CachesTrue' /\ HandedTrue'
  BY <1>2, <1>3, <1>4 DEF SettingsIInv, CachesTrue, HandedTrue
<1>12. QED  BY <1>5, <1>6, <1>8, <1>9, <1>10, <1>11 DEF SettingsIInv

(* A load ends, with what it read or with what it leaves in place: its copy *)
(* is kept and handed to everyone who waits for it.                         *)
LEMMA EndingLoad ==
  ASSUME SettingsIInv, NEW t \in Tasks, NEW w \in Workers, NEW c, NEW d, NEW how,
         Home[t] = w, task[t].pc \in {"loading", "queried"}, how # "cached",
         Finish(t, c, how), cache' = [cache EXCEPT ![w] = d],
         d = [n |-> c.n, table |-> c.table, at |-> d.at], d.at \in 0 .. time,
         c.n \in 0 .. Len(past), c.table = TableOf[c.n],
         c.n # 0 => \A i \in 1 .. Len(past) : past[i].at < d.at => i <= c.n,
         stored = "settings" /\ c.n # 0 => served[w] <= c.n,
         UNCHANGED <<stored, values, lock, past, time>>
  PROVE  SettingsIInv'
<1>1. /\ DOMAIN task = Tasks /\ DOMAIN cache = Workers /\ served \in [Workers -> Nat]
      /\ time \in Nat /\ inFlight \in [Workers -> Tasks \cup {Nil}] /\ DOMAIN task' = Tasks
      /\ inFlight' = [inFlight EXCEPT ![w] = Nil]
  BY DEF SettingsIInv, SettingShapes, Finish
<1>2. \A u \in Tasks :
        \/ task'[u] = task[u] /\ u # t
        \/ /\ u = t \/ task[u].pc = "joined"
           /\ task'[u].pc = "handed" /\ task'[u].n = c.n /\ task'[u].table = c.table
           /\ task'[u].how = how /\ task'[u].at = time
  BY DEF Finish, Handed
<1>3. \A v \in Workers : served'[v] = IF v = w /\ c.n # 0 THEN c.n ELSE served[v]
  BY <1>1 DEF Finish
<1>4. TableOf' = TableOf
  BY DEF TableOf, NoValues
<1>5. SavesLock'
  <2>1. \A u \in Tasks : task'[u] = task[u] \/ (task'[u].pc # "saving" /\ task[u].pc # "saving")
    BY <1>2
  <2>2. SavesLock
    BY DEF SettingsIInv
  <2>3. QED  BY <2>1, <2>2, LocksKept
<1>6. OneLoad'
  <2>1. SUFFICES ASSUME stored = "settings", NEW v \in Workers, NEW u \in Tasks
                 PROVE  inFlight'[v] = u <=> Home[u] = v /\ task'[u].pc \in {"loading", "queried"}
    BY DEF OneLoad
  <2>2. inFlight[v] = u <=> Home[u] = v /\ task[u].pc \in {"loading", "queried"}
    BY <2>1 DEF SettingsIInv, OneLoad
  <2>3. inFlight[w] = t
    BY <2>1 DEF SettingsIInv, OneLoad
  <2>4. CASE v = w
    BY <1>1, <1>2, <2>2, <2>3, <2>4, SettingsAssumption
  <2>5. CASE v # w
    BY <1>1, <1>2, <2>2, <2>5
  <2>6. QED  BY <2>4, <2>5
<1>7. SettingShapes' /\ Committed'
  <2>1. served' \in [Workers -> Nat]
    BY <1>1 DEF Finish
  <2>2. QED  BY <1>1, <2>1 DEF SettingsIInv, SettingShapes, Committed, Written
<1>8. CachesTrue'
  <2>1. SUFFICES ASSUME NEW v \in Workers, cache'[v] # Nil
                 PROVE  /\ cache'[v] = [n |-> cache'[v].n, table |-> cache'[v].table, at |-> cache'[v].at]
                        /\ cache'[v].n \in 0 .. Len(past) /\ cache'[v].table = TableOf[cache'[v].n]
                        /\ cache'[v].at \in 0 .. time
                        /\ cache'[v].n # 0 =>
                             \A i \in 1 .. Len(past) : past[i].at < cache'[v].at => i <= cache'[v].n
    BY <1>4 DEF CachesTrue
  <2>2. CASE v = w
    BY <1>1, <2>2
  <2>3. CASE v # w
    <3>1. cache'[v] = cache[v]
      BY <1>1, <2>3
    <3>2. QED  BY <2>1, <3>1 DEF SettingsIInv, CachesTrue
  <2>4. QED  BY <2>2, <2>3
<1>9. ReadTrue' /\ HandedTrue'
  BY <1>1, <1>2, <1>4 DEF SettingsIInv, ReadTrue, HandedTrue
<1>10. NewerYet'
  <2>1. \A v \in Workers : served'[v] <= Len(past)
    BY <1>1, <1>3 DEF SettingsIInv, NewerYet
  <2>2. ASSUME stored = "settings", NEW v \in Workers, cache'[v] # Nil, cache'[v].n # 0
        PROVE  served'[v] <= cache'[v].n
    <3>1. CASE v = w
      BY <1>1, <1>3, <2>2, <3>1
    <3>2. CASE v # w
      BY <1>1, <1>3, <2>2, <3>2 DEF SettingsIInv, NewerYet
    <3>3. QED  BY <3>1, <3>2
  <2>3. ASSUME stored = "settings", NEW u \in Tasks, task'[u].pc = "queried"
        PROVE  /\ served'[Home[u]] <= task'[u].copy.n
               /\ cache'[Home[u]] # Nil => cache'[Home[u]].n <= task'[u].copy.n
    <3>1. task'[u] = task[u] /\ u # t /\ Home[u] \in Workers
      BY <1>2, <2>3, SettingsAssumption
    <3>2. Home[u] # w
      BY <2>3, <3>1 DEF SettingsIInv, OneLoad
    <3>3. QED  BY <1>1, <1>3, <2>3, <3>1, <3>2 DEF SettingsIInv, NewerYet
  <2>4. QED  BY <2>1, <2>2, <2>3 DEF NewerYet
<1>11. QED  BY <1>5, <1>6, <1>7, <1>8, <1>9, <1>10 DEF SettingsIInv

(* What was read is kept.                                                   *)
LEMMA Installing ==
  ASSUME SettingsIInv, NEW t \in Tasks, Install(t), UNCHANGED stored
  PROVE  SettingsIInv'
<1>1. PICK w \in Workers : w = Home[t]
  BY SettingsAssumption
<1>2. PICK c : c = task[t].copy
  OBVIOUS
<1>3. PICK d : d = [n |-> c.n, table |-> c.table, at |-> time]
  OBVIOUS
<1>4. /\ task[t].pc = "queried" /\ Finish(t, c, "loaded") /\ cache' = [cache EXCEPT ![w] = d]
      /\ UNCHANGED <<values, lock, past, time>>
  BY <1>1, <1>2, <1>3 DEF Install, Copied
<1>5. /\ c.n \in 1 .. Len(past) /\ c.table = TableOf[c.n]
      /\ \A i \in 1 .. Len(past) : past[i].at < time => i <= c.n
  BY <1>2, <1>4 DEF SettingsIInv, ReadTrue
<1>6. stored = "settings" => served[w] <= c.n
  BY <1>1, <1>2, <1>4 DEF SettingsIInv, NewerYet
<1>7. d.at = time /\ d.at \in 0 .. time /\ d = [n |-> c.n, table |-> c.table, at |-> d.at]
  BY <1>3 DEF SettingsIInv, SettingShapes
<1>8. c.n \in 0 .. Len(past) /\ c.n # 0
  BY <1>5
<1>9. QED
  BY <1>1, <1>4, <1>5, <1>6, <1>7, <1>8, EndingLoad

(* A load fails: the copy there is stays, or the defaults take its place;   *)
(* zones are refused.                                                       *)
LEMMA FailingToLoad ==
  ASSUME SettingsIInv, NEW t \in Tasks, LoadFails(t), UNCHANGED stored
  PROVE  SettingsIInv'
<1>1. PICK w \in Workers : w = Home[t]
  BY SettingsAssumption
<1>2. task[t].pc = "loading" /\ UNCHANGED <<values, lock, past, time>>
  BY DEF LoadFails
<1>3. CASE stored = "settings"
  <2>1. PICK c : c = Fallback(w)
    OBVIOUS
  <2>2. Finish(t, c, "fallback") /\ cache' = [cache EXCEPT ![w] = c]
    BY <1>1, <1>3, <2>1 DEF LoadFails
  <2>3. /\ c = [n |-> c.n, table |-> c.table, at |-> c.at]
        /\ c.n \in 0 .. Len(past) /\ c.table = TableOf[c.n] /\ c.at \in 0 .. time
        /\ c.n # 0 => served[w] <= c.n /\ \A i \in 1 .. Len(past) : past[i].at < c.at => i <= c.n
    <3>1. CASE cache[w] = Nil
      <4>1. c = [n |-> 0, table |-> NoValues, at |-> time]
        BY <2>1, <3>1 DEF Fallback, Copied
      <4>2. time \in Nat /\ Len(past) \in Nat
        BY DEF SettingsIInv, SettingShapes
      <4>3. TableOf[0] = NoValues
        BY <4>2 DEF TableOf
      <4>4. QED  BY <4>1, <4>2, <4>3
    <3>2. CASE cache[w] # Nil
      <4>1. c = cache[w]
        BY <2>1, <3>2 DEF Fallback
      <4>2. QED  BY <1>3, <3>2, <4>1 DEF SettingsIInv, CachesTrue, NewerYet
    <3>3. QED  BY <3>1, <3>2
  <2>4. QED  BY <1>1, <1>2, <1>3, <2>2, <2>3, EndingLoad
<1>4. CASE stored # "settings"
  <2>1. PICK j : task' = [task EXCEPT ![t] = j] /\ j = [pc |-> "done"]
    BY <1>4 DEF LoadFails, Acts
  <2>2. UNCHANGED <<cache, inFlight, served>> /\ DOMAIN task = Tasks
    BY <1>4 DEF LoadFails, SettingsIInv, SettingShapes
  <2>3. SavesLock'
    BY <1>2, <2>1, <2>2 DEF SettingsIInv, SavesLock, Written
  <2>4. OneLoad'
    BY <1>4 DEF OneLoad
  <2>5. QED
    BY <1>2, <2>1, <2>2, <2>3, <2>4, Preparing DEF SettingsIInv, SettingShapes
<1>5. QED  BY <1>3, <1>4

(* The worker that saved empties its cache.                                 *)
LEMMA Emptying ==
  ASSUME SettingsIInv, NEW t \in Tasks, Invalidate(t), UNCHANGED stored
  PROVE  SettingsIInv'
<1>1. PICK w \in Workers : w = Home[t]
  BY SettingsAssumption
<1>2. PICK j : j = IF task[t].brief THEN [pc |-> "done"] ELSE [pc |-> "looking", forced |-> FALSE]
  OBVIOUS
<1>3. task' = [task EXCEPT ![t] = j] /\ j.pc \in {"done", "looking"}
  BY <1>2 DEF Invalidate, Acts
<1>4. /\ task[t].pc = "saved" /\ DOMAIN task = Tasks /\ DOMAIN cache = Workers
      /\ cache' = [cache EXCEPT ![w] = Nil]
      /\ UNCHANGED <<values, lock, past, inFlight, served, time>>
  BY <1>1 DEF Invalidate, SettingsIInv, SettingShapes
<1>5. TableOf' = TableOf
  BY <1>4 DEF TableOf, NoValues
<1>6. \A v \in Workers : cache'[v] # Nil => cache'[v] = cache[v]
  BY <1>4
<1>7. SettingShapes' /\ Committed'
  BY <1>3, <1>4 DEF SettingsIInv, SettingShapes, Committed, Written
<1>8. SavesLock'
  BY <1>3, <1>4 DEF SettingsIInv, SavesLock, Written
<1>9. CachesTrue'
  BY <1>4, <1>5, <1>6 DEF SettingsIInv, CachesTrue
<1>10. ReadTrue' /\ HandedTrue' /\ OneLoad'
  BY <1>3, <1>4, <1>5 DEF SettingsIInv, ReadTrue, HandedTrue, OneLoad
<1>11. NewerYet'
  BY <1>3, <1>4, <1>6, SettingsAssumption DEF SettingsIInv, NewerYet
<1>12. QED  BY <1>7, <1>8, <1>9, <1>10, <1>11 DEF SettingsIInv

(* A new table is committed: whatever was read or handed out before it is   *)
(* still of the table it names, and no clock says it should have seen this. *)
LEMMA Committing ==
  ASSUME SettingsIInv, NEW t \in Tasks, NEW j, task' = [task EXCEPT ![t] = j], j.pc = "saved",
         task[t].pc \in {"new", "saving"}, values' \in Written, SavesLock',
         past' = Append(past, [table |-> values', at |-> time]), lock' \in [Keys -> Tasks \cup {Nil}],
         UNCHANGED <<stored, cache, inFlight, served, time>>
  PROVE  SettingsIInv'
<1>1. PICK v : v = values'
  OBVIOUS
<1>2. PICK n : n = Len(past)
  OBVIOUS
<1>3. /\ n \in Nat /\ n >= 1 /\ time \in Nat /\ past \in Seq([table : Written, at : Nat])
      /\ DOMAIN task = Tasks
      /\ \A i \in 1 .. n : past[i].at <= time
  BY <1>2 DEF SettingsIInv, SettingShapes, Committed
<1>4. /\ past' \in Seq([table : Written, at : Nat]) /\ Len(past') = n + 1
      /\ past'[n + 1] = [table |-> v, at |-> time]
      /\ \A i \in 1 .. n : past'[i] = past[i]
  BY <1>1, <1>2, <1>3
<1>5. \A i \in 1 .. n + 1 :
        \/ i \in 1 .. n /\ past'[i].at = past[i].at
        \/ i = n + 1 /\ past'[i].at = time
  BY <1>3, <1>4
<1>6. \A m \in 0 .. n : TableOf'[m] = TableOf[m]
  BY <1>2, <1>3, <1>4 DEF TableOf, NoValues
<1>7. \A u \in Tasks : task'[u].pc \in {"queried", "handed", "loading"} => task'[u] = task[u]
  BY <1>3
<1>8. \A u \in Tasks : task[u].pc \in {"queried", "handed", "loading"} => task'[u] = task[u]
  BY <1>3
<1>9. SettingShapes'
  BY <1>3, <1>4 DEF SettingsIInv, SettingShapes, Written
<1>10. Committed'
  BY <1>1, <1>3, <1>4, <1>5 DEF Committed
<1>11. CachesTrue'
  <2>1. SUFFICES ASSUME NEW w \in Workers, cache[w] # Nil
                 PROVE  /\ cache[w] = [n |-> cache[w].n, table |-> cache[w].table, at |-> cache[w].at]
                        /\ cache[w].n \in 0 .. n + 1 /\ cache[w].table = TableOf'[cache[w].n]
                        /\ cache[w].at \in 0 .. time
                        /\ cache[w].n # 0 =>
                             \A i \in 1 .. n + 1 : past'[i].at < cache[w].at => i <= cache[w].n
    BY <1>4 DEF CachesTrue
  <2>2. /\ cache[w] = [n |-> cache[w].n, table |-> cache[w].table, at |-> cache[w].at]
        /\ cache[w].n \in 0 .. n /\ cache[w].table = TableOf[cache[w].n]
        /\ cache[w].at \in 0 .. time
        /\ cache[w].n # 0 => \A i \in 1 .. n : past[i].at < cache[w].at => i <= cache[w].n
    BY <1>2, <2>1 DEF SettingsIInv, CachesTrue
  <2>3. cache[w].n \in 0 .. n + 1 /\ cache[w].table = TableOf'[cache[w].n]
    BY <1>3, <1>6, <2>2
  <2>4. ASSUME cache[w].n # 0, NEW i \in 1 .. n + 1, past'[i].at < cache[w].at PROVE i <= cache[w].n
    <3>1. ~(time < cache[w].at)
      BY <1>3, <2>2
    <3>2. QED  BY <1>5, <2>2, <2>4, <3>1
  <2>5. QED  BY <2>2, <2>3, <2>4
<1>12. ReadTrue'
  <2>1. SUFFICES ASSUME NEW u \in Tasks, task'[u].pc = "queried"
                 PROVE  /\ task'[u].copy.n \in 1 .. n + 1 /\ task'[u].copy.table = TableOf'[task'[u].copy.n]
                        /\ \A i \in 1 .. n + 1 : past'[i].at < time => i <= task'[u].copy.n
    BY <1>4 DEF ReadTrue
  <2>2. /\ task'[u].copy.n \in 1 .. n /\ task'[u].copy.table = TableOf[task'[u].copy.n]
        /\ \A i \in 1 .. n : past[i].at < time => i <= task'[u].copy.n
    BY <1>2, <1>7, <2>1 DEF SettingsIInv, ReadTrue
  <2>3. task'[u].copy.n \in 1 .. n + 1 /\ task'[u].copy.table = TableOf'[task'[u].copy.n]
    BY <1>3, <1>6, <2>2
  <2>4. ASSUME NEW i \in 1 .. n + 1, past'[i].at < time PROVE i <= task'[u].copy.n
    <3>1. ~(time < time)
      BY <1>3
    <3>2. QED  BY <1>5, <2>2, <2>4, <3>1
  <2>5. QED  BY <2>3, <2>4
<1>13. HandedTrue'
  <2>1. SUFFICES ASSUME NEW u \in Tasks, task'[u].pc = "handed"
                 PROVE  /\ task'[u].n \in 0 .. n + 1 /\ task'[u].table = TableOf'[task'[u].n]
                        /\ task'[u].at \in 0 .. time
                        /\ task'[u].how = "cached" /\ task'[u].n # 0 =>
                             \A i \in 1 .. n + 1 : past'[i].at + TTL <= task'[u].at => i <= task'[u].n
    BY <1>4 DEF HandedTrue
  <2>2. /\ task'[u].n \in 0 .. n /\ task'[u].table = TableOf[task'[u].n] /\ task'[u].at \in 0 .. time
        /\ task'[u].how = "cached" /\ task'[u].n # 0 =>
             \A i \in 1 .. n : past[i].at + TTL <= task'[u].at => i <= task'[u].n
    BY <1>2, <1>7, <2>1 DEF SettingsIInv, HandedTrue
  <2>3. TTL \in Nat \ {0}
    BY SettingsAssumption
  <2>4. task'[u].n \in 0 .. n + 1 /\ task'[u].table = TableOf'[task'[u].n]
    BY <1>3, <1>6, <2>2
  <2>5. ASSUME task'[u].how = "cached", task'[u].n # 0, NEW i \in 1 .. n + 1,
               past'[i].at + TTL <= task'[u].at
        PROVE  i <= task'[u].n
    <3>1. ~(time + TTL <= task'[u].at)
      BY <1>3, <2>2, <2>3
    <3>2. QED  BY <1>5, <2>2, <2>5, <3>1
  <2>6. QED  BY <2>2, <2>4, <2>5
<1>14. OneLoad'
  <2>1. \A u \in Tasks : task'[u].pc \in {"loading", "queried"} <=> task[u].pc \in {"loading", "queried"}
    BY <1>7, <1>8
  <2>2. QED  BY <2>1 DEF SettingsIInv, OneLoad
<1>15. NewerYet'
  <2>1. \A w \in Workers : served[w] <= n /\ served[w] \in Nat
    BY <1>2 DEF SettingsIInv, SettingShapes, NewerYet
  <2>2. \A w \in Workers : served[w] <= n + 1
    BY <1>3, <2>1
  <2>3. QED  BY <1>4, <1>7, <2>2 DEF SettingsIInv, NewerYet
<1>16. QED  BY <1>9, <1>10, <1>11, <1>12, <1>13, <1>14, <1>15 DEF SettingsIInv

(* A save is committed as a whole.                                          *)
LEMMA CommittingSave ==
  ASSUME SettingsIInv, NEW t \in Tasks, Commit(t), UNCHANGED stored
  PROVE  SettingsIInv'
<1>1. PICK j : j = [pc |-> "saved", n |-> Len(past'), brief |-> task[t].brief]
  OBVIOUS
<1>2. task' = [task EXCEPT ![t] = j] /\ j.pc = "saved"
  BY <1>1 DEF Commit, Acts
<1>3. /\ task[t].pc = "saving" /\ DOMAIN task = Tasks /\ values \in Written
      /\ lock' = [k \in Keys |-> IF lock[k] = t THEN Nil ELSE lock[k]]
      /\ lock \in [Keys -> Tasks \cup {Nil}]
      /\ values' = [k \in Keys |-> IF k \in task[t].keys THEN task[t].written[k] ELSE values[k]]
      /\ past' = Append(past, [table |-> values', at |-> time])
      /\ UNCHANGED <<cache, inFlight, served, time>>
  BY DEF Commit, Unlocked, SettingsIInv, SettingShapes
<1>4. task[t].written \in Written
  BY <1>3 DEF SettingsIInv, SavesLock
<1>5. values' \in Written
  BY <1>3, <1>4 DEF Written
<1>6. SavesLock'
  BY <1>2, <1>3, SettingsAssumption DEF SettingsIInv, SavesLock, Written
<1>7. lock' \in [Keys -> Tasks \cup {Nil}]
  BY <1>3
<1>8. QED  BY <1>2, <1>3, <1>5, <1>6, <1>7, Committing

(* Zones are assigned by one statement, or nothing is.                      *)
LEMMA AssigningZones ==
  ASSUME SettingsIInv, NEW t \in Tasks, NEW form, AssignZone(t, form), UNCHANGED stored
  PROVE  SettingsIInv'
<1>1. PICK j : j = [pc |-> "saved", n |-> Len(past'), brief |-> TRUE]
  OBVIOUS
<1>2. task' = [task EXCEPT ![t] = j] /\ j.pc = "saved"
  BY <1>1 DEF AssignZone, Acts
<1>3. /\ task[t].pc = "new" /\ DOMAIN task = Tasks /\ values \in Written /\ t \in Savers
      /\ values' = [k \in Keys |-> IF k \in Known(form) THEN t ELSE values[k]]
      /\ past' = IF Known(form) = {} THEN past ELSE Append(past, [table |-> values', at |-> time])
      /\ lock \in [Keys -> Tasks \cup {Nil}] /\ inFlight \in [Workers -> Tasks \cup {Nil}]
      /\ UNCHANGED <<lock, cache, inFlight, served, time>>
  BY DEF AssignZone, SettingsIInv, SettingShapes
<1>4. SavesLock'
  BY <1>2, <1>3 DEF SettingsIInv, SavesLock, Written
<1>5. CASE Known(form) = {}
  <2>1. values' = values /\ past' = past
    BY <1>3, <1>5 DEF Written
  <2>2. OneLoad'
    BY <1>2, <1>3 DEF SettingsIInv, OneLoad
  <2>3. QED  BY <1>2, <1>3, <1>4, <2>1, <2>2, Preparing
<1>6. CASE Known(form) # {}
  <2>1. values' \in Written
    BY <1>3 DEF Written
  <2>2. past' = Append(past, [table |-> values', at |-> time])
    BY <1>3, <1>6
  <2>3. QED  BY <1>2, <1>3, <1>4, <2>1, <2>2, Committing
<1>7. QED  BY <1>5, <1>6

(* Time passes while nobody loads.                                          *)
LEMMA Aging ==
  ASSUME SettingsIInv, SettingsTick, UNCHANGED stored
  PROVE  SettingsIInv'
<1>1. /\ time \in Nat /\ time' = time + 1 /\ \A t \in Tasks : task[t].pc # "queried"
      /\ UNCHANGED <<values, lock, past, cache, inFlight, task, own, served>>
  BY DEF SettingsTick, SettingsIInv, SettingShapes
<1>2. TableOf' = TableOf
  BY <1>1 DEF TableOf, NoValues
<1>3. SettingShapes' /\ SavesLock' /\ OneLoad' /\ NewerYet' /\ ReadTrue'
  BY <1>1 DEF SettingsIInv, SettingShapes, SavesLock, OneLoad, NewerYet, ReadTrue, Written
<1>4. Committed'
  BY <1>1, CommitsDated DEF SettingsIInv, Committed
<1>5. CachesTrue'
  BY <1>1, <1>2 DEF SettingsIInv, CachesTrue
<1>6. HandedTrue'
  BY <1>1, <1>2 DEF SettingsIInv, HandedTrue
<1>7. QED  BY <1>3, <1>4, <1>5, <1>6 DEF SettingsIInv

(* Settings: every step keeps what always holds.                            *)
LEMMA SettingsStep ==
  ASSUME SettingsIInv, [SettingsNext]_settingVars
  PROVE  SettingsIInv'
<1>1. CASE UNCHANGED settingVars
  <2>1. TableOf' = TableOf
    BY <1>1 DEF settingVars, TableOf, NoValues
  <2>2. QED
    BY <1>1, <2>1 DEF settingVars, SettingsIInv, SettingShapes, Committed, SavesLock,
       CachesTrue, ReadTrue, HandedTrue, OneLoad, NewerYet, Written
<1>2. CASE SettingsNext
  <2>1. UNCHANGED stored
    BY <1>2 DEF SettingsNext
  <2>2. ASSUME NEW t \in Tasks, NEW form, StartSave(t, form) \/ Renew(t) PROVE SettingsIInv'
    BY <2>1, <2>2, StartingToSave
  <2>3. ASSUME NEW t \in Tasks, NEW form, AssignZone(t, form) PROVE SettingsIInv'
    BY <2>1, <2>3, AssigningZones
  <2>4. ASSUME NEW t \in Tasks, ReadSettings(t) \/ ShowSettings(t) \/ ResolveZone(t) PROVE SettingsIInv'
    BY <2>1, <2>4, Asking DEF ReadSettings, ShowSettings, ResolveZone
  <2>5. ASSUME NEW t \in Tasks, Look(t) PROVE SettingsIInv'
    <3>1. CASE Fresh(Home[t]) /\ ~task[t].forced
      <4>1. UNCHANGED inFlight
        BY <2>5, <3>1 DEF Look
      <4>2. QED  BY <2>1, <2>5, <3>1, <4>1, HandingCopy
    <3>2. CASE ~Fresh(Home[t]) \/ task[t].forced
      <4>1. UNCHANGED served
        BY <2>5, <3>2 DEF Look
      <4>2. QED  BY <2>1, <2>5, <3>2, <4>1, LookingInVain
    <3>3. QED  BY <3>1, <3>2
  <2>6. ASSUME NEW t \in Tasks,
               WriteRow(t) \/ Commit(t) \/ RefuseSave(t) \/ Invalidate(t) \/ Query(t) \/ Install(t) \/ LoadFails(t)
        PROVE  SettingsIInv'
    BY <2>1, <2>6, WritingRow, CommittingSave, RefusingSave, Emptying, Reading, Installing,
       FailingToLoad
  <2>7. ASSUME SettingsTick PROVE SettingsIInv'
    BY <2>1, <2>7, Aging
  <2>8. QED  BY <1>2, <2>2, <2>3, <2>4, <2>5, <2>6, <2>7 DEF SettingsNext
<1>3. QED  BY <1>1, <1>2

(* However saves, loads, failures and expiry overlap in any number of       *)
(* workers: caches and requests have whole tables, and none is older than   *)
(* what the clocks and the worker's past allow.                             *)
THEOREM SettingsInvariant == SettingsSpec => []SettingsIInv
<1>1. QED
  BY SettingsStart, SettingsStep, PTL DEF SettingsSpec

-----------------------------------------------------------------------------
(* Settings: what is promised                                               *)

(* Whoever reads is handed one committed table or the defaults, never half  *)
(* of a save; and what comes from a copy has every save that was committed  *)
(* its lifetime ago.                                                        *)
THEOREM HandedWhole == SettingsSpec => []WholeAndRecent
<1>1. ASSUME SettingsIInv PROVE WholeAndRecent
  <2>1. HandedTrue
    BY <1>1 DEF SettingsIInv
  <2>2. NeverMixed
    BY <2>1 DEF NeverMixed, WasHanded, HandedTrue, TableOf
  <2>3. LiveWithinTTL
    BY <2>1 DEF LiveWithinTTL, WasHanded, HandedTrue
  <2>4. QED  BY <2>2, <2>3 DEF WholeAndRecent
<1>2. QED
  BY <1>1, SettingsInvariant, PTL

(* A worker never hands out older settings than it did before.              *)
THEOREM WorkersGoForward == SettingsSpec => NeverGoesBack
<1>1. ASSUME SettingsIInv, [SettingsNext]_settingVars PROVE [StepsForward]_served
  <2>1. SUFFICES ASSUME SettingsNext, stored = "settings", NEW w \in Workers, served' # served
                 PROVE  served'[w] >= served[w]
    BY <1>1 DEF StepsForward, settingVars
  <2>2. served \in [Workers -> Nat] /\ NewerYet /\ CachesTrue /\ ReadTrue /\ DOMAIN cache = Workers
    BY <1>1 DEF SettingsIInv, SettingShapes
  <2>3. PICK t \in Tasks : Look(t) \/ Install(t) \/ LoadFails(t)
    BY <2>1 DEF SettingsNext, StartSave, AssignZone, Renew, ReadSettings, ShowSettings,
       ResolveZone, Asks, WriteRow, Commit, RefuseSave, Invalidate, Query, SettingsTick
  <2>4. PICK v \in Workers : v = Home[t]
    BY SettingsAssumption
  <2>5. PICK n \in Nat : (n # 0 => served[v] <= n) /\ served' = [served EXCEPT ![v] = IF n = 0 THEN @ ELSE n]
    <3>1. CASE Look(t)
      <4>1. PICK n : n = cache[v].n
        OBVIOUS
      <4>2. cache[v] # Nil /\ served' = [served EXCEPT ![v] = IF n = 0 THEN @ ELSE n]
        BY <2>1, <2>4, <3>1, <4>1 DEF Look, Fresh
      <4>3. n \in Nat /\ (n # 0 => served[v] <= n)
        BY <2>1, <2>2, <4>1, <4>2 DEF CachesTrue, NewerYet
      <4>4. QED  BY <4>2, <4>3
    <3>2. CASE Install(t)
      <4>1. PICK n : n = task[t].copy.n
        OBVIOUS
      <4>2. served' = [served EXCEPT ![v] = IF n = 0 THEN @ ELSE n] /\ task[t].pc = "queried"
        BY <2>4, <3>2, <4>1 DEF Install, Finish
      <4>3. n \in Nat /\ served[v] <= n
        BY <2>1, <2>2, <2>4, <4>1, <4>2 DEF ReadTrue, NewerYet
      <4>4. QED  BY <4>2, <4>3
    <3>3. CASE LoadFails(t)
      <4>1. PICK n : n = Fallback(v).n
        OBVIOUS
      <4>2. served' = [served EXCEPT ![v] = IF n = 0 THEN @ ELSE n]
        BY <2>1, <2>4, <3>3, <4>1 DEF LoadFails, Finish
      <4>3. n \in Nat /\ (n # 0 => served[v] <= n)
        BY <2>1, <2>2, <4>1 DEF Fallback, Copied, CachesTrue, NewerYet
      <4>4. QED  BY <4>2, <4>3
    <3>4. QED  BY <2>3, <3>1, <3>2, <3>3
  <2>6. QED  BY <2>2, <2>5
<1>2. QED
  BY <1>1, SettingsInvariant, PTL DEF SettingsSpec, NeverGoesBack

(* A key has one of the values that were saved, its row is locked by the    *)
(* save that wrote it, and a worker's load is run by one of its requests.   *)
THEOREM SettingsHaveTypes == SettingsSpec => []SettingsTypeOK
<1>1. ASSUME SettingsIInv PROVE SettingsTypeOK
  <2>1. \A k \in Keys : values[k] \in Savers \cup {Factory, Nil}
    BY <1>1 DEF SettingsIInv, SettingShapes, Written
  <2>2. \A k \in Keys, t \in Savers : lock[k] = t <=> task[t].pc = "saving" /\ k \in task[t].keys
    BY <1>1, SettingsAssumption DEF SettingsIInv, SavesLock
  <2>3. QED  BY <1>1, <2>1, <2>2 DEF SettingsTypeOK, SettingsIInv, CachesTrue, OneLoad
<1>2. QED
  BY <1>1, SettingsInvariant, PTL

-----------------------------------------------------------------------------
(* Prices: least and greatest numbers                                       *)

(* A set of numbers has a least one.                                        *)
LEMMA LeastThere ==
  ASSUME NEW S, S \subseteq Nat, S # {}
  PROVE  Least(S) \in S /\ \A y \in S : Least(S) <= y
<1> DEFINE Smaller == {p \in Nat \X Nat : p[1] < p[2]}
<1>1. IsWellFoundedOn(Smaller, Nat)
  BY NatLessThanWellFounded DEF OpToRel
<1>2. PICK x \in S : \A y \in S : ~(<<y, x>> \in Smaller)
  BY <1>1, WFMin
<1>3. ASSUME NEW y \in S PROVE x <= y
  <2>1. <<y, x>> \notin Smaller /\ x \in Nat /\ y \in Nat
    BY <1>2
  <2>2. ~(y < x)
    BY <2>1
  <2>3. QED  BY <2>1, <2>2
<1>4. QED
  BY <1>3 DEF Least

(* So has a finite one a greatest.                                          *)
LEMMA GreatestThere ==
  ASSUME NEW S, S \subseteq Nat, S # {}, IsFiniteSet(S)
  PROVE  Greatest(S) \in S /\ \A y \in S : y <= Greatest(S)
<1> DEFINE Above(x) == {y \in S : y > x}
           Sizes == {Cardinality(Above(x)) : x \in S}
<1>1. \A x \in S : IsFiniteSet(Above(x)) /\ Cardinality(Above(x)) \in Nat
  BY FS_Subset, FS_CardinalityType
<1>2. Sizes \subseteq Nat /\ Sizes # {}
  BY <1>1
<1>3. PICK x \in S : \A y \in S : Cardinality(Above(x)) <= Cardinality(Above(y))
  <2>1. PICK n \in Sizes : \A m \in Sizes : n <= m
    BY <1>2, LeastThere
  <2>2. QED  BY <2>1
<1>4. ASSUME NEW y \in S, y > x PROVE FALSE
  <2>1. x \in Nat /\ y \in Nat /\ \A z \in S : z \in Nat
    OBVIOUS
  <2>2. Above(y) \subseteq Above(x) /\ y \in Above(x) /\ y \notin Above(y)
    <3>1. \A z \in S : z > y => z > x
      BY <1>4, <2>1
    <3>2. y > x /\ ~(y > y)
      BY <1>4, <2>1
    <3>3. QED  BY <3>1, <3>2
  <2>3. Cardinality(Above(y)) < Cardinality(Above(x))
    <3>1. PICK big : big = Above(x)
      OBVIOUS
    <3>2. PICK small : small = Above(y)
      OBVIOUS
    <3>3. IsFiniteSet(big) /\ small \subseteq big /\ small # big
      BY <1>1, <2>2, <3>1, <3>2
    <3>4. Cardinality(small) < Cardinality(big)
      <4>1. small \in SUBSET big /\ small # big
        BY <3>3
      <4>2. QED  BY ONLY <3>3, <4>1, FS_Subset, FS_CardinalityType
    <3>5. QED  BY <3>1, <3>2, <3>4
  <2>4. QED  BY <1>1, <1>3, <2>3
<1>5. \A y \in S : y <= x
  BY <1>4
<1>6. QED
  BY <1>5 DEF Greatest

-----------------------------------------------------------------------------
(* Prices: the operators                                                    *)

(* A row has a number of days, or none.                                     *)
LEMMA DaysKnown ==
  ASSUME NEW rows \in Seq(TariffRows)
  PROVE  \A i \in 1 .. Len(rows) : rows[i].days \in Nat \cup {Unset}
<1>1. \A i \in 1 .. Len(rows) : rows[i] \in TariffRows
  BY ElementOfSeq
<1>2. QED  BY <1>1 DEF TariffRows

(* The labels of a table are finitely many numbers of days.                 *)
LEMMA TiersKnown ==
  ASSUME NEW rows \in Seq(TariffRows)
  PROVE  /\ Tiers(rows) \subseteq Nat /\ Tiers(rows) # {} /\ IsFiniteSet(Tiers(rows))
         /\ Labels(rows) = {} => Tiers(rows) = ValidityTiers
         /\ Labels(rows) # {} => Tiers(rows) = Labels(rows)
<1>1. \A i \in 1 .. Len(rows) : rows[i].days \in Nat \cup {Unset}
  BY DaysKnown
<1>2. Labels(rows) \subseteq Nat
  BY <1>1 DEF Labels
<1>3. IsFiniteSet(Labels(rows))
  <2> DEFINE all == {rows[i].days : i \in 1 .. Len(rows)}
  <2>1. IsFiniteSet(1 .. Len(rows))
    BY FS_Interval
  <2>2. PICK f : f = [i \in 1 .. Len(rows) |-> rows[i].days]
    OBVIOUS
  <2>3. f \in Surjection(1 .. Len(rows), all)
    BY <2>2 DEF Surjection
  <2>4. IsFiniteSet(all)
    BY <2>1, <2>3, FS_Surjection
  <2>5. QED  BY <2>4, FS_Subset DEF Labels
<1>4. IsFiniteSet(ValidityTiers)
  <2>1. PICK n \in Nat : ValidityTiers \subseteq 0 .. n
    BY DEF ValidityTiers
  <2>2. IsFiniteSet(0 .. n)
    BY FS_Interval
  <2>3. QED  BY <2>1, <2>2, FS_Subset
<1>5. ValidityTiers \subseteq Nat /\ ValidityTiers # {}
  BY DEF ValidityTiers
<1>6. QED  BY <1>2, <1>3, <1>4, <1>5 DEF Tiers

(* A stay is billed for the least number that covers it, or the greatest.   *)
LEMMA TierCovers ==
  ASSUME NEW tiers, tiers \subseteq Nat, tiers # {}, IsFiniteSet(tiers), NEW days \in Nat
  PROVE  /\ Tier(days, tiers) \in tiers
         /\ \A d \in tiers : IF Tier(days, tiers) >= days THEN d >= Tier(days, tiers) \/ d < days
                             ELSE d <= Tier(days, tiers)
<1> DEFINE covering == {d \in tiers : days <= d}
<1>1. CASE covering = {}
  <2>1. Tier(days, tiers) = Greatest(tiers)
    BY <1>1 DEF Tier
  <2>2. Greatest(tiers) \in tiers /\ \A d \in tiers : d <= Greatest(tiers)
    BY GreatestThere
  <2>3. \A d \in tiers : ~(days <= d)
    BY <1>1
  <2>4. QED  BY <2>1, <2>2, <2>3
<1>2. CASE covering # {}
  <2>1. Tier(days, tiers) = Least(covering)
    BY <1>2 DEF Tier
  <2>2. Least(covering) \in covering /\ \A d \in covering : Least(covering) <= d
    BY <1>2, LeastThere
  <2>3. \A d \in tiers : d \in covering \/ d < days
    OBVIOUS
  <2>4. QED  BY <2>1, <2>2, <2>3
<1>3. QED  BY <1>1, <1>2

(* A row has the first price of its columns.                                *)
LEMMA FirstPrice ==
  ASSUME NEW tariff, NEW columns \in Seq(Zones), Pick(tariff, columns) # Unset
  PROVE  \E c \in 1 .. Len(columns) :
           /\ Pick(tariff, columns) = tariff.price[columns[c]]
           /\ \A b \in 1 .. c - 1 : tariff.price[columns[b]] = Unset
<1> DEFINE priced == {i \in 1 .. Len(columns) : tariff.price[columns[i]] # Unset}
<1>1. priced # {} /\ priced \subseteq Nat /\ Len(columns) \in Nat
  BY DEF Pick
<1>2. Pick(tariff, columns) = tariff.price[columns[Least(priced)]]
  BY <1>1 DEF Pick
<1>3. PICK c : c = Least(priced)
  OBVIOUS
<1>4. c \in priced /\ \A i \in priced : c <= i
  BY <1>1, <1>3, LeastThere
<1>5. \A b \in 1 .. c - 1 : b \in 1 .. Len(columns) /\ ~(c <= b)
  BY <1>1, <1>4
<1>6. QED  BY <1>2, <1>3, <1>4, <1>5

(* Among rows of one number of days the first is nearest.                   *)
LEMMA NearestAlike ==
  ASSUME NEW rows \in Seq(TariffRows), NEW tier \in Nat, NEW days, NEW d \in Nat,
         {i \in 1 .. Len(rows) : rows[i].days \in days} = {i \in 1 .. Len(rows) : rows[i].days = d},
         \E i \in 1 .. Len(rows) : rows[i].days = d
  PROVE  Nearest(rows, tier, days) = Least({i \in 1 .. Len(rows) : rows[i].days = d})
<1> DEFINE off(i) == IF rows[i].days >= tier THEN rows[i].days - tier ELSE tier - rows[i].days
           near == {i \in 1 .. Len(rows) : rows[i].days \in days}
<1>1. PICK same : same = {i \in 1 .. Len(rows) : rows[i].days = d}
  OBVIOUS
<1>2. near = same /\ same # {} /\ \A i, j \in same : off(i) = off(j)
  BY <1>1
<1>3. PICK o \in Nat : \A i \in same : off(i) = o
  <2>1. PICK i \in same : TRUE
    BY <1>2
  <2>2. rows[i].days = d
    BY <1>1
  <2>3. PICK o : o = off(i)
    OBVIOUS
  <2>4. o \in Nat
    BY <2>2, <2>3
  <2>5. \A j \in same : off(j) = o
    BY <1>2, <2>3
  <2>6. QED  BY <2>4, <2>5
<1>4. {i \in near : \A j \in near : off(i) <= off(j)} = same
  BY <1>2, <1>3
<1>5. QED
  BY <1>1, <1>2, <1>4 DEF Nearest

(* If there are rows of the days themselves, the first is nearest.          *)
LEMMA NearestExact ==
  ASSUME NEW rows \in Seq(TariffRows), NEW tier \in Nat, NEW days \in SUBSET Nat, tier \in days,
         \E i \in 1 .. Len(rows) : rows[i].days = tier
  PROVE  Nearest(rows, tier, days) = Least({i \in 1 .. Len(rows) : rows[i].days = tier})
<1> DEFINE off(i) == IF rows[i].days >= tier THEN rows[i].days - tier ELSE tier - rows[i].days
           near == {i \in 1 .. Len(rows) : rows[i].days \in days}
           same == {i \in 1 .. Len(rows) : rows[i].days = tier}
<1>1. same \subseteq near /\ same # {}
  OBVIOUS
<1>2. ASSUME NEW i \in near PROVE off(i) \in Nat /\ (off(i) = 0 <=> i \in same)
  <2>1. PICK d \in Nat : d = rows[i].days
    OBVIOUS
  <2>2. IF d >= tier THEN d - tier \in Nat /\ (d - tier = 0 <=> d = tier)
        ELSE tier - d \in Nat /\ (tier - d = 0 <=> d = tier)
    BY <2>1
  <2>3. QED  BY <2>1, <2>2
<1>3. {i \in near : \A j \in near : off(i) <= off(j)} = same
  <2>1. PICK s \in same : TRUE
    BY <1>1
  <2>2. ASSUME NEW i \in near, \A j \in near : off(i) <= off(j) PROVE i \in same
    BY <1>1, <1>2, <2>1, <2>2
  <2>3. ASSUME NEW i \in same, NEW j \in near PROVE off(i) <= off(j)
    BY <1>1, <1>2
  <2>4. QED  BY <1>1, <2>2, <2>3
<1>4. near # {}
  BY <1>1
<1>5. QED
  BY <1>3, <1>4 DEF Nearest

(* What is found is the price of the first row of the tier; only a table    *)
(* without durations is searched for a row of none.                         *)
LEMMA BaseOfRow ==
  ASSUME NEW rows \in Seq(TariffRows), NEW columns, NEW days \in Nat,
         BasePremium(rows, columns, Tier(days, Tiers(rows))) # Unset \/ Labels(rows) # {}
  PROVE  \E d \in Nat : LET tariff == Least({i \in 1 .. Len(rows) : rows[i].days = d}) IN
           /\ IF Labels(rows) = {} THEN d = 0 ELSE d = Tier(days, Tiers(rows))
           /\ tariff \in 1 .. Len(rows) /\ rows[tariff].days = d
           /\ BasePremium(rows, columns, Tier(days, Tiers(rows))) = Pick(rows[tariff], columns)
<1>1. PICK tier : tier = Tier(days, Tiers(rows))
  OBVIOUS
<1>2. tier \in Tiers(rows) /\ tier \in Nat
  BY <1>1, TiersKnown, TierCovers
<1> DEFINE labels == {rows[i].days : i \in 1 .. Len(rows)} \ {Unset}
           near(set) == {i \in 1 .. Len(rows) : rows[i].days \in set}
           of(d) == {i \in 1 .. Len(rows) : rows[i].days = d}
           price(i) == IF i = 0 THEN Unset ELSE Pick(rows[i], columns)
           above == {d \in labels : d >= tier}
           below == {d \in labels : d <= tier}
<1>3. \A i \in 1 .. Len(rows) : rows[i].days \in Nat \cup {Unset}
  BY DaysKnown
<1>4. labels \subseteq Nat /\ Len(rows) \in Nat
  BY <1>3
<1>5. BasePremium(rows, columns, tier) =
        IF price(Nearest(rows, tier, {tier})) # Unset THEN price(Nearest(rows, tier, {tier}))
        ELSE IF price(Nearest(rows, tier, above)) # Unset THEN price(Nearest(rows, tier, above))
        ELSE IF price(Nearest(rows, tier, below)) # Unset THEN price(Nearest(rows, tier, below))
        ELSE price(Nearest(rows, tier, labels))
  BY DEF BasePremium
<1>6. ASSUME NEW d \in Nat, of(d) # {}
      PROVE  Least(of(d)) \in 1 .. Len(rows) /\ Least(of(d)) # 0 /\ rows[Least(of(d))].days = d
  <2>1. of(d) \subseteq Nat
    OBVIOUS
  <2>2. Least(of(d)) \in of(d)
    BY <1>6, <2>1, LeastThere
  <2>3. QED  BY <1>4, <2>2
<1>7. CASE Labels(rows) # {}
  <2>0. tier \in Labels(rows)
    BY <1>2, <1>7, TiersKnown
  <2>1. tier \in Labels(rows) /\ of(tier) # {}
    BY <2>0 DEF Labels
  <2>2. tier \in labels /\ tier \in above /\ tier \in below
    BY <1>2, <2>1 DEF Labels
  <2>3. \A set \in SUBSET Nat : tier \in set => Nearest(rows, tier, set) = Least(of(tier))
    BY <1>2, <2>1, NearestExact
  <2>4. /\ Nearest(rows, tier, {tier}) = Least(of(tier)) /\ Nearest(rows, tier, above) = Least(of(tier))
        /\ Nearest(rows, tier, below) = Least(of(tier)) /\ Nearest(rows, tier, labels) = Least(of(tier))
    BY <1>2, <1>4, <2>2, <2>3
  <2>5. Least(of(tier)) # 0 /\ BasePremium(rows, columns, tier) = Pick(rows[Least(of(tier))], columns)
    BY <1>2, <1>5, <1>6, <2>1, <2>4
  <2>6. QED  BY <1>1, <1>2, <1>6, <1>7, <2>1, <2>5
<1>8. CASE Labels(rows) = {}
  <2>1. tier \in {10, 45, 93, 180, 365}
    BY <1>2, <1>8, TiersKnown DEF ValidityTiers
  <2>2. \A i \in 1 .. Len(rows) : rows[i].days \in {0, Unset}
    BY <1>8 DEF Labels
  <2>3. labels \subseteq {0} /\ above = {} /\ below = labels
    BY <2>1, <2>2
  <2>4. near({tier}) = {} /\ near(above) = {}
    BY <2>1, <2>2, <2>3, PricingAssumption
  <2>5. Nearest(rows, tier, {tier}) = 0 /\ Nearest(rows, tier, above) = 0
    BY <2>4 DEF Nearest
  <2>6. BasePremium(rows, columns, tier) = price(Nearest(rows, tier, labels))
    BY <1>5, <2>3, <2>5
  <2>7. near(labels) # {}
    BY <1>1, <1>8, <2>6 DEF Nearest
  <2>8. near(labels) = of(0) /\ of(0) # {}
    BY <2>3, <2>7
  <2>9. Nearest(rows, tier, labels) = Least(of(0))
    <3>1. PICK set : set = labels
      OBVIOUS
    <3>2. {i \in 1 .. Len(rows) : rows[i].days \in set} = {i \in 1 .. Len(rows) : rows[i].days = 0}
      BY <2>8, <3>1
    <3>3. \E i \in 1 .. Len(rows) : rows[i].days = 0
      BY <2>8
    <3>4. Nearest(rows, tier, set) = Least({i \in 1 .. Len(rows) : rows[i].days = 0})
      BY <1>2, <3>2, <3>3, NearestAlike
    <3>5. QED  BY <3>1, <3>4
  <2>10. BasePremium(rows, columns, tier) = Pick(rows[Least(of(0))], columns)
    BY <1>6, <2>6, <2>8, <2>9
  <2>11. QED  BY <1>1, <1>6, <1>8, <2>8, <2>10
<1>9. QED  BY <1>7, <1>8

(* So it is the first price of the row that covers the stay, or the longest.*)
LEMMA BaseIsReference ==
  ASSUME NEW rows \in Seq(TariffRows), NEW columns \in Seq(Zones), NEW days \in Nat \ {0}, NEW base,
         base = BasePremium(rows, columns, Tier(days, Tiers(rows))), base # Unset
  PROVE  \E i \in 1 .. Len(rows), c \in 1 .. Len(columns) :
           /\ rows[i].days # Unset
           /\ \A j \in 1 .. Len(rows) : rows[j].days # Unset =>
                IF rows[i].days >= days THEN rows[j].days >= rows[i].days \/ rows[j].days < days
                ELSE rows[j].days <= rows[i].days
           /\ base = rows[i].price[columns[c]]
           /\ \A b \in 1 .. c - 1 : rows[i].price[columns[b]] = Unset
<1>1. PICK d \in Nat, i \in 1 .. Len(rows) :
                               /\ IF Labels(rows) = {} THEN d = 0 ELSE d = Tier(days, Tiers(rows))
                          /\ i \in 1 .. Len(rows) /\ rows[i].days = d /\ base = Pick(rows[i], columns)
  BY BaseOfRow
<1>2. PICK c \in 1 .. Len(columns) :
        /\ base = rows[i].price[columns[c]]
        /\ \A b \in 1 .. c - 1 : rows[i].price[columns[b]] = Unset
  <2>1. PICK tariff : tariff = rows[i]
    OBVIOUS
  <2>2. QED  BY <1>1, <2>1, FirstPrice
<1>3. ASSUME NEW j \in 1 .. Len(rows), rows[j].days # Unset
      PROVE  IF d >= days THEN rows[j].days >= d \/ rows[j].days < days ELSE rows[j].days <= d
  <2>1. rows[j].days \in Nat /\ (rows[j].days = 0 \/ rows[j].days \in Labels(rows))
    BY <1>3, DaysKnown DEF Labels
  <2>2. CASE rows[j].days = 0
    BY <2>2
  <2>3. CASE rows[j].days \in Labels(rows)
    <3>1. PICK tiers : tiers = Tiers(rows)
      OBVIOUS
    <3>2. tiers = Labels(rows) /\ d = Tier(days, tiers)
      BY <1>1, <2>3, <3>1, TiersKnown
    <3>3. \A e \in tiers : IF d >= days THEN e >= d \/ e < days ELSE e <= d
      <4>1. tiers \subseteq Nat /\ tiers # {} /\ IsFiniteSet(tiers)
        BY <3>1, TiersKnown
      <4>2. QED  BY <3>2, <4>1, TierCovers
    <3>4. QED  BY <2>3, <3>2, <3>3
  <2>4. QED  BY <2>1, <2>2, <2>3
<1>4. QED  BY <1>1, <1>2, <1>3, PricingAssumption

-----------------------------------------------------------------------------
(* Prices: what always holds                                                *)

(* The policy has the premium that its stay and age give, and was quoted.   *)
SaleAsComputed ==
  sale # Unset =>
    /\ quote # Unset /\ quote.price.ok
    /\ sale.stay = stay /\ sale.age \in Nat \cup {Unset}
    /\ Premium(plan, plan.columns, stay, sale.age).ok
    /\ Premium(plan, plan.columns, stay, sale.age).premium = sale.premium

(* The quote is of the stay, unless that was corrected.                     *)
QuoteAsComputed ==
  quote # Unset /\ (sale = Unset \/ ~sale.edited) =>
    quote.price = Quote(plan, zone, stay, quote.age)

PricingIInv ==
  /\ plan \in Catalogue /\ zone \in Zones \cup {Unset}
  /\ stay \in Nat \ {0} /\ age \in Nat \cup {Unset} /\ birthdays \in Nat
  /\ SaleAsComputed /\ QuoteAsComputed
  /\ CommissionFollowsTier

-----------------------------------------------------------------------------
(* Prices: what is promised                                                 *)

(* What a plan of the catalogue has.                                        *)
LEMMA PlanKnown ==
  ASSUME plan \in Catalogue
  PROVE  /\ plan.columns \in Seq(Zones) /\ plan.rows \in Seq(TariffRows)
         /\ \A i \in 1 .. Len(plan.rows), c \in 1 .. Len(plan.columns) :
              LET price == plan.rows[i].price[plan.columns[c]] IN
              price # Unset => price \in Nat /\ price % 2 = 0
<1>1. plan.columns \in Seq(Zones) /\ plan.rows \in Seq(TariffRows)
  BY PricingAssumption
<1>2. ASSUME NEW i \in 1 .. Len(plan.rows), NEW c \in 1 .. Len(plan.columns)
      PROVE  LET price == plan.rows[i].price[plan.columns[c]] IN
             price # Unset => price \in Nat /\ price % 2 = 0
  <2>1. PICK r, z : r = plan.rows[i] /\ z = plan.columns[c]
    OBVIOUS
  <2>2. z \in Zones /\ r \in TariffRows
    BY <1>1, <2>1, ElementOfSeq
  <2>3. r.price[z] \in Nat \cup {Unset}
    BY <2>2 DEF TariffRows
  <2>4. r.price[z] # Unset => r.price[z] % 2 = 0
    BY <2>1, <2>2, PricingAssumption
  <2>5. QED  BY <2>1, <2>3, <2>4
<1>3. QED  BY <1>1, <1>2

(* The factors of the ages.                                                 *)
LEMMA HalvesOfAges ==
  ASSUME NEW a \in Nat \cup {Unset}, Eligible(a), NEW base \in Nat, base % 2 = 0, NEW premium,
         premium = (base * AgeHalves(a)) \div 2
  PROVE  /\ premium \in Nat
         /\ \/ a # Unset /\ a <= 15 /\ 2 * premium = base
            \/ (a = Unset \/ a \in 16 .. 75) /\ premium = base
            \/ a # Unset /\ a \in 76 .. 80 /\ premium = 2 * base
            \/ a # Unset /\ a \in 81 .. 85 /\ premium = 4 * base
<1>1. PICK half \in Nat : base = 2 * half
  <2>1. base = 2 * (base \div 2)
    OBVIOUS
  <2>2. QED  BY <2>1
<1>2. CASE a = Unset
  BY <1>1, <1>2 DEF AgeHalves
<1>3. CASE a # Unset /\ a < 16
  BY <1>1, <1>3 DEF AgeHalves
<1>4. CASE a # Unset /\ a \in 16 .. 75
  BY <1>1, <1>4 DEF AgeHalves
<1>5. CASE a # Unset /\ a \in 76 .. 80
  BY <1>1, <1>5 DEF AgeHalves
<1>6. CASE a # Unset /\ a \in 81 .. 85
  BY <1>1, <1>6 DEF AgeHalves
<1>7. QED  BY <1>2, <1>3, <1>4, <1>5, <1>6 DEF Eligible

(* The premium of a policy is the one of the reference.                     *)
LEMMA PremiumIsReference ==
  ASSUME PricingIInv
  PROVE  PriceIsReference
<1> SUFFICES ASSUME sale # Unset, plan.travel, plan.rows # <<>> PROVE PriceIsReference
  BY DEF PriceIsReference
<1>1. /\ plan \in Catalogue /\ stay \in Nat \ {0} /\ sale.stay = stay
      /\ sale.age \in Nat \cup {Unset}
      /\ Premium(plan, plan.columns, stay, sale.age).ok
      /\ Premium(plan, plan.columns, stay, sale.age).premium = sale.premium
  BY DEF PricingIInv, SaleAsComputed
<1>2. PICK rows, columns, days, a :
        rows = plan.rows /\ columns = plan.columns /\ days = stay /\ a = sale.age
  OBVIOUS
<1>3. PICK base : base = BasePremium(rows, columns, Tier(days, Tiers(rows)))
  OBVIOUS
<1>4. base # Unset /\ Eligible(a) /\ sale.premium = (base * AgeHalves(a)) \div 2
  BY <1>1, <1>2, <1>3 DEF Premium, TravelPremium, Priced, Failed
<1>5. /\ rows \in Seq(TariffRows) /\ columns \in Seq(Zones)
      /\ days \in Nat \ {0} /\ a \in Nat \cup {Unset}
  BY <1>1, <1>2, PlanKnown
<1>6. PICK i \in 1 .. Len(rows), c \in 1 .. Len(columns) :
        /\ rows[i].days # Unset
        /\ \A j \in 1 .. Len(rows) : rows[j].days # Unset =>
             IF rows[i].days >= days THEN rows[j].days >= rows[i].days \/ rows[j].days < days
             ELSE rows[j].days <= rows[i].days
        /\ base = rows[i].price[columns[c]]
        /\ \A b \in 1 .. c - 1 : rows[i].price[columns[b]] = Unset
  BY <1>3, <1>4, <1>5, BaseIsReference
<1>7. base \in Nat /\ base % 2 = 0
  BY <1>1, <1>2, <1>4, <1>6, PlanKnown
<1>8. \/ a # Unset /\ a <= 15 /\ 2 * sale.premium = base
      \/ (a = Unset \/ a \in 16 .. 75) /\ sale.premium = base
      \/ a # Unset /\ a \in 76 .. 80 /\ sale.premium = 2 * base
      \/ a # Unset /\ a \in 81 .. 85 /\ sale.premium = 4 * base
  BY <1>4, <1>5, <1>7, HalvesOfAges
<1>9. QED
  BY <1>1, <1>2, <1>4, <1>6, <1>8 DEF PriceIsReference

(* A premium is a number.                                                   *)
LEMMA PremiumKnown ==
  ASSUME plan \in Catalogue, NEW days \in Nat \ {0}, NEW a \in Nat \cup {Unset},
         Premium(plan, plan.columns, days, a).ok
  PROVE  Premium(plan, plan.columns, days, a).premium \in Nat
<1>1. PICK rows, columns, base :
        /\ rows = plan.rows /\ columns = plan.columns
        /\ base = BasePremium(rows, columns, Tier(days, Tiers(rows)))
  OBVIOUS
<1>2. rows \in Seq(TariffRows) /\ columns \in Seq(Zones)
  BY <1>1, PlanKnown
<1>3. ASSUME base # Unset PROVE base \in Nat /\ base % 2 = 0
  <2>1. PICK i \in 1 .. Len(rows), c \in 1 .. Len(columns) : base = rows[i].price[columns[c]]
    BY <1>1, <1>2, <1>3, BaseIsReference
  <2>2. QED  BY <1>1, <1>3, <2>1, PlanKnown
<1>4. PICK premium : premium = Premium(plan, plan.columns, days, a).premium
  OBVIOUS
<1>5. \/ premium = base /\ base # Unset
      \/ Eligible(a) /\ premium = (base * AgeHalves(a)) \div 2 /\ base # Unset
      \/ plan.flat # Unset /\ premium = plan.flat * days
  BY <1>1, <1>4 DEF Premium, TravelPremium, Priced, Failed
<1>6. QED
  BY <1>3, <1>4, <1>5, HalvesOfAges, PricingAssumption

(* Without a column of its own the zone leaves the columns in their order.  *)
LEMMA PlainIsQuoted ==
  ASSUME PricingIInv
  PROVE  PlainSaleAsQuoted
<1> SUFFICES ASSUME sale # Unset, ~sale.edited, sale.age = quote.age,
                    \A i \in 2 .. Len(plan.columns) : plan.columns[i] # zone
             PROVE  sale.premium = quote.price.premium
  BY DEF PlainSaleAsQuoted
<1>1. /\ plan \in Catalogue /\ quote.price.ok
      /\ Premium(plan, plan.columns, stay, sale.age).premium = sale.premium
      /\ quote.price = Quote(plan, zone, stay, quote.age)
  BY DEF PricingIInv, SaleAsComputed, QuoteAsComputed
<1>2. plan.columns \in Seq(Zones) /\ Len(plan.columns) \in Nat
  BY <1>1, PlanKnown
<1>3. ColumnsFor(plan.columns, zone) = plan.columns
  <2> DEFINE hit == {i \in 1 .. Len(plan.columns) : plan.columns[i] = zone}
  <2>1. hit = {} \/ hit = {1}
    BY <1>2
  <2>2. hit # {} => Least(hit) = 1
    BY <2>1, LeastThere
  <2>3. ColumnsFor(plan.columns, zone) = InFront(plan.columns, 1)
    BY <2>2 DEF ColumnsFor
  <2>4. InFront(plan.columns, 1) = plan.columns
    BY <1>2 DEF InFront
  <2>5. QED  BY <2>3, <2>4
<1>4. quote.price = Premium(plan, plan.columns, stay, quote.age)
  BY <1>1, <1>3 DEF Quote, Failed
<1>5. QED  BY <1>1, <1>4

-----------------------------------------------------------------------------
(* Prices: commissions                                                      *)

(* The tier of a stay in the table of commissions.                          *)
LEMMA RetailTier ==
  ASSUME NEW days \in Nat
  PROVE  Tier(days, ValidityTiers) =
           IF days <= 10 THEN 10 ELSE IF days <= 45 THEN 45 ELSE IF days <= 93 THEN 93
           ELSE IF days <= 180 THEN 180 ELSE 365
<1>1. IsFiniteSet(ValidityTiers)
  <2>1. PICK n \in Nat : ValidityTiers \subseteq 0 .. n
    BY DEF ValidityTiers
  <2>2. IsFiniteSet(0 .. n)
    BY FS_Interval
  <2>3. QED  BY <2>1, <2>2, FS_Subset
<1>2. PICK tiers : tiers = ValidityTiers /\ tiers = {10, 45, 93, 180, 365}
  BY DEF ValidityTiers
<1>3. PICK d : d = Tier(days, tiers)
  OBVIOUS
<1>4. d \in tiers /\ \A e \in tiers : IF d >= days THEN e >= d \/ e < days ELSE e <= d
  <2>1. tiers \subseteq Nat /\ tiers # {} /\ IsFiniteSet(tiers)
    BY <1>1, <1>2
  <2>2. QED  BY <1>3, <2>1, TierCovers
<1>5. d = IF days <= 10 THEN 10 ELSE IF days <= 45 THEN 45 ELSE IF days <= 93 THEN 93
           ELSE IF days <= 180 THEN 180 ELSE 365
  BY <1>2, <1>4
<1>6. QED  BY <1>2, <1>3, <1>5

LEMMA TableOfCommissions ==
  /\ Len(CommissionTiers) = 5
  /\ CommissionTiers[1].days = 10 /\ CommissionTiers[2].days = 45 /\ CommissionTiers[3].days = 93
  /\ CommissionTiers[4].days = 180 /\ CommissionTiers[5].days = 365
  /\ CommissionTiers[1].premium = 15000 /\ CommissionTiers[2].premium = 30500
  /\ CommissionTiers[3].premium = 43500 /\ CommissionTiers[4].premium = 60500
  /\ CommissionTiers[5].premium = 78000
  /\ CommissionTiers[1].commission = 4000 /\ CommissionTiers[2].commission = 7000
  /\ CommissionTiers[3].commission = 10000 /\ CommissionTiers[4].commission = 15000
  /\ CommissionTiers[5].commission = 18000
BY DEF CommissionTiers

(* No factor of an age turns a premium of the table into one of another     *)
(* tier: what is not found by the premium is found by the days.             *)
LEMMA CommissionOfPremium ==
  ASSUME NEW r \in 1 .. 5, NEW premium \in Nat, NEW days \in Nat, NEW base,
         base = CommissionTiers[r].premium,
         2 * premium = base \/ premium = base \/ premium = 2 * base \/ premium = 4 * base,
         CommissionTiers[r].days = Tier(days, ValidityTiers)
  PROVE  BaseCommission(premium, days) = CommissionTiers[r].commission
<1> DEFINE same  == {i \in 1 .. Len(CommissionTiers) : CommissionTiers[i].premium = premium}
           twice == {i \in 1 .. Len(CommissionTiers) : CommissionTiers[i].premium = 2 * premium}
           long  == {i \in 1 .. Len(CommissionTiers) : days <= CommissionTiers[i].days}
<1>1. Len(CommissionTiers) = 5 /\ 1 .. 5 = {1, 2, 3, 4, 5} /\ premium > 0
  BY TableOfCommissions
<1>2. \A i \in 1 .. 5 : Least({i}) = i
  <2>1. ASSUME NEW i \in 1 .. 5 PROVE Least({i}) = i
    BY DEF Least
  <2>2. QED  BY <2>1
<1>3. CASE premium = base
  <2>1. same = {r}
    BY <1>1, <1>3, TableOfCommissions
  <2>2. QED  BY <1>1, <1>2, <2>1 DEF BaseCommission
<1>4. CASE 2 * premium = base
  <2>1. same = {} /\ twice = {r}
    BY <1>1, <1>4, TableOfCommissions
  <2>2. QED  BY <1>1, <1>2, <2>1 DEF BaseCommission
<1>5. CASE premium = 2 * base \/ premium = 4 * base
  <2>1. same = {} /\ twice = {}
    BY <1>1, <1>5, TableOfCommissions
  <2>2. long # {} => Least(long) \in long /\ \A i \in long : Least(long) <= i
    <3>1. long \subseteq Nat
      BY <1>1
    <3>2. QED  BY <3>1, LeastThere
  <2>3. IF long # {} THEN Least(long) = r ELSE r = 5
    BY <1>1, <2>2, RetailTier, TableOfCommissions
  <2>4. QED  BY <1>1, <2>1, <2>3 DEF BaseCommission
<1>6. QED  BY <1>3, <1>4, <1>5

(* Of a row whose first column has a price, that is taken.                  *)
LEMMA FirstColumn ==
  ASSUME NEW tariff, NEW columns \in Seq(Zones), columns # <<>>, tariff.price[columns[1]] # Unset
  PROVE  Pick(tariff, columns) = tariff.price[columns[1]]
<1> DEFINE priced == {i \in 1 .. Len(columns) : tariff.price[columns[i]] # Unset}
<1>1. priced \subseteq Nat /\ 1 \in priced /\ \A i \in priced : i >= 1
  OBVIOUS
<1>2. Least(priced) \in priced /\ Least(priced) <= 1
  <2> HIDE DEF priced
  <2>1. QED  BY <1>1, LeastThere
<1>3. Least(priced) = 1
  BY <1>1, <1>2
<1>4. QED  BY <1>1, <1>3 DEF Pick

(* A policy of the retail plan costs what its tier does, times a factor.    *)
LEMMA RetailPremium ==
  ASSUME PricingIInv, sale # Unset, IsRetail
  PROVE  \E r \in 1 .. 5 :
           LET base == CommissionTiers[r].premium IN
           /\ CommissionTiers[r].days = Tier(stay, ValidityTiers)
           /\ sale.premium \in Nat
           /\ \/ 2 * sale.premium = base \/ sale.premium = base
              \/ sale.premium = 2 * base \/ sale.premium = 4 * base
<1>1. /\ plan \in Catalogue /\ stay \in Nat \ {0} /\ sale.age \in Nat \cup {Unset}
      /\ Premium(plan, plan.columns, stay, sale.age).ok
      /\ Premium(plan, plan.columns, stay, sale.age).premium = sale.premium
  BY DEF PricingIInv, SaleAsComputed
<1>2. PICK rows, columns, days, a, premium :
        /\ rows = plan.rows /\ columns = plan.columns /\ days = stay /\ a = sale.age
        /\ premium = sale.premium
  OBVIOUS
<1>3. /\ rows \in Seq(TariffRows) /\ columns \in Seq(Zones) /\ columns # <<>>
      /\ days \in Nat /\ a \in Nat \cup {Unset}
      /\ Len(rows) = 5 /\ rows # <<>>
      /\ \A i \in 1 .. 5 : /\ rows[i].days = CommissionTiers[i].days
                          /\ rows[i].price[columns[1]] = CommissionTiers[i].premium
  <2>1. /\ rows \in Seq(TariffRows) /\ columns \in Seq(Zones) /\ days \in Nat /\ a \in Nat \cup {Unset}
    BY <1>1, <1>2, PlanKnown
  <2>2. /\ Len(rows) = 5 /\ columns # <<>>
        /\ \A i \in 1 .. 5 : /\ rows[i].days = CommissionTiers[i].days
                            /\ rows[i].price[columns[1]] = CommissionTiers[i].premium
    BY <1>2, TableOfCommissions DEF IsRetail
  <2>3. rows # <<>>
    <3>1. Len(<<>>) = 0
      OBVIOUS
    <3>2. Len(rows) # 0
      BY <2>2
    <3>3. QED  BY <3>1, <3>2
  <2>4. QED  BY <2>1, <2>2, <2>3
<1>4. 1 .. 5 = {1, 2, 3, 4, 5}
  OBVIOUS
<1>5. Labels(rows) = ValidityTiers /\ Labels(rows) # {}
  <2>1. {rows[i].days : i \in 1 .. 5} = {10, 45, 93, 180, 365}
    BY <1>3, <1>4, TableOfCommissions
  <2>2. Unset \notin {10, 45, 93, 180, 365}
    BY PricingAssumption
  <2>3. Labels(rows) = {10, 45, 93, 180, 365} \ {Unset, 0}
    BY <1>3, <2>1 DEF Labels
  <2>4. QED  BY <2>2, <2>3 DEF ValidityTiers
<1>6. Tiers(rows) = ValidityTiers
  BY <1>5 DEF Tiers
<1>7. PICK base : base = BasePremium(rows, columns, Tier(days, Tiers(rows)))
  OBVIOUS
<1>8. PICK r \in 1 .. 5 : rows[r].days = Tier(days, ValidityTiers) /\ base = Pick(rows[r], columns)
  <2>1. PICK d \in Nat, i \in 1 .. Len(rows) :
          /\ IF Labels(rows) = {} THEN d = 0 ELSE d = Tier(days, Tiers(rows))
          /\ i \in 1 .. Len(rows) /\ rows[i].days = d
          /\ BasePremium(rows, columns, Tier(days, Tiers(rows))) = Pick(rows[i], columns)
    BY <1>3, <1>5, BaseOfRow
  <2>2. QED  BY <1>3, <1>5, <1>6, <1>7, <2>1
<1>9. CommissionTiers[r].premium \in Nat /\ CommissionTiers[r].premium % 2 = 0
  BY <1>4, TableOfCommissions
<1>10. base = CommissionTiers[r].premium
  <2>1. rows[r].price[columns[1]] # Unset
    BY <1>3, <1>9, PricingAssumption
  <2>2. PICK tariff : tariff = rows[r]
    OBVIOUS
  <2>3. QED  BY <1>3, <1>8, <2>1, <2>2, FirstColumn
<1>11. base # Unset /\ base \in Nat /\ base % 2 = 0
  BY <1>9, <1>10, PricingAssumption
<1>12. premium = base \/ (Eligible(a) /\ premium = (base * AgeHalves(a)) \div 2)
  BY <1>1, <1>2, <1>3, <1>7, <1>11 DEF Premium, TravelPremium, Priced, Failed
<1>13. /\ \/ 2 * premium = base \/ premium = base \/ premium = 2 * base \/ premium = 4 * base
       /\ premium \in Nat
  <2>1. CASE premium = base
    BY <1>11, <2>1
  <2>2. CASE Eligible(a) /\ premium = (base * AgeHalves(a)) \div 2
    <3>1. a \in Nat \cup {Unset}
      BY <1>3
    <3>2. QED  BY <1>11, <2>2, <3>1, HalvesOfAges
  <2>3. QED  BY <1>12, <2>1, <2>2
<1>14. QED
  BY <1>2, <1>3, <1>8, <1>10, <1>13

(* The commission is the one of the days that were bought.                  *)
LEMMA CommissionOfSale ==
  ASSUME PricingIInv, sale # Unset, IsRetail,
         line' = [commission |-> Commission(plan, sale.premium, stay, age), stay |-> stay,
                  age |-> age]
  PROVE  \E i \in 1 .. Len(CommissionTiers) :
           /\ CommissionTiers[i].days = Tier(line'.stay, ValidityTiers)
           /\ 2 * line'.commission =
                CommissionTiers[i].commission * IF line'.age # Unset /\ line'.age < 16 THEN 1 ELSE 2
<1>1. PICK r \in 1 .. 5 :
        LET base == CommissionTiers[r].premium IN
        /\ CommissionTiers[r].days = Tier(stay, ValidityTiers)
        /\ sale.premium \in Nat
        /\ \/ 2 * sale.premium = base \/ sale.premium = base
           \/ sale.premium = 2 * base \/ sale.premium = 4 * base
  BY RetailPremium
<1>2. stay \in Nat
  BY DEF PricingIInv
<1>3. PICK c : c = CommissionTiers[r].commission
  OBVIOUS
<1>4. BaseCommission(sale.premium, stay) = c
  BY <1>1, <1>2, <1>3, CommissionOfPremium
<1>5. c \in Nat /\ c % 2 = 0
  <2>1. r \in {1, 2, 3, 4, 5}
    OBVIOUS
  <2>2. QED  BY <1>3, <2>1, TableOfCommissions
<1>6. 2 * line'.commission = c * IF age # Unset /\ age < 16 THEN 1 ELSE 2
  <2>1. line'.commission = (c * CommissionHalves(age)) \div 2
    BY <1>4 DEF Commission, IsRetail
  <2>2. PICK h : h = CommissionHalves(age)
    OBVIOUS
  <2>3. h = IF age # Unset /\ age < 16 THEN 1 ELSE 2
    BY <2>2 DEF CommissionHalves
  <2>4. 2 * ((c * h) \div 2) = c * h
    BY <1>5, <2>3
  <2>5. QED  BY <2>1, <2>2, <2>3, <2>4
<1>7. QED  BY <1>1, <1>3, <1>6, TableOfCommissions

-----------------------------------------------------------------------------
(* Prices: the steps                                                        *)

LEMMA PricingStart ==
  ASSUME PricingInit
  PROVE  PricingIInv
BY PricingAssumption DEF PricingInit, PricingIInv, SaleAsComputed, QuoteAsComputed,
   CommissionFollowsTier

(* The plan is priced the same way in every step.                           *)
LEMMA PricingStep ==
  ASSUME PricingIInv, [PricingNext]_priceVars
  PROVE  PricingIInv'
<1> USE DEF PricingIInv
<1>1. CASE UNCHANGED priceVars
  BY <1>1 DEF priceVars, SaleAsComputed, QuoteAsComputed, CommissionFollowsTier, IsRetail
<1>2. CASE Offer
  BY <1>2 DEF Offer, SaleAsComputed, QuoteAsComputed, CommissionFollowsTier, IsRetail
<1>3. CASE IssuePolicy
  BY <1>3 DEF IssuePolicy, SaleAsComputed, QuoteAsComputed, CommissionFollowsTier, IsRetail
<1>4. ASSUME NEW days \in Stays, Correct(days) PROVE PricingIInv'
  <2>1. days \in Nat \ {0} /\ Stays \subseteq Nat \ {0}
    BY PricingAssumption
  <2>2. CommissionFollowsTier'
    BY <1>4 DEF Correct, CommissionFollowsTier, IsRetail
  <2>3. CASE ~Premium(plan, plan.columns, days, age).ok
    BY <1>4, <2>2, <2>3 DEF Correct, SaleAsComputed, QuoteAsComputed
  <2>4. CASE Premium(plan, plan.columns, days, age).ok
    <3>1. PICK premium : premium = Premium(plan, plan.columns, days, age).premium
      OBVIOUS
    <3>2. /\ sale' = [premium |-> premium, stay |-> days, age |-> age, edited |-> TRUE] /\ stay' = days
          /\ sale # Unset /\ UNCHANGED <<plan, zone, age, quote, line, birthdays>>
      BY <1>4, <2>4, <3>1 DEF Correct
    <3>3. premium \in Nat
      BY <2>1, <2>4, <3>1, PremiumKnown
    <3>4. sale' \in [premium : Nat, stay : Nat, age : Nat \cup {Unset}, edited : BOOLEAN]
      BY <2>1, <3>2, <3>3
    <3>5. sale' # Unset
      BY <3>4, PricingAssumption
    <3>6. SaleAsComputed'
      BY <2>4, <3>1, <3>2 DEF SaleAsComputed
    <3>7. QuoteAsComputed'
      BY <3>2, <3>5 DEF QuoteAsComputed
    <3>8. QED  BY <2>1, <2>2, <3>2, <3>6, <3>7
  <2>5. QED  BY <2>3, <2>4
<1>5. CASE Invoice
  <2>1. CommissionFollowsTier'
    BY <1>5, CommissionOfSale DEF Invoice, CommissionFollowsTier, IsRetail
  <2>2. QED  BY <1>5, <2>1 DEF Invoice, SaleAsComputed, QuoteAsComputed
<1>6. CASE Birthday
  BY <1>6 DEF Birthday, SaleAsComputed, QuoteAsComputed, CommissionFollowsTier, IsRetail
<1>7. QED  BY <1>1, <1>2, <1>3, <1>4, <1>5, <1>6 DEF PricingNext

(* However often a policy is corrected, invoiced and its holder grows older *)
(* meanwhile, its premium is the one of its stay and of his age then.       *)
THEOREM PricingInvariant == PricingSpec => []PricingIInv
<1>1. QED
  BY PricingStart, PricingStep, PTL DEF PricingSpec

(* The premium is the reference's, a plain sale costs what was quoted, and  *)
(* the commission is the one of the tier - for every plan, zone and age.    *)
THEOREM PricesHold == PricingSpec => []PricesAgree
<1>1. PricingIInv => PricesAgree
  BY PremiumIsReference, PlainIsQuoted DEF PricesAgree, PricingIInv
<1>2. QED
  BY <1>1, PricingInvariant, PTL

==============================================================================
