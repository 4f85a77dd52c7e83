-------------------------------- MODULE Uploads --------------------------------
(***************************************************************************)
(* The plans of the catalogue with their partner's logo, and the two       *)
(* contractual documents: rows that name a file on disk.  A request keeps  *)
(* row and disk in step by hand, one statement and one unlink at a time;   *)
(* a logo replaces its file before its row, a document its row before its  *)
(* file.  A file is named by the request that brought it, which stands for *)
(* the slot and the milliseconds in its name.                              *)
(***************************************************************************)
EXTENDS Naturals

CONSTANTS
  Plans,      \* ids of the catalogue
  Docs,       \* DOC_KEYS
  FileRequests,   \* requests on files
  NoFile,         \* no row, no file
  MaxFileFaults   \* bound, for model checking

FileSlots == Plans \cup Docs

ASSUME UploadsAssumption ==
  /\ NoFile \notin FileRequests /\ \A f \in FileRequests \cup {NoFile} : NoFile # [file |-> f]
  /\ Plans \cap Docs = {} /\ MaxFileFaults \in Nat

VARIABLES
  row,        \* catalogue and contractual_documents
  deleted,    \* plans deleted so far, whose ids do not come back
  disk,       \* the files under uploads/
  request,    \* the requests' local variables
  crowded,    \* slots on which two requests overlapped so far
  putBack,    \* files that a save of the text alone named again after their row had gone on
  fileFaults  \* statements that failed so far

uploadVars == <<row, deleted, disk, request, crowded, putBack, fileFaults>>

UploadsInit ==
  /\ row = [s \in FileSlots |-> NoFile]
  /\ deleted = {} /\ disk = {}
  /\ request = [t \in FileRequests |-> [pc |-> "new"]]
  /\ crowded = {} /\ putBack = {} /\ fileFaults = 0

Busy(t) == request[t].pc \notin {"new", "done"}
Becomes(t, job) == request' = [request EXCEPT ![t] = job]
Stands(t, pc) == request[t].pc = pc

(* The answer to t.                                                         *)
Replies(t, how) == Becomes(t, [request[t] EXCEPT !.pc = "done", !.how = how])

(* What t brought is removed again, and t answered with an error.           *)
Discards(t, how) == disk' = disk \ {t} /\ Replies(t, how)

Starts(t, s, op) ==
  /\ Stands(t, "new")
  /\ Becomes(t, [pc |-> op, slot |-> s, op |-> op, prev |-> NoFile, file |-> NoFile, how |-> NoFile])
  /\ crowded' = IF \E u \in FileRequests : Busy(u) /\ request[u].slot = s THEN crowded \cup {s} ELSE crowded

-----------------------------------------------------------------------------
(* The catalogue                                                            *)

(* A new plan has no logo.                                                  *)
CreateCatalogue(s) ==
  /\ s \in Plans \ deleted /\ row[s] = NoFile
  /\ row' = [row EXCEPT ![s] = [file |-> NoFile]]
  /\ UNCHANGED <<deleted, disk, request, crowded, putBack, fileFaults>>

(* The logo's file stays.                                                   *)
DeleteCatalogue(s) ==
  /\ s \in Plans /\ row[s] # NoFile
  /\ row' = [row EXCEPT ![s] = NoFile]
  /\ deleted' = deleted \cup {s}
  /\ UNCHANGED <<disk, request, crowded, putBack, fileFaults>>

(* uploadPartnerLogoMiddleware has stored the image.                        *)
UploadLogo(t, s) ==
  /\ s \in Plans /\ Starts(t, s, "logo")
  /\ disk' = disk \cup {t}
  /\ UNCHANGED <<row, deleted, putBack, fileFaults>>

RemoveLogo(t, s) ==
  /\ s \in Plans /\ Starts(t, s, "unlogo")
  /\ UNCHANGED <<row, deleted, disk, putBack, fileFaults>>

(* uploadPartnerInsurerLogo, deletePartnerInsurerLogo: the SELECT.          *)
LookAtPlan(t) ==
  LET s == request[t].slot IN
  /\ Stands(t, "logo") \/ Stands(t, "unlogo")
  /\ IF row[s] = NoFile
     THEN Discards(t, "refused")
     ELSE /\ Becomes(t, [request[t] EXCEPT !.pc = "looked", !.prev = row[s].file])
          /\ UNCHANGED disk
  /\ UNCHANGED <<row, deleted, crowded, putBack, fileFaults>>

UnlinkLogo(t) ==
  /\ Stands(t, "looked")
  /\ disk' = disk \ {request[t].prev}
  /\ Becomes(t, [request[t] EXCEPT !.pc = "unlinked"])
  /\ UNCHANGED <<row, deleted, crowded, putBack, fileFaults>>

(* The UPDATE, which finds no row when the plan has gone in the meantime.   *)
WriteLogo(t) ==
  LET s == request[t].slot IN
  /\ Stands(t, "unlinked")
  /\ row' = IF row[s] = NoFile THEN row
            ELSE [row EXCEPT ![s].file = IF request[t].op = "logo" THEN t ELSE NoFile]
  /\ Replies(t, "ok")
  /\ UNCHANGED <<deleted, disk, crowded, putBack, fileFaults>>

-----------------------------------------------------------------------------
(* Contractual documents                                                    *)

(* uploadContractualDocMiddleware has stored the file, if there is one; the *)
(* title or the description may be missing.                                 *)
UploadDocument(t, s, brings) ==
  /\ s \in Docs /\ Starts(t, s, IF brings THEN "document" ELSE "meta")
  /\ disk' = IF brings THEN disk \cup {t} ELSE disk
  /\ UNCHANGED <<row, deleted, putBack, fileFaults>>

Invalid(t) ==
  /\ Stands(t, "document") \/ Stands(t, "meta")
  /\ Discards(t, "refused")
  /\ UNCHANGED <<row, deleted, crowded, putBack, fileFaults>>

FileThere(s) == IF row[s] = NoFile THEN NoFile ELSE row[s].file

(* Without a file in the request, the one that is there is kept.            *)
FileToName(t, there) == IF request[t].op = "meta" THEN there ELSE t

LookAtDocument(t) ==
  LET there == FileThere(request[t].slot) IN
  /\ Stands(t, "document") \/ Stands(t, "meta")
  /\ IF request[t].op = "meta" /\ there = NoFile
     THEN Replies(t, "refused")
     ELSE Becomes(t, [request[t] EXCEPT !.pc = "checked", !.file = FileToName(t, there)])
  /\ UNCHANGED <<row, deleted, disk, crowded, putBack, fileFaults>>

(* assertValidPdfMagic                                                      *)
NotAPdf(t) ==
  /\ Stands(t, "checked") /\ request[t].op = "document"
  /\ Discards(t, "refused")
  /\ UNCHANGED <<row, deleted, crowded, putBack, fileFaults>>

(* upsertContractualDocument: the row before, then the row.                 *)
Previous(t) ==
  /\ Stands(t, "checked")
  /\ Becomes(t, [request[t] EXCEPT !.pc = "previous", !.prev = FileThere(request[t].slot)])
  /\ UNCHANGED <<row, deleted, disk, crowded, putBack, fileFaults>>

Upsert(t) ==
  LET s == request[t].slot
      f == request[t].file IN
  /\ Stands(t, "previous")
  /\ row' = [row EXCEPT ![s] = [file |-> f]]
  /\ putBack' = IF request[t].op = "meta" /\ FileThere(s) # f THEN putBack \cup {f} ELSE putBack
  /\ Becomes(t, [request[t] EXCEPT !.pc = "upserted"])
  /\ UNCHANGED <<deleted, disk, crowded, fileFaults>>

(* faulty: the file before is unlinked whatever the request brought         *)
ReplacedAlways(t) == {request[t].prev}

(* The file that the request has replaced.                                  *)
Replaced(t) ==
  IF request[t].op = "document" /\ request[t].prev # request[t].file THEN {request[t].prev} ELSE {}

(* The row is read again for the answer, and the file before unlinked.      *)
Current(t) ==
  /\ Stands(t, "upserted")
  /\ disk' = disk \ Replaced(t)
  /\ Replies(t, "ok")
  /\ UNCHANGED <<row, deleted, crowded, putBack, fileFaults>>

RemoveDocument(t, s) ==
  /\ s \in Docs /\ Starts(t, s, "remove")
  /\ UNCHANGED <<row, deleted, disk, putBack, fileFaults>>

(* deleteContractualDocument: the row, its deletion, then the file.         *)
LookBeforeRemoval(t) ==
  LET s == request[t].slot IN
  /\ Stands(t, "remove")
  /\ IF row[s] = NoFile
     THEN Replies(t, "refused")
     ELSE Becomes(t, [request[t] EXCEPT !.pc = "removing", !.prev = row[s].file])
  /\ UNCHANGED <<row, deleted, disk, crowded, putBack, fileFaults>>

DeleteRow(t) ==
  /\ Stands(t, "removing")
  /\ row' = [row EXCEPT ![request[t].slot] = NoFile]
  /\ Becomes(t, [request[t] EXCEPT !.pc = "removed"])
  /\ UNCHANGED <<deleted, disk, crowded, putBack, fileFaults>>

UnlinkRemoved(t) ==
  /\ Stands(t, "removed")
  /\ disk' = disk \ {request[t].prev}
  /\ Replies(t, "ok")
  /\ UNCHANGED <<row, deleted, crowded, putBack, fileFaults>>

Download(t, s) ==
  /\ s \in Docs /\ Starts(t, s, "download")
  /\ UNCHANGED <<row, deleted, disk, putBack, fileFaults>>

LookBeforeDownload(t) ==
  LET s == request[t].slot IN
  /\ Stands(t, "download")
  /\ IF row[s] = NoFile
     THEN Replies(t, "refused")
     ELSE Becomes(t, [request[t] EXCEPT !.pc = "sending", !.prev = row[s].file])
  /\ UNCHANGED <<row, deleted, disk, crowded, putBack, fileFaults>>

SendFile(t) ==
  /\ Stands(t, "sending")
  /\ Replies(t, IF request[t].prev \in disk THEN "sent" ELSE "missing")
  /\ UNCHANGED <<row, deleted, disk, crowded, putBack, fileFaults>>

(* A statement fails and what the request brought is removed: a document    *)
(* whose row is not read again is gone although the row names it.           *)
StatementFails(t) ==
  /\ request[t].pc \in {"logo", "unlogo", "unlinked", "document", "meta", "checked", "previous",
                     "upserted", "remove", "removing", "download"}
  /\ fileFaults < MaxFileFaults /\ fileFaults' = fileFaults + 1
  /\ Discards(t, IF Stands(t, "upserted") THEN "unread" ELSE "failed")
  /\ UNCHANGED <<row, deleted, crowded, putBack>>

UploadsNext ==
  \/ \E s \in Plans : CreateCatalogue(s)
  \/ \E s \in Plans : DeleteCatalogue(s)
  \/ \E t \in FileRequests :
       \/ \E s \in FileSlots :
            \/ UploadLogo(t, s) \/ RemoveLogo(t, s) \/ RemoveDocument(t, s) \/ Download(t, s)
            \/ \E brings \in BOOLEAN : UploadDocument(t, s, brings)
       \/ LookAtPlan(t) \/ UnlinkLogo(t) \/ WriteLogo(t)
       \/ Invalid(t) \/ LookAtDocument(t) \/ NotAPdf(t) \/ Previous(t) \/ Upsert(t) \/ Current(t)
       \/ LookBeforeRemoval(t) \/ DeleteRow(t) \/ UnlinkRemoved(t)
       \/ LookBeforeDownload(t) \/ SendFile(t)
       \/ StatementFails(t)

UploadsSpec == UploadsInit /\ [][UploadsNext]_uploadVars

-----------------------------------------------------------------------------
(* What is promised                                                         *)

(* Files come from requests that brought one, and a row names one that was  *)
(* brought for its slot.                                                    *)
UploadsTypeOK ==
  /\ \A f \in disk : request[f].pc # "new" /\ request[f].op \in {"logo", "document"}
  /\ \A s \in FileSlots : FileThere(s) # NoFile =>
       LET f == FileThere(s) IN request[f].slot = s /\ request[f].op \in {"logo", "document"}
  /\ \A s \in deleted : row[s] = NoFile

Quiet(s) == \A t \in FileRequests : Busy(t) => request[t].slot # s

(* The row of f's request was written and not read again.                   *)
Unread(f) == f \in FileRequests /\ request[f].pc = "done" /\ request[f].how = "unread"

(* The logo before is unlinked and the row still names it: the request goes *)
(* on, or its UPDATE has failed.                                            *)
Unlinked(t) ==
  \/ request[t].pc = "unlinked"
  \/ request[t].pc = "done" /\ request[t].how = "failed"

(* However uploads, removals and edits of a slot overlap, and whichever of  *)
(* their statements fail, a row names a file that is gone in three cases    *)
(* only: a logo by whose replacement it has just been unlinked, or was      *)
(* before the UPDATE failed; a document whose own request could not read    *)
(* its row again; a document that a save of the text alone has put back     *)
(* over what another request did meanwhile.                                 *)
NamedFileIsThere ==
  \A s \in FileSlots : LET f == FileThere(s) IN
    f # NoFile /\ f \notin disk =>
      IF s \in Plans
      THEN \E t \in FileRequests : request[t].pc # "new" /\ request[t].prev = f /\ Unlinked(t)
      ELSE f \in putBack \/ Unread(f)

(* The row names what t brought instead of f, and t never came to unlink f. *)
LeavesBehind(t, f) == Unread(t) /\ request[t].op = "document" /\ request[t].prev = f

(* Requests that do not overlap leave no file behind that no row names,     *)
(* even when they fail, but for the one just said; a deleted plan leaves    *)
(* its logo.                                                                *)
NothingLeftBehind ==
  \A f \in disk : LET s == request[f].slot IN
    Quiet(s) /\ s \notin crowded \cup deleted =>
      FileThere(s) = f \/ \E t \in FileRequests : LeavesBehind(t, f)

(* A reader is told that a document's file is missing only if requests on   *)
(* it overlapped, or if its own request could not read its row again.       *)
MissingOnlyIfRaced ==
  \A t \in FileRequests : request[t].pc = "done" /\ request[t].how = "missing" =>
    request[t].slot \in crowded \/ Unread(request[t].prev)

(* Disk and rows tell the same story.                                       *)
DiskMatchesRows == NamedFileIsThere /\ NothingLeftBehind /\ MissingOnlyIfRaced
=============================================================================
