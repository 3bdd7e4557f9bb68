------------------------------ MODULE Documents ------------------------------
(***************************************************************************)
(* The documents of one clan: a row of the documents table and an object   *)
(* of the private bucket for each, kept in step by the upload handler, the *)
(* command handler and the daily purge.  A file is named by the uuid its   *)
(* staged path was signed with, which its final path keeps.                *)
(*                                                                         *)
(* No transaction is open across a call of Storage in a request; the purge *)
(* alone holds one, and with it the row it claimed.  A call of Storage may *)
(* fail, and may have been carried out although its answer was lost; a     *)
(* COMMIT that fails has committed nothing.                                *)
(*                                                                         *)
(* Every document is a photo of one person, so that each may become the    *)
(* avatar; the row of the person is left out.  What check_upload_file      *)
(* refuses is left open: it may refuse any file.                           *)
(***************************************************************************)
EXTENDS FiniteSets

CONSTANTS
    Files,    \* uuids of files
    NoFile,
    Requests

ASSUME DocumentsAssumption == NoFile \notin Files

VARIABLES
    \* Storage
    token,   \* the signed URL of each file
    staged,  \* objects under uploads/
    stale,   \* those older than STAGED_UPLOAD_MAX_AGE
    blob,    \* objects under documents/
    public,  \* whose content the object of the avatars bucket has
    \* the documents table
    life,    \* is_deleted and deleted_at of each row
    avatar,  \* the rows with is_avatar
    \* requests
    pc,
    job,
    \* the purge
    purge,
    todo,    \* the ids, then the paths, that it has listed
    claim,   \* the row its open transaction has deleted
    \* history
    lost,    \* blobs left behind by a crash or by a lost answer of Storage
    erased   \* blobs of documents that the purge told Storage to delete

storage  == <<token, staged, stale, blob, public>>
table    == <<life, avatar>>
requests == <<pc, job>>
purger   == <<purge, todo, claim>>
history  == <<lost, erased>>

vars == <<storage, table, requests, purger, history>>

-----------------------------------------------------------------------------
(* Types *)

\* What a request is about to write: the row as it read and changed it, the
\* other avatars it found, and what save() found: whether the row is there and
\* which of its columns differ.
Job == [file    : Files \cup {NoFile},
        life    : {"live", "deleted"},
        avatar  : BOOLEAN,
        others  : SUBSET Files,
        found   : BOOLEAN,
        changed : SUBSET {"life", "avatar"}]

TypeOK ==
    /\ token \in [Files -> {"unsigned", "open", "lapsed"}]
    /\ staged \subseteq Files
    /\ stale \subseteq staged
    /\ blob \subseteq Files
    /\ public \in Files \cup {NoFile}
    /\ life \in [Files -> {"none", "live", "deleted", "expired"}]
    /\ avatar \subseteq Files
    /\ \A f \in avatar : life[f] # "none"
    /\ pc \in [Requests -> {"idle", "stat", "discard", "move", "insert", "cleanup",
                            "publish", "clear", "find", "write"}]
    /\ job \in [Requests -> Job]
    /\ \A r \in Requests : pc[r] # "idle" => job[r].file # NoFile
    /\ purge \in {"idle", "rows", "claimed", "erased", "staged"}
    /\ todo \subseteq Files
    /\ claim \in Files \cup {NoFile}
    /\ (claim # NoFile) <=> (purge \in {"claimed", "erased"})
    /\ lost \subseteq Files
    /\ erased \subseteq Files

NoJob == [file |-> NoFile, life |-> "live", avatar |-> FALSE, others |-> {},
          found |-> FALSE, changed |-> {}]

Init ==
    /\ token = [f \in Files |-> "unsigned"]
    /\ staged = {} /\ stale = {} /\ blob = {}
    /\ public = NoFile
    /\ life = [f \in Files |-> "none"]
    /\ avatar = {}
    /\ pc = [r \in Requests |-> "idle"]
    /\ job = [r \in Requests |-> NoJob]
    /\ purge = "idle" /\ todo = {} /\ claim = NoFile
    /\ lost = {} /\ erased = {}

-----------------------------------------------------------------------------
(* Requests *)

Goto(r, label) == pc' = [pc EXCEPT ![r] = label]

Begin(r, label, j) ==
    /\ pc[r] = "idle"
    /\ Goto(r, label)
    /\ job' = [job EXCEPT ![r] = j]

End(r) ==
    /\ Goto(r, "idle")
    /\ job' = [job EXCEPT ![r] = NoJob]

On(f) == [NoJob EXCEPT !.file = f]

\* A request that has changed nothing yet fails or dies: its transaction rolls
\* back, and what it did not find ends as a 404.
Abort(r) ==
    /\ pc[r] \in {"stat", "discard", "move", "publish", "clear", "find", "write"}
    /\ End(r)
    /\ UNCHANGED <<storage, table, purger, history>>

(* Upload: sign, PUT, confirm *)

Sign(f) ==
    /\ token[f] = "unsigned"
    /\ token' = [token EXCEPT ![f] = "open"]
    /\ UNCHANGED <<staged, stale, blob, public, table, requests, purger, history>>

\* The browser.  A second PUT is refused while the first object is there.
Put(f) ==
    /\ token[f] = "open"
    /\ f \notin staged
    /\ staged' = staged \cup {f}
    /\ UNCHANGED <<token, stale, blob, public, table, requests, purger, history>>

BeginConfirm(r, f) ==
    /\ token[f] # "unsigned"
    /\ Begin(r, "stat", On(f))
    /\ UNCHANGED <<storage, table, purger, history>>

Stat(r) ==
    /\ pc[r] = "stat"
    /\ job[r].file \in staged
    /\ \/ Goto(r, "move")
       \/ Goto(r, "discard")
    /\ UNCHANGED <<job, storage, table, purger, history>>

Discard(r) ==
    /\ pc[r] = "discard"
    /\ staged' = staged \ {job[r].file}
    /\ stale' = stale \ {job[r].file}
    /\ End(r)
    /\ UNCHANGED <<token, blob, public, table, purger, history>>

\* Mutant: a move that finds nothing to move counts as done.
MoveTwice(r) ==
    LET f == job[r].file IN
    /\ pc[r] = "move"
    /\ staged' = staged \ {f}
    /\ stale' = stale \ {f}
    /\ blob' = blob \cup {f}
    /\ Goto(r, "insert")
    /\ UNCHANGED <<job, lost, token, public, table, purger, erased>>

\* Storage moves onto nothing that exists.  When its answer is lost the request
\* fails before the row is saved.
Move(r) ==
    LET f == job[r].file IN
    /\ pc[r] = "move"
    /\ f \in staged
    /\ f \notin blob
    /\ staged' = staged \ {f}
    /\ stale' = stale \ {f}
    /\ blob' = blob \cup {f}
    /\ \/ Goto(r, "insert") /\ UNCHANGED <<job, lost>>
       \/ End(r) /\ lost' = lost \cup {f}
    /\ UNCHANGED <<token, public, table, purger, erased>>

Insert(r) ==
    LET f == job[r].file IN
    /\ pc[r] = "insert"
    /\ \/ /\ life[f] = "none"
          /\ life' = [life EXCEPT ![f] = "live"]
          /\ End(r)
       \/ Goto(r, "cleanup") /\ UNCHANGED <<job, life>>
    /\ UNCHANGED <<storage, avatar, purger, history>>

Cleanup(r) ==
    LET f == job[r].file IN
    /\ pc[r] = "cleanup"
    /\ \/ blob' = blob \ {f} /\ UNCHANGED lost
       \/ lost' = lost \cup {f} /\ UNCHANGED blob
    /\ End(r)
    /\ UNCHANGED <<token, staged, stale, public, table, purger, erased>>

\* The process dies between the move and the end of the confirmation.
Die(r) ==
    /\ pc[r] \in {"insert", "cleanup"}
    /\ lost' = lost \cup {job[r].file}
    /\ End(r)
    /\ UNCHANGED <<storage, table, purger, erased>>

(* Delete, restore, set_avatar: a read that opens no lock, then save() *)

BeginDelete(r, f) ==
    /\ life[f] = "live"
    /\ Begin(r, "find", [On(f) EXCEPT !.life = "deleted", !.avatar = (f \in avatar)])
    /\ UNCHANGED <<storage, table, purger, history>>

BeginRestore(r, f) ==
    /\ life[f] \in {"deleted", "expired"}
    /\ Begin(r, "find", [On(f) EXCEPT !.avatar = (f \in avatar)])
    /\ UNCHANGED <<storage, table, purger, history>>

BeginSetAvatar(r, f) ==
    /\ life[f] = "live"
    /\ Begin(r, "publish", [On(f) EXCEPT !.avatar = TRUE])
    /\ UNCHANGED <<storage, table, purger, history>>

\* publish_public downloads the document and uploads it to the avatars bucket.
Publish(r) ==
    /\ pc[r] = "publish"
    /\ job[r].file \in blob
    /\ public' = job[r].file
    /\ \/ Goto(r, "clear") /\ UNCHANGED job
       \/ End(r)
    /\ UNCHANGED <<token, staged, stale, blob, table, purger, history>>

Clear(r) ==
    /\ pc[r] = "clear"
    /\ job' = [job EXCEPT ![r].others = {f \in avatar \ {job[r].file} : life[f] = "live"}]
    /\ Goto(r, "find")
    /\ UNCHANGED <<storage, table, purger, history>>

\* The SELECT of save().  It sees a row that the purge has claimed but not
\* committed.  deleted_at is never the same twice.
Find(r) ==
    LET j == job[r] IN
    /\ pc[r] = "find"
    /\ job' = [job EXCEPT
         ![r].found = (life[j.file] # "none"),
         ![r].changed = {c \in {"life", "avatar"} :
             CASE c = "life"   -> j.life = "deleted" \/ life[j.file] # "live"
               [] c = "avatar" -> j.avatar # (j.file \in avatar)}]
    /\ Goto(r, "write")
    /\ UNCHANGED <<storage, table, purger, history>>

\* The UPDATE waits for the row lock of the claim, and fails if the row is gone.
Update(r) ==
    LET j == job[r] IN
    /\ pc[r] = "write"
    /\ j.found
    /\ \/ j.changed = {}
       \/ life[j.file] # "none" /\ claim # j.file
    /\ life' = IF "life" \in j.changed THEN [life EXCEPT ![j.file] = j.life] ELSE life
    /\ avatar' = LET rest == avatar \ j.others
                 IN  IF "avatar" \notin j.changed THEN rest
                     ELSE IF j.avatar THEN rest \cup {j.file} ELSE rest \ {j.file}
    /\ End(r)
    /\ UNCHANGED <<storage, purger, history>>

\* save() of a row it does not find inserts it.
Reinsert(r) ==
    LET j == job[r] IN
    /\ pc[r] = "write"
    /\ ~j.found
    /\ life[j.file] = "none"
    /\ life' = [life EXCEPT ![j.file] = j.life]
    /\ avatar' = IF j.avatar THEN avatar \cup {j.file} ELSE avatar
    /\ End(r)
    /\ UNCHANGED <<storage, purger, history>>

-----------------------------------------------------------------------------
(* The passing of time *)

\* The two hours of SIGNED_UPLOAD_TTL.
Lapse(f) ==
    /\ token[f] = "open"
    /\ token' = [token EXCEPT ![f] = "lapsed"]
    /\ UNCHANGED <<staged, stale, blob, public, table, requests, purger, history>>

\* The day of STAGED_UPLOAD_MAX_AGE, which outlasts the URL.
Age(f) ==
    /\ f \in staged
    /\ token[f] = "lapsed"
    /\ stale' = stale \cup {f}
    /\ UNCHANGED <<token, staged, blob, public, table, requests, purger, history>>

Touches(r, f) == pc[r] # "idle" /\ (job[r].file = f \/ f \in job[r].others)

\* The DOCUMENT_RETENTION_DAYS.  They outlast every request and signed URL, and
\* thirty daily sweeps of a second upload to the path.
Expire(f) ==
    /\ life[f] = "deleted"
    /\ token[f] = "lapsed"
    /\ f \notin staged
    /\ \A r \in Requests : ~Touches(r, f)
    /\ life' = [life EXCEPT ![f] = "expired"]
    /\ UNCHANGED <<storage, avatar, requests, purger, history>>

-----------------------------------------------------------------------------
(* The purge; its advisory lock admits one run at a time *)

Eligible(f) == life[f] = "expired"

BeginPurge ==
    /\ purge = "idle"
    /\ purge' = "rows"
    /\ todo' = {f \in Files : Eligible(f)}
    /\ UNCHANGED <<claim, storage, table, requests, history>>

\* Mutant: the claim takes every row that was listed.
ClaimListed(f) ==
    /\ purge = "rows"
    /\ f \in todo
    /\ todo' = todo \ {f}
    /\ purge' = "claimed"
    /\ claim' = f
    /\ UNCHANGED <<storage, table, requests, history>>

\* The guarded DELETE of a row, left uncommitted.
Claim(f) ==
    /\ purge = "rows"
    /\ f \in todo
    /\ todo' = todo \ {f}
    /\ IF Eligible(f) THEN purge' = "claimed" /\ claim' = f
                      ELSE UNCHANGED <<purge, claim>>
    /\ UNCHANGED <<storage, table, requests, history>>

Erase ==
    /\ purge = "claimed"
    /\ blob' = blob \ {claim}
    /\ erased' = erased \cup {claim}
    /\ purge' = "erased"
    /\ UNCHANGED <<token, staged, stale, public, table, requests, todo, claim, lost>>

\* Mutant: a failed deletion counts as "already gone".
EraseFailureSwallowed ==
    /\ purge = "claimed"
    /\ purge' = "erased"
    /\ UNCHANGED <<storage, table, requests, todo, claim, history>>

\* storage.delete raises; the object may be gone.
EraseFails ==
    /\ purge = "claimed"
    /\ \/ blob' = blob \ {claim} /\ erased' = erased \cup {claim}
       \/ UNCHANGED <<blob, erased>>
    /\ purge' = "rows"
    /\ claim' = NoFile
    /\ UNCHANGED <<token, staged, stale, public, table, requests, todo, lost>>

CommitPurge ==
    /\ purge = "erased"
    /\ life' = [life EXCEPT ![claim] = "none"]
    /\ avatar' = avatar \ {claim}
    /\ purge' = "rows"
    /\ claim' = NoFile
    /\ UNCHANGED <<storage, requests, todo, history>>

CommitPurgeFails ==
    /\ purge = "erased"
    /\ purge' = "rows"
    /\ claim' = NoFile
    /\ UNCHANGED <<storage, table, requests, todo, history>>

ListStaged ==
    /\ purge = "rows"
    /\ todo = {}
    /\ purge' = "staged"
    /\ todo' = stale
    /\ UNCHANGED <<claim, storage, table, requests, history>>

\* One path of the sweep; a failure never stops it.
SweepOne(f) ==
    /\ purge = "staged"
    /\ f \in todo
    /\ todo' = todo \ {f}
    /\ \/ staged' = staged \ {f} /\ stale' = stale \ {f}
       \/ UNCHANGED <<staged, stale>>
    /\ UNCHANGED <<token, blob, public, purge, claim, table, requests, history>>

\* The run is over, or its process died: its transaction rolls back.
EndPurge ==
    /\ purge # "idle"
    /\ purge' = "idle"
    /\ todo' = {}
    /\ claim' = NoFile
    /\ UNCHANGED <<storage, table, requests, history>>

-----------------------------------------------------------------------------
Serve(r) ==
    \/ Abort(r) \/ Stat(r) \/ Discard(r) \/ Move(r) \/ Insert(r) \/ Cleanup(r) \/ Die(r)
    \/ Publish(r) \/ Clear(r) \/ Find(r) \/ Update(r) \/ Reinsert(r)
    \/ \E f \in Files : \/ BeginConfirm(r, f) \/ BeginDelete(r, f)
                        \/ BeginRestore(r, f) \/ BeginSetAvatar(r, f)

Purge ==
    \/ BeginPurge \/ Erase \/ EraseFails \/ CommitPurge \/ CommitPurgeFails
    \/ ListStaged \/ EndPurge
    \/ \E f \in Files : Claim(f) \/ SweepOne(f)

Next ==
    \/ \E r \in Requests : Serve(r)
    \/ Purge
    \/ \E f \in Files : Sign(f) \/ Put(f) \/ Lapse(f) \/ Age(f) \/ Expire(f)

Spec == Init /\ [][Next]_vars

-----------------------------------------------------------------------------
(* Properties *)

\* A row points at a blob, whatever confirmations of one path, deletions,
\* restores and purges are under way.  The one exception: the purge had already
\* told Storage to erase the blob, and its transaction did not commit, or a
\* restore wrote the row again after it did.
RowHasBlob ==
    \A f \in Files : life[f] # "none" /\ f \notin blob => f \in erased

\* Neither a refused row nor the purge leaves an orphan under documents/: a blob
\* without a row is one a confirmation under way will register or delete, or one
\* that a crash or a lost answer of Storage left behind.
NoOrphanBlob ==
    \A f \in blob : life[f] = "none" =>
        \/ f \in lost
        \/ \E r \in Requests : pc[r] \in {"insert", "cleanup"} /\ job[r].file = f

\* No step destroys the blob of a document that is live, or deleted within its
\* retention: a restore that commits before the claim keeps its document.
NeverDestroyed ==
    [][\A f \in blob : life[f] \in {"live", "deleted"} => f \in blob']_vars

\* A staged upload that its user may still confirm is not swept: only the call
\* that confirms or refuses it takes it away.
FreshUploadsSurvive ==
    [][\A f \in staged \ stale : f \notin staged' =>
         \E r \in Requests : pc[r] \in {"move", "discard"} /\ job[r].file = f]_vars

\* Two confirmations of one path never both own the moved blob, so that the
\* clean-up of the one cannot delete the document of the other.
OneOwnerOfAMove ==
    \A q, r \in Requests :
        /\ pc[q] \in {"insert", "cleanup"} /\ pc[r] \in {"insert", "cleanup"}
        /\ job[q].file = job[r].file
        => q = r

\* An avatar flag stands for a published picture: set_avatar publishes first.
AvatarIsPublished == avatar # {} => public # NoFile
=============================================================================
