--------------------------- MODULE DocumentsProofs ---------------------------
(***************************************************************************)
(* Theorems about Documents for any files and any number of concurrent     *)
(* requests.  Two facts carry the proof: who has moved a blob and not yet  *)
(* registered it is alone and its row does not exist; and from the day a   *)
(* deletion is past its retention, nothing is uploaded to the path again   *)
(* (Settled), so that the purge meets no confirmation.                     *)
(***************************************************************************)
EXTENDS Documents, TLAPS

Owns(r) == pc[r] \in {"insert", "cleanup"}

Saves(r) == pc[r] \in {"publish", "clear", "find", "write"}

Settled(f) ==
    /\ token[f] = "lapsed"
    /\ f \notin staged
    /\ \A r \in Requests : Owns(r) => job[r].file # f

\* What a request under way relies on.
JobKnows(r) ==
    LET f == job[r].file IN
    /\ pc[r] # "idle" => f \in Files
    /\ Owns(r) => f \in blob /\ life[f] = "none"
    /\ Saves(r) /\ life[f] = "none" => Settled(f) /\ f \in erased
    /\ pc[r] \in {"clear", "find", "write"} /\ job[r].avatar => public # NoFile

JobsKnow == \A r \in Requests : JobKnows(r)

ExpiredAreSettled == \A f \in Files : life[f] = "expired" \/ f \in erased => Settled(f)

ClaimIsExpired ==
    /\ claim # NoFile => life[claim] = "expired"
    /\ purge = "erased" => claim \in erased /\ claim \notin blob

StaleIsPastItsToken ==
    /\ \A f \in stale : token[f] = "lapsed"
    /\ purge = "staged" => \A f \in todo : token[f] = "lapsed" /\ (f \in staged => f \in stale)

IInv ==
    /\ TypeOK
    /\ JobsKnow
    /\ OneOwnerOfAMove
    /\ ExpiredAreSettled
    /\ ClaimIsExpired
    /\ StaleIsPastItsToken
    /\ RowHasBlob
    /\ NoOrphanBlob
    /\ AvatarIsPublished

-----------------------------------------------------------------------------
LEMMA InitInv == Init => IInv
BY DocumentsAssumption
   DEF Init, IInv, TypeOK, Job, NoJob, JobsKnow, JobKnows, Owns, Saves, OneOwnerOfAMove,
       ExpiredAreSettled, ClaimIsExpired, StaleIsPastItsToken, RowHasBlob, NoOrphanBlob,
       AvatarIsPublished

-----------------------------------------------------------------------------
(* Types *)

LEMMA Jobs ==
    /\ NoJob \in Job /\ NoJob.file = NoFile
    /\ \A j \in Job : /\ j.file \in Files \cup {NoFile}
                      /\ j.life \in {"live", "deleted"}
                      /\ j.others \subseteq Files
                      /\ \A S \in SUBSET Files :
                           /\ [j EXCEPT !.others = S] \in Job
                           /\ [j EXCEPT !.others = S].file = j.file
BY DEF Job, NoJob

LEMMA TypeStep == TypeOK /\ [Next]_vars => TypeOK'
<1> SUFFICES ASSUME TypeOK, [Next]_vars PROVE TypeOK'
  OBVIOUS
<1> USE DEF TypeOK, storage, table, requests, purger, history, Goto, Begin, End
<1>1. NoJob \in Job /\ NoJob.file = NoFile
  BY Jobs
<1>2. ASSUME NEW r \in Requests
      PROVE  /\ job[r] \in Job
             /\ pc[r] # "idle" => job[r].file \in Files
             /\ job[r].life \in {"live", "deleted"}
  BY Jobs
<1>3. ASSUME NEW r \in Requests, Abort(r) PROVE TypeOK'
  BY <1>1, <1>2, <1>3 DEF Abort
<1>4. ASSUME NEW r \in Requests, Stat(r) PROVE TypeOK'
  BY <1>1, <1>2, <1>4 DEF Stat
<1>5. ASSUME NEW r \in Requests, Discard(r) PROVE TypeOK'
  BY <1>1, <1>2, <1>5 DEF Discard
<1>6. ASSUME NEW r \in Requests, Move(r) PROVE TypeOK'
  BY <1>1, <1>2, <1>6 DEF Move
<1>7. ASSUME NEW r \in Requests, Insert(r) PROVE TypeOK'
  BY <1>1, <1>2, <1>7 DEF Insert
<1>8. ASSUME NEW r \in Requests, Cleanup(r) PROVE TypeOK'
  BY <1>1, <1>2, <1>8 DEF Cleanup
<1>9. ASSUME NEW r \in Requests, Die(r) PROVE TypeOK'
  BY <1>1, <1>2, <1>9 DEF Die
<1>10. ASSUME NEW r \in Requests, Publish(r) PROVE TypeOK'
  BY <1>1, <1>2, <1>10 DEF Publish
<1>11. ASSUME NEW r \in Requests, Clear(r) PROVE TypeOK'
  <2> DEFINE S == {f \in avatar \ {job[r].file} : life[f] = "live"}
  <2>1. S \in SUBSET Files
    OBVIOUS
  <2>2. /\ [job[r] EXCEPT !.others = S] \in Job
        /\ [job[r] EXCEPT !.others = S].file = job[r].file
    BY <1>2, <2>1, Jobs
  <2>3. job' = [job EXCEPT ![r] = [job[r] EXCEPT !.others = S]]
    BY <1>11 DEF Clear
  <2> HIDE DEF S
  <2> QED
    BY <1>2, <1>11, <2>2, <2>3 DEF Clear
<1>12. ASSUME NEW r \in Requests, Find(r) PROVE TypeOK'
  <2> DEFINE b == life[job[r].file] # "none"
             S == {c \in {"life", "avatar"} :
                     CASE c = "life"   -> job[r].life = "deleted" \/ life[job[r].file] # "live"
                       [] c = "avatar" -> job[r].avatar # (job[r].file \in avatar)}
             j == [job[r] EXCEPT !.found = b, !.changed = S]
  <2>1. /\ job' = [job EXCEPT ![r] = j]
        /\ pc[r] = "find"
        /\ pc' = [pc EXCEPT ![r] = "write"]
        /\ UNCHANGED <<storage, table, purger, history>>
    BY <1>12 DEF Find
  <2>2. b \in BOOLEAN /\ S \in SUBSET {"life", "avatar"}
    OBVIOUS
  <2> HIDE DEF b, S
  <2>3. j \in Job
    <3> DEFINE k == [job[r] EXCEPT !.found = b]
    <3>1. k \in Job
      BY <1>2, <2>2 DEF Job
    <3>2. j = [k EXCEPT !.changed = S]
      BY <1>2 DEF Job
    <3> HIDE DEF k, j
    <3> QED
      BY <2>2, <3>1, <3>2 DEF Job
  <2>4. j.file = job[r].file
    BY <1>2 DEF Job
  <2> HIDE DEF j
  <2> QED
    BY <1>2, <2>1, <2>3, <2>4
<1>13. ASSUME NEW r \in Requests, Update(r) PROVE TypeOK'
  <2>1. life' \in [Files -> {"none", "live", "deleted", "expired"}]
    BY <1>2, <1>13 DEF Update
  <2>2. avatar' \subseteq Files /\ \A f \in avatar' : life'[f] # "none"
    BY <1>2, <1>13 DEF Update
  <2> QED
    BY <1>1, <1>2, <1>13, <2>1, <2>2 DEF Update
<1>14. ASSUME NEW r \in Requests, Reinsert(r) PROVE TypeOK'
  <2>1. life' \in [Files -> {"none", "live", "deleted", "expired"}]
    BY <1>2, <1>14 DEF Reinsert
  <2>2. avatar' \subseteq Files /\ \A f \in avatar' : life'[f] # "none"
    BY <1>2, <1>14 DEF Reinsert
  <2> QED
    BY <1>1, <1>2, <1>14, <2>1, <2>2 DEF Reinsert
<1>15. ASSUME NEW r \in Requests, NEW f \in Files, BeginConfirm(r, f) PROVE TypeOK'
  <2> DEFINE j == On(f)
  <2>1. j \in Job /\ j.file = f
    BY DEF Job, NoJob, On
  <2>2. job' = [job EXCEPT ![r] = j]
    BY <1>15 DEF BeginConfirm
  <2> HIDE DEF j
  <2> QED
    BY DocumentsAssumption, <1>15, <2>1, <2>2 DEF BeginConfirm
<1>16. ASSUME NEW r \in Requests, NEW f \in Files, BeginDelete(r, f) PROVE TypeOK'
  <2> DEFINE b == (f \in avatar)
             j == [On(f) EXCEPT !.life = "deleted", !.avatar = b]
  <2>1. /\ job' = [job EXCEPT ![r] = j]
        /\ pc' = [pc EXCEPT ![r] = "find"]
        /\ UNCHANGED <<storage, table, purger, history>>
    BY <1>16 DEF BeginDelete
  <2>2. b \in BOOLEAN
    OBVIOUS
  <2> HIDE DEF b
  <2>3. j \in Job /\ j.file = f
    BY <2>2 DEF Job, NoJob, On
  <2> HIDE DEF j
  <2> QED
    BY DocumentsAssumption, <2>1, <2>3
<1>17. ASSUME NEW r \in Requests, NEW f \in Files, BeginRestore(r, f) PROVE TypeOK'
  <2> DEFINE b == (f \in avatar)
             j == [On(f) EXCEPT !.avatar = b]
  <2>1. /\ job' = [job EXCEPT ![r] = j]
        /\ pc' = [pc EXCEPT ![r] = "find"]
        /\ UNCHANGED <<storage, table, purger, history>>
    BY <1>17 DEF BeginRestore
  <2>2. b \in BOOLEAN
    OBVIOUS
  <2> HIDE DEF b
  <2>3. j \in Job /\ j.file = f
    BY <2>2 DEF Job, NoJob, On
  <2> HIDE DEF j
  <2> QED
    BY DocumentsAssumption, <2>1, <2>3
<1>18. ASSUME NEW r \in Requests, NEW f \in Files, BeginSetAvatar(r, f) PROVE TypeOK'
  <2> DEFINE b == TRUE
             j == [On(f) EXCEPT !.avatar = b]
  <2>1. /\ job' = [job EXCEPT ![r] = j]
        /\ pc' = [pc EXCEPT ![r] = "publish"]
        /\ UNCHANGED <<storage, table, purger, history>>
    BY <1>18 DEF BeginSetAvatar
  <2>2. b \in BOOLEAN
    OBVIOUS
  <2> HIDE DEF b
  <2>3. j \in Job /\ j.file = f
    BY <2>2 DEF Job, NoJob, On
  <2> HIDE DEF j
  <2> QED
    BY DocumentsAssumption, <2>1, <2>3
<1>19. CASE BeginPurge
  BY DocumentsAssumption, <1>19 DEF BeginPurge
<1>20. CASE Erase
  BY DocumentsAssumption, <1>20 DEF Erase
<1>21. CASE EraseFails
  BY DocumentsAssumption, <1>21 DEF EraseFails
<1>22. CASE CommitPurge
  BY DocumentsAssumption, <1>22 DEF CommitPurge
<1>23. CASE CommitPurgeFails
  BY DocumentsAssumption, <1>23 DEF CommitPurgeFails
<1>24. CASE ListStaged
  BY DocumentsAssumption, <1>24 DEF ListStaged
<1>25. CASE EndPurge
  BY DocumentsAssumption, <1>25 DEF EndPurge
<1>26. ASSUME NEW f \in Files, Claim(f) PROVE TypeOK'
  BY DocumentsAssumption, <1>26 DEF Claim
<1>27. ASSUME NEW f \in Files, SweepOne(f) PROVE TypeOK'
  BY DocumentsAssumption, <1>27 DEF SweepOne
<1>28. ASSUME NEW f \in Files, Sign(f) PROVE TypeOK'
  BY DocumentsAssumption, <1>28 DEF Sign
<1>29. ASSUME NEW f \in Files, Put(f) PROVE TypeOK'
  BY DocumentsAssumption, <1>29 DEF Put
<1>30. ASSUME NEW f \in Files, Lapse(f) PROVE TypeOK'
  BY DocumentsAssumption, <1>30 DEF Lapse
<1>31. ASSUME NEW f \in Files, Age(f) PROVE TypeOK'
  BY DocumentsAssumption, <1>31 DEF Age
<1>32. ASSUME NEW f \in Files, Expire(f) PROVE TypeOK'
  BY DocumentsAssumption, <1>32 DEF Expire
<1>33. CASE UNCHANGED vars
  BY <1>33 DEF vars
<1> QED
  BY <1>3, <1>4, <1>5, <1>6, <1>7, <1>8, <1>9, <1>10, <1>11, <1>12, <1>13, <1>14, <1>15, <1>16, <1>17, <1>18, <1>19, <1>20, <1>21, <1>22, <1>23, <1>24, <1>25, <1>26, <1>27, <1>28, <1>29, <1>30, <1>31, <1>32, <1>33 DEF Next, Serve, Purge

-----------------------------------------------------------------------------
(* The invariant *)

\* The SELECT of save() leaves alone what the request is about to write.
LEMMA FindKeeps ==
    ASSUME TypeOK, NEW r \in Requests, Find(r)
    PROVE  \E j : /\ job' = [job EXCEPT ![r] = j]
                  /\ j.file = job[r].file /\ j.avatar = job[r].avatar
<1> DEFINE b == life[job[r].file] # "none"
           S == {c \in {"life", "avatar"} :
                   CASE c = "life"   -> job[r].life = "deleted" \/ life[job[r].file] # "live"
                     [] c = "avatar" -> job[r].avatar # (job[r].file \in avatar)}
           j == [job[r] EXCEPT !.found = b, !.changed = S]
<1>1. job' = [job EXCEPT ![r] = j]
  BY DEF Find
<1> HIDE DEF b, S
<1>2. j.file = job[r].file /\ j.avatar = job[r].avatar
  BY DEF TypeOK, Job
<1> QED
  BY <1>1, <1>2

LEMMA Step == IInv /\ [Next]_vars => IInv'
<1> SUFFICES ASSUME IInv, [Next]_vars PROVE IInv'
  OBVIOUS
<1> USE DEF IInv, JobsKnow, JobKnows, Owns, Saves, Settled, OneOwnerOfAMove, ExpiredAreSettled,
            ClaimIsExpired, StaleIsPastItsToken, RowHasBlob, NoOrphanBlob, AvatarIsPublished,
            storage, table, requests, purger, history, Goto, Begin, End
<1>1. TypeOK /\ TypeOK'
  BY TypeStep
<1>2. NoJob.file = NoFile
  BY Jobs
<1>3. ASSUME NEW r \in Requests, Abort(r) PROVE IInv'
  BY <1>1, <1>2, <1>3 DEF Abort, TypeOK
<1>4. ASSUME NEW r \in Requests, Stat(r) PROVE IInv'
  BY <1>1, <1>2, <1>4 DEF Stat, TypeOK
<1>5. ASSUME NEW r \in Requests, Discard(r) PROVE IInv'
  BY <1>1, <1>2, <1>5 DEF Discard, TypeOK
<1>6. ASSUME NEW r \in Requests, Move(r) PROVE IInv'
  <2> DEFINE f == job[r].file
  <2>1. /\ pc[r] = "move" /\ f \in Files /\ f \in staged /\ f \notin blob
        /\ staged' = staged \ {f} /\ stale' = stale \ {f} /\ blob' = blob \cup {f}
        /\ UNCHANGED <<token, public, table, purger, erased>>
    BY <1>1, <1>6 DEF Move, TypeOK, Job
  <2>2. \A q \in Requests \ {r} : pc'[q] = pc[q] /\ job'[q] = job[q]
    BY <1>1, <1>6 DEF Move, TypeOK
  <2>3. \/ pc'[r] = "insert" /\ job'[r] = job[r] /\ lost' = lost
        \/ pc'[r] = "idle" /\ lost' = lost \cup {f}
    BY <1>1, <1>6 DEF Move, TypeOK
  <2>4. life[f] = "none" /\ f \notin erased
    BY <1>1, <2>1 DEF TypeOK
  <2> HIDE DEF f
  <2>5. JobsKnow'
    BY <1>1, <2>1, <2>2, <2>3, <2>4 DEF TypeOK, f
  <2>6. OneOwnerOfAMove' /\ NoOrphanBlob'
    BY <1>1, <2>1, <2>2, <2>3, <2>4 DEF TypeOK, f
  <2>7. ExpiredAreSettled' /\ ClaimIsExpired' /\ StaleIsPastItsToken'
    BY <1>1, <2>1, <2>2, <2>3, <2>4 DEF TypeOK, f
  <2> QED
    BY <1>1, <2>1, <2>5, <2>6, <2>7
<1>7. ASSUME NEW r \in Requests, Insert(r) PROVE IInv'
  BY <1>1, <1>2, <1>7 DEF Insert, TypeOK
<1>8. ASSUME NEW r \in Requests, Cleanup(r) PROVE IInv'
  BY <1>1, <1>2, <1>8 DEF Cleanup, TypeOK
<1>9. ASSUME NEW r \in Requests, Die(r) PROVE IInv'
  BY <1>1, <1>2, <1>9 DEF Die, TypeOK
<1>10. ASSUME NEW r \in Requests, Publish(r) PROVE IInv'
  BY <1>1, <1>2, <1>10 DEF Publish, TypeOK
<1>11. ASSUME NEW r \in Requests, Clear(r) PROVE IInv'
  BY <1>1, <1>2, <1>11 DEF Clear, TypeOK
<1>12. ASSUME NEW r \in Requests, Find(r) PROVE IInv'
  <2>1. PICK j : /\ job' = [job EXCEPT ![r] = j]
                 /\ j.file = job[r].file /\ j.avatar = job[r].avatar
    BY <1>1, <1>12, FindKeeps
  <2>2. /\ pc[r] = "find"
        /\ pc' = [pc EXCEPT ![r] = "write"]
        /\ UNCHANGED <<storage, table, purger, history>>
    BY <1>12 DEF Find
  <2>3. job'[r] = j /\ \A q \in Requests \ {r} : job'[q] = job[q]
    BY <1>1, <2>1 DEF TypeOK
  <2> QED
    BY <1>1, <2>1, <2>2, <2>3 DEF TypeOK
<1>13. ASSUME NEW r \in Requests, Update(r) PROVE IInv'
  <2> DEFINE f == job[r].file
  <2>1. /\ pc[r] = "write" /\ f \in Files
        /\ pc' = [pc EXCEPT ![r] = "idle"]
        /\ UNCHANGED <<storage, purger, history>>
    BY <1>1, <1>13 DEF Update, TypeOK, Job
  <2>2. job'[r] = NoJob /\ \A q \in Requests \ {r} : job'[q] = job[q]
    BY <1>1, <1>13 DEF Update, TypeOK
  <2>3. /\ \A g \in Files \ {f} : life'[g] = life[g]
        /\ life'[f] # life[f] =>
             life[f] # "none" /\ claim # f /\ life'[f] \in {"live", "deleted"}
    BY <1>1, <1>13 DEF Update, TypeOK, Job
  <2>4. avatar' # {} => avatar # {} \/ job[r].avatar
    BY <1>13 DEF Update
  <2> HIDE DEF f
  <2>5. JobsKnow' /\ OneOwnerOfAMove'
    BY <1>1, <2>1, <2>2, <2>3 DEF TypeOK, f
  <2>6. ExpiredAreSettled' /\ ClaimIsExpired' /\ StaleIsPastItsToken'
    BY <1>1, <2>1, <2>2, <2>3 DEF TypeOK
  <2>7. RowHasBlob' /\ NoOrphanBlob' /\ AvatarIsPublished'
    BY <1>1, <2>1, <2>2, <2>3, <2>4 DEF TypeOK, f
  <2> QED
    BY <1>1, <2>5, <2>6, <2>7
<1>14. ASSUME NEW r \in Requests, Reinsert(r) PROVE IInv'
  BY <1>1, <1>2, <1>14 DEF Reinsert, TypeOK
<1>15. ASSUME NEW r \in Requests, NEW f \in Files, BeginConfirm(r, f) PROVE IInv'
  <2>1. /\ pc[r] = "idle"
        /\ pc' = [pc EXCEPT ![r] = "stat"]
        /\ UNCHANGED <<storage, table, purger, history>>
    BY <1>15 DEF BeginConfirm
  <2>2. job'[r].file = f /\ job'[r].avatar = FALSE
    BY <1>1, <1>15 DEF BeginConfirm, On, NoJob, TypeOK
  <2>3. \A q \in Requests \ {r} : job'[q] = job[q]
    BY <1>1, <1>15 DEF BeginConfirm, TypeOK
  <2>4. f \in Files
    BY <1>15 DEF BeginConfirm
  <2> QED
    BY <1>1, <2>1, <2>2, <2>3, <2>4 DEF TypeOK
<1>16. ASSUME NEW r \in Requests, NEW f \in Files, BeginDelete(r, f) PROVE IInv'
  <2> DEFINE b == (f \in avatar)
             j == [On(f) EXCEPT !.life = "deleted", !.avatar = b]
  <2>1. /\ job' = [job EXCEPT ![r] = j]
        /\ pc[r] = "idle"
        /\ pc' = [pc EXCEPT ![r] = "find"]
        /\ UNCHANGED <<storage, table, purger, history>>
    BY <1>16 DEF BeginDelete
  <2>2. b \in BOOLEAN /\ (b => public # NoFile)
    OBVIOUS
  <2> HIDE DEF b
  <2>3. j.file = f /\ j.avatar = b
    BY <2>2 DEF On, NoJob
  <2> HIDE DEF j
  <2>4. job'[r] = j /\ \A q \in Requests \ {r} : job'[q] = job[q]
    BY <1>1, <2>1 DEF TypeOK
  <2>5. f \in Files /\ life[f] # "none"
    BY <1>16 DEF BeginDelete
  <2> QED
    BY <1>1, <2>1, <2>2, <2>3, <2>4, <2>5 DEF TypeOK
<1>17. ASSUME NEW r \in Requests, NEW f \in Files, BeginRestore(r, f) PROVE IInv'
  <2> DEFINE b == (f \in avatar)
             j == [On(f) EXCEPT !.avatar = b]
  <2>1. /\ job' = [job EXCEPT ![r] = j]
        /\ pc[r] = "idle"
        /\ pc' = [pc EXCEPT ![r] = "find"]
        /\ UNCHANGED <<storage, table, purger, history>>
    BY <1>17 DEF BeginRestore
  <2>2. b \in BOOLEAN /\ (b => public # NoFile)
    OBVIOUS
  <2> HIDE DEF b
  <2>3. j.file = f /\ j.avatar = b
    BY <2>2 DEF On, NoJob
  <2> HIDE DEF j
  <2>4. job'[r] = j /\ \A q \in Requests \ {r} : job'[q] = job[q]
    BY <1>1, <2>1 DEF TypeOK
  <2>5. f \in Files /\ life[f] # "none"
    BY <1>17 DEF BeginRestore
  <2> QED
    BY <1>1, <2>1, <2>2, <2>3, <2>4, <2>5 DEF TypeOK
<1>18. ASSUME NEW r \in Requests, NEW f \in Files, BeginSetAvatar(r, f) PROVE IInv'
  <2>1. /\ pc[r] = "idle"
        /\ pc' = [pc EXCEPT ![r] = "publish"]
        /\ UNCHANGED <<storage, table, purger, history>>
    BY <1>18 DEF BeginSetAvatar
  <2>2. job'[r].file = f /\ job'[r].avatar = TRUE
    BY <1>1, <1>18 DEF BeginSetAvatar, On, NoJob, TypeOK
  <2>3. \A q \in Requests \ {r} : job'[q] = job[q]
    BY <1>1, <1>18 DEF BeginSetAvatar, TypeOK
  <2>4. f \in Files /\ life[f] # "none"
    BY <1>18 DEF BeginSetAvatar
  <2> QED
    BY <1>1, <2>1, <2>2, <2>3, <2>4 DEF TypeOK
<1>19. CASE BeginPurge
  BY <1>1, DocumentsAssumption, <1>19 DEF BeginPurge, TypeOK
<1>20. CASE Erase
  BY <1>1, DocumentsAssumption, <1>20 DEF Erase, TypeOK
<1>21. CASE EraseFails
  BY <1>1, DocumentsAssumption, <1>21 DEF EraseFails, TypeOK
<1>22. CASE CommitPurge
  BY <1>1, DocumentsAssumption, <1>22 DEF CommitPurge, TypeOK
<1>23. CASE CommitPurgeFails
  BY <1>1, DocumentsAssumption, <1>23 DEF CommitPurgeFails, TypeOK
<1>24. CASE ListStaged
  BY <1>1, DocumentsAssumption, <1>24 DEF ListStaged, TypeOK
<1>25. CASE EndPurge
  BY <1>1, DocumentsAssumption, <1>25 DEF EndPurge, TypeOK
<1>26. ASSUME NEW f \in Files, Claim(f) PROVE IInv'
  BY <1>1, DocumentsAssumption, <1>26 DEF Claim, TypeOK, Eligible, Touches
<1>27. ASSUME NEW f \in Files, SweepOne(f) PROVE IInv'
  BY <1>1, DocumentsAssumption, <1>27 DEF SweepOne, TypeOK, Eligible, Touches
<1>28. ASSUME NEW f \in Files, Sign(f) PROVE IInv'
  BY <1>1, DocumentsAssumption, <1>28 DEF Sign, TypeOK, Eligible, Touches
<1>29. ASSUME NEW f \in Files, Put(f) PROVE IInv'
  BY <1>1, DocumentsAssumption, <1>29 DEF Put, TypeOK, Eligible, Touches
<1>30. ASSUME NEW f \in Files, Lapse(f) PROVE IInv'
  BY <1>1, DocumentsAssumption, <1>30 DEF Lapse, TypeOK, Eligible, Touches
<1>31. ASSUME NEW f \in Files, Age(f) PROVE IInv'
  BY <1>1, DocumentsAssumption, <1>31 DEF Age, TypeOK, Eligible, Touches
<1>32. ASSUME NEW f \in Files, Expire(f) PROVE IInv'
  BY <1>1, DocumentsAssumption, <1>32 DEF Expire, TypeOK, Eligible, Touches
<1>33. CASE UNCHANGED vars
  BY <1>1, <1>33 DEF vars, TypeOK
<1> QED
  BY <1>3, <1>4, <1>5, <1>6, <1>7, <1>8, <1>9, <1>10, <1>11, <1>12, <1>13, <1>14, <1>15, <1>16, <1>17, <1>18, <1>19, <1>20, <1>21, <1>22, <1>23, <1>24, <1>25, <1>26, <1>27, <1>28, <1>29, <1>30, <1>31, <1>32, <1>33 DEF Next, Serve, Purge

-----------------------------------------------------------------------------
(* Theorems *)

\* The invariant is inductive for any files and any number of requests.
THEOREM Inductive == Spec => []IInv
<1> QED
  BY InitInv, Step, PTL DEF Spec

\* Every variable keeps its type, and the purge holds a claim exactly while its
\* transaction is open.
THEOREM Types == Spec => []TypeOK
<1>1. IInv => TypeOK
  BY DEF IInv
<1> QED
  BY <1>1, Inductive, PTL

\* Whatever confirm, delete, restore, set_avatar and the purge do at once, a row
\* has its blob unless the purge had already told Storage to erase it.
THEOREM RowsHaveBlobs == Spec => []RowHasBlob
<1>1. IInv => RowHasBlob
  BY DEF IInv
<1> QED
  BY <1>1, Inductive, PTL

\* A blob without a row is being confirmed, or a crash or a lost answer left it.
THEOREM NoOrphans == Spec => []NoOrphanBlob
<1>1. IInv => NoOrphanBlob
  BY DEF IInv
<1> QED
  BY <1>1, Inductive, PTL

\* Of the confirmations of one path, one at most comes to own the moved blob.
THEOREM OneOwner == Spec => []OneOwnerOfAMove
<1>1. IInv => OneOwnerOfAMove
  BY DEF IInv
<1> QED
  BY <1>1, Inductive, PTL

\* set_avatar and restore set no flag before a picture is published.
THEOREM AvatarsArePublished == Spec => []AvatarIsPublished
<1>1. IInv => AvatarIsPublished
  BY DEF IInv
<1> QED
  BY <1>1, Inductive, PTL

\* No step, of the purge or of a confirmation's clean-up, destroys the blob of a
\* document that is live or within its retention.
THEOREM LiveDocumentsSurvive == Spec => NeverDestroyed
<1> DEFINE P == \A f \in blob : life[f] \in {"live", "deleted"} => f \in blob'
<1>1. IInv /\ [Next]_vars => [P]_vars
  <2> SUFFICES ASSUME IInv, Next PROVE P
    BY DEF vars
  <2> SUFFICES ASSUME NEW f \in blob, f \notin blob'
               PROVE  life[f] \notin {"live", "deleted"}
    OBVIOUS
  <2> USE DEF IInv, TypeOK, storage
  <2>1. ASSUME NEW r \in Requests, Serve(r)
        PROVE  Owns(r) /\ job[r].file = f
    BY <2>1 DEF Serve, Abort, Stat, Discard, Move, Insert, Cleanup, Die, Publish, Clear, Find,
                Update, Reinsert, BeginConfirm, BeginDelete, BeginRestore, BeginSetAvatar, Owns
  <2>2. CASE Purge
    <3>1. claim = f
      BY <2>2 DEF Purge, BeginPurge, Claim, Erase, EraseFails, CommitPurge, CommitPurgeFails,
                  ListStaged, SweepOne, EndPurge
    <3> QED
      BY <3>1, DocumentsAssumption DEF ClaimIsExpired
  <2>3. ASSUME NEW g \in Files, Sign(g) \/ Put(g) \/ Lapse(g) \/ Age(g) \/ Expire(g)
        PROVE  FALSE
    BY <2>3 DEF Sign, Put, Lapse, Age, Expire
  <2>4. ASSUME NEW r \in Requests, Owns(r), job[r].file = f
        PROVE  life[f] = "none"
    BY <2>4 DEF JobsKnow, JobKnows
  <2> QED
    BY <2>1, <2>2, <2>3, <2>4 DEF Next
<1> QED
  BY <1>1, Inductive, PTL DEF Spec, NeverDestroyed

\* The sweep takes away no staged upload that its user may still confirm.
THEOREM StagedUploadsSurvive == Spec => FreshUploadsSurvive
<1> DEFINE P == \A f \in staged \ stale : f \notin staged' =>
                  \E r \in Requests : pc[r] \in {"move", "discard"} /\ job[r].file = f
<1>1. IInv /\ [Next]_vars => [P]_vars
  <2> SUFFICES ASSUME IInv, Next PROVE P
    BY DEF vars
  <2> SUFFICES ASSUME NEW f \in staged \ stale, f \notin staged'
               PROVE  \E r \in Requests : pc[r] \in {"move", "discard"} /\ job[r].file = f
    OBVIOUS
  <2> USE DEF IInv, TypeOK, storage
  <2>1. ASSUME NEW r \in Requests, Serve(r)
        PROVE  pc[r] \in {"move", "discard"} /\ job[r].file = f
    BY <2>1 DEF Serve, Abort, Stat, Discard, Move, Insert, Cleanup, Die, Publish, Clear, Find,
                Update, Reinsert, BeginConfirm, BeginDelete, BeginRestore, BeginSetAvatar
  <2>2. CASE Purge
    <3>1. purge = "staged" /\ f \in todo
      BY <2>2 DEF Purge, BeginPurge, Claim, Erase, EraseFails, CommitPurge, CommitPurgeFails,
                  ListStaged, SweepOne, EndPurge
    <3> QED
      BY <3>1 DEF StaleIsPastItsToken
  <2>3. ASSUME NEW g \in Files, Sign(g) \/ Put(g) \/ Lapse(g) \/ Age(g) \/ Expire(g)
        PROVE  FALSE
    BY <2>3 DEF Sign, Put, Lapse, Age, Expire
  <2> QED
    BY <2>1, <2>2, <2>3 DEF Next
<1> QED
  BY <1>1, Inductive, PTL DEF Spec, FreshUploadsSurvive
=============================================================================
