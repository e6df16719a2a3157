---------------------------- MODULE StorageProofs ----------------------------
(***************************************************************************)
(* What is stored and what is read again.  Three promises of               *)
(* lib/auth-state.js: what a restart finds in a file, what a transaction   *)
(* leaves in the key store, and what a cached get gives.  And two of what  *)
(* is written to be read by another run or another program: the session    *)
(* records of signal/session_record.js, the nodes of lib/binary-node.js.   *)
(***************************************************************************)
EXTENDS AuthFiles, KeyTransactions, KeyCache, Written,
        WellFoundedInduction, NaturalsInduction, SequenceTheorems, FiniteSetTheorems, TLAPS


(***************************************************************************)
(* Files, for any number of calls, crashes and milliseconds.  Nobody has   *)
(* heard of the success of a call whose data is still in a temporary file, *)
(* so that a rename never covers newer data; and as long as no two calls   *)
(* shared a temporary file, the one that is complete holds its call's data.*)
(***************************************************************************)
SaveStates == {"new", "called", "opened", "written", "cleanup", "unlink", "ok", "removed", "err"}

FileTypeOK ==
    /\ file \in Content
    /\ tmp \in [Stamps -> Content]
    /\ save \in [Saves -> [pc : SaveStates, at : Stamps]]
    /\ before \in [Saves -> SUBSET Saves]
    /\ millis \in Stamps /\ shared \in BOOLEAN

\* Only of calls that have succeeded does a later one know.
KnownSucceeded == \A s \in Saves : \A r \in before[s] : Succeeded(r)

\* Data in a temporary file is that of a call that writes there, and of which
\* nobody knows that it has succeeded.
TmpUnknown ==
    \A i \in Stamps : tmp[i] \in Saves =>
        /\ ~Succeeded(tmp[i]) /\ save[tmp[i]].pc \notin {"new", "unlink"}
        /\ save[tmp[i]].at = i

Alone ==
    ~shared =>
        /\ file # Torn
        /\ \A r, s \in Saves : HasTmp(r) /\ HasTmp(s) /\ save[r].at = save[s].at => r = s
        /\ \A s \in Saves : save[s].pc = "written" => tmp[save[s].at] = s

FileInv == FileTypeOK /\ KnownSucceeded /\ TmpUnknown /\ Alone /\ NoSaveUndone

LEMMA FileInitially == FileInit => FileInv
<1> SUFFICES ASSUME FileInit PROVE FileInv
    OBVIOUS
<1>1. 0 \in Stamps
    BY AuthFilesAssumption DEF Stamps
<1>2. FileTypeOK
    BY <1>1 DEF FileInit, FileTypeOK, Content, SaveStates
<1>3. ASSUME NEW s \in Saves PROVE save[s].pc = "new" /\ before[s] = {}
    BY DEF FileInit
<1>4. KnownSucceeded /\ TmpUnknown /\ Alone
    BY <1>3, AuthFilesAssumption DEF FileInit, KnownSucceeded, TmpUnknown, Alone, HasTmp, UsesTmp
<1>5. NoSaveUndone
    BY <1>3, AuthFilesAssumption DEF FileInit, NoSaveUndone
<1> QED BY <1>2, <1>4, <1>5 DEF FileInv

\* The step of one call from state to state.
LEMMA SaveMoves ==
    ASSUME FileTypeOK, NEW s \in Saves, NEW pc \in SaveStates, save' = [save EXCEPT ![s].pc = pc]
    PROVE  /\ save' \in [Saves -> [pc : SaveStates, at : Stamps]]
           /\ save'[s].pc = pc /\ \A r \in Saves : save'[r].at = save[r].at
           /\ \A r \in Saves : r # s => save'[r] = save[r]
BY DEF FileTypeOK

\* A step after which the same calls have succeeded, and that leaves the file.
LEMMA NothingUndone ==
    ASSUME FileInv, UNCHANGED <<file, before>>, \A s \in Saves : Succeeded(s)' <=> Succeeded(s),
           \A s \in Saves : (save'[s].pc = "ok" <=> save[s].pc = "ok") /\ (save'[s].pc = "removed" <=> save[s].pc = "removed")
    PROVE  KnownSucceeded' /\ NoSaveUndone'
BY DEF FileInv, FileTypeOK, KnownSucceeded, NoSaveUndone, Superseded

LEMMA CalledKeeps ==
    ASSUME FileInv, NEW s \in Saves, NEW removes \in BOOLEAN, SaveCalled(s, removes)
    PROVE  FileInv'
<1>1. FileTypeOK /\ KnownSucceeded /\ TmpUnknown /\ Alone /\ NoSaveUndone
    BY DEF FileInv
<1>2. PICK pc \in {"unlink", "called"} :
         save' = [save EXCEPT ![s] = [pc |-> pc, at |-> millis]] /\ (pc = "unlink" <=> removes)
    BY DEF SaveCalled
<1>3. /\ save[s].pc = "new" /\ UNCHANGED <<file, tmp, millis>>
      /\ before' = [before EXCEPT ![s] = {r \in Saves : Succeeded(r)}]
      /\ shared' = (shared \/ (~removes /\ \E r \in Saves : HasTmp(r) /\ save[r].at = millis))
    BY DEF SaveCalled
<1>4. /\ save' \in [Saves -> [pc : SaveStates, at : Stamps]]
      /\ save'[s].pc = pc /\ save'[s].at = millis
      /\ \A r \in Saves : r # s => save'[r] = save[r]
    BY <1>1, <1>2 DEF FileTypeOK, SaveStates
<1>5. FileTypeOK'
    BY <1>1, <1>3, <1>4 DEF FileTypeOK
<1>6. \A r \in Saves : Succeeded(r)' <=> Succeeded(r)
    BY <1>3, <1>4 DEF Succeeded
<1>7. ~Succeeded(s)
    BY <1>3 DEF Succeeded
<1>8. KnownSucceeded' /\ TmpUnknown'
    BY <1>1, <1>3, <1>4, <1>6 DEF KnownSucceeded, TmpUnknown, FileTypeOK
<1>9. Alone'
    <2>1. /\ \A r \in Saves : r # s => (HasTmp(r)' <=> HasTmp(r)) /\ save'[r].at = save[r].at
          /\ HasTmp(s)' <=> ~removes
        BY <1>2, <1>4 DEF HasTmp, UsesTmp
    <2> SUFFICES ASSUME ~shared' PROVE Alone'
        BY DEF Alone
    <2>2. ~shared /\ (removes \/ \A r \in Saves : HasTmp(r) => save[r].at # millis)
        BY <1>3
    <2>3. \A q, r \in Saves : HasTmp(q)' /\ HasTmp(r)' /\ save'[q].at = save'[r].at => q = r
        BY <1>1, <1>4, <2>1, <2>2 DEF Alone
    <2>4. \A r \in Saves : save'[r].pc = "written" => tmp'[save'[r].at] = r
        BY <1>1, <1>2, <1>3, <1>4, <2>2 DEF Alone
    <2> QED BY <1>1, <1>3, <2>2, <2>3, <2>4 DEF Alone
<1>10. NoSaveUndone'
    <2>1. \A r \in Saves : Superseded(r)' => Superseded(r)
        BY <1>1, <1>3, <1>6, <1>7 DEF Superseded, FileTypeOK
    <2>2. \A r \in Saves : /\ save'[r].pc = "ok" => save[r].pc = "ok"
                           /\ save[r].pc = "removed" => save'[r].pc = "removed"
        BY <1>3, <1>4
    <2> QED BY <1>1, <1>3, <2>1, <2>2 DEF NoSaveUndone
<1> QED BY <1>5, <1>8, <1>9, <1>10 DEF FileInv

\* Opening, failing and clearing up change the temporary file alone.
LEMMA TmpStepsKeep ==
    ASSUME FileInv, NEW s \in Saves, SaveOpen(s) \/ SaveFails(s) \/ SaveCleanup(s)
    PROVE  FileInv'
<1>1. FileTypeOK /\ KnownSucceeded /\ TmpUnknown /\ Alone /\ NoSaveUndone
    BY DEF FileInv
<1>2. PICK pc \in {"opened", "cleanup", "err"} :
         /\ save' = [save EXCEPT ![s].pc = pc]
         /\ pc = "err" => save[s].pc = "cleanup"
         /\ pc # "err" => UsesTmp(s)
    BY DEF SaveOpen, SaveFails, SaveCleanup, UsesTmp
<1>3. /\ UNCHANGED <<file, before, millis, shared>>
      /\ HasTmp(s)
    BY DEF SaveOpen, SaveFails, SaveCleanup, UsesTmp, HasTmp, SaveOpened
<1>4. PICK c \in {Torn, NoFile} : tmp' = tmp \/ tmp' = [tmp EXCEPT ![save[s].at] = c]
    BY DEF SaveOpen, SaveFails, SaveCleanup, SaveOpened, Cleaned
<1>5. /\ save' \in [Saves -> [pc : SaveStates, at : Stamps]]
      /\ save'[s].pc = pc /\ \A r \in Saves : save'[r].at = save[r].at
      /\ \A r \in Saves : r # s => save'[r] = save[r]
    BY <1>1, <1>2, SaveMoves DEF SaveStates
<1>6. FileTypeOK'
    BY <1>1, <1>3, <1>4, <1>5 DEF FileTypeOK, Content
<1>7. save[s].pc \in {"called", "opened", "written", "cleanup"}
    BY <1>3 DEF HasTmp, UsesTmp
<1>8. /\ \A r \in Saves : Succeeded(r)' <=> Succeeded(r)
      /\ \A r \in Saves : (save'[r].pc = "ok" <=> save[r].pc = "ok") /\ (save'[r].pc = "removed" <=> save[r].pc = "removed")
    BY <1>2, <1>5, <1>7 DEF Succeeded
<1>9. KnownSucceeded' /\ NoSaveUndone'
    BY <1>3, <1>8, NothingUndone
<1>10. TmpUnknown'
    <2>1. \A r \in Saves : save[r].pc \notin {"new", "unlink"} => save'[r].pc \notin {"new", "unlink"}
        BY <1>2, <1>5
    <2> QED BY <1>1, <1>4, <1>5, <1>8, <2>1, AuthFilesAssumption DEF TmpUnknown, FileTypeOK
<1>11. Alone'
    <2>1. \A r \in Saves : HasTmp(r)' => HasTmp(r)
        BY <1>3, <1>5 DEF HasTmp, UsesTmp
    <2> SUFFICES ASSUME ~shared' PROVE Alone'
        BY DEF Alone
    <2>2. \A r \in Saves : save'[r].pc = "written" => r # s /\ save[r].pc = "written" /\ HasTmp(r)
        BY <1>2, <1>5 DEF HasTmp, UsesTmp
    <2>3. \A r \in Saves : save'[r].pc = "written" => save[r].at # save[s].at /\ tmp[save[r].at] = r
        BY <1>1, <1>3, <2>2 DEF Alone
    <2>4. \A r \in Saves : save'[r].pc = "written" => tmp'[save'[r].at] = r
        BY <1>1, <1>4, <1>5, <2>3 DEF FileTypeOK
    <2> QED BY <1>1, <1>3, <1>5, <2>1, <2>4 DEF Alone
<1> QED BY <1>6, <1>9, <1>10, <1>11 DEF FileInv

LEMMA WrittenKeeps ==
    ASSUME FileInv, NEW s \in Saves, SaveWritten(s)
    PROVE  FileInv'
<1>1. FileTypeOK /\ KnownSucceeded /\ TmpUnknown /\ Alone /\ NoSaveUndone
    BY DEF FileInv
<1>2. save[s].pc = "opened" /\ save' = [save EXCEPT ![s].pc = "written"] /\ UNCHANGED <<before, millis, shared>>
    BY DEF SaveWritten
<1>3. /\ save' \in [Saves -> [pc : SaveStates, at : Stamps]]
      /\ save'[s].pc = "written" /\ \A r \in Saves : save'[r].at = save[r].at
      /\ \A r \in Saves : r # s => save'[r] = save[r]
    BY <1>1, <1>2, SaveMoves DEF SaveStates
<1>4. /\ \A r \in Saves : (Succeeded(r)' <=> Succeeded(r)) /\ (HasTmp(r)' <=> HasTmp(r))
      /\ \A r \in Saves : (save'[r].pc = "ok" <=> save[r].pc = "ok") /\ (save'[r].pc = "removed" <=> save[r].pc = "removed")
      /\ ~Succeeded(s) /\ HasTmp(s)
    BY <1>2, <1>3 DEF Succeeded, HasTmp, UsesTmp
<1>5. PICK c \in {s, Torn} :
         \/ tmp' = [tmp EXCEPT ![save[s].at] = c] /\ UNCHANGED file /\ (~shared => c = s)
         \/ shared /\ file' = c /\ UNCHANGED tmp
    BY DEF SaveWritten
<1>6. FileTypeOK'
    BY <1>1, <1>2, <1>3, <1>5 DEF FileTypeOK, Content
<1>7. TmpUnknown'
    <2>1. \A r \in Saves : save[r].pc \notin {"new", "unlink"} => save'[r].pc \notin {"new", "unlink"}
        BY <1>2, <1>3
    <2> QED BY <1>1, <1>3, <1>4, <1>5, <2>1, AuthFilesAssumption DEF TmpUnknown, FileTypeOK
<1>8. KnownSucceeded' /\ NoSaveUndone'
    <2>1. CASE UNCHANGED file
        BY <1>2, <1>4, <2>1, NothingUndone
    <2>2. CASE file' = c
        <3>1. KnownSucceeded'
            BY <1>1, <1>2, <1>4 DEF KnownSucceeded, FileTypeOK
        <3>2. file' # NoFile /\ (file' \in Saves => file' = s)
            BY <2>2, AuthFilesAssumption
        <3>3. ~Superseded(s)'
            BY <1>1, <1>2, <1>4 DEF KnownSucceeded, Superseded
        <3> QED BY <3>1, <3>2, <3>3 DEF NoSaveUndone
    <2> QED BY <1>5, <2>1, <2>2
<1>9. Alone'
    <2> SUFFICES ASSUME ~shared' PROVE Alone'
        BY DEF Alone
    <2>1. tmp' = [tmp EXCEPT ![save[s].at] = s] /\ UNCHANGED file /\ ~shared
        BY <1>2, <1>5
    <2>2. \A r \in Saves : r # s /\ HasTmp(r) => save[r].at # save[s].at
        BY <1>1, <1>4, <2>1 DEF Alone
    <2>3. \A r \in Saves : save'[r].pc = "written" => tmp'[save'[r].at] = r
        BY <1>1, <1>3, <2>1, <2>2 DEF FileTypeOK, Alone, HasTmp, UsesTmp
    <2> QED BY <1>1, <1>3, <1>4, <2>1, <2>3 DEF Alone
<1> QED BY <1>6, <1>7, <1>8, <1>9 DEF FileInv

\* The rename puts data into the file of which nobody knew that it had succeeded.
LEMMA RenamedKeeps ==
    ASSUME FileInv, NEW s \in Saves, SaveRenamed(s)
    PROVE  FileInv'
<1>1. FileTypeOK /\ KnownSucceeded /\ TmpUnknown /\ Alone /\ NoSaveUndone
    BY DEF FileInv
<1>2. save[s].pc = "written" /\ UNCHANGED <<before, millis, shared>>
    BY DEF SaveRenamed
<1>3. CASE tmp[save[s].at] = NoFile
    <2>1. save' = [save EXCEPT ![s].pc = "cleanup"] /\ UNCHANGED <<file, tmp>>
        BY <1>3 DEF SaveRenamed
    <2>2. /\ save' \in [Saves -> [pc : SaveStates, at : Stamps]]
          /\ save'[s].pc = "cleanup" /\ \A r \in Saves : save'[r].at = save[r].at
          /\ \A r \in Saves : r # s => save'[r] = save[r]
        BY <1>1, <2>1, SaveMoves DEF SaveStates
    <2>3. /\ \A r \in Saves : (Succeeded(r)' <=> Succeeded(r)) /\ (HasTmp(r)' <=> HasTmp(r))
          /\ \A r \in Saves : (save'[r].pc = "ok" <=> save[r].pc = "ok") /\ (save'[r].pc = "removed" <=> save[r].pc = "removed")
        BY <1>2, <2>2 DEF Succeeded, HasTmp, UsesTmp
    <2>4. KnownSucceeded' /\ NoSaveUndone'
        BY <1>2, <2>1, <2>3, NothingUndone
    <2> QED BY <1>1, <1>2, <2>1, <2>2, <2>3, <2>4 DEF FileInv, FileTypeOK, TmpUnknown, Alone
<1>4. CASE tmp[save[s].at] # NoFile
    <2> DEFINE c == tmp[save[s].at]
    <2>1. file' = c /\ tmp' = [tmp EXCEPT ![save[s].at] = NoFile] /\ save' = [save EXCEPT ![s].pc = "ok"]
        BY <1>4 DEF SaveRenamed
    <2>2. /\ save' \in [Saves -> [pc : SaveStates, at : Stamps]]
          /\ save'[s].pc = "ok" /\ \A r \in Saves : save'[r].at = save[r].at
          /\ \A r \in Saves : r # s => save'[r] = save[r]
        BY <1>1, <2>1, SaveMoves DEF SaveStates
    <2>3. c \in Content \ {NoFile} /\ (c \in Saves => ~Succeeded(c)) /\ save[s].at \in Stamps
        BY <1>1, <1>4 DEF FileTypeOK, TmpUnknown
    <2>4. ~shared => c = s
        BY <1>1, <1>2 DEF Alone
    <2>5. FileTypeOK'
        <3>1. tmp' \in [Stamps -> Content]
            BY <1>1, <2>1 DEF FileTypeOK, Content
        <3> QED BY <1>1, <1>2, <2>1, <2>2, <2>3, <3>1 DEF FileTypeOK
    <2>6. TmpUnknown'
        <3>1. ASSUME NEW i \in Stamps, NEW r \in Saves, tmp'[i] = r
              PROVE  ~Succeeded(r)' /\ save'[r].pc \notin {"new", "unlink"} /\ save'[r].at = i
            <4>1. i # save[s].at /\ tmp[i] = r
                BY <1>1, <2>1, <3>1, AuthFilesAssumption DEF FileTypeOK
            <4>2. ~Succeeded(r) /\ save[r].pc \notin {"new", "unlink"} /\ save[r].at = i
                BY <1>1, <4>1 DEF TmpUnknown
            <4>3. save'[r] = save[r]
                BY <2>2, <4>1, <4>2
            <4> QED BY <4>2, <4>3 DEF Succeeded
        <3> QED BY <3>1 DEF TmpUnknown, Succeeded
    <2>7. /\ ~Succeeded(s) /\ \A r \in Saves : Succeeded(r) => Succeeded(r)'
          /\ \A r \in Saves : HasTmp(r)' => HasTmp(r)
        BY <1>2, <2>2 DEF Succeeded, HasTmp, UsesTmp
    <2>8. KnownSucceeded'
        BY <1>1, <1>2, <2>7 DEF KnownSucceeded, FileTypeOK
    <2>9. NoSaveUndone'
        <3>1. c \in Saves => \A r \in Saves : c \notin before[r]
            BY <1>1, <2>3 DEF KnownSucceeded
        <3> QED BY <1>2, <2>1, <2>3, <3>1 DEF NoSaveUndone, Superseded
    <2>10. Alone'
        <3> SUFFICES ASSUME ~shared' PROVE Alone'
            BY DEF Alone
        <3>1. file' # Torn
            BY <1>2, <2>1, <2>4, AuthFilesAssumption
        <3>2. \A r \in Saves : save'[r].pc = "written" => r # s /\ save[r].pc = "written" /\ HasTmp(r)
            BY <2>2 DEF HasTmp, UsesTmp
        <3>3. HasTmp(s)
            BY <1>2 DEF HasTmp, UsesTmp
        <3>4. \A r \in Saves : save'[r].pc = "written" => save[r].at # save[s].at /\ tmp[save[r].at] = r
            BY <1>1, <1>2, <3>2, <3>3 DEF Alone
        <3>5. \A r \in Saves : save'[r].pc = "written" => tmp'[save'[r].at] = r
            BY <1>1, <2>1, <2>2, <3>4 DEF FileTypeOK
        <3> QED BY <1>1, <1>2, <2>2, <2>7, <3>1, <3>5 DEF Alone
    <2> QED BY <2>5, <2>6, <2>8, <2>9, <2>10 DEF FileInv
<1> QED BY <1>3, <1>4

LEMMA RemovedKeeps ==
    ASSUME FileInv, NEW s \in Saves, FileRemoved(s)
    PROVE  FileInv'
<1>1. FileTypeOK /\ KnownSucceeded /\ TmpUnknown /\ Alone /\ NoSaveUndone
    BY DEF FileInv
<1>2. /\ save[s].pc = "unlink" /\ file' = NoFile /\ save' = [save EXCEPT ![s].pc = "removed"]
      /\ UNCHANGED <<tmp, before, millis, shared>>
    BY DEF FileRemoved
<1>3. /\ save' \in [Saves -> [pc : SaveStates, at : Stamps]]
      /\ save'[s].pc = "removed" /\ \A r \in Saves : save'[r].at = save[r].at
      /\ \A r \in Saves : r # s => save'[r] = save[r]
    BY <1>1, <1>2, SaveMoves DEF SaveStates
<1>4. ~Succeeded(s) /\ \A r \in Saves : Succeeded(r) => Succeeded(r)'
    BY <1>2, <1>3 DEF Succeeded
<1>5. KnownSucceeded'
    BY <1>1, <1>2, <1>4 DEF KnownSucceeded, FileTypeOK
<1>6. NoSaveUndone'
    <2>1. ~Superseded(s)'
        BY <1>1, <1>2, <1>4 DEF KnownSucceeded, Superseded
    <2> QED BY <1>2, <1>3, <2>1, AuthFilesAssumption DEF NoSaveUndone
<1>7. Alone'
    <2>1. \A r \in Saves : (HasTmp(r)' <=> HasTmp(r)) /\ (save'[r].pc = "written" => save[r].pc = "written")
        BY <1>2, <1>3 DEF HasTmp, UsesTmp
    <2> QED BY <1>1, <1>2, <1>3, <2>1, AuthFilesAssumption DEF Alone
<1>8. TmpUnknown'
    <2>1. ASSUME NEW i \in Stamps, tmp[i] \in Saves PROVE tmp[i] # s
        BY <1>1, <1>2, <2>1 DEF TmpUnknown
    <2> QED BY <1>1, <1>2, <1>3, <2>1 DEF TmpUnknown, Succeeded
<1> QED BY <1>1, <1>2, <1>3, <1>5, <1>6, <1>7, <1>8 DEF FileInv, FileTypeOK, Content

LEMMA CrashKeeps ==
    ASSUME FileInv, Crash
    PROVE  FileInv'
<1>1. FileTypeOK /\ KnownSucceeded /\ TmpUnknown /\ Alone /\ NoSaveUndone
    BY DEF FileInv
<1>2. UNCHANGED <<file, tmp, before, millis, shared>>
    BY DEF Crash
<1>3. \A s \in Saves : save'[s] = IF Running(s) THEN [save[s] EXCEPT !.pc = "err"] ELSE save[s]
    BY DEF Crash
<1>4. /\ save' \in [Saves -> [pc : SaveStates, at : Stamps]]
      /\ \A s \in Saves : save'[s].at = save[s].at /\ save'[s].pc = (IF Running(s) THEN "err" ELSE save[s].pc)
    BY <1>1, <1>3 DEF Crash, FileTypeOK, SaveStates
<1>5. /\ \A s \in Saves : ~HasTmp(s)' /\ (Succeeded(s)' <=> Succeeded(s)) /\ save'[s].pc # "written"
      /\ \A s \in Saves : save[s].pc \notin {"new", "unlink"} => save'[s].pc \notin {"new", "unlink"}
      /\ \A s \in Saves : (save'[s].pc = "ok" <=> save[s].pc = "ok") /\ (save'[s].pc = "removed" <=> save[s].pc = "removed")
    BY <1>4 DEF HasTmp, UsesTmp, Running, Succeeded
<1>6. KnownSucceeded' /\ NoSaveUndone'
    BY <1>2, <1>5, NothingUndone
<1>7. TmpUnknown'
    BY <1>1, <1>2, <1>4, <1>5 DEF TmpUnknown
<1> QED BY <1>1, <1>2, <1>4, <1>5, <1>6, <1>7 DEF FileInv, FileTypeOK, Alone

LEMMA FileSteps == FileInv /\ [FileNext]_fileVars => FileInv'
<1> SUFFICES ASSUME FileInv, [FileNext]_fileVars PROVE FileInv'
    OBVIOUS
<1>1. ASSUME NEW s \in Saves, NEW removes \in BOOLEAN, SaveCalled(s, removes) PROVE FileInv'
    BY <1>1, CalledKeeps
<1>2. ASSUME NEW s \in Saves, SaveOpen(s) \/ SaveFails(s) \/ SaveCleanup(s) PROVE FileInv'
    BY <1>2, TmpStepsKeep
<1>3. ASSUME NEW s \in Saves, SaveWritten(s) PROVE FileInv'
    BY <1>3, WrittenKeeps
<1>4. ASSUME NEW s \in Saves, SaveRenamed(s) PROVE FileInv'
    BY <1>4, RenamedKeeps
<1>5. ASSUME NEW s \in Saves, FileRemoved(s) PROVE FileInv'
    BY <1>5, RemovedKeeps
<1>6. CASE Crash
    BY <1>6, CrashKeeps
<1>7. CASE Tick \/ UNCHANGED fileVars
    <2>1. UNCHANGED <<file, tmp, save, before, shared>> /\ millis' \in Stamps
        BY <1>7, AuthFilesAssumption DEF Tick, fileVars, FileInv, FileTypeOK, Stamps
    <2> QED BY <2>1 DEF FileInv, FileTypeOK, KnownSucceeded, TmpUnknown, Alone, NoSaveUndone, Superseded,
                        Succeeded, HasTmp, UsesTmp
<1> QED BY <1>1, <1>2, <1>3, <1>4, <1>5, <1>6, <1>7 DEF FileNext

\* Whenever the process dies, the file holds the whole of what some call wrote,
\* unless two calls had the temporary file of one millisecond; and never data
\* that was older than a call that has succeeded, and known to be.
THEOREM FilesAreSound == FileSpec => []FilesSound
<1>1. FileInv => FilesSound
    BY DEF FileInv, Alone, FilesSound, NeverTorn
<1> QED BY FileInitially, FileSteps, <1>1, PTL DEF FileSpec
-----------------------------------------------------------------------------
(***************************************************************************)
(* Transactions, for any number of them, of keys and of attempts.  What a  *)
(* context holds is what was set last, of the keys that were set in it;    *)
(* the commit has taken that, but for what was set since; and what was set *)
(* last of any other key is not the context's to change.                   *)
(***************************************************************************)
Context(v) == v[2]
HasBegun(c) == txState[c] \notin {"new", "nested"}
Committing(c) == txState[c] \in {"commit", "sleep", "failed", "ok"}

TxTyped ==
    /\ txState \in [Txs -> {"new", "outer", "nested", "commit", "sleep", "failed", "ok", "err"}]
    /\ activeTx \in Txs \cup {Nobody}
    /\ stored \in [TxKeys -> TxValue] /\ lastSet \in [TxKeys -> TxValue] /\ taken \in [TxKeys -> TxValue]
    /\ context = [cache |-> context.cache, mutations |-> context.mutations]
    /\ context.mutations \in [TxKeys -> TxValue]
    /\ \A t \in Txs : txState[t] \in {"outer", "commit", "sleep"} <=> activeTx = t

\* What is set in a context is the newest of all, and is there under its name.
ContextNewest ==
    activeTx # Nobody => \A k \in TxKeys :
        IF context.mutations[k] # Unset
        THEN context.mutations[k] = lastSet[k] /\ Context(lastSet[k]) = activeTx
        ELSE lastSet[k] # Unset => Context(lastSet[k]) # activeTx

\* The attempt under way writes all that was set, unless it was set since.
AllTaken ==
    activeTx # Nobody /\ txState[activeTx] \in {"commit", "sleep"} =>
        \A k \in TxKeys :
            /\ taken[k] # Unset => context.mutations[k] # Unset /\ Context(taken[k]) = activeTx
            /\ txState[activeTx] = "commit" /\ context.mutations[k] # taken[k]
                  => <<context.mutations[k], k>> \in missed

SetterBegan ==
    \A k \in TxKeys : lastSet[k] # Unset /\ Context(lastSet[k]) # Nobody => HasBegun(Context(lastSet[k]))

TxInv == TxTyped /\ ContextNewest /\ AllTaken /\ SetterBegan /\ AllOrNothing

LEMMA TxInitially == TxInit => TxInv
<1> SUFFICES ASSUME TxInit PROVE TxInv
    OBVIOUS
<1>1. /\ \A k \in TxKeys : stored[k] = Unset /\ lastSet[k] = Unset /\ taken[k] = Unset
      /\ activeTx = Nobody /\ \A t \in Txs : txState[t] = "new"
    BY DEF TxInit, NoKeys
<1>2. TxTyped
    BY <1>1, KeyTransactionsAssumption DEF TxInit, NoKeys, NewContext, TxTyped, TxValue
<1> QED BY <1>1, <1>2 DEF TxInv, ContextNewest, AllTaken, SetterBegan, AllOrNothing, NothingEarly, LastSetStored

\* A value is Unset, or names a context or Nobody.
LEMMA ContextOf ==
    ASSUME NEW v \in TxValue, v # Unset
    PROVE  Context(v) \in Txs \cup {Nobody}
BY DEF Context, TxValue

LEMMA StartKeeps ==
    ASSUME TxInv, NEW t \in Txs, TxStart(t)
    PROVE  TxInv'
<1>1. TxTyped /\ ContextNewest /\ AllTaken /\ SetterBegan /\ NothingEarly /\ LastSetStored
    BY DEF TxInv, AllOrNothing
<1>2. txState[t] = "new" /\ UNCHANGED <<stored, taken, lastSet, missed>>
    BY DEF TxStart
<1>3. CASE activeTx = Nobody
    <2>1. activeTx' = t /\ context' = NewContext /\ txState' = [txState EXCEPT ![t] = "outer"]
        BY <1>3 DEF TxStart
    <2>2. /\ txState'[t] = "outer" /\ \A u \in Txs : u # t => txState'[u] = txState[u]
          /\ \A k \in TxKeys : context'.mutations[k] = Unset
        BY <1>1, <2>1 DEF TxTyped, NewContext, NoKeys
    <2>3. TxTyped'
        <3>1. context'.mutations = NoKeys /\ context' = [cache |-> context'.cache, mutations |-> context'.mutations]
            BY <2>1 DEF NewContext
        <3>2. NoKeys \in [TxKeys -> TxValue]
            BY DEF NoKeys, TxValue
        <3>3. \A u \in Txs : txState'[u] \in {"outer", "commit", "sleep"} <=> activeTx' = u
            BY <1>1, <1>3, <2>1, <2>2, KeyTransactionsAssumption DEF TxTyped
        <3>4. txState' \in [Txs -> {"new", "outer", "nested", "commit", "sleep", "failed", "ok", "err"}]
            BY <1>1, <2>1 DEF TxTyped
        <3> QED BY <1>1, <1>2, <2>1, <3>1, <3>2, <3>3, <3>4 DEF TxTyped
    <2>4. \A k \in TxKeys : lastSet[k] # Unset => Context(lastSet[k]) # t
        BY <1>1, <1>2, KeyTransactionsAssumption DEF SetterBegan, HasBegun
    <2>5. \A k \in TxKeys : lastSet[k] # Unset => Context(lastSet[k]) \in Txs \cup {Nobody}
        BY <1>1, ContextOf DEF TxTyped
    <2>6. ContextNewest' /\ AllTaken' /\ SetterBegan'
        BY <1>1, <1>2, <2>1, <2>2, <2>4, <2>5 DEF ContextNewest, AllTaken, SetterBegan, HasBegun
    <2>7. NothingEarly'
        BY <1>1, <1>2, <2>2, ContextOf DEF NothingEarly, TxTyped, Context
    <2>8. LastSetStored'
        BY <1>1, <1>2, <2>2, <2>4, <2>5 DEF LastSetStored, Context
    <2> QED BY <2>3, <2>6, <2>7, <2>8 DEF TxInv, AllOrNothing
<1>4. CASE activeTx # Nobody
    <2>1. UNCHANGED <<activeTx, context>> /\ txState' = [txState EXCEPT ![t] = "nested"]
        BY <1>4 DEF TxStart
    <2>2. txState'[t] = "nested" /\ \A u \in Txs : u # t => txState'[u] = txState[u]
        BY <1>1, <2>1 DEF TxTyped
    <2>3. TxTyped' /\ activeTx # t
        BY <1>1, <1>2, <2>1, <2>2 DEF TxTyped
    <2>4. \A k \in TxKeys : lastSet[k] # Unset => Context(lastSet[k]) # t /\ Context(lastSet[k]) \in Txs \cup {Nobody}
        BY <1>1, <1>2, ContextOf, KeyTransactionsAssumption DEF SetterBegan, HasBegun, TxTyped
    <2>5. ContextNewest' /\ SetterBegan'
        BY <1>1, <1>2, <2>1, <2>2, <2>4 DEF ContextNewest, SetterBegan, HasBegun
    <2>6. AllTaken'
        BY <1>1, <1>2, <2>1, <2>2, <2>3 DEF AllTaken, TxTyped
    <2>7. NothingEarly'
        BY <1>1, <1>2, <2>2, ContextOf DEF NothingEarly, TxTyped, Context
    <2>8. LastSetStored'
        BY <1>1, <1>2, <2>2, <2>4 DEF LastSetStored, Context
    <2> QED BY <2>3, <2>5, <2>6, <2>7, <2>8 DEF TxInv, AllOrNothing
<1> QED BY <1>3, <1>4

LEMMA SetKeeps ==
    ASSUME TxInv, NEW t \in Txs, NEW k \in TxKeys, TxSet(t, k)
    PROVE  TxInv'
<1> DEFINE v == <<t, activeTx>>
<1>1. TxTyped /\ ContextNewest /\ AllTaken /\ SetterBegan /\ NothingEarly /\ LastSetStored
    BY DEF TxInv, AllOrNothing
<1>2. /\ lastSet' = [lastSet EXCEPT ![k] = v] /\ UNCHANGED <<activeTx, txState, taken>>
      /\ stored' = IF activeTx = Nobody THEN [stored EXCEPT ![k] = v] ELSE stored
    BY DEF TxSet, TxWrite
<1>3. v \in TxValue /\ v # Unset /\ Context(v) = activeTx /\ v[2] = activeTx
    BY <1>1, KeyTransactionsAssumption DEF TxTyped, TxValue, Context
<1> HIDE DEF v
<1>4. lastSet' \in [TxKeys -> TxValue] /\ stored' \in [TxKeys -> TxValue]
      /\ lastSet'[k] = v /\ \A l \in TxKeys : l # k => lastSet'[l] = lastSet[l] /\ stored'[l] = stored[l]
    BY <1>1, <1>2, <1>3 DEF TxTyped
<1>5. activeTx # Nobody => activeTx \in Txs /\ txState[activeTx] \in {"outer", "commit", "sleep"}
    BY <1>1 DEF TxTyped
<1>6. SetterBegan'
    BY <1>1, <1>2, <1>3, <1>4, <1>5 DEF SetterBegan, HasBegun
<1>7. CASE activeTx = Nobody
    <2>1. UNCHANGED <<context, missed>> /\ stored'[k] = v
        BY <1>1, <1>2, <1>3, <1>7 DEF TxSet, TxTyped
    <2>2. TxTyped' /\ ContextNewest' /\ AllTaken'
        BY <1>1, <1>2, <1>4, <1>7, <2>1 DEF TxTyped, ContextNewest, AllTaken
    <2>3. NothingEarly'
        BY <1>1, <1>2, <1>3, <1>4, <1>7, <2>1 DEF NothingEarly
    <2>4. LastSetStored'
        BY <1>1, <1>2, <1>4, <2>1 DEF LastSetStored
    <2> QED BY <1>6, <2>2, <2>3, <2>4 DEF TxInv, AllOrNothing
<1>8. CASE activeTx # Nobody
    <2>1. /\ context' = [context EXCEPT !.cache[k] = v, !.mutations[k] = v] /\ UNCHANGED stored
          /\ missed' = IF txState[activeTx] = "commit" THEN missed \cup {<<v, k>>} ELSE missed
        BY <1>2, <1>8 DEF TxSet, Buffered, v
    <2>2. /\ context'.mutations = [context.mutations EXCEPT ![k] = v]
          /\ context' = [cache |-> context'.cache, mutations |-> context'.mutations]
        BY <1>1, <2>1 DEF TxTyped
    <2>3. /\ context'.mutations \in [TxKeys -> TxValue] /\ context'.mutations[k] = v
          /\ \A l \in TxKeys : l # k => context'.mutations[l] = context.mutations[l]
        BY <1>1, <1>3, <2>2 DEF TxTyped
    <2>4. TxTyped'
        BY <1>1, <1>2, <1>4, <2>2, <2>3 DEF TxTyped
    <2>5. ContextNewest'
        BY <1>1, <1>2, <1>3, <1>4, <1>8, <2>3 DEF ContextNewest
    <2>6. AllTaken'
        <3> SUFFICES ASSUME txState[activeTx] \in {"commit", "sleep"}, NEW l \in TxKeys
                     PROVE  /\ taken[l] # Unset => context'.mutations[l] # Unset /\ Context(taken[l]) = activeTx
                            /\ txState[activeTx] = "commit" /\ context'.mutations[l] # taken[l]
                                  => <<context'.mutations[l], l>> \in missed'
            BY <1>2 DEF AllTaken, Context
        <3>1. /\ taken[l] # Unset => context.mutations[l] # Unset /\ Context(taken[l]) = activeTx
              /\ txState[activeTx] = "commit" /\ context.mutations[l] # taken[l]
                    => <<context.mutations[l], l>> \in missed
            BY <1>1, <1>8 DEF AllTaken
        <3>2. CASE l = k
            BY <1>3, <2>1, <2>3, <3>1, <3>2
        <3>3. CASE l # k
            BY <2>1, <2>3, <3>1, <3>3
        <3> QED BY <3>2, <3>3
    <2>7. NothingEarly'
        BY <1>1, <1>2, <2>1 DEF NothingEarly
    <2>8. LastSetStored'
        BY <1>1, <1>2, <1>3, <1>4, <1>5, <1>8, <2>1 DEF LastSetStored
    <2> QED BY <1>6, <2>4, <2>5, <2>6, <2>7, <2>8 DEF TxInv, AllOrNothing
<1> QED BY <1>7, <1>8

\* The work returns or throws: a context is handed to the commit, or let go.
LEMMA WorkEndKeeps ==
    ASSUME TxInv, NEW t \in Txs, TxReturn(t) \/ TxThrow(t)
    PROVE  TxInv'
<1>1. TxTyped /\ ContextNewest /\ AllTaken /\ SetterBegan /\ NothingEarly /\ LastSetStored
    BY DEF TxInv, AllOrNothing
<1>2. PICK to \in {"commit", "ok", "err"} :
         /\ txState' = [txState EXCEPT ![t] = to]
         /\ to = "commit" => txState[t] = "outer" /\ taken' = context.mutations /\ UNCHANGED activeTx
         /\ to = "ok" => txState[t] = "nested" /\ UNCHANGED <<taken, activeTx>>
         /\ to = "err" => UNCHANGED taken /\ activeTx' = IF t = activeTx THEN Nobody ELSE activeTx
    <2>1. CASE TxReturn(t) /\ txState[t] = "outer"
        BY <2>1 DEF TxReturn
    <2>2. CASE TxReturn(t) /\ txState[t] # "outer"
        BY <2>2 DEF TxReturn, Working
    <2>3. CASE TxThrow(t)
        BY <2>3 DEF TxThrow, ContextAfterFailure, EndsContext
    <2> QED BY <2>1, <2>2, <2>3
<1>3. txState[t] \in {"outer", "nested"} /\ UNCHANGED <<stored, context, lastSet, missed>>
    BY DEF TxReturn, TxThrow, Working
<1>4. /\ txState' \in [Txs -> {"new", "outer", "nested", "commit", "sleep", "failed", "ok", "err"}]
      /\ txState'[t] = to /\ \A u \in Txs : u # t => txState'[u] = txState[u]
    BY <1>1, <1>2 DEF TxTyped
<1>5. \A u \in Txs : txState[u] \in {"outer", "commit", "sleep"} <=> activeTx = u
    BY <1>1 DEF TxTyped
<1>6. TxTyped'
    <2>1. \A u \in Txs : txState'[u] \in {"outer", "commit", "sleep"} <=> activeTx' = u
        BY <1>2, <1>3, <1>4, <1>5, KeyTransactionsAssumption
    <2> QED BY <1>1, <1>2, <1>3, <1>4, <2>1 DEF TxTyped
<1>7. \A k \in TxKeys : lastSet[k] # Unset => Context(lastSet[k]) \in Txs \cup {Nobody}
    BY <1>1, ContextOf DEF TxTyped
<1>8. ContextNewest'
    BY <1>1, <1>2, <1>3 DEF ContextNewest
<1>9. AllTaken'
    <2>1. CASE to = "commit"
        BY <1>1, <1>2, <1>3, <1>4, <1>5, <2>1 DEF AllTaken, ContextNewest
    <2>2. CASE to # "commit"
        BY <1>1, <1>2, <1>3, <1>4, <1>5, <2>2 DEF AllTaken, TxTyped
    <2> QED BY <2>1, <2>2
<1>10. SetterBegan'
    BY <1>1, <1>3, <1>4, <1>2, <1>7 DEF SetterBegan, HasBegun
<1>11. NothingEarly'
    BY <1>1, <1>3, <1>4, ContextOf DEF NothingEarly, TxTyped, Context
<1>12. LastSetStored'
    <2>1. \A k \in TxKeys : lastSet[k] # Unset /\ Context(lastSet[k]) = t => to # "ok"
        BY <1>1, <1>2, KeyTransactionsAssumption DEF SetterBegan, HasBegun
    <2> QED BY <1>1, <1>3, <1>4, <1>7, <2>1 DEF LastSetStored, Context
<1> QED BY <1>6, <1>8, <1>9, <1>10, <1>11, <1>12 DEF TxInv, AllOrNothing

\* What a get fetched changes the cache of the context alone.
LEMMA FetchKeeps ==
    ASSUME TxInv, UNCHANGED <<stored, activeTx, txState, taken, lastSet, missed>>,
           UNCHANGED context \/ \E f \in fetching : context' = [context EXCEPT !.cache[f[2]] = f[3]]
    PROVE  TxInv'
<1>1. TxTyped /\ ContextNewest /\ AllTaken /\ SetterBegan /\ NothingEarly /\ LastSetStored
    BY DEF TxInv, AllOrNothing
<1>2. context'.mutations = context.mutations /\ context' = [cache |-> context'.cache, mutations |-> context'.mutations]
    BY <1>1 DEF TxTyped
<1>3. TxTyped'
    BY <1>1, <1>2 DEF TxTyped
<1> QED BY <1>1, <1>2, <1>3 DEF TxInv, ContextNewest, AllTaken, SetterBegan, HasBegun, AllOrNothing, NothingEarly, LastSetStored

LEMMA CommittedKeeps ==
    ASSUME TxInv, NEW t \in Txs, TxCommitted(t)
    PROVE  TxInv'
<1>1. TxTyped /\ ContextNewest /\ AllTaken /\ SetterBegan /\ NothingEarly /\ LastSetStored
    BY DEF TxInv, AllOrNothing
<1>2. /\ txState[t] = "commit" /\ txState' = [txState EXCEPT ![t] = "ok"] /\ activeTx' = Nobody
      /\ stored' = [k \in TxKeys |-> IF taken[k] # Unset THEN taken[k] ELSE stored[k]]
      /\ UNCHANGED <<context, taken, lastSet, missed>>
    BY DEF TxCommitted
<1>3. /\ txState' \in [Txs -> {"new", "outer", "nested", "commit", "sleep", "failed", "ok", "err"}]
      /\ txState'[t] = "ok" /\ \A u \in Txs : u # t => txState'[u] = txState[u]
    BY <1>1, <1>2 DEF TxTyped
<1>4. activeTx = t /\ t # Nobody /\ \A u \in Txs : u # t => txState[u] \notin {"outer", "commit", "sleep"}
    BY <1>1, <1>2, KeyTransactionsAssumption DEF TxTyped
<1>5. TxTyped'
    <2>1. stored' \in [TxKeys -> TxValue]
        BY <1>1, <1>2 DEF TxTyped
    <2>2. \A u \in Txs : txState'[u] \in {"outer", "commit", "sleep"} <=> activeTx' = u
        BY <1>2, <1>3, <1>4, KeyTransactionsAssumption
    <2> QED BY <1>1, <1>2, <1>3, <2>1, <2>2 DEF TxTyped
<1>6. \A k \in TxKeys : /\ lastSet[k] # Unset => Context(lastSet[k]) \in Txs \cup {Nobody}
                        /\ stored[k] # Unset => Context(stored[k]) \in Txs \cup {Nobody}
    BY <1>1, ContextOf DEF TxTyped
<1>7. ContextNewest' /\ AllTaken' /\ SetterBegan'
    BY <1>1, <1>2, <1>3, <1>6 DEF ContextNewest, AllTaken, SetterBegan, HasBegun
<1>8. NothingEarly'
    <2>1. \A k \in TxKeys : taken[k] # Unset => taken[k][2] = t
        BY <1>1, <1>2, <1>4 DEF AllTaken, Context
    <2> QED BY <1>1, <1>2, <1>3, <1>6, <2>1 DEF NothingEarly, Context
<1>9. ASSUME NEW k \in TxKeys, lastSet[k] # Unset,
             Context(lastSet[k]) = Nobody \/ txState'[Context(lastSet[k])] = "ok"
      PROVE  stored'[k] = lastSet[k] \/ <<lastSet[k], k>> \in missed
    <2>1. CASE context.mutations[k] # Unset
        <3>1. lastSet[k] = context.mutations[k]
            BY <1>1, <1>4, <2>1 DEF ContextNewest
        <3>2. context.mutations[k] # taken[k] => <<context.mutations[k], k>> \in missed
            BY <1>1, <1>2, <1>4 DEF AllTaken
        <3> QED BY <1>2, <1>9, <3>1, <3>2
    <2>2. CASE context.mutations[k] = Unset
        <3>1. Context(lastSet[k]) # t
            BY <1>1, <1>4, <1>9, <2>2 DEF ContextNewest
        <3>2. stored'[k] = stored[k]
            BY <1>1, <1>2, <1>4, <2>2 DEF AllTaken
        <3>3. Context(lastSet[k]) = Nobody \/ txState[Context(lastSet[k])] = "ok"
            BY <1>3, <1>6, <1>9, <3>1
        <3> QED BY <1>1, <1>9, <3>2, <3>3 DEF LastSetStored, Context
    <2> QED BY <2>1, <2>2
<1>10. LastSetStored'
    BY <1>2, <1>9 DEF LastSetStored, Context
<1> QED BY <1>5, <1>7, <1>8, <1>10 DEF TxInv, AllOrNothing

LEMMA CommitFailsKeeps ==
    ASSUME TxInv, NEW t \in Txs, TxCommitFails(t)
    PROVE  TxInv'
<1>1. TxTyped /\ ContextNewest /\ AllTaken /\ SetterBegan /\ NothingEarly /\ LastSetStored
    BY DEF TxInv, AllOrNothing
<1>2. PICK part \in SUBSET {k \in TxKeys : taken[k] # Unset} :
         stored' = [k \in TxKeys |-> IF k \in part THEN taken[k] ELSE stored[k]]
    BY DEF TxCommitFails
<1>3. PICK to \in {"failed", "sleep"} :
         /\ txState' = [txState EXCEPT ![t] = to]
         /\ activeTx' = IF to = "failed" THEN Nobody ELSE activeTx
    BY DEF TxCommitFails, ContextAfterFailure
<1>4. txState[t] = "commit" /\ UNCHANGED <<context, taken, lastSet, missed>>
    BY DEF TxCommitFails
<1>5. /\ txState' \in [Txs -> {"new", "outer", "nested", "commit", "sleep", "failed", "ok", "err"}]
      /\ txState'[t] = to /\ \A u \in Txs : u # t => txState'[u] = txState[u]
    BY <1>1, <1>3 DEF TxTyped
<1>6. activeTx = t /\ t # Nobody /\ \A u \in Txs : u # t => txState[u] \notin {"outer", "commit", "sleep"}
    BY <1>1, <1>4, KeyTransactionsAssumption DEF TxTyped
<1>7. TxTyped'
    <2>1. stored' \in [TxKeys -> TxValue]
        BY <1>1, <1>2 DEF TxTyped
    <2>2. \A u \in Txs : txState'[u] \in {"outer", "commit", "sleep"} <=> activeTx' = u
        BY <1>3, <1>5, <1>6, KeyTransactionsAssumption
    <2> QED BY <1>1, <1>3, <1>4, <1>5, <2>1, <2>2 DEF TxTyped
<1>8. \A k \in TxKeys : /\ lastSet[k] # Unset => Context(lastSet[k]) \in Txs \cup {Nobody}
                        /\ stored[k] # Unset => Context(stored[k]) \in Txs \cup {Nobody}
    BY <1>1, ContextOf DEF TxTyped
<1>9. ContextNewest' /\ SetterBegan'
    BY <1>1, <1>3, <1>4, <1>5, <1>8 DEF ContextNewest, SetterBegan, HasBegun
<1>10. AllTaken'
    BY <1>1, <1>3, <1>4, <1>5, <1>6 DEF AllTaken
<1>11. NothingEarly'
    <2>1. \A k \in TxKeys : taken[k] # Unset => taken[k][2] = t
        BY <1>1, <1>4, <1>6 DEF AllTaken, Context
    <2> QED BY <1>1, <1>2, <1>5, <1>8, <2>1 DEF NothingEarly, Context
<1>12. LastSetStored'
    <2>1. ASSUME NEW k \in TxKeys, k \in part PROVE lastSet[k][2] = t
        <3>1. taken[k] # Unset
            BY <1>2, <2>1
        <3> QED BY <1>1, <1>4, <1>6, <3>1 DEF AllTaken, ContextNewest, Context
    <2> QED BY <1>1, <1>2, <1>4, <1>5, <1>6, <1>8, <2>1 DEF LastSetStored, Context
<1> QED BY <1>7, <1>9, <1>10, <1>11, <1>12 DEF TxInv, AllOrNothing

LEMMA RetryKeeps ==
    ASSUME TxInv, NEW t \in Txs, TxRetry(t)
    PROVE  TxInv'
<1>1. TxTyped /\ ContextNewest /\ AllTaken /\ SetterBegan /\ NothingEarly /\ LastSetStored
    BY DEF TxInv, AllOrNothing
<1>2. /\ txState[t] = "sleep" /\ txState' = [txState EXCEPT ![t] = "commit"] /\ taken' = context.mutations
      /\ missed' = {m \in missed : m[1][2] # t} /\ UNCHANGED <<stored, activeTx, context, lastSet>>
    BY DEF TxRetry, TxTakes
<1>3. /\ txState' \in [Txs -> {"new", "outer", "nested", "commit", "sleep", "failed", "ok", "err"}]
      /\ txState'[t] = "commit" /\ \A u \in Txs : u # t => txState'[u] = txState[u]
    BY <1>1, <1>2 DEF TxTyped
<1>4. activeTx = t /\ t # Nobody
    BY <1>1, <1>2, KeyTransactionsAssumption DEF TxTyped
<1>5. TxTyped'
    BY <1>1, <1>2, <1>3 DEF TxTyped
<1>6. \A k \in TxKeys : /\ lastSet[k] # Unset => Context(lastSet[k]) \in Txs \cup {Nobody}
                        /\ stored[k] # Unset => Context(stored[k]) \in Txs \cup {Nobody}
    BY <1>1, ContextOf DEF TxTyped
<1>7. ContextNewest' /\ SetterBegan' /\ AllTaken'
    BY <1>1, <1>2, <1>3, <1>4, <1>6 DEF ContextNewest, SetterBegan, HasBegun, AllTaken
<1>8. NothingEarly'
    BY <1>1, <1>2, <1>3, <1>6 DEF NothingEarly, Context
<1>9. LastSetStored'
    <2>1. ASSUME NEW k \in TxKeys, lastSet[k] # Unset,
                 lastSet[k][2] = Nobody \/ txState'[lastSet[k][2]] = "ok"
          PROVE  stored[k] = lastSet[k] \/ <<lastSet[k], k>> \in missed'
        <3>1. lastSet[k][2] # t
            BY <1>3, <1>4, <2>1
        <3>2. stored[k] = lastSet[k] \/ <<lastSet[k], k>> \in missed
            BY <1>1, <1>3, <1>6, <2>1, <3>1 DEF LastSetStored, Context
        <3> QED BY <1>2, <3>1, <3>2
    <2> QED BY <1>2, <2>1 DEF LastSetStored
<1> QED BY <1>5, <1>7, <1>8, <1>9 DEF TxInv, AllOrNothing

LEMMA TxSteps == TxInv /\ [TxNext]_txVars => TxInv'
<1> SUFFICES ASSUME TxInv, [TxNext]_txVars PROVE TxInv'
    OBVIOUS
<1>1. ASSUME NEW t \in Txs, TxStart(t) PROVE TxInv'
    BY <1>1, StartKeeps
<1>2. ASSUME NEW t \in Txs, NEW k \in TxKeys, TxSet(t, k) PROVE TxInv'
    BY <1>2, SetKeeps
<1>3. ASSUME NEW t \in Txs, NEW k \in TxKeys, TxFetch(t, k) PROVE TxInv'
    BY <1>3, FetchKeeps DEF TxFetch
<1>4. ASSUME NEW f \in fetching, TxFetched(f) PROVE TxInv'
    BY <1>4, FetchKeeps DEF TxFetched
<1>5. ASSUME NEW t \in Txs, TxReturn(t) \/ TxThrow(t) PROVE TxInv'
    BY <1>5, WorkEndKeeps
<1>6. ASSUME NEW t \in Txs, TxCommitted(t) PROVE TxInv'
    BY <1>6, CommittedKeeps
<1>7. ASSUME NEW t \in Txs, TxCommitFails(t) PROVE TxInv'
    BY <1>7, CommitFailsKeeps
<1>8. ASSUME NEW t \in Txs, TxRetry(t) PROVE TxInv'
    BY <1>8, RetryKeeps
<1>9. CASE UNCHANGED txVars
    BY <1>9, FetchKeeps DEF txVars
<1> QED BY <1>1, <1>2, <1>3, <1>4, <1>5, <1>6, <1>7, <1>8, <1>9 DEF TxNext

\* Nothing of a transaction, nor of those that share its context, is in the store
\* before its work has returned, nor ever if it threw; and what was set last is
\* there once its context is committed, unless it came while the mutations were
\* being written.
THEOREM TransactionsAreSound == TxSpec => []AllOrNothing
<1>1. TxInv => AllOrNothing
    BY DEF TxInv
<1> QED BY TxInitially, TxSteps, <1>1, PTL DEF TxSpec
-----------------------------------------------------------------------------
(***************************************************************************)
(* The cache, for any calls and keys.  Under the lock of a set nobody else *)
(* reads or fills; so what the cache and, but for the keys that are still  *)
(* to be written, the files have of a key is what was set last, as long as *)
(* no set of it failed.                                                    *)
(***************************************************************************)
Outs == {<<>>} \cup UNION {[keys -> Calls \cup {Null, Absent}] : keys \in SUBSET CacheKeys}

Ops == [kind : {"none", "get", "set"}, keys : SUBSET CacheKeys, null : BOOLEAN,
        pc : {"new", "wait", "io", "ok", "err"}, todo : SUBSET CacheKeys, out : Outs]

CacheTyped ==
    /\ op \in [Calls -> Ops]
    /\ \A c \in Calls : op[c].pc = "io" <=> lock = c
    /\ disk \in [CacheKeys -> Calls \cup {Null}]
    /\ cached \in [CacheKeys -> Calls \cup {Null, Absent}]
    /\ latest \in [CacheKeys -> Calls \cup {Null}]
    /\ lock \in Calls \cup {Free} /\ doubt \subseteq CacheKeys

\* What a get has so far is an answer for each of its keys.
OutsAreAnswers ==
    \A c \in Calls : op[c].pc = "io" =>
        /\ op[c].todo \subseteq op[c].keys
        /\ op[c].kind = "get" => op[c].out \in [op[c].keys -> Calls \cup {Null, Absent}]

LateDoubted == \A d \in Calls, k \in CacheKeys : <<d, k>> \in late => k \in doubt

BeingSet(k) == \E c \in Calls : op[c].pc = "io" /\ op[c].kind = "set" /\ k \in op[c].todo

CacheNewest ==
    \A k \in CacheKeys \ doubt :
        /\ cached[k] \in {Absent, latest[k]}
        /\ BeingSet(k) \/ disk[k] = latest[k]

SetIsLatest ==
    \A c \in Calls : op[c].pc = "io" /\ op[c].kind = "set" =>
        \A k \in op[c].keys : latest[k] = Value(c) /\ cached[k] \in {Absent, Value(c)}

GetIsLatest ==
    \A c \in Calls : op[c].pc = "io" /\ op[c].kind = "get" =>
        \A k \in (op[c].keys \ op[c].todo) \ doubt : op[c].out[k] = latest[k]

CacheInv == CacheTyped /\ OutsAreAnswers /\ LateDoubted /\ CacheNewest /\ SetIsLatest /\ GetIsLatest

GetSees(c) ==
    op[c].kind = "get" /\ op[c].pc # "ok" /\ op'[c].pc = "ok" =>
        \A k \in op[c].keys \ doubt : op'[c].out[k] = latest[k]

LEMMA CacheInitially == CacheInit => CacheInv
<1> SUFFICES ASSUME CacheInit PROVE CacheInv
    OBVIOUS
<1>1. \A c \in Calls : op[c] = Idle
    BY DEF CacheInit
<1>2. CacheTyped
    <2>1. <<>> \in Outs
        BY DEF Outs
    <2>2. Idle \in Ops
        BY <2>1 DEF Idle, Ops
    <2>3. \A c \in Calls : op[c].pc = "new" /\ lock # c
        BY <1>1, KeyCacheAssumption DEF CacheInit, Idle
    <2> QED BY <2>2, <2>3 DEF CacheInit, CacheTyped
<1> QED BY <1>1, <1>2 DEF CacheInit, CacheInv, OutsAreAnswers, LateDoubted, CacheNewest,
        SetIsLatest, GetIsLatest, Idle

\* Only one call is in its section.
LEMMA OneHolds ==
    ASSUME CacheTyped, NEW c \in Calls, op[c].pc = "io" \/ lock = Free
    PROVE  \A d \in Calls : d # c => op[d].pc # "io"
BY KeyCacheAssumption DEF CacheTyped

\* A call that has not the lock asks for it, and nobody else's state changes.
LEMMA CallKeeps ==
    ASSUME CacheInv, NEW c \in Calls, NEW kind \in {"get", "set"}, NEW keys \in SUBSET CacheKeys,
           NEW null \in BOOLEAN, Call(c, kind, keys, null)
    PROVE  CacheInv' /\ \A d \in Calls : GetSees(d)
<1>1. CacheTyped /\ OutsAreAnswers /\ LateDoubted /\ CacheNewest /\ SetIsLatest /\ GetIsLatest
    BY DEF CacheInv
<1>2. op[c].pc = "new" /\ UNCHANGED <<disk, cached, lock, late, latest, doubt>>
    BY DEF Call
<1>3. op' \in [Calls -> Ops] /\ op'[c].pc = "wait" /\ \A d \in Calls : d # c => op'[d] = op[d]
    <2>1. <<>> \in Outs
        BY DEF Outs
    <2> QED BY <1>1, <2>1 DEF Call, Idle, CacheTyped, Ops
<1>4. CacheTyped'
    <2>1. \A d \in Calls : op'[d].pc = "io" <=> lock' = d
        BY <1>1, <1>2, <1>3 DEF CacheTyped
    <2> QED BY <1>1, <1>2, <1>3, <2>1 DEF CacheTyped
<1>5. \A d \in Calls : op'[d].pc = "io" => d # c /\ op'[d] = op[d]
    BY <1>3
<1>6. \A k \in CacheKeys : BeingSet(k) => BeingSet(k)'
    BY <1>2, <1>3 DEF BeingSet
<1>7. OutsAreAnswers' /\ LateDoubted' /\ CacheNewest' /\ SetIsLatest' /\ GetIsLatest'
    BY <1>1, <1>2, <1>5, <1>6 DEF OutsAreAnswers, LateDoubted, CacheNewest, SetIsLatest, GetIsLatest, Value
<1>8. \A d \in Calls : GetSees(d)
    BY <1>3 DEF GetSees
<1> QED BY <1>4, <1>7, <1>8 DEF CacheInv

LEMMA EnterGetKeeps ==
    ASSUME CacheInv, NEW c \in Calls, EnterGet(c)
    PROVE  CacheInv' /\ \A d \in Calls : GetSees(d)
<1>1. CacheTyped /\ OutsAreAnswers /\ LateDoubted /\ CacheNewest /\ SetIsLatest /\ GetIsLatest /\ op[c] \in Ops
    BY DEF CacheInv, CacheTyped
<1>2. PICK missing : missing = {k \in op[c].keys : cached[k] = Absent}
    OBVIOUS
<1>3. PICK pc : pc = IF missing = {} THEN "ok" ELSE "io"
    OBVIOUS
<1>4. PICK out : out = [k \in op[c].keys |-> cached[k]]
    OBVIOUS
<1>5. /\ op[c].pc = "wait" /\ op[c].kind = "get" /\ lock = Free /\ lock' = IF missing = {} THEN Free ELSE c
      /\ op' = [op EXCEPT ![c].pc = pc, ![c].todo = missing, ![c].out = out]
      /\ UNCHANGED <<disk, cached, late, latest, doubt>>
    BY <1>2, <1>3, <1>4 DEF EnterGet, LockFree
<1>6. /\ op[c].keys \subseteq CacheKeys /\ missing \in SUBSET op[c].keys /\ pc \in {"ok", "io"}
      /\ out \in [op[c].keys -> Calls \cup {Null, Absent}] /\ out \in Outs
    BY <1>1, <1>2, <1>3, <1>4 DEF Ops, CacheTyped, Outs
<1>7. /\ op' \in [Calls -> Ops] /\ \A d \in Calls : d # c => op'[d] = op[d]
      /\ op'[c].kind = "get" /\ op'[c].keys = op[c].keys /\ op'[c].pc = pc /\ op'[c].todo = missing /\ op'[c].out = out
    BY <1>1, <1>5, <1>6 DEF CacheTyped, Ops
<1>8. CacheTyped'
    <2>1. op'[c].pc = "io" <=> lock' = c
        <3>1. c # Free
            BY KeyCacheAssumption
        <3>2. CASE missing = {}
            BY <1>3, <1>5, <1>7, <3>1, <3>2
        <3>3. CASE missing # {}
            BY <1>3, <1>5, <1>7, <3>3
        <3> QED BY <3>2, <3>3
    <2>2. \A d \in Calls : d # c => op'[d].pc # "io" /\ lock' # d
        BY <1>1, <1>5, <1>7, KeyCacheAssumption DEF CacheTyped
    <2>3. \A d \in Calls : op'[d].pc = "io" <=> lock' = d
        BY <2>1, <2>2
    <2> QED BY <1>1, <1>5, <1>7, <2>3 DEF CacheTyped
<1>9. \A d \in Calls : op[d].pc # "io" /\ (d # c => op'[d].pc # "io")
    BY <1>1, <1>5, <1>7, KeyCacheAssumption DEF CacheTyped
<1>10. OutsAreAnswers' /\ LateDoubted' /\ CacheNewest' /\ SetIsLatest'
    <2>1. OutsAreAnswers'
        BY <1>6, <1>7, <1>9 DEF OutsAreAnswers
    <2>2. LateDoubted' /\ SetIsLatest'
        <3>1. \A d \in Calls : ~(op'[d].pc = "io" /\ op'[d].kind = "set")
            BY <1>7, <1>9
        <3> QED BY <1>1, <1>5, <3>1 DEF LateDoubted, SetIsLatest
    <2>3. CacheNewest'
        BY <1>1, <1>5, <1>9 DEF CacheNewest, BeingSet
    <2> QED BY <2>1, <2>2, <2>3
<1>11. \A k \in (op[c].keys \ missing) \ doubt : out[k] = latest[k]
    BY <1>1, <1>2, <1>4, <1>6 DEF CacheNewest
<1>12. GetIsLatest'
    BY <1>5, <1>7, <1>9, <1>11 DEF GetIsLatest
<1>13. \A d \in Calls : GetSees(d)
    BY <1>3, <1>7, <1>11 DEF GetSees
<1> QED BY <1>8, <1>10, <1>12, <1>13 DEF CacheInv

\* A set writes the cache first, and holds the lock from then on.
LEMMA EnterSetKeeps ==
    ASSUME CacheInv, NEW c \in Calls, EnterSet(c)
    PROVE  CacheInv' /\ \A d \in Calls : GetSees(d)
<1>1. CacheTyped /\ OutsAreAnswers /\ LateDoubted /\ CacheNewest /\ SetIsLatest /\ GetIsLatest /\ op[c] \in Ops
    BY DEF CacheInv, CacheTyped
<1>2. /\ op[c].pc = "wait" /\ op[c].kind = "set" /\ lock = Free /\ lock' = c
      /\ cached' = [k \in CacheKeys |-> IF k \in op[c].keys THEN Value(c) ELSE cached[k]]
      /\ latest' = [k \in CacheKeys |-> IF k \in op[c].keys THEN Value(c) ELSE latest[k]]
      /\ op' = [op EXCEPT ![c].pc = "io", ![c].todo = op[c].keys]
      /\ UNCHANGED <<disk, late, doubt>>
    BY DEF EnterSet, LockFree
<1>3. op[c].keys \subseteq CacheKeys
    BY <1>1 DEF Ops
<1>4. /\ op' \in [Calls -> Ops] /\ \A d \in Calls : d # c => op'[d] = op[d]
      /\ op'[c].kind = "set" /\ op'[c].keys = op[c].keys /\ op'[c].null = op[c].null
      /\ op'[c].pc = "io" /\ op'[c].todo = op[c].keys
    BY <1>1, <1>2 DEF CacheTyped, Ops
<1>5. Value(c) \in Calls \cup {Null} /\ Value(c)' = Value(c)
    BY <1>4 DEF Value
<1>6. CacheTyped'
    <2>1. \A d \in Calls : op'[d].pc = "io" <=> lock' = d
        BY <1>1, <1>2, <1>4, KeyCacheAssumption DEF CacheTyped
    <2> QED BY <1>1, <1>2, <1>4, <1>5, <2>1 DEF CacheTyped
<1>7. \A d \in Calls : op[d].pc # "io" /\ (d # c => op'[d].pc # "io")
    BY <1>1, <1>2, <1>4, KeyCacheAssumption DEF CacheTyped
<1>8. OutsAreAnswers' /\ GetIsLatest'
    BY <1>4, <1>7 DEF OutsAreAnswers, GetIsLatest
<1>9. SetIsLatest' /\ LateDoubted'
    BY <1>1, <1>2, <1>3, <1>4, <1>5, <1>7 DEF SetIsLatest, LateDoubted
<1>10. CacheNewest'
    <2>1. ASSUME NEW k \in CacheKeys \ doubt
          PROVE  cached'[k] \in {Absent, latest'[k]} /\ (BeingSet(k)' \/ disk'[k] = latest'[k])
        <3>1. CASE k \in op[c].keys
            BY <1>2, <1>4, <3>1 DEF BeingSet
        <3>2. CASE k \notin op[c].keys
            BY <1>1, <1>2, <1>7, <3>2 DEF CacheNewest, BeingSet
        <3> QED BY <3>1, <3>2
    <2> QED BY <1>2, <2>1 DEF CacheNewest
<1>11. \A d \in Calls : GetSees(d)
    BY <1>1, <1>2, <1>4 DEF GetSees
<1> QED BY <1>6, <1>8, <1>9, <1>10, <1>11 DEF CacheInv

\* Under the lock of a get nothing is being set: what it reads is the latest.
LEMMA ReadOneKeeps ==
    ASSUME CacheInv, NEW c \in Calls, NEW k \in CacheKeys, ReadOne(c, k)
    PROVE  CacheInv' /\ \A d \in Calls : GetSees(d)
<1>1. CacheTyped /\ OutsAreAnswers /\ LateDoubted /\ CacheNewest /\ SetIsLatest /\ GetIsLatest /\ op[c] \in Ops
    BY DEF CacheInv, CacheTyped
<1>2. PICK out : out = [op[c].out EXCEPT ![k] = disk[k]]
    OBVIOUS
<1>3. PICK todo : todo = op[c].todo \ {k}
    OBVIOUS
<1>4. /\ op[c].pc = "io" /\ op[c].kind = "get" /\ k \in op[c].todo
      /\ op' = [op EXCEPT ![c].out = out, ![c].todo = todo]
      /\ UNCHANGED <<disk, cached, lock, late, latest, doubt>>
    BY <1>1, <1>2, <1>3 DEF ReadOne, CacheTyped, Ops
<1>5. /\ op[c].out \in [op[c].keys -> Calls \cup {Null, Absent}] /\ op[c].keys \in SUBSET CacheKeys
      /\ op[c].todo \subseteq op[c].keys
    BY <1>1, <1>4 DEF OutsAreAnswers, Ops
<1>6. /\ out \in [op[c].keys -> Calls \cup {Null, Absent}] /\ out \in Outs /\ out[k] = disk[k]
      /\ todo \in SUBSET op[c].keys /\ \A j \in op[c].keys : j # k => out[j] = op[c].out[j]
    <2>1. disk[k] \in Calls \cup {Null}
        BY <1>1 DEF CacheTyped
    <2> QED BY <1>2, <1>3, <1>4, <1>5, <2>1 DEF Outs
<1>7. /\ op' \in [Calls -> Ops] /\ \A d \in Calls : d # c => op'[d] = op[d]
      /\ op'[c].kind = "get" /\ op'[c].keys = op[c].keys /\ op'[c].pc = "io" /\ op'[c].todo = todo /\ op'[c].out = out
    BY <1>1, <1>4, <1>5, <1>6 DEF CacheTyped, Ops
<1>8. \A d \in Calls : d # c => op[d].pc # "io" /\ op'[d].pc # "io"
    BY <1>1, <1>4, <1>7, OneHolds
<1>9. CacheTyped'
    <2>1. \A d \in Calls : op'[d].pc = "io" <=> lock' = d
        BY <1>1, <1>4, <1>7 DEF CacheTyped
    <2> QED BY <1>1, <1>4, <1>7, <2>1 DEF CacheTyped
<1>10. OutsAreAnswers' /\ LateDoubted' /\ SetIsLatest'
    <2>1. OutsAreAnswers'
        BY <1>6, <1>7, <1>8 DEF OutsAreAnswers
    <2>2. \A d \in Calls : ~(op'[d].pc = "io" /\ op'[d].kind = "set")
        BY <1>7, <1>8
    <2> QED BY <1>1, <1>4, <2>1, <2>2 DEF LateDoubted, SetIsLatest
<1>11. \A j \in CacheKeys \ doubt : disk[j] = latest[j]
    BY <1>1, <1>4, <1>8 DEF CacheNewest, BeingSet
<1>12. CacheNewest'
    BY <1>1, <1>4, <1>11 DEF CacheNewest
<1>13. \A j \in (op[c].keys \ todo) \ doubt : out[j] = latest[j]
    BY <1>1, <1>3, <1>4, <1>5, <1>6, <1>11 DEF GetIsLatest
<1>14. GetIsLatest'
    BY <1>4, <1>7, <1>8, <1>13 DEF GetIsLatest
<1>15. \A d \in Calls : GetSees(d)
    BY <1>7, <1>8 DEF GetSees
<1> QED BY <1>9, <1>10, <1>12, <1>14, <1>15 DEF CacheInv

\* What a get has read it hands out, and puts into the cache, and it is the latest.
LEMMA FillKeeps ==
    ASSUME CacheInv, NEW c \in Calls, Fill(c)
    PROVE  CacheInv' /\ \A d \in Calls : GetSees(d)
<1>1. CacheTyped /\ OutsAreAnswers /\ LateDoubted /\ CacheNewest /\ SetIsLatest /\ GetIsLatest /\ op[c] \in Ops
    BY DEF CacheInv, CacheTyped
<1>2. /\ op[c].pc = "io" /\ op[c].kind = "get" /\ op[c].todo = {} /\ lock' = Free
      /\ cached' = [k \in CacheKeys |->
                      IF k \in op[c].keys /\ op[c].out[k] # Null THEN op[c].out[k] ELSE cached[k]]
      /\ op' = [op EXCEPT ![c].pc = "ok"]
      /\ UNCHANGED <<disk, late, latest, doubt>>
    BY DEF Fill
<1>3. /\ op' \in [Calls -> Ops] /\ \A d \in Calls : d # c => op'[d] = op[d]
      /\ op'[c].kind = "get" /\ op'[c].keys = op[c].keys /\ op'[c].pc = "ok" /\ op'[c].out = op[c].out
    BY <1>1, <1>2 DEF CacheTyped, Ops
<1>4. \A d \in Calls : (d # c => op[d].pc # "io") /\ op'[d].pc # "io"
    BY <1>1, <1>2, <1>3, OneHolds
<1>5. op[c].out \in [op[c].keys -> Calls \cup {Null, Absent}] /\ op[c].keys \subseteq CacheKeys
    BY <1>1, <1>2 DEF OutsAreAnswers, Ops
<1>6. CacheTyped'
    <2>1. \A d \in Calls : op'[d].pc # "io" /\ lock' # d
        BY <1>2, <1>4, KeyCacheAssumption
    <2>2. cached' \in [CacheKeys -> Calls \cup {Null, Absent}]
        BY <1>1, <1>2, <1>5 DEF CacheTyped
    <2> QED BY <1>1, <1>2, <1>3, <2>1, <2>2 DEF CacheTyped
<1>7. OutsAreAnswers' /\ LateDoubted' /\ SetIsLatest' /\ GetIsLatest'
    BY <1>1, <1>2, <1>4 DEF OutsAreAnswers, LateDoubted, SetIsLatest, GetIsLatest
<1>8. \A k \in op[c].keys \ doubt : op[c].out[k] = latest[k]
    BY <1>1, <1>2 DEF GetIsLatest
<1>9. CacheNewest'
    <2>1. \A k \in CacheKeys \ doubt : disk[k] = latest[k]
        BY <1>1, <1>2, <1>4 DEF CacheNewest, BeingSet
    <2> QED BY <1>1, <1>2, <1>8, <2>1 DEF CacheNewest
<1>10. \A d \in Calls : GetSees(d)
    BY <1>3, <1>8 DEF GetSees
<1> QED BY <1>6, <1>7, <1>9, <1>10 DEF CacheInv

\* The set that has the lock writes what it put into the cache.
LEMMA WriteOneKeeps ==
    ASSUME CacheInv, NEW c \in Calls, NEW k \in CacheKeys, WriteOne(c, k)
    PROVE  CacheInv' /\ \A d \in Calls : GetSees(d)
<1>1. CacheTyped /\ OutsAreAnswers /\ LateDoubted /\ CacheNewest /\ SetIsLatest /\ GetIsLatest /\ op[c] \in Ops
    BY DEF CacheInv, CacheTyped
<1>2. PICK todo : todo = op[c].todo \ {k}
    OBVIOUS
<1>3. PICK pc : pc = IF op[c].todo = {k} THEN "ok" ELSE "io"
    OBVIOUS
<1>4. /\ op[c].pc = "io" /\ op[c].kind = "set" /\ k \in op[c].todo
      /\ op' = [op EXCEPT ![c].todo = todo, ![c].pc = pc]
      /\ disk' = [disk EXCEPT ![k] = Value(c)]
      /\ lock' = IF op[c].todo = {k} THEN Free ELSE lock
      /\ doubt' = IF \E d \in Calls : <<d, k>> \in late THEN doubt ELSE doubt \ {k}
      /\ UNCHANGED <<cached, late, latest>>
    BY <1>1, <1>2, <1>3 DEF WriteOne, CacheTyped, Ops
<1>5. op[c].keys \in SUBSET CacheKeys /\ op[c].todo \subseteq op[c].keys /\ todo \in SUBSET op[c].keys
    BY <1>1, <1>2, <1>4 DEF OutsAreAnswers, Ops
<1>6. /\ op' \in [Calls -> Ops] /\ \A d \in Calls : d # c => op'[d] = op[d]
      /\ op'[c].kind = "set" /\ op'[c].keys = op[c].keys /\ op'[c].null = op[c].null
      /\ op'[c].pc = pc /\ op'[c].todo = todo /\ pc \in {"io", "ok"}
    BY <1>1, <1>3, <1>4, <1>5 DEF CacheTyped, Ops
<1>7. \A d \in Calls : d # c => op[d].pc # "io" /\ op'[d].pc # "io"
    BY <1>1, <1>4, <1>6, OneHolds
<1>8. Value(c) \in Calls \cup {Null} /\ Value(c)' = Value(c)
    BY <1>6 DEF Value
<1>9. CacheTyped'
    <2>1. \A d \in Calls : op'[d].pc = "io" <=> lock' = d
        BY <1>1, <1>3, <1>4, <1>6, <1>7, KeyCacheAssumption DEF CacheTyped
    <2> QED BY <1>1, <1>4, <1>6, <1>8, <2>1 DEF CacheTyped
<1>10. OutsAreAnswers' /\ LateDoubted' /\ SetIsLatest' /\ GetIsLatest'
    <2>1. OutsAreAnswers'
        BY <1>5, <1>6, <1>7 DEF OutsAreAnswers
    <2>2. LateDoubted'
        BY <1>1, <1>4 DEF LateDoubted
    <2>3. SetIsLatest'
        <3>1. \A j \in op[c].keys : latest[j] = Value(c) /\ cached[j] \in {Absent, Value(c)}
            BY <1>1, <1>4 DEF SetIsLatest
        <3> QED BY <1>4, <1>6, <1>7, <1>8, <3>1 DEF SetIsLatest
    <2>4. GetIsLatest'
        BY <1>6, <1>7 DEF GetIsLatest
    <2> QED BY <2>1, <2>2, <2>3, <2>4
<1>11. CacheNewest'
    <2>1. ASSUME NEW j \in CacheKeys \ doubt'
          PROVE  cached[j] \in {Absent, latest[j]} /\ (BeingSet(j)' \/ disk'[j] = latest[j])
        <3>1. CASE j = k
            BY <1>1, <1>4, <1>5, <1>8, <3>1 DEF SetIsLatest, CacheTyped
        <3>2. CASE j # k
            <4>1. j \notin doubt /\ disk'[j] = disk[j]
                BY <1>1, <1>4, <3>2 DEF CacheTyped
            <4>2. BeingSet(j) => BeingSet(j)'
                <5>1. ASSUME j \in op[c].todo PROVE pc = "io" /\ j \in todo
                    BY <1>2, <1>3, <3>2, <5>1
                <5>2. BeingSet(j) => j \in op[c].todo
                    BY <1>7 DEF BeingSet
                <5> QED BY <1>6, <5>1, <5>2 DEF BeingSet
            <4> QED BY <1>1, <4>1, <4>2 DEF CacheNewest
        <3> QED BY <3>1, <3>2
    <2> QED BY <1>4, <2>1 DEF CacheNewest
<1>12. \A d \in Calls : GetSees(d)
    BY <1>4, <1>6, <1>7 DEF GetSees
<1> QED BY <1>9, <1>10, <1>11, <1>12 DEF CacheInv

\* A set that fails puts its keys in doubt, and with them the writes it leaves behind.
LEMMA WriteFailsKeeps ==
    ASSUME CacheInv, NEW c \in Calls, NEW k \in CacheKeys, WriteFails(c, k)
    PROVE  CacheInv' /\ \A d \in Calls : GetSees(d)
<1>1. CacheTyped /\ OutsAreAnswers /\ LateDoubted /\ CacheNewest /\ SetIsLatest /\ GetIsLatest /\ op[c] \in Ops
    BY DEF CacheInv, CacheTyped
<1>2. /\ op[c].pc = "io" /\ op[c].kind = "set"
      /\ op' = [op EXCEPT ![c].pc = "err", ![c].todo = {}]
      /\ late' = late \cup {<<c, j>> : j \in op[c].todo \ {k}}
      /\ doubt' = doubt \cup op[c].keys
      /\ lock' = Free
      /\ UNCHANGED <<disk, cached, latest>>
    BY DEF WriteFails, Released
<1>3. /\ op' \in [Calls -> Ops] /\ op'[c].pc = "err" /\ \A d \in Calls : d # c => op'[d] = op[d]
    BY <1>1, <1>2 DEF CacheTyped, Ops
<1>4. \A d \in Calls : (d # c => op[d].pc # "io") /\ op'[d].pc # "io"
    BY <1>1, <1>2, <1>3, OneHolds
<1>5. op[c].keys \subseteq CacheKeys /\ op[c].todo \subseteq op[c].keys
    BY <1>1, <1>2 DEF OutsAreAnswers, Ops
<1>6. CacheTyped'
    <2>1. \A d \in Calls : op'[d].pc # "io" /\ lock' # d
        BY <1>2, <1>4, KeyCacheAssumption
    <2> QED BY <1>1, <1>2, <1>3, <1>5, <2>1 DEF CacheTyped
<1>7. OutsAreAnswers' /\ SetIsLatest' /\ GetIsLatest'
    BY <1>4 DEF OutsAreAnswers, SetIsLatest, GetIsLatest
<1>8. LateDoubted'
    BY <1>1, <1>2, <1>5 DEF LateDoubted
<1>9. CacheNewest'
    <2>1. \A j \in CacheKeys : BeingSet(j) => j \in op[c].keys
        BY <1>4, <1>5 DEF BeingSet
    <2> QED BY <1>1, <1>2, <2>1 DEF CacheNewest
<1>10. \A d \in Calls : GetSees(d)
    BY <1>3 DEF GetSees
<1> QED BY <1>6, <1>7, <1>8, <1>9, <1>10 DEF CacheInv

\* A write of a failed set touches a key in doubt, and nothing else.
LEMMA LateWriteKeeps ==
    ASSUME CacheInv, NEW c \in Calls, NEW k \in CacheKeys, LateWrite(c, k)
    PROVE  CacheInv' /\ \A d \in Calls : GetSees(d)
<1>1. CacheTyped /\ OutsAreAnswers /\ LateDoubted /\ CacheNewest /\ SetIsLatest /\ GetIsLatest
    BY DEF CacheInv
<1>2. /\ k \in doubt /\ late' = late \ {<<c, k>>} /\ disk' = [disk EXCEPT ![k] = Value(c)]
      /\ UNCHANGED <<cached, lock, op, latest, doubt>>
    BY <1>1 DEF LateWrite, LateDoubted
<1>3. Value(c) \in Calls \cup {Null}
    BY DEF Value
<1>4. CacheTyped'
    BY <1>1, <1>2, <1>3 DEF CacheTyped
<1>5. OutsAreAnswers' /\ LateDoubted' /\ SetIsLatest' /\ GetIsLatest'
    BY <1>1, <1>2 DEF OutsAreAnswers, LateDoubted, SetIsLatest, GetIsLatest, Value
<1>6. CacheNewest'
    <2>1. \A j \in CacheKeys \ doubt : disk'[j] = disk[j]
        BY <1>1, <1>2 DEF CacheTyped
    <2> QED BY <1>1, <1>2, <2>1 DEF CacheNewest, BeingSet
<1>7. \A d \in Calls : GetSees(d)
    BY <1>2 DEF GetSees
<1> QED BY <1>4, <1>5, <1>6, <1>7 DEF CacheInv

LEMMA ReadFailsKeeps ==
    ASSUME CacheInv, NEW c \in Calls, ReadFails(c)
    PROVE  CacheInv' /\ \A d \in Calls : GetSees(d)
<1>1. CacheTyped /\ OutsAreAnswers /\ LateDoubted /\ CacheNewest /\ SetIsLatest /\ GetIsLatest /\ op[c] \in Ops
    BY DEF CacheInv, CacheTyped
<1>2. /\ op[c].pc = "io" /\ op[c].kind = "get" /\ op' = [op EXCEPT ![c].pc = "err", ![c].todo = {}]
      /\ lock' = Free /\ UNCHANGED <<disk, cached, late, latest, doubt>>
    BY DEF ReadFails, Released
<1>3. /\ op' \in [Calls -> Ops] /\ op'[c].pc = "err" /\ \A d \in Calls : d # c => op'[d] = op[d]
    BY <1>1, <1>2 DEF CacheTyped, Ops
<1>4. \A d \in Calls : (d # c => op[d].pc # "io") /\ op'[d].pc # "io"
    BY <1>1, <1>2, <1>3, OneHolds
<1>5. CacheTyped'
    <2>1. \A d \in Calls : op'[d].pc # "io" /\ lock' # d
        BY <1>2, <1>4, KeyCacheAssumption
    <2> QED BY <1>1, <1>2, <1>3, <2>1 DEF CacheTyped
<1>6. OutsAreAnswers' /\ LateDoubted' /\ SetIsLatest' /\ GetIsLatest'
    BY <1>1, <1>2, <1>4 DEF OutsAreAnswers, LateDoubted, SetIsLatest, GetIsLatest
<1>7. CacheNewest'
    <2>1. \A j \in CacheKeys : ~BeingSet(j)
        BY <1>2, <1>4 DEF BeingSet
    <2> QED BY <1>1, <1>2, <2>1 DEF CacheNewest
<1>8. \A d \in Calls : GetSees(d)
    BY <1>3 DEF GetSees
<1> QED BY <1>5, <1>6, <1>7, <1>8 DEF CacheInv

\* Entries of the cache go; everything else stays as it is.
LEMMA CacheLosesKeeps ==
    ASSUME CacheInv, UNCHANGED <<disk, lock, op, late, latest, doubt>>,
           cached' \in [CacheKeys -> Calls \cup {Null, Absent}],
           \A k \in CacheKeys : cached'[k] \in {Absent, cached[k]}
    PROVE  CacheInv' /\ \A d \in Calls : GetSees(d)
<1>1. CacheTyped /\ OutsAreAnswers /\ LateDoubted /\ CacheNewest /\ SetIsLatest /\ GetIsLatest
    BY DEF CacheInv
<1>2. CacheTyped' /\ OutsAreAnswers' /\ LateDoubted' /\ GetIsLatest'
    BY <1>1 DEF CacheTyped, OutsAreAnswers, LateDoubted, GetIsLatest
<1>3. CacheNewest'
    BY <1>1 DEF CacheNewest, BeingSet
<1>4. SetIsLatest'
    <2>1. \A c \in Calls : op[c].keys \subseteq CacheKeys
        BY <1>1 DEF CacheTyped, Ops
    <2> QED BY <1>1, <2>1 DEF SetIsLatest, Value
<1>5. \A d \in Calls : GetSees(d)
    BY DEF GetSees
<1> QED BY <1>2, <1>3, <1>4, <1>5 DEF CacheInv

LEMMA CacheSteps == CacheInv /\ [CacheNext]_cacheVars => CacheInv' /\ \A d \in Calls : GetSees(d)
<1> SUFFICES ASSUME CacheInv, [CacheNext]_cacheVars PROVE CacheInv' /\ \A d \in Calls : GetSees(d)
    OBVIOUS
<1>1. ASSUME NEW c \in Calls, NEW kind \in {"get", "set"}, NEW keys \in SUBSET CacheKeys, NEW null \in BOOLEAN,
             Call(c, kind, keys, null)
      PROVE  CacheInv' /\ \A d \in Calls : GetSees(d)
    BY <1>1, CallKeeps
<1>2. ASSUME NEW c \in Calls, EnterGet(c) \/ EnterSet(c) PROVE CacheInv' /\ \A d \in Calls : GetSees(d)
    BY <1>2, EnterGetKeeps, EnterSetKeeps
<1>3. ASSUME NEW c \in Calls, NEW k \in CacheKeys, ReadOne(c, k) PROVE CacheInv' /\ \A d \in Calls : GetSees(d)
    BY <1>3, ReadOneKeeps
<1>4. ASSUME NEW c \in Calls, Fill(c) \/ ReadFails(c) PROVE CacheInv' /\ \A d \in Calls : GetSees(d)
    BY <1>4, FillKeeps, ReadFailsKeeps
<1>5. ASSUME NEW c \in Calls, NEW k \in CacheKeys, WriteOne(c, k) \/ WriteFails(c, k) \/ LateWrite(c, k)
      PROVE  CacheInv' /\ \A d \in Calls : GetSees(d)
    BY <1>5, WriteOneKeeps, WriteFailsKeeps, LateWriteKeeps
<1>6. ASSUME (\E k \in CacheKeys : Evict(k)) \/ ClearCache \/ UNCHANGED cacheVars
      PROVE  CacheInv' /\ \A d \in Calls : GetSees(d)
    <2>1. cached \in [CacheKeys -> Calls \cup {Null, Absent}]
        BY DEF CacheInv, CacheTyped
    <2>2. /\ UNCHANGED <<disk, lock, op, late, latest, doubt>>
          /\ cached' \in [CacheKeys -> Calls \cup {Null, Absent}]
          /\ \A k \in CacheKeys : cached'[k] \in {Absent, cached[k]}
        BY <1>6, <2>1 DEF Evict, ClearCache, cacheVars
    <2> QED BY <2>2, CacheLosesKeeps
<1> QED BY <1>1, <1>2, <1>3, <1>4, <1>5, <1>6 DEF CacheNext

\* A get that settles gives the value of the last set, whatever of it came from
\* the cache and whatever from the files, unless that set failed: for any calls,
\* keys, evictions and failures.
THEOREM GetsAreSound == CacheSpec => GetsSeeLastSet
<1>1. CacheInv /\ [CacheNext]_cacheVars =>
        [\A c \in Calls : op[c].kind = "get" /\ op[c].pc # "ok" /\ op'[c].pc = "ok" =>
             \A k \in op[c].keys \ doubt : op'[c].out[k] = latest[k]]_cacheVars
    BY CacheSteps DEF GetSees
<1>2. CacheInv /\ [CacheNext]_cacheVars => CacheInv'
    BY CacheSteps
<1> QED BY CacheInitially, <1>1, <1>2, PTL DEF CacheSpec, GetsSeeLastSet

(***************************************************************************)
(* Session records, whatever their keys, chains and pre-keys: reading      *)
(* undoes writing, field by field, and the migration of an old record      *)
(* gives back the id that its writing left out.                            *)
(***************************************************************************)

\* What is encoded is decoded to the same buffer.
LEMMA BufferBack ==
    ASSUME NEW k, IsBuffer(k)
    PROVE  FromBase64(Base64(k)) = k
<1> DEFINE x == k.of
<1>1. k = [form |-> "buffer", of |-> x]
    BY DEF IsBuffer, BufferOf
<1> HIDE DEF x
<1>2. Base64(k) = [form |-> "base64", of |-> x]
    BY <1>1 DEF Base64
<1>3. FromBase64([form |-> "base64", of |-> x]) = [form |-> "buffer", of |-> x]
    BY DEF FromBase64
<1> QED BY <1>1, <1>2, <1>3

\* So is the key of a chain, when it has one.
LEMMA ChainKeyBack ==
    ASSUME NEW k, k = Undefined \/ IsBuffer(k)
    PROVE  ChainKey(FromBase64, ChainKey(Base64, k)) = k
<1>1. CASE k = Undefined
    BY <1>1 DEF ChainKey
<1>2. CASE k # Undefined
    <2>1. IsBuffer(k) /\ FromBase64(Base64(k)) = k
        BY <1>2, BufferBack
    <2>2. Base64(k) # Undefined
        BY <2>1 DEF Base64, Undefined, IsBuffer, BufferOf
    <2> QED BY <1>2, <2>1, <2>2 DEF ChainKey
<1> QED BY <1>1, <1>2

\* A chain comes back with its key and the keys of messages that are still to come.
LEMMA ChainBack ==
    ASSUME NEW c, IsChain(c)
    PROVE  Chain(FromBase64, Chain(Base64, c)) = c
<1> DEFINE k == c.key
           n == c.messageKeys
           d == Chain(Base64, c)
           x == ChainKey(Base64, k)
           m == [i \in DOMAIN n |-> Base64(n[i])]
<1>1. c = [key |-> k, counter |-> c.counter, type |-> c.type, messageKeys |-> n]
    BY DEF IsChain
<1>2. d = [key |-> x, counter |-> c.counter, type |-> c.type, messageKeys |-> m]
    <2>1. d = [[c EXCEPT !.key = x] EXCEPT !.messageKeys = m]
        BY DEF Chain
    <2> HIDE DEF d, x, m
    <2> QED BY <1>1, <2>1
<1>3. ChainKey(FromBase64, x) = k
    BY ChainKeyBack DEF IsChain
<1>4. [i \in DOMAIN m |-> FromBase64(m[i])] = n
    <2>1. \A i \in DOMAIN n : FromBase64(Base64(n[i])) = n[i]
        BY BufferBack DEF IsChain
    <2>2. [i \in DOMAIN m |-> FromBase64(m[i])] = [i \in DOMAIN n |-> n[i]]
        BY <2>1
    <2> QED BY <2>2 DEF IsChain
<1>5. Chain(FromBase64, d) = [[d EXCEPT !.key = ChainKey(FromBase64, d.key)]
                                 EXCEPT !.messageKeys = [i \in DOMAIN d.messageKeys |-> FromBase64(d.messageKeys[i])]]
    <2> HIDE DEF d
    <2> QED BY DEF Chain
<1>6. d.key = x /\ d.messageKeys = m
    <2> HIDE DEF d, x, m
    <2> QED BY <1>2
<1>7. [i \in DOMAIN d.messageKeys |-> FromBase64(d.messageKeys[i])] = n
    BY <1>4, <1>6
<1> HIDE DEF d, x, m, k, n
<1>8. Chain(FromBase64, d) = [[d EXCEPT !.key = k] EXCEPT !.messageKeys = n]
    BY <1>3, <1>5, <1>6, <1>7
<1>9. Chain(FromBase64, d) = c
    BY <1>1, <1>2, <1>8
<1> QED BY <1>9 DEF d

\* So do all chains of a session.
LEMMA ChainsBack ==
    ASSUME NEW s, s = [c \in DOMAIN s |-> s[c]], \A c \in DOMAIN s : IsChain(s[c])
    PROVE  Chains(FromBase64, Chains(Base64, s)) = s
<1> DEFINE t == Chains(Base64, s)
<1>1. DOMAIN t = DOMAIN s /\ \A c \in DOMAIN s : t[c] = Chain(Base64, s[c])
    BY DEF Chains
<1>2. \A c \in DOMAIN s : Chain(FromBase64, Chain(Base64, s[c])) = s[c]
    BY ChainBack
<1>3. Chains(FromBase64, t) = [c \in DOMAIN t |-> Chain(FromBase64, t[c])]
    BY DEF Chains
<1> HIDE DEF t
<1>4. Chains(FromBase64, t) = [c \in DOMAIN s |-> s[c]]
    BY <1>1, <1>2, <1>3
<1> QED BY <1>4 DEF t

\* A session that is stored and read again is the session it was.
LEMMA EntryBack ==
    ASSUME NEW e \in Entries
    PROVE  Entry(FromBase64, Entry(Base64, e)) = e
<1> DEFINE d == Entry(Base64, e)
           p == e.pendingPreKey
<1>1. /\ e = [registrationId |-> e.registrationId, keys |-> e.keys, numbers |-> e.numbers,
              chains |-> e.chains, pendingPreKey |-> p]
      /\ e.keys = [f \in DOMAIN e.keys |-> e.keys[f]] /\ \A f \in DOMAIN e.keys : IsBuffer(e.keys[f])
      /\ e.chains = [c \in DOMAIN e.chains |-> e.chains[c]] /\ \A c \in DOMAIN e.chains : IsChain(e.chains[c])
      /\ p = Undefined \/ IsPreKey(p)
    BY EntriesAssumption
<1>2. [f \in DOMAIN d.keys |-> FromBase64(d.keys[f])] = e.keys
    <2>1. d.keys = [f \in DOMAIN e.keys |-> Base64(e.keys[f])]
        BY DEF Entry
    <2>2. \A f \in DOMAIN e.keys : FromBase64(Base64(e.keys[f])) = e.keys[f]
        BY <1>1, BufferBack
    <2> HIDE DEF d
    <2>3. [f \in DOMAIN d.keys |-> FromBase64(d.keys[f])] = [f \in DOMAIN e.keys |-> e.keys[f]]
        BY <2>1, <2>2
    <2> QED BY <1>1, <2>3
<1>3. d.chains = Chains(Base64, e.chains) /\ Chains(FromBase64, Chains(Base64, e.chains)) = e.chains
    BY <1>1, ChainsBack DEF Entry
<1>4. (IF d.pendingPreKey = Undefined THEN Undefined
       ELSE [d.pendingPreKey EXCEPT !.baseKey = FromBase64(@)]) = p
    <2>1. CASE p = Undefined
        BY <2>1 DEF Entry
    <2>2. CASE p # Undefined
        <3>1. IsPreKey(p) /\ FromBase64(Base64(p.baseKey)) = p.baseKey
            BY <1>1, <2>2, BufferBack DEF IsPreKey
        <3>2. d.pendingPreKey = [p EXCEPT !.baseKey = Base64(p.baseKey)]
            BY <2>2 DEF Entry
        <3>3. d.pendingPreKey = [signedKeyId |-> p.signedKeyId, preKeyId |-> p.preKeyId, baseKey |-> Base64(p.baseKey)]
            BY <3>1, <3>2 DEF IsPreKey
        <3>4. d.pendingPreKey # Undefined
            BY <3>3 DEF Undefined
        <3> HIDE DEF d
        <3> QED BY <3>1, <3>3, <3>4 DEF IsPreKey
    <2> QED BY <2>1, <2>2
<1>5. d.registrationId = e.registrationId /\ d.numbers = e.numbers
    BY DEF Entry
<1> HIDE DEF d, p
<1>6. Entry(FromBase64, d) = [registrationId |-> e.registrationId, keys |-> e.keys, numbers |-> e.numbers,
                              chains |-> e.chains, pendingPreKey |-> p]
    BY <1>2, <1>3, <1>4, <1>5 DEF Entry
<1> QED BY <1>1, <1>6 DEF d

\* A record without versions gives its registration id to the session it holds.
LEMMA MigratedBack ==
    ASSUME NEW e \in Entries
    PROVE  Migrate(Stored([Entry(Base64, e) EXCEPT !.registrationId = Undefined], "none", e.registrationId)) = Entry(Base64, e)
BY DEF Migrate, Stored, Entry

\* What is in the store is the entry, of this version or of an older one.
RecordInv ==
    \/ entry = Undefined /\ data = Undefined /\ loaded = Undefined
    \/ /\ entry \in Entries
       /\ \/ data = Stored(Entry(Base64, entry), "v1", Undefined)
          \/ data = Stored([Entry(Base64, entry) EXCEPT !.registrationId = Undefined], "none", entry.registrationId)
       /\ loaded \in {Undefined, entry}

\* A session is after a restart what it was, closed chains, keys of messages to come and
\* unanswered pre-keys included; one of an old record has that record's registration id.
THEOREM SessionsComeBack == RecordSpec => []RecordsComeBack
<1>1. RecordInit => RecordInv
    BY DEF RecordInit, RecordInv
<1>2. RecordInv /\ [RecordNext]_recordVars => RecordInv'
    <2> SUFFICES ASSUME RecordInv, [RecordNext]_recordVars PROVE RecordInv'
        OBVIOUS
    <2>1. CASE UNCHANGED recordVars
        BY <2>1 DEF RecordInv, recordVars
    <2>2. CASE \E e \in Entries : Serialize(e) \/ Inherits(e)
        <3>1. PICK e \in Entries : Serialize(e) \/ Inherits(e)
            BY <2>2
        <3>2. entry' = e /\ loaded' = loaded
            BY <3>1 DEF Serialize, Inherits
        <3>3. entry = Undefined
            BY <3>1 DEF Serialize, Inherits
        <3>4. loaded \in {Undefined, entry}
            BY DEF RecordInv
        <3>5. \/ data' = Stored(Entry(Base64, e), "v1", Undefined)
              \/ data' = Stored([Entry(Base64, e) EXCEPT !.registrationId = Undefined], "none", e.registrationId)
            BY <3>1 DEF Serialize, Inherits
        <3> QED BY <3>2, <3>3, <3>4, <3>5 DEF RecordInv
    <2>3. CASE Deserialize
        <3>1. data # Undefined /\ entry' = entry /\ data' = data
            BY <2>3 DEF Deserialize
        <3>2. entry \in Entries
            BY <3>1 DEF RecordInv
        <3>3. (IF data.version = "v1" THEN data.session ELSE Migrate(data)) = Entry(Base64, entry)
            BY <3>1, <3>2, MigratedBack DEF RecordInv, Stored
        <3>4. loaded' = entry
            BY <2>3, <3>2, <3>3, EntryBack DEF Deserialize
        <3> QED BY <3>1, <3>2, <3>4 DEF RecordInv
    <2> QED BY <2>1, <2>2, <2>3 DEF RecordNext
<1>3. RecordInv => RecordsComeBack
    BY DEF RecordInv, RecordsComeBack
<1> QED BY <1>1, <1>2, <1>3, PTL DEF RecordSpec

(***************************************************************************)
(* Nodes, for any dictionaries, any names that every object has, and nodes *)
(* of any finite depth, width and contents.  The recursive definitions of  *)
(* Codec first: a loop of n rounds is the function its definition says,    *)
(* and so is a recursion over nodes, whose children are of lower levels;   *)
(* what holds of a node when it holds of its children holds of all.        *)
(***************************************************************************)

\* A set of naturals has a least element: what stands for induction here.
LEMMA LeastOf ==
    ASSUME NEW T \in SUBSET Nat, T # {}
    PROVE  \E m \in T : \A k \in T : m <= k
<1>1. PICK m \in T : \A k \in T : ~(<<k, m>> \in OpToRel(<, Nat))
    BY WFMin, NatLessThanWellFounded, Zenon
<1>2. \A k \in T : ~(k < m)
    BY <1>1, Zenon DEF OpToRel
<1> QED BY <1>2

\* A loop from base on, of n rounds.
Loops(f, base, Step, n) ==
    f = [k \in 0 .. n |-> IF k = 0 THEN base ELSE Step[<<k, f[k - 1]>>]]

\* A loop whose rounds are defined on V computes its values.
LEMMA LoopIs ==
    ASSUME NEW V, NEW n \in Nat, NEW base \in V, NEW Step \in [(1 .. n) \X V -> V]
    PROVE  \E f \in [0 .. n -> V] :
              f[0] = base /\ (\A k \in 1 .. n : f[k] = Step[<<k, f[k - 1]>>]) /\ Loops(f, base, Step, n)
<1> DEFINE Good(m) == \E f \in [0 .. m -> V] : f[0] = base /\ \A k \in 1 .. m : f[k] = Step[<<k, f[k - 1]>>]
<1>1. Good(0)
    <2> DEFINE f == [k \in 0 .. 0 |-> base]
    <2>1. f \in [0 .. 0 -> V] /\ f[0] = base
        OBVIOUS
    <2> HIDE DEF f
    <2> QED BY <2>1
<1>2. ASSUME NEW m \in 1 .. n, Good(m - 1) PROVE Good(m)
    <2>1. PICK f \in [0 .. (m - 1) -> V] : f[0] = base /\ \A k \in 1 .. (m - 1) : f[k] = Step[<<k, f[k - 1]>>]
        BY <1>2
    <2>2. f[m - 1] \in V /\ <<m, f[m - 1]>> \in (1 .. n) \X V
        BY <2>1
    <2> DEFINE g == [k \in 0 .. m |-> IF k = m THEN Step[<<m, f[m - 1]>>] ELSE f[k]]
    <2>3. g \in [0 .. m -> V] /\ g[0] = base
        BY <2>1, <2>2
    <2>4. ASSUME NEW k \in 1 .. m PROVE g[k] = Step[<<k, g[k - 1]>>]
        <3>1. CASE k = m
            <4>1. m - 1 \in 0 .. m /\ m - 1 # m
                OBVIOUS
            <4>2. g[m - 1] = f[m - 1] /\ g[m] = Step[<<m, f[m - 1]>>]
                BY <4>1
            <4> QED BY <3>1, <4>2
        <3>2. CASE k # m
            BY <2>1, <3>2
        <3> QED BY <3>1, <3>2
    <2> HIDE DEF g
    <2> QED BY <2>3, <2>4
<1> HIDE DEF Good
<1>3. Good(n)
    <2> DEFINE T == {m \in 0 .. n : ~ Good(m)}
    <2>1. SUFFICES ASSUME T # {} PROVE FALSE
        OBVIOUS
    <2>0. T \in SUBSET Nat
        OBVIOUS
    <2>2. PICK m \in T : \A k \in T : m <= k
        <3> HIDE DEF T
        <3> QED BY <2>0, <2>1, LeastOf
    <2>3. m \in 1 .. n /\ m - 1 \in 0 .. n
        BY <1>1, <2>2
    <2>4. m - 1 \notin T
        BY <2>2, <2>3
    <2> QED BY <1>2, <2>2, <2>3, <2>4
<1>4. PICK f \in [0 .. n -> V] : f[0] = base /\ \A k \in 1 .. n : f[k] = Step[<<k, f[k - 1]>>]
    BY <1>3 DEF Good
<1>5. Loops(f, base, Step, n)
    <2>1. \A k \in 0 .. n : f[k] = IF k = 0 THEN base ELSE Step[<<k, f[k - 1]>>]
        BY <1>4
    <2> QED BY <2>1 DEF Loops
<1> QED BY <1>4, <1>5

\* A loop has its values whatever function is chosen for it.
LEMMA LoopValues ==
    ASSUME NEW V, NEW n \in Nat, NEW base \in V, NEW Step \in [(1 .. n) \X V -> V], NEW f, Loops(f, base, Step, n)
    PROVE  f \in [0 .. n -> V] /\ f[0] = base /\ \A k \in 1 .. n : f[k] = Step[<<k, f[k - 1]>>]
<1>1. DOMAIN f = 0 .. n /\ \A k \in 0 .. n : f[k] = IF k = 0 THEN base ELSE Step[<<k, f[k - 1]>>]
    BY DEF Loops
<1>2. f[0] = base /\ \A k \in 1 .. n : f[k] = Step[<<k, f[k - 1]>>]
    <2>1. 0 \in 0 .. n /\ \A k \in 1 .. n : k \in 0 .. n /\ k # 0
        OBVIOUS
    <2> QED BY <1>1, <2>1
<1> DEFINE T == {k \in 0 .. n : f[k] \notin V}
<1>3. T = {}
    <2>1. SUFFICES ASSUME T # {} PROVE FALSE
        OBVIOUS
    <2>0. T \in SUBSET Nat
        OBVIOUS
    <2>2. PICK m \in T : \A k \in T : m <= k
        <3> HIDE DEF T
        <3> QED BY <2>0, <2>1, LeastOf
    <2>3. m \in 1 .. n /\ m - 1 \in 0 .. n
        BY <1>2, <2>2
    <2>4. m - 1 \notin T
        BY <2>2, <2>3
    <2>5. f[m - 1] \in V /\ <<m, f[m - 1]>> \in (1 .. n) \X V
        BY <2>3, <2>4
    <2> QED BY <1>2, <2>2, <2>3, <2>5
<1>4. f = [k \in 0 .. n |-> f[k]]
    BY DEF Loops
<1>5. \A k \in 0 .. n : f[k] \in V
    BY <1>3
<1>6. f \in [0 .. n -> V]
    BY <1>4, <1>5
<1> QED BY <1>2, <1>6

\* The first of a sequence of sequences, put together: P[k] is of the first k.
Firsts(P, q, V) ==
    /\ P \in [0 .. Len(q) -> Seq(V)] /\ P[0] = <<>>
    /\ \A k \in 1 .. Len(q) : P[k] = P[k - 1] \o q[k]

\* Concat puts one after the other.
LEMMA ConcatIs ==
    ASSUME NEW V, NEW q \in Seq(Seq(V))
    PROVE  \E P : Firsts(P, q, V) /\ Concat(q) = P[Len(q)]
<1> DEFINE n == Len(q)
           Step == [x \in (1 .. n) \X Seq(V) |-> x[2] \o q[x[1]]]
           Def(f) == f = [k \in 0 .. n |-> IF k = 0 THEN <<>> ELSE f[k - 1] \o q[k]]
           first == CHOOSE f : Def(f)
<1>1. n \in Nat /\ <<>> \in Seq(V) /\ Step \in [(1 .. n) \X Seq(V) -> Seq(V)]
    <2>1. ASSUME NEW x \in (1 .. n) \X Seq(V) PROVE x[2] \o q[x[1]] \in Seq(V)
        <3>1. x[2] \in Seq(V) /\ q[x[1]] \in Seq(V)
            OBVIOUS
        <3> QED BY <3>1
    <2> QED BY <2>1
<1>2. \A k \in 1 .. n, x \in Seq(V) : Step[<<k, x>>] = x \o q[k]
    OBVIOUS
<1> HIDE DEF Step, n
<1>3. \E f : Def(f)
    <2>1. PICK f \in [0 .. n -> Seq(V)] :
             f[0] = <<>> /\ (\A k \in 1 .. n : f[k] = Step[<<k, f[k - 1]>>]) /\ Loops(f, <<>>, Step, n)
        BY <1>1, LoopIs
    <2>2. ASSUME NEW k \in 0 .. n PROVE f[k] = IF k = 0 THEN <<>> ELSE f[k - 1] \o q[k]
        <3>1. CASE k = 0
            BY <2>1, <3>1
        <3>2. CASE k # 0
            <4>1. k \in 1 .. n /\ k - 1 \in 0 .. n
                BY <1>1, <3>2
            <4>2. f[k - 1] \in Seq(V)
                BY <2>1, <4>1
            <4> QED BY <1>2, <2>1, <3>2, <4>1, <4>2
        <3> QED BY <3>1, <3>2
    <2>3. Def(f)
        BY <2>1, <2>2
    <2> QED BY <2>3
<1> HIDE DEF Def
<1>4. Def(first)
    BY <1>3
<1>5. Concat(q) = first[n]
    BY DEF Concat, n, Def
<1> HIDE DEF first
<1>6. first \in [0 .. n -> Seq(V)] /\ first[0] = <<>> /\ \A k \in 1 .. n : first[k] = first[k - 1] \o q[k]
    <2>1. DOMAIN first = 0 .. n /\ \A k \in 0 .. n : first[k] = IF k = 0 THEN <<>> ELSE first[k - 1] \o q[k]
        BY <1>4 DEF Def
    <2>2. ASSUME NEW k \in 1 .. n PROVE first[k] = first[k - 1] \o q[k]
        <3>1. k \in 0 .. n /\ k # 0
            BY <1>1
        <3> QED BY <2>1, <3>1
    <2>0. first[0] = <<>>
        <3>1. 0 \in 0 .. n
            BY <1>1
        <3> QED BY <2>1, <3>1
    <2> DEFINE T == {k \in 0 .. n : first[k] \notin Seq(V)}
    <2>3. T = {}
        <3>1. SUFFICES ASSUME T # {} PROVE FALSE
            OBVIOUS
        <3>0. T \in SUBSET Nat
            BY <1>1
        <3>2. PICK m \in T : \A k \in T : m <= k
            <4> HIDE DEF T
            <4> QED BY <3>0, <3>1, LeastOf
        <3>3. m \in 1 .. n /\ m - 1 \in 0 .. n
            <4>1. m \in 0 .. n /\ first[m] \notin Seq(V)
                BY <3>2
            <4>2. m # 0
                BY <1>1, <2>0, <4>1
            <4>3. n \in Nat
                BY <1>1
            <4> QED BY <4>1, <4>2, <4>3
        <3>4. m - 1 \notin T
            BY <3>2, <3>3
        <3>5. first[m - 1] \in Seq(V) /\ q[m] \in Seq(V)
            BY <3>3, <3>4 DEF n
        <3>6. first[m] = first[m - 1] \o q[m]
            BY <2>2, <3>3
        <3>7. first[m] \in Seq(V)
            BY <3>5, <3>6
        <3> QED BY <3>2, <3>7
    <2>4. first = [k \in 0 .. n |-> first[k]]
        BY <1>4 DEF Def
    <2>5. first \in [0 .. n -> Seq(V)]
        BY <2>3, <2>4
    <2> QED BY <2>0, <2>2, <2>5
<1> QED BY <1>5, <1>6 DEF Firsts, n

\* The nodes of the first levels.
Upto(d) == UNION {Levels[e] : e \in 1 .. d}

\* The types of a node's fields.
LEMMA NodeTyped ==
    ASSUME NEW d \in 1 .. Len(Levels), NEW node \in Levels[d]
    PROVE  /\ node \in [tag : StringSet, attrs : Seq(AttrSet), content : ContentSet(d)]
           /\ \A i \in DOMAIN Kids(node) : Kids(node)[i].tag # Empty
BY CodecAssumption

\* Children are of lower levels.
LEMMA KidsLower ==
    ASSUME NEW d \in 1 .. Len(Levels), NEW node \in Levels[d]
    PROVE  Kids(node) \in Seq(Upto(d - 1))
<1>1. node.content \in ContentSet(d)
    BY NodeTyped
<1>2. CASE node.content.kind = "nodes"
    <2>1. node.content \in [kind : {"nodes"}, nodes : Seq(Upto(d - 1))]
        BY <1>1, <1>2 DEF ContentSet, NoContent, Upto
    <2> QED BY <1>2, <2>1 DEF Kids
<1>3. CASE node.content.kind # "nodes"
    BY <1>3 DEF Kids
<1> QED BY <1>2, <1>3

\* The levels and the nodes.
LEMMA LevelsOf ==
    /\ Len(Levels) \in Nat
    /\ Nodes = Upto(Len(Levels))
    /\ \A d \in 1 .. Len(Levels) : Upto(d) = Upto(d - 1) \cup Levels[d]
    /\ \A d \in 1 .. Len(Levels) : \A node \in Levels[d] : \A i \in DOMAIN Kids(node) : Kids(node)[i] \in Upto(d - 1)
    /\ \A d, e \in 0 .. Len(Levels) : d <= e => Upto(d) \subseteq Upto(e)
<1>1. Len(Levels) \in Nat /\ DOMAIN Levels = 1 .. Len(Levels)
    BY CodecAssumption
<1>2. Nodes = Upto(Len(Levels))
    BY <1>1 DEF Nodes, Upto
<1>3. ASSUME NEW d \in 1 .. Len(Levels) PROVE Upto(d) = Upto(d - 1) \cup Levels[d]
    <2>1. 1 .. d = (1 .. (d - 1)) \cup {d}
        BY <1>1
    <2> QED BY <2>1 DEF Upto
<1>4. ASSUME NEW d \in 1 .. Len(Levels), NEW node \in Levels[d], NEW i \in DOMAIN Kids(node)
      PROVE  Kids(node)[i] \in Upto(d - 1)
    BY KidsLower
<1>5. ASSUME NEW d \in 0 .. Len(Levels), NEW e \in 0 .. Len(Levels), d <= e PROVE Upto(d) \subseteq Upto(e)
    <2>1. 1 .. d \subseteq 1 .. e
        BY <1>1, <1>5
    <2> QED BY <2>1 DEF Upto
<1> QED BY <1>1, <1>2, <1>3, <1>4, <1>5

\* Children of nodes of the first levels are of them.
LEMMA KidsUpto ==
    ASSUME NEW d \in 0 .. Len(Levels), NEW node \in Upto(d), NEW i \in DOMAIN Kids(node)
    PROVE  Kids(node)[i] \in Upto(d) /\ (d # 0 /\ node \notin Upto(d - 1) => Kids(node)[i] \in Upto(d - 1))
<1>1. PICK e \in 1 .. d : node \in Levels[e]
    BY DEF Upto
<1>2. Len(Levels) \in Nat /\ e \in 1 .. Len(Levels) /\ e - 1 \in 0 .. Len(Levels) /\ e - 1 <= d
    BY <1>1, LevelsOf
<1>3. Kids(node)[i] \in Upto(e - 1)
    BY <1>1, <1>2, LevelsOf
<1>4. Upto(e - 1) \subseteq Upto(d)
    BY <1>2, LevelsOf
<1>5. ASSUME d # 0, node \notin Upto(d - 1) PROVE e = d
    <2>1. CASE e \in 1 .. (d - 1)
        BY <1>1, <1>5, <2>1 DEF Upto
    <2> QED BY <1>2, <2>1
<1> QED BY <1>3, <1>4, <1>5

\* Children of nodes are nodes.
LEMMA KidsAreNodes ==
    ASSUME NEW node \in Nodes
    PROVE  Kids(node) \in Seq(Nodes)
<1>1. PICK d \in 1 .. Len(Levels) : node \in Levels[d]
    BY CodecAssumption DEF Nodes
<1>2. d - 1 \in 0 .. Len(Levels) /\ d - 1 <= Len(Levels) /\ Len(Levels) \in 0 .. Len(Levels)
    BY LevelsOf
<1>3. Upto(d - 1) \subseteq Nodes
    BY <1>2, LevelsOf
<1>4. Kids(node) \in Seq(Upto(d - 1))
    BY <1>1, KidsLower
<1> QED BY <1>3, <1>4

\* What holds of a node when it holds of its children holds of every node.
Hereditary(S) == \A node \in Nodes : (\A i \in DOMAIN Kids(node) : Kids(node)[i] \in S) => node \in S

\* By the least level with a node that S does not have.
LEMMA Heredity ==
    ASSUME NEW S, Hereditary(S)
    PROVE  Nodes \subseteq S
<1> DEFINE T == {d \in 0 .. Len(Levels) : ~(Upto(d) \subseteq S)}
<1>1. T = {}
    <2>1. SUFFICES ASSUME T # {} PROVE FALSE
        OBVIOUS
    <2>2. T \in SUBSET Nat
        BY LevelsOf
    <2>3. PICK d \in T : \A k \in T : d <= k
        <3> HIDE DEF T
        <3> QED BY <2>1, <2>2, LeastOf
    <2>4. Upto(0) = {}
        BY DEF Upto
    <2>5. d # 0 /\ d \in 0 .. Len(Levels)
        BY <2>3, <2>4
    <2>6. d - 1 \in 0 .. Len(Levels) /\ d \in 1 .. Len(Levels) /\ Len(Levels) \in Nat
        BY <2>5, LevelsOf
    <2>7. d - 1 \notin T
        BY <2>3, <2>6
    <2>8. Upto(d - 1) \subseteq S
        BY <2>6, <2>7
    <2>9. ASSUME NEW node \in Levels[d] PROVE node \in S
        <3>1. \A i \in DOMAIN Kids(node) : Kids(node)[i] \in S
            BY <2>6, <2>8, LevelsOf
        <3>2. node \in Nodes
            BY <2>6, CodecAssumption DEF Nodes
        <3> QED BY <3>1, <3>2 DEF Hereditary
    <2>10. Upto(d) \subseteq S
        BY <2>6, <2>8, <2>9, LevelsOf
    <2> QED BY <2>3, <2>10
<1>2. Len(Levels) \in 0 .. Len(Levels) /\ Nodes = Upto(Len(Levels))
    BY LevelsOf
<1> QED BY <1>1, <1>2

\* The three functions on nodes are what their definitions say: one function that has
\* the values of all three exists, level after level.
LEMMA TreesExist ==
    \E f : /\ DOMAIN f = Nodes
           /\ \A node \in Nodes :
                 f[node] = <<EncodeWith(node, [i \in DOMAIN Kids(node) |-> f[Kids(node)[i]][1]]),
                             CanonicalWith(node, [i \in DOMAIN Kids(node) |-> f[Kids(node)[i]][2]]),
                             WritableWith(node, [i \in DOMAIN Kids(node) |-> f[Kids(node)[i]][3]])>>
<1> DEFINE Of(f, node, n) == [i \in DOMAIN Kids(node) |-> f[Kids(node)[i]][n]]
           T(f, node) == <<EncodeWith(node, Of(f, node, 1)), CanonicalWith(node, Of(f, node, 2)),
                           WritableWith(node, Of(f, node, 3))>>
           Def(f, m) == f = [node \in Upto(m) |-> T(f, node)]
<1>1. ASSUME NEW f, NEW g, NEW node, \A i \in DOMAIN Kids(node) : f[Kids(node)[i]] = g[Kids(node)[i]]
      PROVE  T(f, node) = T(g, node)
    <2>1. Of(f, node, 1) = Of(g, node, 1) /\ Of(f, node, 2) = Of(g, node, 2) /\ Of(f, node, 3) = Of(g, node, 3)
        BY <1>1
    <2> HIDE DEF Of
    <2> QED BY <2>1
<1> HIDE DEF T
<1>2. Def([node \in {} |-> 0], 0)
    <2>1. Upto(0) = {}
        BY DEF Upto
    <2> QED BY <2>1
<1>3. ASSUME NEW m \in 1 .. Len(Levels), NEW f, Def(f, m - 1) PROVE \E g : Def(g, m)
    <2> DEFINE g == [node \in Upto(m) |-> IF node \in Upto(m - 1) THEN f[node] ELSE T(f, node)]
    <2>1. m \in 0 .. Len(Levels) /\ m - 1 \in 0 .. Len(Levels) /\ m # 0 /\ Upto(m - 1) \subseteq Upto(m)
        BY LevelsOf
    <2>2. ASSUME NEW node \in Upto(m) PROVE g[node] = T(g, node)
        <3>1. \A i \in DOMAIN Kids(node) : Kids(node)[i] \in Upto(m - 1)
            <4>1. CASE node \in Upto(m - 1)
                BY <2>1, <4>1, KidsUpto
            <4>2. CASE node \notin Upto(m - 1)
                BY <2>1, <4>2, KidsUpto
            <4> QED BY <4>1, <4>2
        <3>2. \A i \in DOMAIN Kids(node) : f[Kids(node)[i]] = g[Kids(node)[i]]
            BY <2>1, <3>1
        <3>3. T(f, node) = T(g, node)
            <4> HIDE DEF g
            <4> QED BY <1>1, <3>2
        <3>4. node \in Upto(m - 1) => f[node] = T(f, node)
            BY <1>3
        <3>5. g[node] = T(f, node)
            BY <3>4
        <3> QED BY <3>3, <3>5
    <2>3. g = [node \in Upto(m) |-> g[node]]
        OBVIOUS
    <2> HIDE DEF g
    <2>4. g = [node \in Upto(m) |-> T(g, node)]
        BY <2>2, <2>3
    <2> QED BY <2>4
<1> HIDE DEF Def
<1> DEFINE S == {m \in 0 .. Len(Levels) : ~ \E f : Def(f, m)}
<1>4. S = {}
    <2>1. SUFFICES ASSUME S # {} PROVE FALSE
        OBVIOUS
    <2>2. S \in SUBSET Nat
        BY LevelsOf
    <2>3. PICK m \in S : \A k \in S : m <= k
        <3> HIDE DEF S
        <3> QED BY <2>1, <2>2, LeastOf
    <2>4. m # 0 /\ m \in 0 .. Len(Levels)
        BY <1>2, <2>3
    <2>5. m - 1 \in 0 .. Len(Levels) /\ m \in 1 .. Len(Levels)
        BY <2>4, LevelsOf
    <2>6. m - 1 \notin S
        BY <2>3, <2>5
    <2>7. PICK f : Def(f, m - 1)
        BY <2>5, <2>6
    <2>8. \E g : Def(g, m)
        BY <1>3, <2>5, <2>7
    <2> QED BY <2>3, <2>8
<1>5. Len(Levels) \in 0 .. Len(Levels) /\ Nodes = Upto(Len(Levels))
    BY LevelsOf
<1>6. PICK f : Def(f, Len(Levels))
    BY <1>4, <1>5
<1>7. DOMAIN f = Nodes /\ \A node \in Nodes : f[node] = T(f, node)
    BY <1>5, <1>6 DEF Def
<1> QED BY <1>7 DEF T

\* What encodeBinaryNodeInner writes for a node is made of what it writes for its children;
\* so it is with what is read of them, and with what can be written.
LEMMA TreesAre ==
    ASSUME NEW node \in Nodes
    PROVE  /\ Encode[node] = EncodeWith(node, [i \in DOMAIN Kids(node) |-> Encode[Kids(node)[i]]])
           /\ CanonicalNode[node] = CanonicalWith(node, [i \in DOMAIN Kids(node) |-> CanonicalNode[Kids(node)[i]]])
           /\ WritableNode[node] = WritableWith(node, [i \in DOMAIN Kids(node) |-> WritableNode[Kids(node)[i]]])
<1> DEFINE E(f, n) == EncodeWith(n, [i \in DOMAIN Kids(n) |-> f[Kids(n)[i]][1]])
           C(f, n) == CanonicalWith(n, [i \in DOMAIN Kids(n) |-> f[Kids(n)[i]][2]])
           W(f, n) == WritableWith(n, [i \in DOMAIN Kids(n) |-> f[Kids(n)[i]][3]])
           Enc(f) == f = [n \in Nodes |-> EncodeWith(n, [i \in DOMAIN Kids(n) |-> f[Kids(n)[i]]])]
           Can(f) == f = [n \in Nodes |-> CanonicalWith(n, [i \in DOMAIN Kids(n) |-> f[Kids(n)[i]]])]
           Wri(f) == f = [n \in Nodes |-> WritableWith(n, [i \in DOMAIN Kids(n) |-> f[Kids(n)[i]]])]
<1>0. \E f : \A n \in Nodes : f[n] = <<E(f, n), C(f, n), W(f, n)>>
    BY TreesExist
<1> HIDE DEF E, C, W
<1>1. PICK f : \A n \in Nodes : f[n] = <<E(f, n), C(f, n), W(f, n)>>
    BY <1>0
<1>2. \A n \in Nodes : \A i \in DOMAIN Kids(n) : Kids(n)[i] \in Nodes
    BY KidsAreNodes
<1>3. \E g : Enc(g)
    <2> DEFINE g == [n \in Nodes |-> f[n][1]]
    <2>1. ASSUME NEW n \in Nodes
          PROVE  g[n] = EncodeWith(n, [i \in DOMAIN Kids(n) |-> g[Kids(n)[i]]])
        <3>1. [i \in DOMAIN Kids(n) |-> g[Kids(n)[i]]] = [i \in DOMAIN Kids(n) |-> f[Kids(n)[i]][1]]
            BY <1>2
        <3>2. g[n] = E(f, n)
            BY <1>1
        <3> HIDE DEF g
        <3> QED BY <3>1, <3>2 DEF E
    <2>2. g = [n \in Nodes |-> g[n]]
        OBVIOUS
    <2> HIDE DEF g
    <2>3. Enc(g)
        BY <2>1, <2>2
    <2> QED BY <2>3
<1>4. \E g : Can(g)
    <2> DEFINE g == [n \in Nodes |-> f[n][2]]
    <2>1. ASSUME NEW n \in Nodes
          PROVE  g[n] = CanonicalWith(n, [i \in DOMAIN Kids(n) |-> g[Kids(n)[i]]])
        <3>1. [i \in DOMAIN Kids(n) |-> g[Kids(n)[i]]] = [i \in DOMAIN Kids(n) |-> f[Kids(n)[i]][2]]
            BY <1>2
        <3>2. g[n] = C(f, n)
            BY <1>1
        <3> HIDE DEF g
        <3> QED BY <3>1, <3>2 DEF C
    <2>2. g = [n \in Nodes |-> g[n]]
        OBVIOUS
    <2> HIDE DEF g
    <2>3. Can(g)
        BY <2>1, <2>2
    <2> QED BY <2>3
<1>5. \E g : Wri(g)
    <2> DEFINE g == [n \in Nodes |-> f[n][3]]
    <2>1. ASSUME NEW n \in Nodes
          PROVE  g[n] = WritableWith(n, [i \in DOMAIN Kids(n) |-> g[Kids(n)[i]]])
        <3>1. [i \in DOMAIN Kids(n) |-> g[Kids(n)[i]]] = [i \in DOMAIN Kids(n) |-> f[Kids(n)[i]][3]]
            BY <1>2
        <3>2. g[n] = W(f, n)
            BY <1>1
        <3> HIDE DEF g
        <3> QED BY <3>1, <3>2 DEF W
    <2>2. g = [n \in Nodes |-> g[n]]
        OBVIOUS
    <2> HIDE DEF g
    <2>3. Wri(g)
        BY <2>1, <2>2
    <2> QED BY <2>3
<1> HIDE DEF Enc, Can, Wri
<1>6. Encode = CHOOSE g : Enc(g)
    BY DEF Encode, Enc
<1>7. CanonicalNode = CHOOSE g : Can(g)
    BY DEF CanonicalNode, Can
<1>8. WritableNode = CHOOSE g : Wri(g)
    BY DEF WritableNode, Wri
<1>9. Enc(Encode) /\ Can(CanonicalNode) /\ Wri(WritableNode)
    BY <1>3, <1>4, <1>5, <1>6, <1>7, <1>8
<1>10. Encode[node] = EncodeWith(node, [i \in DOMAIN Kids(node) |-> Encode[Kids(node)[i]]])
    BY <1>9 DEF Enc
<1>11. CanonicalNode[node] = CanonicalWith(node, [i \in DOMAIN Kids(node) |-> CanonicalNode[Kids(node)[i]]])
    BY <1>9 DEF Can
<1>12. WritableNode[node] = WritableWith(node, [i \in DOMAIN Kids(node) |-> WritableNode[Kids(node)[i]]])
    BY <1>9 DEF Wri
<1> QED BY <1>10, <1>11, <1>12

(***************************************************************************)
(* What a reader can do: a string is read from at least one symbol, and    *)
(* every read ends behind the place where it began and within the stream.  *)
(* So the lists of a stream are well defined, from its end to its          *)
(* beginning.                                                              *)
(***************************************************************************)

\* The characters and servers of streams: the provers do not know that the string a
\* definition names is in STRING.
Letters == STRING \cup {Zero}
Servers == (STRING \cup {"lid", "s.whatsapp.net"}) \ {NoServer}
Texts == [chars : Seq(Letters), device : {NoDevice}, server : {NoServer}]
Strings == Texts \cup [chars : Seq(Letters), device : Nat \cup {NoDevice}, server : Servers]

Tags == {"token", "dictionary", "LIST_EMPTY", "LIST_8", "LIST_16", "NIBBLE_8", "HEX_8",
         "BINARY_8", "BINARY_20", "BINARY_32", "AD_JID", "JID_PAIR"}

\* What a symbol is: the server of a JID comes as a token of its own, no text is
\* longer than its characters, and numbers fit into their bytes.
Symbols ==
    {y \in [tag : Tags, a : Nat, b : Nat, chars : Seq(Letters)] :
        /\ y.tag \in Binaries => y.a <= Len(y.chars)
        /\ y.tag \in {"NIBBLE_8", "HEX_8"} => 2 * y.a - y.b <= Len(y.chars)
        /\ y.tag = "AD_JID" => y.b < Byte
        /\ y.tag \in ListTags => y.a < Byte * Byte
        /\ y.tag = "LIST_EMPTY" => y.a = 0}
    \cup [tag : {"server"}, a : Nat, b : Nat, chars : Servers]

\* The first characters of a text are a text.
LEMMA FirstChars ==
    ASSUME NEW q \in Seq(Letters), NEW m \in Int, m <= Len(q)
    PROVE  SubSeq(q, 1, m) \in Seq(Letters)
<1>1. \A k \in 1 .. m : q[k] \in Letters
    OBVIOUS
<1>2. CASE m < 1
    <2>1. SubSeq(q, 1, m) = <<>>
        BY <1>2
    <2> QED BY <2>1
<1>3. CASE m >= 1
    <2>1. m \in 1 .. Len(q)
        BY <1>3
    <2> QED BY <1>1, <2>1, SubSeqProperties
<1> QED BY <1>2, <1>3

\* What a read gives, and what it is read from.
LEMMA ReadIs ==
    /\ ~Failed.ok
    /\ \A v, n : Read(v, n).ok /\ Read(v, n).value = v /\ Read(v, n).next = n
    /\ \A v, n, w, m : Read(v, n) = Read(w, m) => v = w /\ n = m
    /\ \A v, n : Read(v, n) # Failed
<1>1. ~Failed.ok
    BY DEF Failed
<1>2. \A v, n : Read(v, n).ok /\ Read(v, n).value = v /\ Read(v, n).next = n
    BY DEF Read
<1>3. \A v, n, w, m : Read(v, n) = Read(w, m) => v = w /\ n = m
    BY <1>2
<1>4. \A v, n : Read(v, n) # Failed
    BY <1>1, <1>2
<1> QED BY <1>1, <1>2, <1>3, <1>4

\* A read that fails, or one whose value is in V and that ends between lo and hi.
IsRead(r, V, lo, hi) == r = Failed \/ \E v \in V, n \in lo .. hi : r = Read(v, n)

\* What such a read is made of.
LEMMA IsReadIs ==
    ASSUME NEW V, NEW lo, NEW hi, NEW r, IsRead(r, V, lo, hi)
    PROVE  /\ r = Failed \/ r.ok
           /\ r.ok => r.value \in V /\ r.next \in lo .. hi /\ r = Read(r.value, r.next)
<1>1. CASE r = Failed
    BY <1>1, ReadIs
<1>2. ASSUME NEW v \in V, NEW n \in lo .. hi, r = Read(v, n) PROVE r.ok /\ r.value = v /\ r.next = n
    BY <1>2, ReadIs
<1> QED BY <1>1, <1>2 DEF IsRead

\* The part of readString that is not of JIDs takes one symbol.
LEMMA TextCases ==
    ASSUME NEW s \in Seq(Symbols), NEW i \in 1 .. Len(s)
    PROVE  /\ s[i] \in Symbols
           /\ s[i].tag \in {"token", "dictionary"} => ReadText(s, i) = Read(Text(s[i].chars), i + 1)
           /\ s[i].tag = "LIST_EMPTY" => ReadText(s, i) = Read(Empty, i + 1)
           /\ s[i].tag \in Binaries => ReadText(s, i) = Read(Text(SubSeq(s[i].chars, 1, s[i].a)), i + 1)
           /\ s[i].tag \in {"NIBBLE_8", "HEX_8"} =>
                 ReadText(s, i) = Read(Text(SubSeq(s[i].chars, 1, 2 * s[i].a - s[i].b)), i + 1)
           /\ s[i].tag \notin {"token", "dictionary", "LIST_EMPTY", "NIBBLE_8", "HEX_8"} \cup Binaries =>
                 ReadText(s, i) = Failed
<1> DEFINE t == s[i].tag
           A == Read(Text(s[i].chars), i + 1)
           B == Read(Empty, i + 1)
           C == Read(Text(SubSeq(s[i].chars, 1, s[i].a)), i + 1)
           D == Read(Text(SubSeq(s[i].chars, 1, 2 * s[i].a - s[i].b)), i + 1)
<1>1. ~(i > Len(s)) /\ s[i] \in Symbols
    OBVIOUS
<1>2. ReadText(s, i) = CASE t \in {"token", "dictionary"} -> A [] t = "LIST_EMPTY" -> B
                         [] t \in {"BINARY_8", "BINARY_20", "BINARY_32"} -> C
                         [] t \in {"NIBBLE_8", "HEX_8"} -> D [] OTHER -> Failed
    BY <1>1 DEF ReadText, Binaries
<1> HIDE DEF t, A, B, C, D
<1>3. t \in {"token", "dictionary"} => ReadText(s, i) = A
    BY <1>2
<1>4. t = "LIST_EMPTY" => ReadText(s, i) = B
    BY <1>2
<1>5. t \in Binaries => ReadText(s, i) = C
    BY <1>2 DEF Binaries
<1>6. t \in {"NIBBLE_8", "HEX_8"} => ReadText(s, i) = D
    BY <1>2
<1>7. t \notin {"token", "dictionary", "LIST_EMPTY", "NIBBLE_8", "HEX_8"} \cup Binaries => ReadText(s, i) = Failed
    BY <1>2 DEF Binaries
<1> QED BY <1>1, <1>3, <1>4, <1>5, <1>6, <1>7 DEF t, A, B, C, D

\* It gives a text, and an empty one alone from the zero of a list.
LEMMA TextReads ==
    ASSUME NEW s \in Seq(Symbols), NEW i \in Nat \ {0}
    PROVE  /\ IsRead(ReadText(s, i), Texts, i + 1, i + 1)
           /\ ReadText(s, i).ok => i <= Len(s)
<1>1. CASE i > Len(s)
    BY <1>1, ReadIs DEF ReadText, IsRead
<1>2. CASE i <= Len(s)
    <2>0. i \in 1 .. Len(s)
        BY <1>2
    <2>1. s[i] \in Symbols
        BY <2>0, TextCases
    <2>2. \A q \in Seq(Letters) : Text(q) \in Texts
        BY DEF Text, Texts
    <2>3. Empty \in Texts
        <3>1. <<>> \in Seq(Letters)
            OBVIOUS
        <3> QED BY <2>2, <3>1 DEF Empty
    <2>4. i + 1 \in (i + 1) .. (i + 1)
        OBVIOUS
    <2>5. s[i].tag # "server" => s[i].chars \in Seq(Letters) /\ s[i].a \in Nat /\ s[i].b \in Nat
        BY <2>1 DEF Symbols
    <2>6. CASE s[i].tag \in {"token", "dictionary"}
        <3>1. Text(s[i].chars) \in Texts
            BY <2>2, <2>5, <2>6
        <3>2. ReadText(s, i) = Read(Text(s[i].chars), i + 1)
            BY <2>0, <2>6, TextCases
        <3> QED BY <1>2, <2>4, <3>1, <3>2 DEF IsRead
    <2>7. CASE s[i].tag = "LIST_EMPTY"
        <3>1. ReadText(s, i) = Read(Empty, i + 1)
            BY <2>0, <2>7, TextCases
        <3> QED BY <1>2, <2>3, <2>4, <3>1 DEF IsRead
    <2>8. CASE s[i].tag \in Binaries
        <3>1. s[i].a <= Len(s[i].chars) /\ s[i].tag # "server"
            BY <2>1, <2>8 DEF Symbols, Binaries
        <3> DEFINE m == s[i].a
        <3>4. m \in Int /\ m <= Len(s[i].chars)
            BY <2>5, <3>1
        <3> HIDE DEF m
        <3>5. Text(SubSeq(s[i].chars, 1, m)) \in Texts
            BY <2>2, <2>5, <3>1, <3>4, FirstChars
        <3>2. Text(SubSeq(s[i].chars, 1, s[i].a)) \in Texts
            BY <3>5 DEF m
        <3>3. ReadText(s, i) = Read(Text(SubSeq(s[i].chars, 1, s[i].a)), i + 1)
            BY <2>0, <2>8, TextCases
        <3> QED BY <1>2, <2>4, <3>2, <3>3 DEF IsRead
    <2>9. CASE s[i].tag \in {"NIBBLE_8", "HEX_8"}
        <3> DEFINE m == 2 * s[i].a - s[i].b
        <3>1. m <= Len(s[i].chars) /\ s[i].tag # "server"
            BY <2>1, <2>9 DEF Symbols
        <3>2. m \in Int
            BY <2>5, <3>1
        <3>3. ReadText(s, i) = Read(Text(SubSeq(s[i].chars, 1, m)), i + 1)
            BY <2>0, <2>9, TextCases
        <3> HIDE DEF m
        <3>4. Text(SubSeq(s[i].chars, 1, m)) \in Texts
            BY <2>2, <2>5, <3>1, <3>2, FirstChars
        <3> QED BY <1>2, <2>4, <3>3, <3>4 DEF IsRead
    <2>10. CASE s[i].tag \notin {"token", "dictionary", "LIST_EMPTY", "NIBBLE_8", "HEX_8"} \cup Binaries
        <3>1. ReadText(s, i) = Failed
            BY <2>0, <2>10, TextCases
        <3> QED BY <1>2, <3>1 DEF IsRead
    <2> QED BY <2>6, <2>7, <2>8, <2>9, <2>10
<1> QED BY <1>1, <1>2

\* readString ends behind what it took.
LEMMA StringReads ==
    ASSUME NEW s \in Seq(Symbols), NEW i \in Nat \ {0}
    PROVE  /\ IsRead(ReadString(s, i), Strings, i + 1, Len(s) + 1)
           /\ ReadString(s, i).ok => i <= Len(s)
<1> DEFINE u == ReadText(s, i + 1)
           t == ReadText(s, i)
<1>1. IsRead(u, Texts, i + 2, i + 2) /\ (u.ok => i + 1 <= Len(s))
    <2>1. (i + 1) + 1 = i + 2 /\ i + 1 \in Nat \ {0}
        OBVIOUS
    <2> QED BY <2>1, TextReads
<1>2. IsRead(t, Texts, i + 1, i + 1) /\ (t.ok => i <= Len(s))
    BY TextReads
<1>3. u.ok => u.value.chars \in Seq(Letters) /\ u.next = i + 2 /\ i + 2 \in (i + 1) .. (Len(s) + 1)
    <2> HIDE DEF u
    <2>1. u.ok => u.value \in Texts /\ u.next \in (i + 2) .. (i + 2)
        BY <1>1, IsReadIs
    <2>2. u.ok => i + 2 \in (i + 1) .. (Len(s) + 1)
        BY <1>1
    <2> QED BY <2>1, <2>2 DEF Texts
<1>4. IsRead(Failed, Strings, i + 1, Len(s) + 1) /\ ~Failed.ok
    BY ReadIs DEF IsRead
<1>5. CASE i > Len(s)
    BY <1>4, <1>5 DEF ReadString
<1>6. CASE i <= Len(s) /\ s[i].tag = "AD_JID"
    <2>1. ReadString(s, i) = ReadAdJid(s, i)
        BY <1>6 DEF ReadString
    <2>2. CASE ~u.ok
        BY <1>4, <1>6, <2>1, <2>2 DEF ReadAdJid
    <2>3. CASE u.ok
        <3> DEFINE d == IF s[i].b > 0 THEN s[i].b ELSE NoDevice
                   j == Jid(u.value.chars, d, ServerOf(s[i].a))
        <3>1. s[i] \in Symbols
            BY <1>6
        <3>2. d \in Nat \cup {NoDevice}
            BY <3>1 DEF Symbols
        <3>3. ServerOf(s[i].a) \in Servers
            <4>1. ServerOf(s[i].a) = "lid" \/ ServerOf(s[i].a) = "s.whatsapp.net"
                BY DEF ServerOf
            <4> QED BY <4>1 DEF NoServer, Servers
        <3> HIDE DEF d
        <3>4. j \in Strings
            BY <1>3, <2>3, <3>2, <3>3 DEF Jid, Strings
        <3>5. ReadAdJid(s, i) = Read(j, i + 2)
            BY <1>3, <2>3 DEF ReadAdJid, d
        <3> HIDE DEF u, j
        <3>6. i + 2 \in (i + 1) .. (Len(s) + 1)
            BY <1>3, <2>3
        <3> QED BY <1>6, <2>1, <3>4, <3>5, <3>6 DEF IsRead
    <2> QED BY <2>2, <2>3
<1>7. CASE i <= Len(s) /\ s[i].tag = "JID_PAIR"
    <2>1. ReadString(s, i) = ReadJidPair(s, i)
        BY <1>7 DEF ReadString
    <2>2. CASE ~(u.ok /\ u.next <= Len(s) /\ s[u.next].tag = "server")
        BY <1>4, <1>7, <2>1, <2>2 DEF ReadJidPair
    <2>3. CASE u.ok /\ u.next <= Len(s) /\ s[u.next].tag = "server"
        <3> DEFINE j == Jid(u.value.chars, NoDevice, s[u.next].chars)
        <3>1. u.next = i + 2 /\ i + 2 \in 1 .. Len(s)
            BY <1>3, <2>3
        <3>2. s[u.next] \in Symbols
            BY <3>1
        <3>3. s[u.next].chars \in Servers
            BY <2>3, <3>2 DEF Symbols, Tags
        <3>4. j \in Strings
            BY <1>3, <2>3, <3>3 DEF Jid, Strings
        <3>5. ReadJidPair(s, i) = Read(j, u.next + 1)
            BY <2>3 DEF ReadJidPair
        <3> HIDE DEF u, j
        <3>6. u.next + 1 \in (i + 1) .. (Len(s) + 1)
            BY <3>1
        <3> QED BY <1>7, <2>1, <3>4, <3>5, <3>6 DEF IsRead
    <2> QED BY <2>2, <2>3
<1>8. CASE i <= Len(s) /\ s[i].tag \notin {"AD_JID", "JID_PAIR"}
    <2>1. ReadString(s, i) = t
        BY <1>8 DEF ReadString
    <2>2. Texts \subseteq Strings
        BY DEF Strings
    <2>3. (i + 1) .. (i + 1) \subseteq (i + 1) .. (Len(s) + 1)
        BY <1>8
    <2> HIDE DEF t
    <2>4. IsRead(t, Strings, i + 1, Len(s) + 1)
        BY <1>2, <2>2, <2>3 DEF IsRead
    <2> QED BY <1>8, <2>1, <2>4
<1> QED BY <1>5, <1>6, <1>7, <1>8

\* Attributes as they are read.
Attrs == Seq(Strings \X Strings)

\* An attribute is read behind the ones before it.
LEMMA AttrReads ==
    ASSUME NEW s \in Seq(Symbols), NEW i \in 1 .. Len(s) + 1, NEW prior, IsRead(prior, Attrs, i, Len(s) + 1)
    PROVE  /\ IsRead(ReadAttr(s, prior), Attrs, i, Len(s) + 1)
           /\ ReadAttr(s, prior).ok =>
                 LET key == ReadString(s, prior.next)
                     value == ReadString(s, key.next)
                 IN /\ prior.ok /\ key.ok /\ value.ok
                    /\ prior.next \in i .. Len(s) /\ key.next \in (prior.next + 1) .. Len(s)
                    /\ value.next \in (key.next + 1) .. (Len(s) + 1)
                    /\ ReadAttr(s, prior) = Read(Append(prior.value, <<key.value, value.value>>), value.next)
<1> DEFINE key == ReadString(s, prior.next)
           value == ReadString(s, key.next)
           r == ReadAttr(s, prior)
<1>1. CASE ~(prior.ok /\ key.ok /\ value.ok)
    <2>1. r = Failed
        BY <1>1 DEF ReadAttr, PairAfter
    <2> QED BY <2>1, ReadIs DEF IsRead
<1>2. CASE prior.ok /\ key.ok /\ value.ok
    <2>1. prior.value \in Attrs /\ prior.next \in i .. (Len(s) + 1)
        BY <1>2, IsReadIs
    <2>2. prior.next \in Nat \ {0} /\ Len(s) \in Nat
        BY <2>1
    <2>3. IsRead(key, Strings, prior.next + 1, Len(s) + 1) /\ prior.next <= Len(s)
        BY <1>2, <2>2, StringReads
    <2>4. r = Read(Append(prior.value, <<key.value, value.value>>), value.next)
        BY <1>2 DEF ReadAttr, PairAfter
    <2> HIDE DEF key
    <2>5. key.value \in Strings /\ key.next \in (prior.next + 1) .. (Len(s) + 1)
        BY <1>2, <2>3, IsReadIs
    <2>6. key.next \in Nat \ {0}
        BY <2>2, <2>5
    <2>7. IsRead(value, Strings, key.next + 1, Len(s) + 1) /\ key.next <= Len(s)
        BY <1>2, <2>6, StringReads
    <2> HIDE DEF value
    <2>8. value.value \in Strings /\ value.next \in (key.next + 1) .. (Len(s) + 1)
        BY <1>2, <2>7, IsReadIs
    <2>9. Append(prior.value, <<key.value, value.value>>) \in Attrs
        <3>1. <<key.value, value.value>> \in Strings \X Strings
            BY <2>5, <2>8
        <3> HIDE DEF Attrs
        <3>2. \A q \in Attrs, x \in Strings \X Strings : Append(q, x) \in Attrs
            BY DEF Attrs
        <3> QED BY <2>1, <3>1, <3>2
    <2>10. value.next \in i .. (Len(s) + 1)
        BY <2>1, <2>2, <2>5, <2>8
    <2>11. prior.next \in i .. Len(s) /\ key.next \in (prior.next + 1) .. Len(s)
        BY <2>1, <2>2, <2>3, <2>5, <2>7
    <2>12. IsRead(r, Attrs, i, Len(s) + 1)
        <3> HIDE DEF r
        <3> QED BY <2>4, <2>9, <2>10 DEF IsRead
    <2> QED BY <1>2, <2>4, <2>8, <2>11, <2>12 DEF key, value
<1> QED BY <1>1, <1>2

\* The attributes are read one after the other.
AttrsLoop(f, s, i, n) == f[0] = Read(<<>>, i) /\ \A k \in 1 .. n : f[k] = ReadAttr(s, f[k - 1])

\* There are such reads, and the last of them is what ReadAttrs gives.
LEMMA AttrsRead ==
    ASSUME NEW s \in Seq(Symbols), NEW i \in 1 .. Len(s) + 1, NEW n \in Nat
    PROVE  \E f : /\ AttrsLoop(f, s, i, n) /\ ReadAttrs(s, i, n) = f[n]
                  /\ \A k \in 0 .. n : IsRead(f[k], Attrs, i, Len(s) + 1)
<1> DEFINE V == {r \in {Failed} \cup {Read(v, m) : v \in Attrs, m \in i .. (Len(s) + 1)} : TRUE}
           base == Read(<<>>, i)
           Step == [x \in (1 .. n) \X V |-> ReadAttr(s, x[2])]
           Def(f) == f = [k \in 0 .. n |-> IF k = 0 THEN base ELSE ReadAttr(s, f[k - 1])]
           attrs == CHOOSE f : Def(f)
<1>1. \A r : r \in V <=> IsRead(r, Attrs, i, Len(s) + 1)
    BY DEF IsRead
<1>2. base \in V
    <2>1. <<>> \in Attrs /\ i \in i .. (Len(s) + 1)
        BY DEF Attrs
    <2> QED BY <2>1
<1> HIDE DEF V, base
<1>3. Step \in [(1 .. n) \X V -> V]
    <2>1. \A r \in V : ReadAttr(s, r) \in V
        BY <1>1, AttrReads
    <2>2. \A x \in (1 .. n) \X V : x[2] \in V
        OBVIOUS
    <2> QED BY <2>1, <2>2
<1>4. \A k \in 1 .. n, x \in V : Step[<<k, x>>] = ReadAttr(s, x)
    OBVIOUS
<1> HIDE DEF Step
<1>5. PICK g \in [0 .. n -> V] : g[0] = base /\ (\A k \in 1 .. n : g[k] = Step[<<k, g[k - 1]>>]) /\ Loops(g, base, Step, n)
    BY <1>2, <1>3, LoopIs
<1>6. Def(g)
    <2>1. ASSUME NEW k \in 0 .. n PROVE g[k] = IF k = 0 THEN base ELSE ReadAttr(s, g[k - 1])
        <3>1. CASE k = 0
            BY <1>5, <3>1
        <3>2. CASE k # 0
            <4>1. k \in 1 .. n /\ k - 1 \in 0 .. n
                BY <3>2
            <4>2. g[k - 1] \in V
                BY <1>5, <4>1
            <4> QED BY <1>4, <1>5, <3>2, <4>1, <4>2
        <3> QED BY <3>1, <3>2
    <2> QED BY <1>5, <2>1
<1> HIDE DEF Def
<1>7. Def(attrs)
    BY <1>6
<1>8. ReadAttrs(s, i, n) = attrs[n]
    BY DEF ReadAttrs, Def, base
<1> HIDE DEF attrs
<1>9. DOMAIN attrs = 0 .. n /\ \A k \in 0 .. n : attrs[k] = IF k = 0 THEN base ELSE ReadAttr(s, attrs[k - 1])
    BY <1>7 DEF Def
<1>10. attrs[0] = base /\ \A k \in 1 .. n : attrs[k] = ReadAttr(s, attrs[k - 1])
    <2>1. 0 \in 0 .. n /\ \A k \in 1 .. n : k \in 0 .. n /\ k # 0
        OBVIOUS
    <2> QED BY <1>9, <2>1
<1>11. \A k \in 0 .. n : attrs[k] = g[k]
    <2> DEFINE T == {k \in 0 .. n : attrs[k] # g[k]}
    <2>1. SUFFICES ASSUME T # {} PROVE FALSE
        OBVIOUS
    <2>2. T \in SUBSET Nat
        OBVIOUS
    <2>3. PICK m \in T : \A k \in T : m <= k
        <3> HIDE DEF T
        <3> QED BY <2>1, <2>2, LeastOf
    <2>4. m \in 1 .. n /\ m - 1 \in 0 .. n
        BY <1>5, <1>10, <2>3
    <2>5. m - 1 \notin T
        BY <2>3, <2>4
    <2>6. attrs[m - 1] = g[m - 1] /\ g[m - 1] \in V
        BY <1>5, <2>4, <2>5
    <2>7. attrs[m] = g[m]
        BY <1>4, <1>5, <1>10, <2>4, <2>6
    <2> QED BY <2>3, <2>7
<1>12. \A k \in 0 .. n : IsRead(attrs[k], Attrs, i, Len(s) + 1)
    BY <1>1, <1>5, <1>11
<1>13. AttrsLoop(attrs, s, i, n)
    BY <1>10 DEF AttrsLoop, base
<1> QED BY <1>8, <1>12, <1>13

\* A sequence of n values.
IsSeq(q, n) == q = [k \in 1 .. n |-> q[k]]

\* Reads of a node or its content, and of a list of n nodes, that fail or end up to hi.
IsPart(r, i, hi) == r = Failed \/ (r = Read(r.value, r.next) /\ r.next \in (i + 1) .. hi)
IsList(r, i, n, hi) == r = Failed \/ (r = Read(r.value, r.next) /\ r.next \in i .. hi /\ IsSeq(r.value, n))

\* The lists that start behind place i are reads of lists; two such functions are the same there.
ListsAfter(f, s, i) == \A j \in (i + 1) .. Len(s) + 1 : \A n \in Nat : IsList(f[<<j, n>>], j, n, Len(s) + 1)
SameAfter(f, g, s, i) == \A j \in (i + 1) .. Len(s) + 1 : \A n \in Nat : f[<<j, n>>] = g[<<j, n>>]

\* Content is a list, bytes or a string.
LEMMA ContentCases ==
    ASSUME NEW s \in Seq(Symbols), NEW i \in 1 .. Len(s), NEW f
    PROVE  /\ s[i].tag \in ListTags =>
                 /\ s[i].a \in Nat /\ i + 1 \in (i + 1) .. Len(s) + 1
                 /\ ReadContent(s, i, f) = LET list == f[<<i + 1, s[i].a>>]
                                           IN IF list.ok THEN Read(Children(list.value), list.next) ELSE Failed
           /\ s[i].tag \in Binaries => ReadContent(s, i, f) = Read(BytesContent(SubSeq(s[i].chars, 1, s[i].a)), i + 1)
           /\ s[i].tag \notin ListTags \cup Binaries =>
                 ReadContent(s, i, f) = LET string == ReadString(s, i)
                                        IN IF string.ok THEN Read(StringContent(string.value), string.next) ELSE Failed
<1>1. s[i] \in Symbols /\ ~(i > Len(s)) /\ i + 1 \in (i + 1) .. Len(s) + 1
    OBVIOUS
<1>2. s[i].a \in Nat
    BY <1>1 DEF Symbols
<1>3. \A t : ~(t \in ListTags /\ t \in Binaries)
    BY DEF ListTags, Binaries
<1> QED BY <1>1, <1>2, <1>3 DEF ReadContent

\* Content is read from at least one symbol.
LEMMA ContentReads ==
    ASSUME NEW s \in Seq(Symbols), NEW i \in 1 .. Len(s) + 1, NEW f, ListsAfter(f, s, i)
    PROVE  IsPart(ReadContent(s, i, f), i, Len(s) + 1) /\ (ReadContent(s, i, f).ok => i <= Len(s))
<1> DEFINE r == ReadContent(s, i, f)
<1>0. IsPart(Failed, i, Len(s) + 1) /\ ~Failed.ok
    BY ReadIs DEF IsPart
<1>1. CASE i > Len(s)
    BY <1>0, <1>1 DEF ReadContent
<1>2. CASE i <= Len(s)
    <2>0. i \in 1 .. Len(s) /\ Len(s) \in Nat
        BY <1>2
    <2>9. \A v, j : j \in (i + 1) .. (Len(s) + 1) => IsPart(Read(v, j), i, Len(s) + 1)
        BY ReadIs DEF IsPart
    <2>1. CASE s[i].tag \in ListTags
        <3> DEFINE list == f[<<i + 1, s[i].a>>]
        <3>1. s[i].a \in Nat /\ i + 1 \in (i + 1) .. Len(s) + 1
            BY <2>0, <2>1, ContentCases
        <3>2. IsList(list, i + 1, s[i].a, Len(s) + 1)
            BY <3>1 DEF ListsAfter
        <3>3. r = IF list.ok THEN Read(Children(list.value), list.next) ELSE Failed
            BY <2>0, <2>1, ContentCases
        <3> HIDE DEF list
        <3>4. list.ok => list.next \in (i + 1) .. Len(s) + 1
            BY <1>0, <3>2 DEF IsList
        <3> QED BY <1>0, <1>2, <2>9, <3>3, <3>4
    <2>2. CASE s[i].tag \in Binaries
        <3>1. r = Read(BytesContent(SubSeq(s[i].chars, 1, s[i].a)), i + 1)
            BY <2>0, <2>2, ContentCases
        <3> HIDE DEF r
        <3>2. IsPart(r, i, Len(s) + 1)
            BY <2>0, <2>9, <3>1
        <3> QED BY <1>2, <3>2 DEF r
    <2>3. CASE s[i].tag \notin ListTags \cup Binaries
        <3> DEFINE string == ReadString(s, i)
        <3>1. r = IF string.ok THEN Read(StringContent(string.value), string.next) ELSE Failed
            BY <2>0, <2>3, ContentCases
        <3>2. IsRead(string, Strings, i + 1, Len(s) + 1)
            BY <2>0, StringReads
        <3> HIDE DEF string
        <3>3. string.ok => string.next \in (i + 1) .. Len(s) + 1
            BY <3>2, IsReadIs
        <3> QED BY <1>0, <1>2, <2>9, <3>1, <3>3
    <2> QED BY <2>1, <2>2, <2>3
<1> QED BY <1>1, <1>2

\* It depends on no list but those that start behind it.
LEMMA ContentLocal ==
    ASSUME NEW s \in Seq(Symbols), NEW i \in 1 .. Len(s) + 1, NEW f, NEW g, SameAfter(f, g, s, i)
    PROVE  ReadContent(s, i, f) = ReadContent(s, i, g)
<1>1. CASE i > Len(s)
    BY <1>1 DEF ReadContent
<1>2. CASE i <= Len(s)
    <2>0. i \in 1 .. Len(s)
        BY <1>2
    <2>1. CASE s[i].tag \in ListTags
        <3>1. s[i].a \in Nat /\ i + 1 \in (i + 1) .. Len(s) + 1
            BY <2>0, <2>1, ContentCases
        <3>2. f[<<i + 1, s[i].a>>] = g[<<i + 1, s[i].a>>]
            BY <3>1 DEF SameAfter
        <3> QED BY <2>0, <2>1, <3>2, ContentCases
    <2>2. CASE s[i].tag \notin ListTags
        BY <2>2 DEF ReadContent
    <2> QED BY <2>1, <2>2
<1> QED BY <1>1, <1>2

\* A node that is read, in its parts.
NodeAt(s, i, f) ==
    LET tag == ReadString(s, i + 1)
        n == (s[i].a - 1) \div 2
        attrs == ReadAttrs(s, tag.next, n)
        content == IF s[i].a % 2 = 0 THEN ReadContent(s, attrs.next, f) ELSE Read(NoContent, attrs.next)
    IN /\ i <= Len(s) /\ s[i].tag \in ListTags /\ s[i].a \in Nat \ {0} /\ n \in Nat
       /\ tag.ok /\ tag.value # Empty /\ tag.next \in (i + 2) .. Len(s) + 1
       /\ attrs.ok /\ attrs.next \in tag.next .. Len(s) + 1
       /\ content.ok
       /\ ReadNode(s, i, f) = Read([tag |-> tag.value, attrs |-> attrs.value, content |-> content.value], content.next)

\* The parts that a read of a node needs.
LEMMA NodeMade ==
    ASSUME NEW s \in Seq(Symbols), NEW i \in 1 .. Len(s), NEW f
    PROVE  LET tag == ReadString(s, i + 1)
               attrs == ReadAttrs(s, tag.next, (s[i].a - 1) \div 2)
               content == IF s[i].a % 2 = 0 THEN ReadContent(s, attrs.next, f) ELSE Read(NoContent, attrs.next)
           IN IF s[i].tag \in ListTags /\ tag.ok /\ s[i].a # 0 /\ tag.value # Empty /\ attrs.ok /\ content.ok
              THEN ReadNode(s, i, f) = Read([tag |-> tag.value, attrs |-> attrs.value, content |-> content.value], content.next)
              ELSE ReadNode(s, i, f) = Failed
<1> DEFINE size == ReadListSize(s, i)
           tag == ReadString(s, i + 1)
           attrs == ReadAttrs(s, tag.next, (s[i].a - 1) \div 2)
           content == IF s[i].a % 2 = 0 THEN ReadContent(s, attrs.next, f) ELSE Read(NoContent, attrs.next)
<1>1. CASE s[i].tag \notin ListTags
    <2>1. size = Failed
        BY <1>1 DEF ReadListSize
    <2>2. ~size.ok
        BY <2>1, ReadIs
    <2> QED BY <1>1, <2>2 DEF ReadNode, NodeOf
<1>2. CASE s[i].tag \in ListTags
    <2>1. ~(i > Len(s))
        OBVIOUS
    <2>2. size = Read(s[i].a, i + 1)
        BY <1>2, <2>1 DEF ReadListSize
    <2>3. size.ok /\ size.value = s[i].a /\ size.next = i + 1
        BY <2>2, ReadIs
    <2> HIDE DEF size
    <2>4. ReadNode(s, i, f) =
              IF size.ok /\ tag.ok /\ size.value # 0 /\ tag.value # Empty /\ attrs.ok /\ content.ok
              THEN Read([tag |-> tag.value, attrs |-> attrs.value, content |-> content.value], content.next)
              ELSE Failed
        BY <2>3 DEF ReadNode, NodeOf, size
    <2> HIDE DEF tag, attrs, content
    <2>5. IF s[i].tag \in ListTags /\ tag.ok /\ s[i].a # 0 /\ tag.value # Empty /\ attrs.ok /\ content.ok
          THEN ReadNode(s, i, f) = Read([tag |-> tag.value, attrs |-> attrs.value, content |-> content.value], content.next)
          ELSE ReadNode(s, i, f) = Failed
        BY <1>2, <2>3, <2>4
    <2> QED BY <2>5 DEF tag, attrs, content
<1> QED BY <1>1, <1>2

\* A node is not read, or it is read in its parts.
LEMMA NodeCases ==
    ASSUME NEW s \in Seq(Symbols), NEW i \in 1 .. Len(s) + 1, NEW f
    PROVE  ReadNode(s, i, f) = Failed \/ NodeAt(s, i, f)
<1>1. CASE i > Len(s)
    <2>1. ReadListSize(s, i) = Failed
        BY <1>1 DEF ReadListSize
    <2>2. ~ReadListSize(s, i).ok
        BY <2>1, ReadIs
    <2> QED BY <2>2 DEF ReadNode, NodeOf
<1>2. CASE i <= Len(s)
    <2> DEFINE tag == ReadString(s, i + 1)
               n == (s[i].a - 1) \div 2
               attrs == ReadAttrs(s, tag.next, n)
               content == IF s[i].a % 2 = 0 THEN ReadContent(s, attrs.next, f) ELSE Read(NoContent, attrs.next)
    <2>0. i \in 1 .. Len(s) /\ Len(s) \in Nat
        BY <1>2
    <2>1. SUFFICES ASSUME ReadNode(s, i, f) # Failed
                   PROVE  NodeAt(s, i, f)
        OBVIOUS
    <2>2. /\ s[i].tag \in ListTags /\ tag.ok /\ s[i].a # 0 /\ tag.value # Empty /\ attrs.ok /\ content.ok
          /\ ReadNode(s, i, f) = Read([tag |-> tag.value, attrs |-> attrs.value, content |-> content.value], content.next)
        BY <2>0, <2>1, NodeMade
    <2>3. s[i] \in Symbols
        BY <2>0
    <2>4. s[i].a \in Nat \ {0}
        BY <2>2, <2>3 DEF Symbols
    <2>5. n \in Nat
        BY <2>4
    <2>6. i + 1 \in Nat \ {0}
        OBVIOUS
    <2>7. IsRead(tag, Strings, (i + 1) + 1, Len(s) + 1)
        BY <2>6, StringReads
    <2> HIDE DEF tag, n
    <2>8. tag.next \in (i + 2) .. Len(s) + 1 /\ tag.next \in 1 .. Len(s) + 1
        BY <2>0, <2>2, <2>7, IsReadIs
    <2>9. IsRead(attrs, Attrs, tag.next, Len(s) + 1)
        <3>1. n \in 0 .. n
            BY <2>5
        <3> QED BY <2>5, <2>8, <3>1, AttrsRead
    <2> HIDE DEF attrs, content
    <2>10. attrs.next \in tag.next .. Len(s) + 1
        BY <2>2, <2>9, IsReadIs
    <2> QED BY <1>2, <2>2, <2>4, <2>5, <2>8, <2>10 DEF NodeAt, tag, n, attrs, content
<1> QED BY <1>1, <1>2

\* A node is read from at least one symbol.
LEMMA NodeReads ==
    ASSUME NEW s \in Seq(Symbols), NEW i \in 1 .. Len(s) + 1, NEW f, ListsAfter(f, s, i)
    PROVE  IsPart(ReadNode(s, i, f), i, Len(s) + 1)
<1> DEFINE tag == ReadString(s, i + 1)
           n == (s[i].a - 1) \div 2
           attrs == ReadAttrs(s, tag.next, n)
           content == IF s[i].a % 2 = 0 THEN ReadContent(s, attrs.next, f) ELSE Read(NoContent, attrs.next)
<1>1. CASE ReadNode(s, i, f) = Failed
    BY <1>1 DEF IsPart
<1>2. CASE NodeAt(s, i, f)
    <2>1. /\ tag.next \in (i + 2) .. Len(s) + 1 /\ attrs.next \in tag.next .. Len(s) + 1 /\ content.ok
          /\ ReadNode(s, i, f) = Read([tag |-> tag.value, attrs |-> attrs.value, content |-> content.value], content.next)
        BY <1>2 DEF NodeAt
    <2> HIDE DEF tag, n, attrs
    <2>2. attrs.next \in (i + 1) .. Len(s) + 1 /\ attrs.next \in 1 .. Len(s) + 1 /\ Len(s) \in Nat
        BY <2>1
    <2>3. content.next \in (i + 1) .. Len(s) + 1
        <3>1. CASE s[i].a % 2 = 0
            <4> DEFINE c == ReadContent(s, attrs.next, f)
            <4>1. ListsAfter(f, s, attrs.next)
                <5>1. (attrs.next + 1) .. Len(s) + 1 \subseteq (i + 1) .. Len(s) + 1
                    BY <2>2
                <5> QED BY <5>1 DEF ListsAfter
            <4>2. IsPart(c, attrs.next, Len(s) + 1) /\ content = c
                BY <2>2, <3>1, <4>1, ContentReads
            <4> HIDE DEF c, content
            <4>3. c.next \in (attrs.next + 1) .. Len(s) + 1
                BY <2>1, <4>2, ReadIs DEF IsPart
            <4> QED BY <2>2, <4>2, <4>3
        <3>2. CASE s[i].a % 2 # 0
            BY <2>2, <3>2, ReadIs
        <3> QED BY <3>1, <3>2
    <2> HIDE DEF content
    <2> QED BY <2>1, <2>3, ReadIs DEF IsPart
<1> QED BY <1>1, <1>2, NodeCases

\* It depends on no list but those that start behind it.
LEMMA NodeLocal ==
    ASSUME NEW s \in Seq(Symbols), NEW i \in 1 .. Len(s) + 1, NEW f, NEW g, SameAfter(f, g, s, i)
    PROVE  ReadNode(s, i, f) = ReadNode(s, i, g)
<1> DEFINE LastOf(h, x) == IF s[i].a % 2 = 0 THEN ReadContent(s, x, h) ELSE Read(NoContent, x)
           tag == ReadString(s, i + 1)
           attrs == ReadAttrs(s, tag.next, (s[i].a - 1) \div 2)
<1>1. \A x \in (i + 1) .. Len(s) + 1 : LastOf(f, x) = LastOf(g, x)
    <2>1. ASSUME NEW x \in (i + 1) .. Len(s) + 1 PROVE ReadContent(s, x, f) = ReadContent(s, x, g)
        <3>1. x \in 1 .. Len(s) + 1 /\ (x + 1) .. Len(s) + 1 \subseteq (i + 1) .. Len(s) + 1
            OBVIOUS
        <3>2. SameAfter(f, g, s, x)
            BY <3>1 DEF SameAfter
        <3> QED BY <3>1, <3>2, ContentLocal
    <2> QED BY <2>1
<1>2. ASSUME NEW h, NEW k, NodeAt(s, i, h), \A x \in (i + 1) .. Len(s) + 1 : LastOf(h, x) = LastOf(k, x)
      PROVE  ReadNode(s, i, k) = ReadNode(s, i, h)
    <2>0. /\ i <= Len(s) /\ s[i].tag \in ListTags /\ s[i].a \in Nat \ {0} /\ tag.ok /\ tag.value # Empty
          /\ attrs.ok /\ LastOf(h, attrs.next).ok
          /\ tag.next \in (i + 2) .. Len(s) + 1 /\ attrs.next \in tag.next .. Len(s) + 1
          /\ ReadNode(s, i, h) = Read([tag |-> tag.value, attrs |-> attrs.value, content |-> LastOf(h, attrs.next).value],
                                      LastOf(h, attrs.next).next)
        BY <1>2, Zenon DEF NodeAt
    <2>1. i \in 1 .. Len(s) /\ s[i].a # 0 /\ attrs.next \in (i + 1) .. Len(s) + 1
        <3> HIDE DEF attrs, tag
        <3> QED BY <2>0
    <2>2. LastOf(k, attrs.next) = LastOf(h, attrs.next)
        <3> HIDE DEF attrs, LastOf
        <3> QED BY <1>2, <2>1
    <2>3. IF s[i].tag \in ListTags /\ tag.ok /\ s[i].a # 0 /\ tag.value # Empty /\ attrs.ok /\ LastOf(k, attrs.next).ok
          THEN ReadNode(s, i, k) = Read([tag |-> tag.value, attrs |-> attrs.value, content |-> LastOf(k, attrs.next).value],
                                        LastOf(k, attrs.next).next)
          ELSE ReadNode(s, i, k) = Failed
        BY <2>1, NodeMade
    <2> HIDE DEF tag, attrs, LastOf
    <2> QED BY <2>0, <2>1, <2>2, <2>3
<1> HIDE DEF LastOf
<1>3. CASE NodeAt(s, i, f)
    BY <1>1, <1>2, <1>3
<1>4. CASE NodeAt(s, i, g)
    BY <1>1, <1>2, <1>4
<1> QED BY <1>3, <1>4, NodeCases

\* A value before a sequence of n values.
Prepended(z, v, q, n) == IsSeq(z, n + 1) /\ z[1] = v /\ \A k \in 1 .. n : z[k + 1] = q[k]

\* That is what the concatenation gives.
LEMMA Before ==
    ASSUME NEW v, NEW n \in Nat, NEW q, IsSeq(q, n), NEW z, z = <<v>> \o q
    PROVE  Prepended(z, v, q, n)
<1> DEFINE V == {v} \cup {q[k] : k \in 1 .. n}
<1>1. q \in [1 .. n -> V]
    <2>1. \A k \in 1 .. n : q[k] \in V
        OBVIOUS
    <2> HIDE DEF V
    <2>2. [k \in 1 .. n |-> q[k]] \in [1 .. n -> V]
        BY <2>1
    <2> QED BY <2>2 DEF IsSeq
<1>2. v \in V
    OBVIOUS
<1> HIDE DEF V
<1>3. q \in Seq(V) /\ Len(q) = n
    BY <1>1, LenProperties
<1>4. <<v>> \in Seq(V) /\ Len(<<v>>) = 1 /\ <<v>>[1] = v
    BY <1>2
<1>5. <<v>> \o q \in Seq(V) /\ Len(<<v>> \o q) = n + 1
    BY <1>3, <1>4, ConcatProperties
<1>6. (<<v>> \o q)[1] = v
    BY <1>3, <1>4, ConcatProperties
<1>7. \A k \in 1 .. n : (<<v>> \o q)[k + 1] = q[k]
    <2>1. ASSUME NEW k \in 1 .. n PROVE (<<v>> \o q)[k + 1] = q[k]
        <3>1. k + 1 \in 1 .. 1 + n /\ k + 1 > 1 /\ (k + 1) - 1 = k
            OBVIOUS
        <3>2. (<<v>> \o q)[k + 1] = q[(k + 1) - 1]
            BY <1>3, <1>4, <3>1, ConcatProperties
        <3> QED BY <3>1, <3>2
    <2> QED BY <2>1
<1>8. IsSeq(<<v>> \o q, n + 1)
    <2> DEFINE w == <<v>> \o q
    <2> HIDE DEF w
    <2>1. w \in Seq(V) /\ Len(w) = n + 1 => w = [k \in 1 .. n + 1 |-> w[k]]
        <3>1. w \in Seq(V) => w = [k \in 1 .. Len(w) |-> w[k]]
            BY LenProperties
        <3> QED BY <3>1
    <2> QED BY <1>5, <2>1 DEF IsSeq, w
<1> QED BY <1>6, <1>7, <1>8 DEF Prepended

\* A list: none, or a node and a list behind it.
LEMMA ListCases ==
    ASSUME NEW s, NEW i, NEW n \in Nat \ {0}, NEW f
    PROVE  ReadList(s, i, n, f) = LET node == ReadNode(s, i, f)
                                      others == f[<<node.next, n - 1>>]
                                  IN IF node.ok /\ others.ok THEN Read(<<node.value>> \o others.value, others.next) ELSE Failed
BY DEF ReadList, InFront

\* A list of n nodes is read as a sequence of n values.
LEMMA ListReads ==
    ASSUME NEW s \in Seq(Symbols), NEW i \in 1 .. Len(s) + 1, NEW n \in Nat, NEW f, ListsAfter(f, s, i)
    PROVE  IsList(ReadList(s, i, n, f), i, n, Len(s) + 1)
<1> DEFINE r == ReadList(s, i, n, f)
           node == ReadNode(s, i, f)
           others == f[<<node.next, n - 1>>]
<1>1. CASE n = 0
    <2>1. r = Read(<<>>, i)
        BY <1>1 DEF ReadList, InFront
    <2>2. IsSeq(<<>>, 0)
        BY DEF IsSeq
    <2>3. i \in i .. Len(s) + 1
        OBVIOUS
    <2> HIDE DEF r
    <2>4. IsList(r, i, n, Len(s) + 1)
        BY <1>1, <2>1, <2>2, <2>3, ReadIs DEF IsList
    <2> QED BY <2>4 DEF r
<1>2. CASE n # 0 /\ ~(node.ok /\ others.ok)
    <2>1. r = Failed
        BY <1>2, ListCases
    <2> QED BY <2>1 DEF IsList
<1>3. CASE n # 0 /\ node.ok /\ others.ok
    <2>1. r = Read(<<node.value>> \o others.value, others.next)
        BY <1>3, ListCases
    <2>2. IsPart(node, i, Len(s) + 1)
        BY NodeReads
    <2> HIDE DEF node
    <2>3. node.next \in (i + 1) .. Len(s) + 1 /\ n - 1 \in Nat
        BY <1>3, <2>2, ReadIs DEF IsPart
    <2>4. IsList(others, node.next, n - 1, Len(s) + 1)
        BY <2>3 DEF ListsAfter
    <2> HIDE DEF others
    <2>5. others.next \in node.next .. Len(s) + 1 /\ IsSeq(others.value, n - 1)
        BY <1>3, <2>4, ReadIs DEF IsList
    <2>6. IsSeq(<<node.value>> \o others.value, (n - 1) + 1)
        BY <2>3, <2>5, Before DEF Prepended
    <2>7. others.next \in i .. Len(s) + 1 /\ (n - 1) + 1 = n
        BY <2>3, <2>5
    <2> HIDE DEF r
    <2>8. IsList(r, i, n, Len(s) + 1)
        BY <2>1, <2>6, <2>7, ReadIs DEF IsList
    <2> QED BY <2>8 DEF r
<1> QED BY <1>1, <1>2, <1>3

\* It depends on no list but those that start behind it, for a node is no less than one symbol.
LEMMA ListLocal ==
    ASSUME NEW s \in Seq(Symbols), NEW i \in 1 .. Len(s) + 1, NEW n \in Nat, NEW f, NEW g,
           ListsAfter(f, s, i), SameAfter(f, g, s, i)
    PROVE  ReadList(s, i, n, f) = ReadList(s, i, n, g)
<1>1. CASE n = 0
    BY <1>1 DEF ReadList, InFront
<1>2. CASE n # 0
    <2> DEFINE node == ReadNode(s, i, f)
    <2>1. IsPart(node, i, Len(s) + 1) /\ node = ReadNode(s, i, g)
        BY NodeReads, NodeLocal
    <2> HIDE DEF node
    <2>2. node.ok => node.next \in (i + 1) .. Len(s) + 1
        BY <2>1, ReadIs DEF IsPart
    <2>3. node.ok => f[<<node.next, n - 1>>] = g[<<node.next, n - 1>>]
        <3>1. n - 1 \in Nat
            BY <1>2
        <3> QED BY <2>2, <3>1 DEF SameAfter
    <2>4. /\ ReadList(s, i, n, f) = IF node.ok /\ f[<<node.next, n - 1>>].ok
                                    THEN Read(<<node.value>> \o f[<<node.next, n - 1>>].value, f[<<node.next, n - 1>>].next)
                                    ELSE Failed
          /\ ReadList(s, i, n, g) = IF node.ok /\ g[<<node.next, n - 1>>].ok
                                    THEN Read(<<node.value>> \o g[<<node.next, n - 1>>].value, g[<<node.next, n - 1>>].next)
                                    ELSE Failed
        BY <1>2, <2>1, ListCases DEF node
    <2> QED BY <2>3, <2>4
<1> QED BY <1>1, <1>2

\* The function of the lists that start at m or behind it.
ListsFrom(f, s, m) == f = [p \in (m .. Len(s) + 1) \X Nat |-> ReadList(s, p[1], p[2], f)]

\* What such a function is at a place.
LEMMA ListsFromIs ==
    ASSUME NEW s \in Seq(Symbols), NEW m \in Nat \ {0}, NEW f, ListsFrom(f, s, m)
    PROVE  /\ \A j \in m .. Len(s) + 1 : \A n \in Nat : f[<<j, n>>] = ReadList(s, j, n, f)
           /\ \A j \in m .. Len(s) + 1 : \A n \in Nat : IsList(f[<<j, n>>], j, n, Len(s) + 1)
<1>1. ASSUME NEW j \in m .. Len(s) + 1, NEW n \in Nat PROVE f[<<j, n>>] = ReadList(s, j, n, f)
    <2>1. <<j, n>> \in (m .. Len(s) + 1) \X Nat
        OBVIOUS
    <2> QED BY <2>1 DEF ListsFrom
<1> DEFINE T == {k \in Nat : \E j \in m .. Len(s) + 1 : k = Len(s) + 1 - j /\ \E n \in Nat : ~IsList(f[<<j, n>>], j, n, Len(s) + 1)}
<1>2. T = {}
    <2>1. SUFFICES ASSUME T # {} PROVE FALSE
        OBVIOUS
    <2>2. T \in SUBSET Nat
        OBVIOUS
    <2>3. PICK k \in T : \A l \in T : k <= l
        <3> HIDE DEF T
        <3> QED BY <2>1, <2>2, LeastOf
    <2>4. PICK j \in m .. Len(s) + 1 : k = Len(s) + 1 - j /\ \E n \in Nat : ~IsList(f[<<j, n>>], j, n, Len(s) + 1)
        BY <2>3
    <2>5. PICK n \in Nat : ~IsList(f[<<j, n>>], j, n, Len(s) + 1)
        BY <2>4
    <2>6. ASSUME NEW h \in (j + 1) .. Len(s) + 1, NEW n2 \in Nat PROVE IsList(f[<<h, n2>>], h, n2, Len(s) + 1)
        <3>1. Len(s) + 1 - h \in Nat /\ ~(k <= Len(s) + 1 - h) /\ h \in m .. Len(s) + 1
            BY <2>4
        <3>2. Len(s) + 1 - h \notin T
            <4> HIDE DEF T
            <4> QED BY <2>3, <3>1
        <3> QED BY <3>1, <3>2
    <2>7. ListsAfter(f, s, j)
        BY <2>6 DEF ListsAfter
    <2>8. j \in 1 .. Len(s) + 1
        BY <2>4
    <2> QED BY <1>1, <2>4, <2>5, <2>7, <2>8, ListReads
<1>3. ASSUME NEW j \in m .. Len(s) + 1, NEW n \in Nat PROVE IsList(f[<<j, n>>], j, n, Len(s) + 1)
    <2>1. Len(s) + 1 - j \in Nat
        OBVIOUS
    <2> QED BY <1>2, <2>1
<1> QED BY <1>1, <1>3

\* Such a function exists, place after place from the end of the stream.
LEMMA ListsExist ==
    ASSUME NEW s \in Seq(Symbols)
    PROVE  \E f : ListsFrom(f, s, 1)
<1> DEFINE T == {k \in 0 .. Len(s) + 1 : ~ \E f : ListsFrom(f, s, Len(s) + 2 - k)}
<1>1. T = {}
    <2>1. SUFFICES ASSUME T # {} PROVE FALSE
        OBVIOUS
    <2>2. T \in SUBSET Nat
        OBVIOUS
    <2>3. PICK k \in T : \A l \in T : k <= l
        <3> HIDE DEF T
        <3> QED BY <2>1, <2>2, LeastOf
    <2>4. k # 0
        <3>1. (Len(s) + 2) .. (Len(s) + 1) = {}
            OBVIOUS
        <3>2. ListsFrom([p \in {} |-> 0], s, Len(s) + 2)
            <4>1. ((Len(s) + 2) .. (Len(s) + 1)) \X Nat = {}
                BY <3>1
            <4> QED BY <4>1 DEF ListsFrom
        <3>3. CASE k = 0
            BY <2>3, <3>2, <3>3
        <3> QED BY <3>3
    <2> DEFINE m == Len(s) + 2 - k
    <2>5. m \in 1 .. Len(s) + 1 /\ k - 1 \in 0 .. Len(s) + 1 /\ Len(s) + 2 - (k - 1) = m + 1 /\ Len(s) \in Nat
        BY <2>3, <2>4
    <2>6. k - 1 \notin T
        BY <2>3, <2>5
    <2>7. PICK f : ListsFrom(f, s, m + 1)
        BY <2>5, <2>6
    <2>8. ~ \E g : ListsFrom(g, s, m)
        BY <2>3
    <2> HIDE DEF m, T
    <2> DEFINE P == (m .. Len(s) + 1) \X Nat
               g == [p \in P |-> IF p[1] = m THEN ReadList(s, p[1], p[2], f) ELSE f[p]]
    <2>9. \A p \in P : p[1] \in m .. Len(s) + 1 /\ p[2] \in Nat /\ p = <<p[1], p[2]>>
        OBVIOUS
    <2>10. \A j \in m .. Len(s) + 1 : \A n \in Nat : <<j, n>> \in P /\ <<j, n>>[1] = j
        OBVIOUS
    <2>11. \A j \in (m + 1) .. Len(s) + 1 : j \in m .. Len(s) + 1 /\ j # m
        BY <2>5
    <2> HIDE DEF P
    <2>12. \A j \in (m + 1) .. Len(s) + 1 : \A n \in Nat : f[<<j, n>>] = g[<<j, n>>]
        BY <2>10, <2>11
    <2>13. /\ \A j \in (m + 1) .. Len(s) + 1 : \A n \in Nat : f[<<j, n>>] = ReadList(s, j, n, f)
           /\ \A j \in (m + 1) .. Len(s) + 1 : \A n \in Nat : IsList(f[<<j, n>>], j, n, Len(s) + 1)
        <3>1. m + 1 \in Nat \ {0}
            BY <2>5
        <3> QED BY <2>7, <3>1, ListsFromIs
    <2>14. ASSUME NEW j \in m .. Len(s) + 1, NEW n \in Nat
           PROVE  ReadList(s, j, n, f) = ReadList(s, j, n, g)
        <3>1. (j + 1) .. Len(s) + 1 \subseteq (m + 1) .. Len(s) + 1 /\ j \in 1 .. Len(s) + 1
            BY <2>5
        <3>2. ListsAfter(f, s, j)
            BY <2>13, <3>1 DEF ListsAfter
        <3> HIDE DEF g
        <3>3. SameAfter(f, g, s, j)
            BY <2>12, <3>1 DEF SameAfter
        <3> QED BY <3>1, <3>2, <3>3, ListLocal
    <2>15. ASSUME NEW p \in P PROVE g[p] = ReadList(s, p[1], p[2], g)
        <3>1. p[1] \in m .. Len(s) + 1 /\ p[2] \in Nat /\ p = <<p[1], p[2]>>
            BY <2>9
        <3>2. ReadList(s, p[1], p[2], f) = ReadList(s, p[1], p[2], g)
            <4> HIDE DEF g
            <4> QED BY <2>14, <3>1
        <3>3. g[p] = IF p[1] = m THEN ReadList(s, p[1], p[2], f) ELSE f[p]
            OBVIOUS
        <3>4. CASE p[1] = m
            BY <3>2, <3>3, <3>4
        <3>5. CASE p[1] # m
            <4>1. p[1] \in (m + 1) .. Len(s) + 1
                BY <2>5, <3>1, <3>5
            <4>2. f[p] = ReadList(s, p[1], p[2], f)
                BY <2>13, <3>1, <4>1
            <4> QED BY <3>2, <3>3, <3>5, <4>2
        <3> QED BY <3>4, <3>5
    <2>16. g = [p \in P |-> g[p]]
        OBVIOUS
    <2> HIDE DEF g
    <2>17. g = [p \in P |-> ReadList(s, p[1], p[2], g)]
        BY <2>15, <2>16
    <2>18. ListsFrom(g, s, m)
        BY <2>17 DEF ListsFrom, P
    <2> QED BY <2>8, <2>18
<1>2. Len(s) + 1 \in 0 .. Len(s) + 1 /\ Len(s) + 2 - (Len(s) + 1) = 1
    OBVIOUS
<1> QED BY <1>1, <1>2

\* The lists that decodeBinaryNode reads in a stream.
Lists(s) == CHOOSE f : ListsFrom(f, s, 1)

\* What Decode does, with the lists by their name.
LEMMA ListsAre ==
    ASSUME NEW s \in Seq(Symbols)
    PROVE  /\ Decode(s) = ReadNode(s, 1, Lists(s))
           /\ \A j \in 1 .. Len(s) + 1 : \A n \in Nat : Lists(s)[<<j, n>>] = ReadList(s, j, n, Lists(s))
           /\ \A j \in 1 .. Len(s) + 1 : \A n \in Nat : IsList(Lists(s)[<<j, n>>], j, n, Len(s) + 1)
           /\ \A j \in Nat : ListsAfter(Lists(s), s, j)
<1> DEFINE f == Lists(s)
<1>1. Decode(s) = ReadNode(s, 1, Lists(s))
    BY DEF Decode, Lists, ListsFrom
<1>2. ListsFrom(f, s, 1)
    BY ListsExist DEF Lists
<1> HIDE DEF f
<1>3. /\ \A j \in 1 .. Len(s) + 1 : \A n \in Nat : f[<<j, n>>] = ReadList(s, j, n, f)
      /\ \A j \in 1 .. Len(s) + 1 : \A n \in Nat : IsList(f[<<j, n>>], j, n, Len(s) + 1)
    <2> DEFINE one == 1
    <2>1. one \in Nat \ {0} /\ ListsFrom(f, s, one)
        BY <1>2
    <2> HIDE DEF one
    <2>2. /\ \A j \in one .. Len(s) + 1 : \A n \in Nat : f[<<j, n>>] = ReadList(s, j, n, f)
          /\ \A j \in one .. Len(s) + 1 : \A n \in Nat : IsList(f[<<j, n>>], j, n, Len(s) + 1)
        BY <2>1, ListsFromIs
    <2> QED BY <2>2 DEF one
<1>4. ASSUME NEW j \in Nat PROVE ListsAfter(f, s, j)
    <2>1. (j + 1) .. Len(s) + 1 \subseteq 1 .. Len(s) + 1
        OBVIOUS
    <2> QED BY <1>3, <2>1 DEF ListsAfter
<1> QED BY <1>1, <1>3, <1>4 DEF f

(***************************************************************************)
(* What can be written comes back.  The parts of a stream are held one     *)
(* behind the other, and each of them is read as what it was written for,  *)
(* wherever it is: a text, a JID, the attributes, the children, a node.    *)
(***************************************************************************)

\* Stream s has e from place i on.
Holds(s, i, e) == i + Len(e) <= Len(s) + 1 /\ \A k \in 1 .. Len(e) : s[i + k - 1] = e[k]

\* It has e2 behind e1, and e is of these two.
HoldsBoth(s, i, e1, e2) ==
    Holds(s, i, e1) /\ Holds(s, i + Len(e1), e2) /\ i + Len(e1) \in Nat \ {0}

Splits(s, i, e, e1, e2) == HoldsBoth(s, i, e1, e2) /\ Len(e) = Len(e1) + Len(e2) /\ e \in Seq(Symbols)

\* A stream that has a sequence has both its parts.
LEMMA HoldsConcat ==
    ASSUME NEW s \in Seq(Symbols), NEW i \in Nat \ {0}, NEW e1 \in Seq(Symbols), NEW e2 \in Seq(Symbols),
           NEW e, e = e1 \o e2, Holds(s, i, e)
    PROVE  Splits(s, i, e, e1, e2)
<1>1. Len(e1) \in Nat /\ Len(e2) \in Nat /\ Len(s) \in Nat /\ Len(e1 \o e2) = Len(e1) + Len(e2)
    BY ConcatProperties
<1>2. \A k \in 1 .. Len(e1) : (e1 \o e2)[k] = e1[k]
    BY ConcatProperties
<1>3. \A k \in 1 .. Len(e2) : (e1 \o e2)[Len(e1) + k] = e2[k]
    <2>1. ASSUME NEW k \in 1 .. Len(e2) PROVE (e1 \o e2)[Len(e1) + k] = e2[k]
        <3>1. Len(e1) + k \in 1 .. Len(e1) + Len(e2) /\ Len(e1) + k > Len(e1) /\ (Len(e1) + k) - Len(e1) = k
            BY <1>1
        <3>2. (e1 \o e2)[Len(e1) + k] = e2[(Len(e1) + k) - Len(e1)]
            BY <3>1, ConcatProperties
        <3> QED BY <3>1, <3>2
    <2> QED BY <2>1
<1> DEFINE n1 == Len(e1)
           n2 == Len(e2)
<1> HIDE DEF n1, n2
<1>4. i + (n1 + n2) <= Len(s) + 1 /\ \A k \in 1 .. n1 + n2 : s[i + k - 1] = e[k]
    BY <1>1 DEF Holds, n1, n2
<1>5. n1 \in Nat /\ n2 \in Nat /\ Len(s) \in Nat
    BY <1>1 DEF n1, n2
<1>6. Holds(s, i, e1)
    <2>1. \A k \in 1 .. n1 : k \in 1 .. n1 + n2
        BY <1>5
    <2>2. \A k \in 1 .. n1 : s[i + k - 1] = e1[k]
        BY <1>2, <1>4, <2>1 DEF n1
    <2>3. i + n1 <= Len(s) + 1
        BY <1>4, <1>5
    <2> QED BY <2>2, <2>3 DEF Holds, n1
<1>7. Holds(s, i + Len(e1), e2)
    <2>1. \A k \in 1 .. n2 : n1 + k \in 1 .. n1 + n2 /\ i + (n1 + k) - 1 = (i + n1) + k - 1
        BY <1>5
    <2>2. \A k \in 1 .. n2 : s[(i + n1) + k - 1] = e2[k]
        BY <1>3, <1>4, <2>1 DEF n1, n2
    <2>3. (i + n1) + n2 <= Len(s) + 1
        BY <1>4, <1>5
    <2> QED BY <2>2, <2>3 DEF Holds, n1, n2
<1>8. e \in Seq(Symbols)
    BY ConcatProperties
<1> QED BY <1>1, <1>5, <1>6, <1>7, <1>8 DEF n1, HoldsBoth, Splits

\* A stream that has one symbol has it there.
LEMMA HoldsOne ==
    ASSUME NEW s \in Seq(Symbols), NEW i \in Nat \ {0}, NEW y, Holds(s, i, <<y>>)
    PROVE  i \in 1 .. Len(s) /\ s[i] = y
<1>1. Len(<<y>>) = 1 /\ <<y>>[1] = y /\ i + 1 - 1 = i
    OBVIOUS
<1> QED BY <1>1 DEF Holds

\* Texts as they are sent and as they are read.
LEMMA TextsAre ==
    /\ Seq(STRING) \subseteq Seq(Letters) /\ TextSet \subseteq Texts /\ StringSet \subseteq Strings
    /\ \A t \in Strings : t.chars \in Seq(Letters) /\ Text(t.chars) \in Texts
    /\ \A t \in StringSet : Text(t.chars) \in TextSet /\ t.chars \in Seq(STRING)
    /\ \A t \in Texts : Text(t.chars) = t /\ ~IsJid(t) /\ t.device = NoDevice
    /\ \A t \in StringSet : ~IsJid(t) => t \in TextSet
<1>1. Seq(STRING) \subseteq Seq(Letters)
    BY DEF Letters
<1>2. TextSet \subseteq Texts
    BY <1>1 DEF TextSet, Texts
<1>3. STRING \ {NoServer} \subseteq Servers
    BY DEF Servers
<1>4. StringSet \subseteq Strings
    <2>1. \A t \in StringSet \ TextSet : t \in Strings
        BY <1>1, <1>3 DEF StringSet, Strings
    <2> QED BY <1>2, <2>1 DEF Strings
<1>5. \A t \in Strings : t.chars \in Seq(Letters) /\ Text(t.chars) \in Texts
    BY DEF Strings, Texts, Text
<1>6. \A t \in StringSet : Text(t.chars) \in TextSet /\ t.chars \in Seq(STRING)
    BY DEF StringSet, TextSet, Text
<1>7. \A t \in Texts : Text(t.chars) = t /\ ~IsJid(t) /\ t.device = NoDevice
    BY DEF Text, Texts, IsJid
<1>8. \A t \in StringSet : ~IsJid(t) => t \in TextSet
    BY DEF StringSet, IsJid
<1> QED BY <1>1, <1>2, <1>4, <1>5, <1>6, <1>7, <1>8

\* Bytes are one symbol, with their length.
LEMMA BytesWritten ==
    ASSUME NEW b \in Seq(STRING)
    PROVE  \E y \in Symbols : WriteBytes(b) = <<y>> /\ y.tag \in Binaries /\ y.a = Len(b) /\ y.chars = b
<1> DEFINE n == Len(b)
<1>1. n \in Nat /\ b \in Seq(Letters) /\ Byte \in Nat /\ Byte > 1 /\ Wide \in Nat
    BY TextsAre, CodecAssumption
<1>2. n < Wide => n % Wide = n
    BY <1>1
<1>3. n < Byte => n % Byte = n
    BY <1>1
<1>4. ASSUME NEW t \in Binaries
      PROVE  Symbol(t, n, 0, b) \in Symbols /\ Symbol(t, n, 0, b).tag = t /\ Symbol(t, n, 0, b).a = n
             /\ Symbol(t, n, 0, b).chars = b
    <2>1. t \in Tags /\ t \notin {"NIBBLE_8", "HEX_8", "AD_JID"} \cup ListTags /\ t # "LIST_EMPTY"
        BY DEF Binaries, Tags, ListTags
    <2> HIDE DEF n
    <2>2. 0 \in Nat
        OBVIOUS
    <2> DEFINE y == Symbol(t, n, 0, b)
    <2>3. y.tag = t /\ y.a = n /\ y.b = 0 /\ y.chars = b
        BY DEF Symbol
    <2>4. y \in [tag : Tags, a : Nat, b : Nat, chars : Seq(Letters)]
        BY <1>1, <2>1, <2>2 DEF Symbol
    <2> HIDE DEF y
    <2>5. y.a <= Len(y.chars)
        BY <1>1, <2>3 DEF n
    <2>6. y \in Symbols
        BY <2>1, <2>3, <2>4, <2>5 DEF Symbols
    <2> QED BY <2>3, <2>6 DEF y
<1>5. "BINARY_8" \in Binaries /\ "BINARY_20" \in Binaries /\ "BINARY_32" \in Binaries
    BY DEF Binaries
<1>6. WriteBytes(b) = IF n >= Wide THEN <<Symbol("BINARY_32", n, 0, b)>>
                      ELSE IF n >= Byte THEN <<Symbol("BINARY_20", n % Wide, 0, b)>>
                      ELSE <<Symbol("BINARY_8", n % Byte, 0, b)>>
    BY DEF WriteBytes
<1> HIDE DEF n
<1>7. \E t \in Binaries : WriteBytes(b) = <<Symbol(t, n, 0, b)>>
    <2>1. CASE n >= Wide
        BY <1>5, <1>6, <2>1
    <2>2. CASE n < Wide /\ n >= Byte
        <3>1. ~(n >= Wide)
            BY <1>1, <2>2
        <3> QED BY <1>2, <1>5, <1>6, <2>2, <3>1
    <2>3. CASE n < Wide /\ n < Byte
        <3>1. ~(n >= Wide) /\ ~(n >= Byte)
            BY <1>1, <2>3
        <3> QED BY <1>3, <1>5, <1>6, <2>3, <3>1
    <2> QED BY <1>1, <2>1, <2>2, <2>3
<1>8. PICK t \in Binaries : WriteBytes(b) = <<Symbol(t, n, 0, b)>>
    BY <1>7
<1> QED BY <1>4, <1>8 DEF n

\* A packed text is one symbol, with the length in its numbers.
LEMMA PackedWritten ==
    ASSUME NEW t \in TextSet, NEW tag \in {"NIBBLE_8", "HEX_8"}
    PROVE  \E y \in Symbols : /\ Packed(tag, t) = <<y>> /\ y.tag = tag
                              /\ SubSeq(y.chars, 1, 2 * y.a - y.b) = t.chars
<1> DEFINE n == Len(t.chars)
           odd == n % 2
           a == (n + odd) \div 2
           chars == IF odd = 1 THEN Append(t.chars, Zero) ELSE t.chars
           y == Symbol(tag, a, odd, chars)
<1>1. t.chars \in Seq(Letters) /\ n \in Nat
    BY TextsAre DEF TextSet
<1>2. odd \in {0, 1} /\ a \in Nat /\ 2 * a - odd = n
    <2> HIDE DEF n
    <2> QED BY <1>1
<1>3. Zero \in Letters
    BY DEF Letters
<1>4. chars \in Seq(Letters) /\ n <= Len(chars) /\ \A k \in 1 .. n : chars[k] = t.chars[k]
    <2>1. CASE odd = 1
        <3>1. chars = Append(t.chars, Zero)
            BY <2>1
        <3> HIDE DEF chars, n
        <3>2. n = Len(t.chars)
            BY DEF n
        <3> QED BY <1>1, <1>3, <3>1, <3>2
    <2>2. CASE odd # 1
        <3>1. chars = t.chars
            BY <2>2
        <3> HIDE DEF chars
        <3> QED BY <1>1, <3>1
    <2> QED BY <2>1, <2>2
<1>5. SubSeq(chars, 1, n) = t.chars
    <2> HIDE DEF chars
    <2>1. CASE n = 0
        <3>1. t.chars = <<>>
            BY <1>1, <2>1
        <3>2. SubSeq(chars, 1, n) = <<>>
            BY <1>4, <2>1
        <3> QED BY <3>1, <3>2
    <2>2. CASE n # 0
        <3>1. n \in 1 .. Len(chars) /\ \A k \in 1 .. n : chars[k] \in Letters
            BY <1>1, <1>4, <2>2
        <3>2. SubSeq(chars, 1, n) \in Seq(Letters) /\ Len(SubSeq(chars, 1, n)) = n
              /\ \A k \in 1 .. n : SubSeq(chars, 1, n)[k] = chars[k]
            <4>1. Len(SubSeq(chars, 1, n)) = n - 1 + 1 /\ SubSeq(chars, 1, n) \in Seq(Letters)
                BY <1>4, <3>1, SubSeqProperties
            <4>2. \A k \in 1 .. n : SubSeq(chars, 1, n)[k] = chars[1 + k - 1]
                BY <1>4, <3>1, <4>1, SubSeqProperties
            <4> HIDE DEF n
            <4> QED BY <1>1, <4>1, <4>2
        <3> DEFINE q == SubSeq(chars, 1, n)
        <3> HIDE DEF q
        <3>3. q \in Seq(Letters) /\ Len(q) = n /\ \A k \in 1 .. n : q[k] = t.chars[k]
            BY <1>4, <3>2 DEF q
        <3>4. q = t.chars
            BY <1>1, <3>3
        <3> QED BY <3>4 DEF q
    <2> QED BY <2>1, <2>2
<1>6. tag \in Tags /\ tag \notin {"AD_JID", "LIST_EMPTY"} \cup Binaries \cup ListTags
    BY DEF Tags, Binaries, ListTags
<1> HIDE DEF a, odd, chars
<1>7. y.tag = tag /\ y.a = a /\ y.b = odd /\ y.chars = chars
    BY DEF Symbol
<1>8. y \in Symbols
    <2>1. odd \in Nat
        BY <1>2
    <2>2. y \in [tag : Tags, a : Nat, b : Nat, chars : Seq(Letters)]
        BY <1>2, <1>4, <1>6, <2>1 DEF Symbol
    <2> HIDE DEF y
    <2>3. 2 * y.a - y.b <= Len(y.chars)
        BY <1>2, <1>4, <1>7
    <2> QED BY <1>6, <1>7, <2>2, <2>3 DEF Symbols
<1>9. Packed(tag, t) = <<y>>
    BY DEF Packed, odd, a, chars
<1>10. SubSeq(y.chars, 1, 2 * y.a - y.b) = t.chars
    <2> HIDE DEF y
    <2> QED BY <1>2, <1>5, <1>7
<1> HIDE DEF y
<1> QED BY <1>7, <1>8, <1>9, <1>10

\* The tags of which no text is read.
NoText == ListTags \cup {"AD_JID", "JID_PAIR", "server"}

\* Symbol y is read as text t wherever a text is read.
Gives(y, t) ==
    /\ y \in Symbols /\ y.tag \notin NoText
    /\ \A s \in Seq(Symbols) : \A i \in 1 .. Len(s) : s[i] = y => ReadText(s, i) = Read(t, i + 1)

\* What text is written packed or from a dictionary.
Short(t) == SingleToken(t) \/ DoubleToken(t) \/ Packs(t, Nibbles) \/ Packs(t, Hexes)

\* The empty text is neither a token nor packed, nor a name that every object has.
LEMMA EmptyIs ==
    /\ Empty \in TextSet /\ Empty.chars = <<>> /\ Empty \notin Inherited /\ ~Short(Empty)
    /\ \A t \in Strings : Text(t.chars) = Empty <=> t.chars = <<>>
<1>1. <<>> \in Seq(STRING) /\ Empty = Text(<<>>)
    BY DEF Empty
<1>2. Empty \in TextSet /\ Empty.chars = <<>>
    BY <1>1 DEF Text, TextSet
<1>3. Empty \notin Inherited /\ ~SingleToken(Empty) /\ ~DoubleToken(Empty)
    BY CodecAssumption DEF SingleToken, DoubleToken
<1>4. ~Packs(Empty, Nibbles) /\ ~Packs(Empty, Hexes)
    BY DEF Packs
<1>5. \A t : Text(t.chars) = Empty <=> t.chars = <<>>
    BY <1>1 DEF Text
<1> QED BY <1>2, <1>3, <1>4, <1>5 DEF Short

\* The dictionaries and the packed alphabets give back the text; a raw one is its bytes.
LEMMA TextWritten ==
    ASSUME NEW t \in TextSet, t # Empty, t \notin Inherited
    PROVE  \E y : /\ WriteText(t) = <<y>> /\ Gives(y, t)
                  /\ Short(t) => y.tag \notin Binaries
                  /\ ~Short(t) => y.tag \in Binaries /\ y.a = Len(t.chars) /\ y.chars = t.chars
<1>1. t.chars \in Seq(STRING) /\ t.chars \in Seq(Letters) /\ Text(t.chars) = t
    BY TextsAre DEF TextSet
<1>2. ASSUME NEW tag \in {"token", "dictionary"}
      PROVE  LET y == Symbol(tag, 0, 0, t.chars) IN Gives(y, t) /\ y.tag \notin Binaries
    <2> DEFINE y == Symbol(tag, 0, 0, t.chars)
    <2>1. tag \in Tags /\ tag \notin NoText /\ tag \notin {"AD_JID", "NIBBLE_8", "HEX_8", "LIST_EMPTY"} \cup Binaries \cup ListTags
        BY DEF Tags, NoText, Binaries, ListTags
    <2>2. y.tag = tag /\ y.chars = t.chars
        BY DEF Symbol
    <2>3. y \in [tag : Tags, a : Nat, b : Nat, chars : Seq(Letters)]
        BY <1>1, <2>1 DEF Symbol
    <2> HIDE DEF y
    <2>4. y \in Symbols
        BY <2>1, <2>2, <2>3 DEF Symbols
    <2>5. ASSUME NEW s \in Seq(Symbols), NEW i \in 1 .. Len(s), s[i] = y PROVE ReadText(s, i) = Read(t, i + 1)
        <3>1. ReadText(s, i) = Read(Text(s[i].chars), i + 1)
            BY <2>2, <2>5, TextCases
        <3> QED BY <1>1, <2>2, <2>5, <3>1
    <2>6. Gives(y, t)
        BY <2>1, <2>2, <2>4, <2>5 DEF Gives
    <2> QED BY <2>1, <2>2, <2>6 DEF y
<1>3. ASSUME NEW tag \in {"NIBBLE_8", "HEX_8"}
      PROVE  \E y : Packed(tag, t) = <<y>> /\ Gives(y, t) /\ y.tag \notin Binaries
    <2>1. PICK y \in Symbols : Packed(tag, t) = <<y>> /\ y.tag = tag /\ SubSeq(y.chars, 1, 2 * y.a - y.b) = t.chars
        BY PackedWritten
    <2>2. tag \notin NoText /\ tag \notin Binaries
        BY DEF NoText, Binaries, ListTags
    <2>3. ASSUME NEW s \in Seq(Symbols), NEW i \in 1 .. Len(s), s[i] = y PROVE ReadText(s, i) = Read(t, i + 1)
        <3>1. ReadText(s, i) = Read(Text(SubSeq(s[i].chars, 1, 2 * s[i].a - s[i].b)), i + 1)
            BY <2>1, <2>3, TextCases
        <3> QED BY <1>1, <2>1, <2>3, <3>1
    <2>4. Gives(y, t)
        BY <2>1, <2>2, <2>3 DEF Gives
    <2> QED BY <2>1, <2>2, <2>4
<1>4. \E y : WriteBytes(t.chars) = <<y>> /\ Gives(y, t) /\ y.tag \in Binaries /\ y.a = Len(t.chars) /\ y.chars = t.chars
    <2>1. PICK y \in Symbols : WriteBytes(t.chars) = <<y>> /\ y.tag \in Binaries /\ y.a = Len(t.chars) /\ y.chars = t.chars
        BY <1>1, BytesWritten
    <2>2. y.tag \notin NoText
        BY <2>1 DEF NoText, Binaries, ListTags
    <2>3. SubSeq(t.chars, 1, Len(t.chars)) = t.chars
        BY <1>1
    <2>4. ASSUME NEW s \in Seq(Symbols), NEW i \in 1 .. Len(s), s[i] = y PROVE ReadText(s, i) = Read(t, i + 1)
        <3>1. ReadText(s, i) = Read(Text(SubSeq(s[i].chars, 1, s[i].a)), i + 1)
            BY <2>1, <2>4, TextCases
        <3> QED BY <1>1, <2>1, <2>3, <2>4, <3>1
    <2>5. Gives(y, t)
        BY <2>1, <2>2, <2>4 DEF Gives
    <2> QED BY <2>1, <2>5
<1>5. CASE SingleToken(t)
    <2>1. WriteText(t) = <<Symbol("token", 0, 0, t.chars)>>
        BY <1>5 DEF WriteText
    <2> QED BY <1>2, <1>5, <2>1 DEF Short
<1>6. CASE ~SingleToken(t) /\ DoubleToken(t)
    <2>1. WriteText(t) = <<Symbol("dictionary", 0, 0, t.chars)>>
        BY <1>6 DEF WriteText
    <2> QED BY <1>2, <1>6, <2>1 DEF Short
<1>7. CASE ~SingleToken(t) /\ ~DoubleToken(t) /\ Packs(t, Nibbles)
    <2>1. WriteText(t) = Packed("NIBBLE_8", t)
        BY <1>7 DEF WriteText
    <2> QED BY <1>3, <1>7, <2>1 DEF Short
<1>8. CASE ~SingleToken(t) /\ ~DoubleToken(t) /\ ~Packs(t, Nibbles) /\ Packs(t, Hexes)
    <2>1. WriteText(t) = Packed("HEX_8", t)
        BY <1>8 DEF WriteText
    <2> QED BY <1>3, <1>8, <2>1 DEF Short
<1>9. CASE ~Short(t)
    <2>1. WriteText(t) = WriteBytes(t.chars)
        BY <1>9 DEF WriteText, Short
    <2> QED BY <1>4, <1>9, <2>1
<1> QED BY <1>5, <1>6, <1>7, <1>8, <1>9 DEF Short

\* The two texts that are not given back: nothing at all, and the zero of a list.
LEMMA TextLost ==
    /\ WriteText(Empty) = <<>>
    /\ \A t \in Inherited : WriteText(t) = Tag("LIST_EMPTY")
    /\ \E y \in Symbols : Tag("LIST_EMPTY") = <<y>> /\ y.tag = "LIST_EMPTY"
    /\ \E y \in Symbols : Tag("JID_PAIR") = <<y>> /\ y.tag = "JID_PAIR"
<1>1. WriteText(Empty) = <<>>
    BY EmptyIs DEF WriteText, Short
<1>2. ASSUME NEW t \in Inherited PROVE WriteText(t) = Tag("LIST_EMPTY")
    <2>1. ~SingleToken(t) /\ ~DoubleToken(t)
        BY CodecAssumption DEF SingleToken, DoubleToken
    <2> QED BY <2>1 DEF WriteText
<1>3. ASSUME NEW tag \in {"LIST_EMPTY", "JID_PAIR"}
      PROVE  \E y \in Symbols : Tag(tag) = <<y>> /\ y.tag = tag
    <2> DEFINE y == Symbol(tag, 0, 0, <<>>)
    <2>1. tag \in Tags /\ tag \notin {"AD_JID", "NIBBLE_8", "HEX_8"} \cup Binaries
        BY DEF Tags, Binaries
    <2>2. y.tag = tag /\ y.a = 0
        BY DEF Symbol
    <2>3. <<>> \in Seq(Letters) /\ 0 \in Nat
        OBVIOUS
    <2>4. y \in [tag : Tags, a : Nat, b : Nat, chars : Seq(Letters)]
        BY <2>1, <2>3 DEF Symbol
    <2>5. 0 < Byte * Byte
        BY CodecAssumption
    <2>6. Tag(tag) = <<y>>
        BY DEF Tag
    <2> HIDE DEF y
    <2>7. y \in Symbols
        BY <2>1, <2>2, <2>4, <2>5 DEF Symbols
    <2> QED BY <2>2, <2>6, <2>7
<1> QED BY <1>1, <1>2, <1>3

\* A text is written as one symbol or none, and never as the frame of a JID.
LEMMA TextTyped ==
    ASSUME NEW t \in TextSet
    PROVE  WriteText(t) = <<>> \/ \E y \in Symbols : WriteText(t) = <<y>> /\ y.tag \notin {"AD_JID", "JID_PAIR", "server"}
<1>1. CASE t = Empty
    BY <1>1, TextLost
<1>2. CASE t \in Inherited
    BY <1>2, TextLost
<1>3. CASE t # Empty /\ t \notin Inherited
    BY <1>3, TextWritten DEF Gives, NoText
<1> QED BY <1>1, <1>2, <1>3

\* What writeJid writes.
AdJid(t, y) ==
    /\ y \in Symbols /\ y.tag = "AD_JID" /\ ServerOf(y.a) = ServerOf(DomainType(t))
    /\ t.device < Byte => y.b = t.device
    /\ WriteString(t) = <<y>> \o WriteText(Text(t.chars))

\* The user of a JID with no device, and the frame around it.
UserOf(t) == IF Text(t.chars) = Empty THEN Tag("LIST_EMPTY") ELSE WriteText(Text(t.chars))

JidPair(t, y, z) ==
    /\ y \in Symbols /\ y.tag = "JID_PAIR"
    /\ z \in Symbols /\ z.tag = "server" /\ z.chars = t.server
    /\ WriteString(t) = (<<y>> \o UserOf(t)) \o <<z>>

\* A JID is written as one of these frames with its user.
LEMMA JidWritten ==
    ASSUME NEW t \in StringSet, IsJid(t)
    PROVE  /\ t.device # NoDevice => \E y : AdJid(t, y)
           /\ t.device = NoDevice => \E y, z : JidPair(t, y, z)
<1>1. t.device \in Nat \cup {NoDevice} /\ t.server \in STRING \ {NoServer}
    BY DEF StringSet, IsJid, TextSet
<1>2. Byte \in Nat /\ Byte > 1
    BY CodecAssumption
<1>3. CASE t.device # NoDevice
    <2> DEFINE a == DomainType(t) % Byte
               b == t.device % Byte
               y == Symbol("AD_JID", a, b, <<>>)
    <2>1. a \in Nat /\ b \in Nat /\ b < Byte /\ a = DomainType(t)
        <3>1. t.device \in Nat
            BY <1>1, <1>3
        <3>2. b \in Nat /\ b < Byte
            BY <1>2, <3>1
        <3>3. DomainType(t) \in {0, 1}
            BY DEF DomainType
        <3>4. DomainType(t) % Byte = DomainType(t)
            BY <1>2, <3>3
        <3> QED BY <3>2, <3>3, <3>4
    <2>2. t.device < Byte => b = t.device
        <3>1. t.device \in Nat
            BY <1>1, <1>3
        <3> QED BY <1>2, <3>1
    <2>3. WriteString(t) = <<y>> \o WriteText(Text(t.chars))
        BY <1>3 DEF WriteString
    <2> HIDE DEF a, b
    <2>4. y.tag = "AD_JID" /\ y.a = a /\ y.b = b
        BY DEF Symbol
    <2>5. "AD_JID" \in Tags /\ "AD_JID" \notin {"LIST_EMPTY", "NIBBLE_8", "HEX_8"} \cup Binaries \cup ListTags
        BY DEF Tags, Binaries, ListTags
    <2>6. <<>> \in Seq(Letters)
        OBVIOUS
    <2>7. y \in [tag : Tags, a : Nat, b : Nat, chars : Seq(Letters)]
        BY <2>1, <2>5, <2>6 DEF Symbol
    <2> HIDE DEF y
    <2>8. y \in Symbols
        BY <2>1, <2>4, <2>5, <2>7 DEF Symbols
    <2>9. AdJid(t, y)
        BY <2>1, <2>2, <2>3, <2>4, <2>8 DEF AdJid
    <2> QED BY <1>3, <2>9
<1>4. CASE t.device = NoDevice
    <2>1. PICK y \in Symbols : Tag("JID_PAIR") = <<y>> /\ y.tag = "JID_PAIR"
        BY TextLost
    <2> DEFINE z == Symbol("server", 0, 0, t.server)
    <2>2. WriteString(t) = Tag("JID_PAIR") \o UserOf(t) \o <<z>>
        BY <1>4 DEF WriteString, UserOf
    <2>3. z \in Symbols
        <3>1. t.server \in Servers
            BY <1>1 DEF Servers
        <3> QED BY <3>1 DEF Symbols, Symbol
    <2>4. z.tag = "server" /\ z.chars = t.server
        BY DEF Symbol
    <2> HIDE DEF z
    <2>5. JidPair(t, y, z)
        BY <2>1, <2>2, <2>3, <2>4 DEF JidPair
    <2> QED BY <1>4, <2>5
<1> QED BY <1>3, <1>4

\* The user of a pair is written as one symbol.
LEMMA UserTyped ==
    ASSUME NEW t \in StringSet
    PROVE  \E y \in Symbols : UserOf(t) = <<y>> /\ y.tag \notin {"AD_JID", "JID_PAIR", "server"}
<1> DEFINE u == Text(t.chars)
<1>1. u \in TextSet
    BY TextsAre
<1> HIDE DEF u
<1>2. CASE u = Empty
    BY <1>2, TextLost DEF UserOf, u
<1>3. CASE u # Empty /\ u \in Inherited
    <2>1. UserOf(t) = Tag("LIST_EMPTY")
        BY <1>3, TextLost DEF UserOf, u
    <2> QED BY <2>1, TextLost
<1>4. CASE u # Empty /\ u \notin Inherited
    <2>1. UserOf(t) = WriteText(u)
        BY <1>4 DEF UserOf, u
    <2> QED BY <1>1, <1>4, <2>1, TextWritten DEF Gives, NoText
<1> QED BY <1>2, <1>3, <1>4

\* What is written for a string is a stream.
LEMMA StringTyped ==
    ASSUME NEW t \in StringSet
    PROVE  WriteString(t) \in Seq(Symbols)
<1>0. \A y \in Symbols : <<y>> \in Seq(Symbols)
    OBVIOUS
<1>1. WriteText(Text(t.chars)) \in Seq(Symbols)
    <2>1. Text(t.chars) \in TextSet /\ <<>> \in Seq(Symbols)
        BY TextsAre
    <2> QED BY <1>0, <2>1, TextTyped
<1>2. CASE ~IsJid(t)
    <2>1. WriteString(t) = WriteText(t) /\ t \in TextSet
        BY <1>2, TextsAre DEF WriteString
    <2>2. Text(t.chars) = t
        BY <2>1, TextsAre
    <2> QED BY <1>1, <2>1, <2>2
<1>3. CASE IsJid(t) /\ t.device # NoDevice
    <2>1. PICK y : AdJid(t, y)
        BY <1>3, JidWritten
    <2>2. y \in Symbols /\ WriteString(t) = <<y>> \o WriteText(Text(t.chars))
        BY <2>1 DEF AdJid
    <2> QED BY <1>0, <1>1, <2>2, ConcatProperties
<1>4. CASE IsJid(t) /\ t.device = NoDevice
    <2>1. PICK y, z : JidPair(t, y, z)
        BY <1>4, JidWritten
    <2>2. y \in Symbols /\ z \in Symbols /\ WriteString(t) = (<<y>> \o UserOf(t)) \o <<z>>
        BY <2>1 DEF JidPair
    <2>3. UserOf(t) \in Seq(Symbols)
        BY <1>0, UserTyped
    <2>4. <<y>> \o UserOf(t) \in Seq(Symbols)
        BY <1>0, <2>2, <2>3, ConcatProperties
    <2> QED BY <1>0, <2>2, <2>4, ConcatProperties
<1> QED BY <1>2, <1>3, <1>4

\* What Writable says of strings.
LEMMA WritableIs ==
    ASSUME NEW t \in StringSet
    PROVE  /\ t # Number
           /\ Writable(t) <=> /\ t # Empty /\ Text(t.chars) \notin Inherited
                              /\ IsJid(t) /\ t.device # NoDevice => t.chars # <<>> /\ t.device < Byte
<1>1. t # Number
    <2>1. DOMAIN t = {"chars", "device", "server"}
        BY DEF StringSet, TextSet
    <2>2. DOMAIN Number = {"tag", "a", "b", "chars"}
        BY DEF Number, Symbol
    <2> QED BY <2>1, <2>2
<1> QED BY <1>1 DEF Writable

\* What becomes of a string, by its kind.
LEMMA CanonicalIs ==
    ASSUME NEW t \in StringSet
    PROVE  /\ ~IsJid(t) \/ t.device = NoDevice => Canonical(t) = t
           /\ IsJid(t) /\ t.device # NoDevice =>
                 Canonical(t) = Jid(t.chars, IF t.device = 0 THEN NoDevice ELSE t.device, ServerOf(DomainType(t)))
           /\ Canonical(t).chars = t.chars
           /\ t.device \in Nat \ {0} => Canonical(t).device = t.device
<1>1. t # Number /\ (~IsJid(t) => t.device = NoDevice)
    BY WritableIs DEF StringSet, TextSet, IsJid
<1>2. ~IsJid(t) \/ t.device = NoDevice => Canonical(t) = t
    BY <1>1 DEF Canonical
<1>3. IsJid(t) /\ t.device # NoDevice =>
         Canonical(t) = Jid(t.chars, IF t.device = 0 THEN NoDevice ELSE t.device, ServerOf(DomainType(t)))
    BY <1>1 DEF Canonical
<1>4. Canonical(t).chars = t.chars
    BY <1>2, <1>3 DEF Jid
<1>5. t.device \in Nat \ {0} => Canonical(t).device = t.device
    <2>1. t.device \in Nat \ {0} => t.device # NoDevice
        BY DEF NoDevice
    <2> QED BY <1>1, <1>2, <1>3, <2>1 DEF Jid
<1> QED BY <1>2, <1>3, <1>4, <1>5

\* A string that can be written is read as it was.
LEMMA StringComes ==
    ASSUME NEW t \in StringSet, Writable(t), NEW s \in Seq(Symbols), NEW i \in Nat \ {0}, Holds(s, i, WriteString(t))
    PROVE  /\ ReadString(s, i) = Read(Canonical(t), i + Len(WriteString(t)))
           /\ i \in 1 .. Len(s) /\ s[i].tag \notin ListTags
           /\ s[i].tag \in Binaries <=> ~IsJid(t) /\ ~Short(t)
           /\ s[i].tag \in Binaries => SubSeq(s[i].chars, 1, s[i].a) = t.chars /\ Len(WriteString(t)) = 1
<1> DEFINE u == Text(t.chars)
<1>0. u \in TextSet /\ t.chars \in Seq(STRING) /\ Text(u.chars) = u /\ u \notin Inherited /\ u.chars = t.chars
    BY TextsAre, WritableIs DEF Text
<1>1. CASE ~IsJid(t)
    <2>1. t \in TextSet /\ u = t /\ t # Empty /\ t \notin Inherited /\ WriteString(t) = WriteText(t) /\ Canonical(t) = t
        BY <1>0, <1>1, TextsAre, WritableIs, CanonicalIs DEF WriteString
    <2>2. PICK y : /\ WriteText(t) = <<y>> /\ Gives(y, t)
                   /\ Short(t) => y.tag \notin Binaries
                   /\ ~Short(t) => y.tag \in Binaries /\ y.a = Len(t.chars) /\ y.chars = t.chars
        BY <2>1, TextWritten
    <2>3. i \in 1 .. Len(s) /\ s[i] = y
        BY <2>1, <2>2, HoldsOne
    <2>4. ReadText(s, i) = Read(t, i + 1) /\ y.tag \notin ListTags \cup {"AD_JID", "JID_PAIR"}
        BY <2>2, <2>3 DEF Gives, NoText
    <2>5. ReadString(s, i) = ReadText(s, i) /\ Len(WriteString(t)) = 1
        BY <2>1, <2>2, <2>3, <2>4 DEF ReadString
    <2>6. SubSeq(t.chars, 1, Len(t.chars)) = t.chars
        BY <1>0
    <2> QED BY <1>1, <2>1, <2>2, <2>3, <2>4, <2>5, <2>6
<1>2. CASE IsJid(t) /\ t.device # NoDevice
    <2>1. PICK y : AdJid(t, y)
        BY <1>2, JidWritten
    <2>2. t.chars # <<>> /\ t.device < Byte
        BY <1>2, WritableIs
    <2>3. u # Empty
        BY <2>2, EmptyIs, TextsAre
    <2>4. PICK x : WriteText(u) = <<x>> /\ Gives(x, u)
        BY <1>0, <2>3, TextWritten
    <2>5. y \in Symbols /\ x \in Symbols /\ WriteString(t) = <<y>> \o <<x>>
        BY <2>1, <2>4 DEF AdJid, Gives
    <2>6. <<y>> \in Seq(Symbols) /\ <<x>> \in Seq(Symbols) /\ Len(<<y>>) = 1 /\ Len(<<x>>) = 1
        BY <2>5
    <2>7. Holds(s, i, <<y>>) /\ Holds(s, i + 1, <<x>>) /\ Len(WriteString(t)) = 2
        <3> DEFINE e1 == <<y>>
                   e2 == <<x>>
                   e == e1 \o e2
        <3>0. e = WriteString(t) /\ e = e1 \o e2
            BY <2>5
        <3> HIDE DEF e1, e2, e
        <3>1. Holds(s, i, e) /\ e1 \in Seq(Symbols) /\ e2 \in Seq(Symbols) /\ Len(e1) = 1 /\ Len(e2) = 1
            BY <2>6, <3>0 DEF e1, e2
        <3>2. HoldsBoth(s, i, e1, e2) /\ Len(e) = Len(e1) + Len(e2) /\ e \in Seq(Symbols)
            <4>1. Splits(s, i, e, e1, e2)
                BY <3>0, <3>1, HoldsConcat
            <4> QED BY <4>1 DEF Splits
        <3>3. Len(e) = 2
            BY <3>1, <3>2
        <3> QED BY <3>0, <3>1, <3>2, <3>3 DEF e1, e2, HoldsBoth
    <2>8. i \in 1 .. Len(s) /\ s[i] = y
        BY <2>7, HoldsOne
    <2>9. i + 1 \in 1 .. Len(s) /\ s[i + 1] = x
        <3>1. i + 1 \in Nat \ {0}
            OBVIOUS
        <3> QED BY <2>7, <3>1, HoldsOne
    <2>10. ReadText(s, i + 1) = Read(u, (i + 1) + 1)
        BY <2>4, <2>9 DEF Gives
    <2>11. y.tag = "AD_JID" /\ y.b = t.device /\ ServerOf(y.a) = ServerOf(DomainType(t))
        BY <2>1, <2>2 DEF AdJid
    <2>12. ReadString(s, i) = ReadAdJid(s, i)
        BY <2>8, <2>11 DEF ReadString
    <2>13. ReadAdJid(s, i) = Read(Jid(u.chars, IF t.device > 0 THEN t.device ELSE NoDevice, ServerOf(DomainType(t))), (i + 1) + 1)
        BY <2>8, <2>10, <2>11, ReadIs DEF ReadAdJid
    <2>14. (IF t.device > 0 THEN t.device ELSE NoDevice) = (IF t.device = 0 THEN NoDevice ELSE t.device)
        <3>1. t.device \in Nat
            BY <1>2 DEF StringSet, IsJid, TextSet
        <3> QED BY <3>1
    <2>15. ReadString(s, i) = Read(Canonical(t), (i + 1) + 1)
        <3>1. Canonical(t) = Jid(t.chars, IF t.device = 0 THEN NoDevice ELSE t.device, ServerOf(DomainType(t)))
            BY <1>2, CanonicalIs
        <3> QED BY <1>0, <2>12, <2>13, <2>14, <3>1
    <2>16. (i + 1) + 1 = i + 2
        OBVIOUS
    <2>17. "AD_JID" \notin Binaries /\ "AD_JID" \notin ListTags
        BY DEF Binaries, ListTags
    <2> QED BY <1>2, <2>7, <2>8, <2>11, <2>15, <2>16, <2>17
<1>3. CASE IsJid(t) /\ t.device = NoDevice
    <2>1. PICK y, z : JidPair(t, y, z)
        BY <1>3, JidWritten
    <2>2. PICK x \in Symbols : UserOf(t) = <<x>> /\ x.tag \notin {"AD_JID", "JID_PAIR", "server"}
        BY UserTyped
    <2>3. y \in Symbols /\ z \in Symbols /\ WriteString(t) = (<<y>> \o <<x>>) \o <<z>>
        BY <2>1, <2>2 DEF JidPair
    <2>4. <<y>> \in Seq(Symbols) /\ <<x>> \in Seq(Symbols) /\ <<z>> \in Seq(Symbols) /\ Len(<<y>>) = 1 /\ Len(<<x>>) = 1 /\ Len(<<z>>) = 1
        BY <2>2, <2>3
    <2>5. <<y>> \o <<x>> \in Seq(Symbols) /\ Len(<<y>> \o <<x>>) = 2
        BY <2>4, ConcatProperties
    <2> DEFINE yx == <<y>> \o <<x>>
    <2>6. Holds(s, i, yx) /\ Holds(s, i + 2, <<z>>) /\ Len(WriteString(t)) = 3
        <3> DEFINE e2 == <<z>>
                   e == yx \o e2
        <3>0. e = WriteString(t) /\ e = yx \o e2
            BY <2>3
        <3> HIDE DEF yx, e2, e
        <3>1. Holds(s, i, e) /\ yx \in Seq(Symbols) /\ e2 \in Seq(Symbols) /\ Len(yx) = 2 /\ Len(e2) = 1
            BY <2>4, <2>5, <3>0 DEF yx, e2
        <3>2. HoldsBoth(s, i, yx, e2) /\ Len(e) = Len(yx) + Len(e2) /\ e \in Seq(Symbols)
            <4>1. Splits(s, i, e, yx, e2)
                BY <3>0, <3>1, HoldsConcat
            <4> QED BY <4>1 DEF Splits
        <3>3. Len(e) = 3
            BY <3>1, <3>2
        <3> QED BY <3>0, <3>1, <3>2, <3>3 DEF e2, HoldsBoth
    <2>7. Holds(s, i, <<y>>) /\ Holds(s, i + Len(<<y>>), <<x>>)
        <3>1. yx = <<y>> \o <<x>>
            OBVIOUS
        <3> HIDE DEF yx
        <3>2. Splits(s, i, yx, <<y>>, <<x>>)
            BY <2>4, <2>6, <3>1, HoldsConcat
        <3> QED BY <3>2 DEF Splits, HoldsBoth
    <2>8. i \in 1 .. Len(s) /\ s[i] = y
        BY <2>7, HoldsOne
    <2>9. i + 1 \in 1 .. Len(s) /\ s[i + 1] = x
        <3>1. i + 1 \in Nat \ {0} /\ Holds(s, i + 1, <<x>>)
            BY <2>4, <2>7
        <3> QED BY <3>1, HoldsOne
    <2>10. i + 2 \in 1 .. Len(s) /\ s[i + 2] = z
        <3>1. i + 2 \in Nat \ {0}
            OBVIOUS
        <3> QED BY <2>6, <3>1, HoldsOne
    <2>11. ReadText(s, i + 1) = Read(u, i + 2)
        <3>0. (i + 1) + 1 = i + 2
            OBVIOUS
        <3>1. CASE u = Empty
            <4>1. UserOf(t) = Tag("LIST_EMPTY")
                BY <3>1 DEF UserOf
            <4>2. x.tag = "LIST_EMPTY"
                <5>1. PICK w \in Symbols : Tag("LIST_EMPTY") = <<w>> /\ w.tag = "LIST_EMPTY"
                    BY TextLost
                <5>2. <<w>> = <<x>>
                    BY <2>2, <4>1, <5>1
                <5>3. w = x
                    BY <5>2
                <5> QED BY <5>1, <5>3
            <4> QED BY <2>9, <3>0, <3>1, <4>2, TextCases
        <3>2. CASE u # Empty
            <4>1. UserOf(t) = WriteText(u)
                BY <3>2 DEF UserOf
            <4>2. PICK w : WriteText(u) = <<w>> /\ Gives(w, u)
                BY <1>0, <3>2, TextWritten
            <4>3. <<w>> = <<x>>
                BY <2>2, <4>1, <4>2
            <4>4. w = x
                BY <4>3
            <4> HIDE DEF u
            <4> QED BY <2>9, <3>0, <4>2, <4>4 DEF Gives
        <3> QED BY <3>1, <3>2
    <2>12. y.tag = "JID_PAIR" /\ z.tag = "server" /\ z.chars = t.server
        BY <2>1 DEF JidPair
    <2>13. ReadString(s, i) = ReadJidPair(s, i)
        BY <2>8, <2>12 DEF ReadString
    <2>14. ReadJidPair(s, i) = Read(Jid(t.chars, NoDevice, t.server), (i + 2) + 1)
        <3> DEFINE r == ReadText(s, i + 1)
        <3>1. r.ok /\ r.value.chars = t.chars /\ r.next = i + 2
            BY <1>0, <2>11, ReadIs
        <3>2. r.next <= Len(s) /\ s[r.next].tag = "server" /\ s[r.next].chars = t.server
            BY <2>10, <2>12, <3>1
        <3> HIDE DEF r
        <3> QED BY <3>1, <3>2 DEF ReadJidPair, r
    <2>15. Canonical(t) = Jid(t.chars, NoDevice, t.server)
        <3>1. Canonical(t) = t
            BY <1>3, CanonicalIs
        <3>2. t = Jid(t.chars, t.device, t.server)
            BY <1>3 DEF StringSet, Jid, TextSet
        <3> QED BY <1>3, <3>1, <3>2
    <2>16. (i + 2) + 1 = i + 3
        OBVIOUS
    <2>17. "JID_PAIR" \notin Binaries /\ "JID_PAIR" \notin ListTags
        BY DEF Binaries, ListTags
    <2> QED BY <1>3, <2>6, <2>8, <2>12, <2>13, <2>14, <2>15, <2>16, <2>17
<1> QED BY <1>1, <1>2, <1>3

\* The size of a list is one symbol.
LEMMA ListStartWritten ==
    ASSUME NEW n \in Nat
    PROVE  \E y \in Symbols : /\ WriteListStart(n) = <<y>> /\ y.tag \in ListTags
                              /\ y.tag = "LIST_EMPTY" <=> n = 0
                              /\ n < Byte * Byte => y.a = n
<1>0. Byte \in Nat /\ Byte > 1 /\ Byte * Byte \in Nat /\ Byte * Byte > 0
    BY CodecAssumption
<1>1. CASE n = 0
    <2>1. WriteListStart(n) = Tag("LIST_EMPTY")
        BY <1>1 DEF WriteListStart
    <2>2. PICK y \in Symbols : Tag("LIST_EMPTY") = <<y>> /\ y.tag = "LIST_EMPTY"
        BY TextLost
    <2>3. y.a = 0 /\ y.tag \in ListTags
        <3>1. "LIST_EMPTY" # "server" /\ "LIST_EMPTY" \in ListTags
            BY DEF ListTags
        <3> QED BY <2>2, <3>1 DEF Symbols
    <2> QED BY <1>1, <2>1, <2>2, <2>3
<1>2. ASSUME NEW tag \in {"LIST_8", "LIST_16"}, NEW a \in Nat, a < Byte * Byte
      PROVE  LET y == Symbol(tag, a, 0, <<>>) IN y \in Symbols /\ y.tag = tag /\ y.a = a
    <2> DEFINE y == Symbol(tag, a, 0, <<>>)
    <2>1. tag \in Tags /\ tag \notin {"AD_JID", "LIST_EMPTY", "NIBBLE_8", "HEX_8"} \cup Binaries
        BY DEF Tags, Binaries
    <2>2. <<>> \in Seq(Letters) /\ 0 \in Nat
        OBVIOUS
    <2>3. y \in [tag : Tags, a : Nat, b : Nat, chars : Seq(Letters)]
        BY <2>1, <2>2 DEF Symbol
    <2>4. y.tag = tag /\ y.a = a
        BY DEF Symbol
    <2> HIDE DEF y
    <2>5. y \in Symbols
        BY <1>2, <2>1, <2>3, <2>4 DEF Symbols
    <2> QED BY <2>4, <2>5 DEF y
<1>3. "LIST_8" \in ListTags /\ "LIST_16" \in ListTags
    BY DEF ListTags
<1>4. CASE n # 0 /\ n < Byte
    <2>1. n < Byte * Byte
        BY <1>0, <1>4
    <2>2. WriteListStart(n) = <<Symbol("LIST_8", n, 0, <<>>)>>
        BY <1>4 DEF WriteListStart
    <2> QED BY <1>2, <1>3, <1>4, <2>1, <2>2
<1>5. CASE n # 0 /\ n >= Byte
    <2> DEFINE m == Byte * Byte
               a == n % m
    <2>1. ~(n < Byte)
        BY <1>0, <1>5
    <2>2. WriteListStart(n) = <<Symbol("LIST_16", a, 0, <<>>)>>
        BY <1>5, <2>1 DEF WriteListStart
    <2>3. a \in Nat /\ a < m /\ (n < m => a = n)
        <3> HIDE DEF m
        <3>1. m \in Nat /\ m > 0
            BY <1>0 DEF m
        <3> QED BY <3>1
    <2> HIDE DEF a
    <2> QED BY <1>2, <1>3, <1>5, <2>2, <2>3
<1> QED BY <1>0, <1>1, <1>4, <1>5

\* The parts of what is put together are in the stream one after the other.
LEMMA FirstsHold ==
    ASSUME NEW q \in Seq(Seq(Symbols)), NEW P, Firsts(P, q, Symbols),
           NEW s \in Seq(Symbols), NEW i \in Nat \ {0}, Holds(s, i, P[Len(q)])
    PROVE  /\ \A k \in 0 .. Len(q) : Len(P[k]) \in Nat /\ i + Len(P[k]) \in 1 .. Len(s) + 1
           /\ \A k \in 1 .. Len(q) : /\ Holds(s, i + Len(P[k - 1]), q[k])
                                     /\ i + Len(P[k]) = (i + Len(P[k - 1])) + Len(q[k])
<1> DEFINE n == Len(q)
           T == {k \in 0 .. n : ~Holds(s, i, P[n - k])}
<1>0. n \in Nat /\ Len(s) \in Nat /\ \A k \in 1 .. n : q[k] \in Seq(Symbols)
    OBVIOUS
<1>00. Holds(s, i, P[n])
    OBVIOUS
<1>1. P \in [0 .. n -> Seq(Symbols)] /\ \A k \in 1 .. n : P[k] = P[k - 1] \o q[k]
    BY DEF Firsts
<1> HIDE DEF n
<1>2. ASSUME NEW k \in 1 .. n, Holds(s, i, P[k])
      PROVE  /\ HoldsBoth(s, i, P[k - 1], q[k]) /\ Len(P[k]) = Len(P[k - 1]) + Len(q[k])
    <2> DEFINE e1 == P[k - 1]
               e2 == q[k]
               e == P[k]
    <2>1. k - 1 \in 0 .. n
        BY <1>0
    <2>2. e1 \in Seq(Symbols) /\ e2 \in Seq(Symbols) /\ e = e1 \o e2
        BY <1>0, <1>1, <2>1
    <2> HIDE DEF e1, e2, e
    <2>3. HoldsBoth(s, i, e1, e2) /\ Len(e) = Len(e1) + Len(e2) /\ e \in Seq(Symbols)
        <3>1. e1 \in Seq(Symbols) /\ e2 \in Seq(Symbols) /\ e = e1 \o e2 /\ Holds(s, i, e)
            BY <1>2, <2>2 DEF e
        <3>2. Splits(s, i, e, e1, e2)
            BY <3>1, HoldsConcat
        <3> QED BY <3>2 DEF Splits
    <2> QED BY <2>3 DEF e1, e2, e
<1>3. T = {}
    <2>1. SUFFICES ASSUME T # {} PROVE FALSE
        OBVIOUS
    <2>2. T \in SUBSET Nat
        BY <1>0
    <2>3. PICK k \in T : \A l \in T : k <= l
        <3> HIDE DEF T
        <3> QED BY <2>1, <2>2, LeastOf
    <2>4. k # 0
        <3>1. n - 0 = n
            BY <1>0
        <3>2. Holds(s, i, P[n - 0])
            BY <1>00, <3>1
        <3> QED BY <2>3, <3>2
    <2>5. k - 1 \in 0 .. n /\ n - (k - 1) \in 1 .. n /\ (n - (k - 1)) - 1 = n - k
        BY <1>0, <2>3, <2>4
    <2>6. k - 1 \notin T
        <3>1. k \in Nat /\ ~(k <= k - 1)
            BY <1>0, <2>3
        <3> HIDE DEF T
        <3> QED BY <2>3, <3>1
    <2> DEFINE m == n - (k - 1)
    <2>7. Holds(s, i, P[m]) /\ m \in 1 .. n /\ m - 1 = n - k
        BY <2>5, <2>6
    <2> HIDE DEF m
    <2>8. HoldsBoth(s, i, P[m - 1], q[m])
        BY <1>2, <2>7
    <2>9. Holds(s, i, P[n - k])
        BY <2>7, <2>8 DEF HoldsBoth
    <2> QED BY <2>3, <2>9
<1>4. ASSUME NEW k \in 0 .. n PROVE Holds(s, i, P[k])
    <2> DEFINE m == n - k
    <2>1. m \in 0 .. n /\ n - m = k
        BY <1>0
    <2> HIDE DEF m
    <2>2. Holds(s, i, P[n - m])
        BY <1>3, <2>1
    <2> QED BY <2>1, <2>2
<1>5. ASSUME NEW k \in 0 .. n PROVE Len(P[k]) \in Nat /\ i + Len(P[k]) \in 1 .. Len(s) + 1
    <2>1. P[k] \in Seq(Symbols) /\ Len(s) \in Nat
        BY <1>1
    <2>2. i + Len(P[k]) <= Len(s) + 1 /\ Len(P[k]) \in Nat
        BY <1>4, <2>1 DEF Holds
    <2> QED BY <2>1, <2>2
<1>6. ASSUME NEW k \in 1 .. n
      PROVE  Holds(s, i + Len(P[k - 1]), q[k]) /\ i + Len(P[k]) = (i + Len(P[k - 1])) + Len(q[k])
    <2>1. k \in 0 .. n /\ k - 1 \in 0 .. n
        BY <1>0
    <2>2. HoldsBoth(s, i, P[k - 1], q[k]) /\ Len(P[k]) = Len(P[k - 1]) + Len(q[k])
        BY <1>2, <1>4, <2>1
    <2>3. Len(P[k - 1]) \in Nat /\ Len(q[k]) \in Nat
        BY <1>0, <1>5, <2>1
    <2>5. Len(P[k]) = Len(P[k - 1]) + Len(q[k])
        BY <2>2
    <2> DEFINE x == Len(P[k - 1])
               y == Len(q[k])
    <2>6. x \in Nat /\ y \in Nat /\ Len(P[k]) = x + y
        BY <2>3, <2>5
    <2> HIDE DEF x, y
    <2>7. i + (x + y) = (i + x) + y
        BY <2>6
    <2>4. i + Len(P[k]) = (i + Len(P[k - 1])) + Len(q[k])
        BY <2>6, <2>7 DEF x, y
    <2> QED BY <2>2, <2>4 DEF HoldsBoth
<1> QED BY <1>5, <1>6 DEF n

\* Attributes as they are sent.
LEMMA AttrTyped ==
    ASSUME NEW a \in AttrSet
    PROVE  /\ a[1] \in StringSet /\ a[2] \in StringSet \cup {Number} /\ WriteAttr(a) \in Seq(Symbols)
           /\ a[2] \in StringSet => WriteAttr(a) = WriteString(a[1]) \o WriteString(a[2])
           /\ a[2] = Number => WriteAttr(a) = <<>>
<1>1. a[1] \in StringSet /\ a[2] \in StringSet \cup {Number}
    BY DEF AttrSet
<1>2. CASE a[2] = Number
    <2>1. WriteAttr(a) = <<>> /\ a[2] \notin StringSet
        BY <1>2, WritableIs DEF WriteAttr
    <2>2. <<>> \in Seq(Symbols)
        OBVIOUS
    <2> QED BY <1>1, <1>2, <2>1, <2>2
<1>3. CASE a[2] \in StringSet
    <2>1. a[2] # Number
        BY <1>3, WritableIs
    <2>2. WriteAttr(a) = WriteString(a[1]) \o WriteString(a[2])
        BY <2>1 DEF WriteAttr
    <2>3. WriteString(a[1]) \in Seq(Symbols) /\ WriteString(a[2]) \in Seq(Symbols)
        BY <1>1, <1>3, StringTyped
    <2> QED BY <1>1, <1>3, <2>1, <2>2, <2>3, ConcatProperties
<1> QED BY <1>1, <1>2, <1>3

\* What is written for attributes, as one sequence of the parts.
AttrParts(attrs) == [k \in DOMAIN attrs |-> WriteAttr(attrs[k])]

\* It is a sequence of streams.
LEMMA AttrPartsAre ==
    ASSUME NEW attrs \in Seq(AttrSet)
    PROVE  /\ AttrParts(attrs) \in Seq(Seq(Symbols)) /\ Len(AttrParts(attrs)) = Len(attrs)
           /\ \A k \in 1 .. Len(attrs) : AttrParts(attrs)[k] = WriteAttr(attrs[k]) /\ attrs[k] \in AttrSet
<1>1. DOMAIN attrs = 1 .. Len(attrs) /\ Len(attrs) \in Nat /\ \A k \in 1 .. Len(attrs) : attrs[k] \in AttrSet
    OBVIOUS
<1>2. \A k \in 1 .. Len(attrs) : WriteAttr(attrs[k]) \in Seq(Symbols)
    BY <1>1, AttrTyped
<1> DEFINE q == AttrParts(attrs)
<1>3. q = [k \in 1 .. Len(attrs) |-> WriteAttr(attrs[k])]
    BY <1>1 DEF AttrParts
<1>4. q \in [1 .. Len(attrs) -> Seq(Symbols)]
    BY <1>2, <1>3
<1>5. \A k \in 1 .. Len(attrs) : q[k] = WriteAttr(attrs[k])
    BY <1>3
<1> HIDE DEF q
<1>6. q \in Seq(Seq(Symbols)) /\ Len(q) = Len(attrs)
    BY <1>1, <1>4
<1> QED BY <1>1, <1>5, <1>6 DEF q

\* What becomes of a string is a string that can be read.
LEMMA CanonicalTyped ==
    ASSUME NEW t \in StringSet
    PROVE  Canonical(t) \in Strings
<1>1. CASE ~IsJid(t) \/ t.device = NoDevice
    BY <1>1, CanonicalIs, TextsAre
<1>2. CASE IsJid(t) /\ t.device # NoDevice
    <2>1. Canonical(t) = Jid(t.chars, IF t.device = 0 THEN NoDevice ELSE t.device, ServerOf(DomainType(t)))
        BY <1>2, CanonicalIs
    <2>2. t.device \in Nat /\ t.chars \in Seq(Letters)
        BY <1>2, TextsAre DEF StringSet, TextSet, IsJid
    <2>3. ServerOf(DomainType(t)) \in Servers
        <3>1. ServerOf(DomainType(t)) = "lid" \/ ServerOf(DomainType(t)) = "s.whatsapp.net"
            BY DEF ServerOf
        <3> QED BY <3>1 DEF Servers, NoServer
    <2> QED BY <2>1, <2>2, <2>3 DEF Jid, Strings
<1> QED BY <1>1, <1>2

\* Attributes whose strings can be written are read as they were.
CanonicalAttr(a) == <<Canonical(a[1]), Canonical(a[2])>>

\* One of them.
LEMMA AttrComes ==
    ASSUME NEW a \in AttrSet, Writable(a[1]), Writable(a[2]), NEW s \in Seq(Symbols), NEW i \in Nat \ {0},
           Holds(s, i, WriteAttr(a)), NEW v
    PROVE  ReadAttr(s, Read(v, i)) = Read(Append(v, CanonicalAttr(a)), i + Len(WriteAttr(a)))
<1>1. a[1] \in StringSet /\ a[2] \in StringSet
    BY AttrTyped DEF Writable
<1> DEFINE e1 == WriteString(a[1])
           e2 == WriteString(a[2])
           e == WriteAttr(a)
<1>2. e1 \in Seq(Symbols) /\ e2 \in Seq(Symbols) /\ e = e1 \o e2
    BY <1>1, AttrTyped, StringTyped
<1>3. ReadString(s, i) = Read(Canonical(a[1]), i + Len(e1)) /\ HoldsBoth(s, i, e1, e2) /\ Len(e) = Len(e1) + Len(e2)
    <2>1. HoldsBoth(s, i, e1, e2) /\ Len(e) = Len(e1) + Len(e2) /\ e \in Seq(Symbols)
        <3> HIDE DEF e1, e2
        <3>1. Splits(s, i, e, e1, e2)
            BY <1>2, HoldsConcat
        <3> QED BY <3>1 DEF Splits
    <2>2. Holds(s, i, WriteString(a[1]))
        BY <2>1 DEF HoldsBoth
    <2>3. ReadString(s, i) = Read(Canonical(a[1]), i + Len(WriteString(a[1])))
        BY <1>1, <2>2, StringComes
    <2> QED BY <2>1, <2>3
<1> DEFINE j == i + Len(e1)
<1>4. j \in Nat \ {0} /\ Holds(s, j, WriteString(a[2]))
    BY <1>3 DEF HoldsBoth
<1>5. j + Len(e2) = i + Len(e)
    <2>1. Len(e1) \in Nat /\ Len(e2) \in Nat
        BY <1>2
    <2> HIDE DEF e1, e2, e
    <2> QED BY <1>3, <2>1
<1> HIDE DEF j
<1>6. ReadString(s, j) = Read(Canonical(a[2]), j + Len(WriteString(a[2])))
    BY <1>1, <1>4, StringComes
<1>7. ReadString(s, i) = Read(Canonical(a[1]), j)
    BY <1>3 DEF j
<1>8. ReadString(s, j) = Read(Canonical(a[2]), i + Len(e))
    BY <1>5, <1>6
<1> HIDE DEF e
<1>9. ReadAttr(s, Read(v, i)) = Read(Append(v, <<Canonical(a[1]), Canonical(a[2])>>), i + Len(e))
    BY <1>7, <1>8, ReadIs DEF ReadAttr, PairAfter
<1> QED BY <1>9 DEF e, CanonicalAttr

\* All of them.
LEMMA AttrsCome ==
    ASSUME NEW attrs \in Seq(AttrSet), \A k \in DOMAIN attrs : Writable(attrs[k][1]) /\ Writable(attrs[k][2]),
           NEW s \in Seq(Symbols), NEW i \in Nat \ {0}, Holds(s, i, Concat(AttrParts(attrs)))
    PROVE  ReadAttrs(s, i, Len(attrs)) =
              Read([k \in 1 .. Len(attrs) |-> CanonicalAttr(attrs[k])], i + Len(Concat(AttrParts(attrs))))
<1> DEFINE q == AttrParts(attrs)
           n == Len(attrs)
           V == Strings \X Strings
           c == [k \in 1 .. n |-> CanonicalAttr(attrs[k])]
<1>1. q \in Seq(Seq(Symbols)) /\ Len(q) = n /\ n \in Nat /\ \A k \in 1 .. n : q[k] = WriteAttr(attrs[k]) /\ attrs[k] \in AttrSet
    BY AttrPartsAre
<1>2. c \in [1 .. n -> V]
    <2>1. ASSUME NEW k \in 1 .. n PROVE CanonicalAttr(attrs[k]) \in V
        <3>0. k \in DOMAIN attrs /\ attrs[k] \in AttrSet
            BY <1>1
        <3>2. attrs[k][1] \in StringSet /\ attrs[k][2] \in StringSet \cup {Number}
            BY <3>0, AttrTyped
        <3>3. attrs[k][2] # Number
            BY <3>0 DEF Writable
        <3>1. attrs[k][1] \in StringSet /\ attrs[k][2] \in StringSet
            BY <3>2, <3>3
        <3> QED BY <3>1, CanonicalTyped DEF CanonicalAttr
    <2> QED BY <2>1
<1>3. \A k \in 1 .. n : c[k] = CanonicalAttr(attrs[k])
    OBVIOUS
<1> HIDE DEF q, V, c
<1>4. PICK P : Firsts(P, q, Symbols) /\ Concat(q) = P[Len(q)]
    BY <1>1, ConcatIs
<1>5. Holds(s, i, P[Len(q)])
    BY <1>4 DEF q
<1>60. /\ \A k \in 0 .. Len(q) : Len(P[k]) \in Nat /\ i + Len(P[k]) \in 1 .. Len(s) + 1
       /\ \A k \in 1 .. Len(q) : /\ Holds(s, i + Len(P[k - 1]), q[k])
                                 /\ i + Len(P[k]) = (i + Len(P[k - 1])) + Len(q[k])
    <2>1. q \in Seq(Seq(Symbols)) /\ Firsts(P, q, Symbols)
        BY <1>1, <1>4
    <2> QED BY <1>5, <2>1, FirstsHold
<1>6. /\ \A k \in 0 .. n : Len(P[k]) \in Nat /\ i + Len(P[k]) \in 1 .. Len(s) + 1
      /\ \A k \in 1 .. n : /\ Holds(s, i + Len(P[k - 1]), q[k])
                           /\ i + Len(P[k]) = (i + Len(P[k - 1])) + Len(q[k])
    BY <1>1, <1>60
<1>7. Len(P[0]) = 0 /\ i + Len(P[0]) = i
    BY <1>4 DEF Firsts
<1>8. i \in 1 .. Len(s) + 1
    BY <1>1, <1>6, <1>7
<1>9. PICK f : AttrsLoop(f, s, i, n) /\ ReadAttrs(s, i, n) = f[n]
    BY <1>1, <1>8, AttrsRead
<1> DEFINE cc(m) == [j \in 1 .. m |-> c[j]]
           T == {k \in 0 .. n : f[k] # Read(cc(k), i + Len(P[k]))}
<1>10. cc(0) = <<>> /\ cc(n) = c
    <2>1. c = [j \in 1 .. n |-> c[j]]
        BY <1>2
    <2> QED BY <2>1
<1>11. ASSUME NEW k \in 1 .. n PROVE Append(cc(k - 1), c[k]) = cc(k)
    <2>0. \A j \in 1 .. n : c[j] \in V
        BY <1>2
    <2>6. \A j \in 1 .. k - 1 : j \in 1 .. n
        BY <1>1
    <2>1. cc(k - 1) \in [1 .. k - 1 -> V] /\ c[k] \in V /\ k - 1 \in Nat
        BY <1>1, <2>0, <2>6
    <2>2. cc(k - 1) \in Seq(V) /\ Len(cc(k - 1)) = k - 1
        <3> HIDE DEF cc
        <3> QED BY <2>1, LenProperties
    <2>3. \A j \in 1 .. k - 1 : cc(k - 1)[j] = c[j]
        OBVIOUS
    <2> DEFINE w == cc(k - 1)
    <2> HIDE DEF w
    <2>4. w \in Seq(V) /\ Len(w) = k - 1 /\ \A j \in 1 .. k - 1 : w[j] = c[j]
        BY <2>2, <2>3 DEF w
    <2>5. Append(w, c[k]) = [j \in 1 .. k |-> c[j]]
        <3>1. Append(w, c[k]) \in Seq(V) /\ Len(Append(w, c[k])) = k
            BY <2>1, <2>4, AppendProperties
        <3>2. \A j \in 1 .. k : Append(w, c[k])[j] = c[j]
            <4>1. Append(w, c[k])[k] = c[k]
                BY <2>1, <2>4, AppendProperties
            <4>2. ASSUME NEW j \in 1 .. k - 1 PROVE Append(w, c[k])[j] = c[j]
                BY <2>1, <2>4, AppendProperties
            <4>3. \A j \in 1 .. k : j = k \/ j \in 1 .. k - 1
                OBVIOUS
            <4> QED BY <4>1, <4>2, <4>3
        <3> DEFINE z == Append(w, c[k])
        <3> HIDE DEF z
        <3>3. z = [j \in 1 .. k |-> z[j]]
            BY <3>1, LenProperties DEF z
        <3>4. z = [j \in 1 .. k |-> c[j]]
            BY <3>2, <3>3 DEF z
        <3> QED BY <3>4 DEF z
    <2> QED BY <2>5 DEF w
<1>12. T = {}
    <2>1. SUFFICES ASSUME T # {} PROVE FALSE
        OBVIOUS
    <2>2. T \in SUBSET Nat
        BY <1>1
    <2>3. PICK k \in T : \A l \in T : k <= l
        <3> HIDE DEF T
        <3> QED BY <2>1, <2>2, LeastOf
    <2>4. k # 0
        <3>1. f[0] = Read(cc(0), i + Len(P[0]))
            BY <1>7, <1>9, <1>10 DEF AttrsLoop
        <3> HIDE DEF cc
        <3> QED BY <2>3, <3>1
    <2>5. k \in 1 .. n /\ k - 1 \in 0 .. n
        BY <1>1, <2>3, <2>4
    <2>6. k - 1 \notin T
        BY <2>3, <2>5
    <2> DEFINE m == i + Len(P[k - 1])
    <2>7. f[k - 1] = Read(cc(k - 1), m)
        BY <2>5, <2>6
    <2>8. m \in Nat \ {0} /\ Holds(s, m, q[k]) /\ i + Len(P[k]) = m + Len(q[k])
        <3>1. m \in 1 .. Len(s) + 1
            BY <1>6, <2>5
        <3>2. m \in Nat \ {0}
            BY <3>1
        <3>3. Holds(s, m, q[k]) /\ i + Len(P[k]) = m + Len(q[k])
            BY <1>6, <2>5
        <3> QED BY <3>2, <3>3
    <2>9. q[k] = WriteAttr(attrs[k]) /\ attrs[k] \in AttrSet /\ Writable(attrs[k][1]) /\ Writable(attrs[k][2])
        <3>1. k \in DOMAIN attrs
            BY <2>5
        <3> QED BY <1>1, <2>5, <3>1
    <2> HIDE DEF m, cc
    <2> DEFINE a == attrs[k]
               w == cc(k - 1)
    <2>10. ReadAttr(s, Read(w, m)) = Read(Append(w, CanonicalAttr(a)), m + Len(WriteAttr(a)))
        <3>1. a \in AttrSet /\ Writable(a[1]) /\ Writable(a[2]) /\ Holds(s, m, WriteAttr(a))
            BY <2>8, <2>9
        <3> HIDE DEF a, w
        <3> QED BY <2>8, <3>1, AttrComes
    <2>11. f[k] = Read(Append(w, c[k]), i + Len(P[k]))
        <3>1. f[k] = ReadAttr(s, f[k - 1])
            BY <1>9, <2>5 DEF AttrsLoop
        <3>2. c[k] = CanonicalAttr(a)
            BY <1>3, <2>5
        <3> QED BY <2>7, <2>8, <2>9, <2>10, <3>1, <3>2
    <2>12. f[k] = Read(cc(k), i + Len(P[k]))
        BY <1>11, <2>5, <2>11
    <2> QED BY <2>3, <2>12
<1>13. n \in 0 .. n
    BY <1>1
<1>14. f[n] = Read(c, i + Len(P[n]))
    BY <1>10, <1>12, <1>13
<1> QED BY <1>1, <1>4, <1>9, <1>14 DEF q, c

\* The parts of a node.
LEMMA NodeParts ==
    ASSUME NEW node \in Nodes
    PROVE  /\ node.tag \in StringSet /\ node.attrs \in Seq(AttrSet) /\ Kids(node) \in Seq(Nodes)
           /\ \/ node.content = NoContent /\ node.content.kind = "none"
              \/ node.content.kind = "string" /\ node.content.string \in StringSet
              \/ node.content.kind = "bytes" /\ node.content.bytes \in Seq(STRING) /\ node.content = BytesContent(node.content.bytes)
              \/ node.content.kind = "nodes"
           /\ \A k \in 1 .. Len(Kids(node)) : Kids(node)[k].tag # Empty
<1>1. PICK d \in 1 .. Len(Levels) : node \in Levels[d]
    BY CodecAssumption DEF Nodes
<1>2. /\ node \in [tag : StringSet, attrs : Seq(AttrSet), content : ContentSet(d)]
      /\ \A i \in DOMAIN Kids(node) : Kids(node)[i].tag # Empty
    BY <1>1, NodeTyped
<1>3. Kids(node) \in Seq(Nodes)
    BY KidsAreNodes
<1>4. node.content \in ContentSet(d) /\ node.tag \in StringSet /\ node.attrs \in Seq(AttrSet)
    BY <1>2
<1> DEFINE c == node.content
<1>5. \/ c = NoContent /\ c.kind = "none"
      \/ c.kind = "string" /\ c.string \in StringSet
      \/ c.kind = "bytes" /\ c.bytes \in Seq(STRING) /\ c = BytesContent(c.bytes)
      \/ c.kind = "nodes"
    <2> HIDE DEF c
    <2>1. c \in ContentSet(d)
        BY <1>4 DEF c
    <2>2. CASE c = NoContent
        BY <2>2 DEF NoContent
    <2>3. CASE c \in [kind : {"string"}, string : StringSet]
        BY <2>3
    <2>4. CASE c \in [kind : {"bytes"}, bytes : Seq(STRING)]
        BY <2>4 DEF BytesContent
    <2>5. CASE c \in [kind : {"nodes"}, nodes : Seq(UNION {Levels[e] : e \in 1 .. d - 1})]
        BY <2>5
    <2> QED BY <2>1, <2>2, <2>3, <2>4, <2>5 DEF ContentSet
<1>6. DOMAIN Kids(node) = 1 .. Len(Kids(node))
    BY <1>3
<1> QED BY <1>2, <1>3, <1>4, <1>5, <1>6

\* What is written for the children, and what they are read as.
KidParts(node) == [k \in DOMAIN Kids(node) |-> Encode[Kids(node)[k]]]
KidValues(node) == [k \in DOMAIN Kids(node) |-> CanonicalNode[Kids(node)[k]]]

\* The nodes for which a stream is written.
EncodeSet == {node \in Nodes : Encode[node] \in Seq(Symbols)}

\* What is written for a node is a stream when that for its children is.
LEMMA PartsTyped ==
    ASSUME NEW node \in Nodes, \A k \in DOMAIN Kids(node) : Kids(node)[k] \in EncodeSet
    PROVE  /\ KidParts(node) \in Seq(Seq(Symbols)) /\ Len(KidParts(node)) = Len(Kids(node))
           /\ \A k \in 1 .. Len(Kids(node)) : KidParts(node)[k] = Encode[Kids(node)[k]]
           /\ \A q \in Seq(Seq(Symbols)) : Concat(q) \in Seq(Symbols)
           /\ WriteContent(node, KidParts(node)) \in Seq(Symbols)
<1> DEFINE n == Len(Kids(node))
           kp == KidParts(node)
<1>1. n \in Nat /\ DOMAIN Kids(node) = 1 .. n
    BY NodeParts
<1>2. \A k \in 1 .. n : Encode[Kids(node)[k]] \in Seq(Symbols)
    BY <1>1 DEF EncodeSet
<1>3. kp = [k \in 1 .. n |-> Encode[Kids(node)[k]]]
    BY <1>1 DEF KidParts
<1> HIDE DEF n
<1>4. kp \in [1 .. n -> Seq(Symbols)] /\ \A k \in 1 .. n : kp[k] = Encode[Kids(node)[k]]
    BY <1>2, <1>3
<1> HIDE DEF kp
<1>5. kp \in Seq(Seq(Symbols)) /\ Len(kp) = n
    BY <1>1, <1>4
<1>6. ASSUME NEW q \in Seq(Seq(Symbols)) PROVE Concat(q) \in Seq(Symbols)
    <2>1. PICK P : Firsts(P, q, Symbols) /\ Concat(q) = P[Len(q)]
        BY ConcatIs
    <2>2. Len(q) \in 0 .. Len(q)
        OBVIOUS
    <2> QED BY <2>1, <2>2 DEF Firsts
<1>7. WriteContent(node, kp) \in Seq(Symbols)
    <2>0. /\ node.content.kind = "none" => WriteContent(node, kp) = <<>>
          /\ node.content.kind = "string" => WriteContent(node, kp) = WriteString(node.content.string)
          /\ node.content.kind = "bytes" => WriteContent(node, kp) = WriteBytes(node.content.bytes)
          /\ node.content.kind = "nodes" => WriteContent(node, kp) = WriteListStart(Len(kp)) \o Concat(kp)
        BY DEF WriteContent
    <2>1. CASE node.content.kind = "none"
        <3>1. <<>> \in Seq(Symbols)
            OBVIOUS
        <3> QED BY <2>0, <2>1, <3>1
    <2>2. CASE node.content.kind = "string"
        <3>1. node.content.string \in StringSet
            BY <2>2, NodeParts
        <3> QED BY <2>0, <2>2, <3>1, StringTyped
    <2>3. CASE node.content.kind = "bytes"
        <3>1. node.content.bytes \in Seq(STRING)
            BY <2>3, NodeParts
        <3>2. \A y \in Symbols : <<y>> \in Seq(Symbols)
            OBVIOUS
        <3> QED BY <2>0, <2>3, <3>1, <3>2, BytesWritten
    <2>4. CASE node.content.kind = "nodes"
        <3>1. Concat(kp) \in Seq(Symbols)
            BY <1>5, <1>6
        <3>2. \A y \in Symbols : <<y>> \in Seq(Symbols)
            OBVIOUS
        <3>3. Len(kp) \in Nat
            BY <1>1, <1>5
        <3>4. WriteListStart(Len(kp)) \in Seq(Symbols)
            BY <3>2, <3>3, ListStartWritten
        <3> QED BY <2>0, <2>4, <3>1, <3>4, ConcatProperties
    <2> QED BY <2>1, <2>2, <2>3, <2>4, NodeParts
<1> QED BY <1>4, <1>5, <1>6, <1>7 DEF n, kp

\* What is written for a node, in its parts.
Opening(node) == WriteListStart(ListSize(node)) \o WriteString(node.tag)
NodeStream(node) == (Opening(node) \o Concat(AttrParts(node.attrs))) \o WriteContent(node, KidParts(node))

\* The stream of a node is that of its parts.
LEMMA EncodeParts ==
    ASSUME NEW node \in Nodes, \A k \in DOMAIN Kids(node) : Kids(node)[k] \in EncodeSet
    PROVE  /\ Encode[node] = NodeStream(node) /\ Encode[node] \in Seq(Symbols) /\ ListSize(node) \in Nat \ {0}
           /\ WriteListStart(ListSize(node)) \in Seq(Symbols) /\ WriteString(node.tag) \in Seq(Symbols) /\ Opening(node) \in Seq(Symbols)
           /\ Concat(AttrParts(node.attrs)) \in Seq(Symbols) /\ WriteContent(node, KidParts(node)) \in Seq(Symbols)
           /\ Opening(node) \o Concat(AttrParts(node.attrs)) \in Seq(Symbols)
           /\ Encode[node] # <<>>
<1>1. Encode[node] = EncodeWith(node, KidParts(node))
    BY TreesAre DEF KidParts
<1>2. Encode[node] = NodeStream(node)
    BY <1>1 DEF EncodeWith, NodeStream, Opening, AttrParts
<1>3. node.tag \in StringSet /\ node.attrs \in Seq(AttrSet)
    BY NodeParts
<1>4. ListSize(node) \in Nat \ {0}
    <2> DEFINE c == IF node.content = NoContent THEN 0 ELSE 1
    <2>1. Len(node.attrs) \in Nat /\ c \in Nat
        BY <1>3
    <2>2. ListSize(node) = 2 * Len(node.attrs) + 1 + c
        BY DEF ListSize
    <2> HIDE DEF c
    <2> QED BY <2>1, <2>2
<1> DEFINE a == WriteListStart(ListSize(node))
           b == WriteString(node.tag)
           c == Concat(AttrParts(node.attrs))
           d == WriteContent(node, KidParts(node))
<1>5. a \in Seq(Symbols) /\ Len(a) = 1
    <2>1. \A y \in Symbols : <<y>> \in Seq(Symbols) /\ Len(<<y>>) = 1
        OBVIOUS
    <2> QED BY <1>4, <2>1, ListStartWritten
<1>6. b \in Seq(Symbols)
    BY <1>3, StringTyped
<1>7. c \in Seq(Symbols)
    <2>1. AttrParts(node.attrs) \in Seq(Seq(Symbols))
        BY <1>3, AttrPartsAre
    <2> QED BY <2>1, PartsTyped
<1>8. d \in Seq(Symbols)
    BY PartsTyped
<1> HIDE DEF a, b, c, d
<1>9. a \o b \in Seq(Symbols) /\ Len(a \o b) >= 1
    BY <1>5, <1>6, ConcatProperties
<1> DEFINE ab == a \o b
<1> HIDE DEF ab
<1>10. ab \o c \in Seq(Symbols) /\ Len(ab \o c) >= 1
    BY <1>7, <1>9, ConcatProperties DEF ab
<1> DEFINE abc == ab \o c
<1> HIDE DEF abc
<1>11. abc \o d \in Seq(Symbols) /\ Len(abc \o d) >= 1
    BY <1>8, <1>10, ConcatProperties DEF abc
<1>12. Encode[node] = abc \o d /\ Opening(node) = ab
    BY <1>2 DEF NodeStream, Opening, a, b, c, d, ab, abc
<1>13. Encode[node] \in Seq(Symbols) /\ Encode[node] # <<>>
    BY <1>11, <1>12
<1> QED BY <1>2, <1>4, <1>5, <1>6, <1>7, <1>8, <1>9, <1>10, <1>12, <1>13 DEF a, b, c, d, ab, abc

\* What is written for a node is a stream.
LEMMA EncodeTyped ==
    Nodes \subseteq EncodeSet
<1>1. ASSUME NEW node \in Nodes, \A k \in DOMAIN Kids(node) : Kids(node)[k] \in EncodeSet
      PROVE  node \in EncodeSet
    BY <1>1, EncodeParts DEF EncodeSet
<1> QED BY <1>1, Heredity DEF Hereditary

\* A node comes back from wherever it is in a stream.
Comes(node) ==
    \A s \in Seq(Symbols) : \A i \in Nat \ {0} : Holds(s, i, Encode[node]) =>
        ReadNode(s, i, Lists(s)) = Read(CanonicalNode[node], i + Len(Encode[node]))

\* The children come back if each of them does.
LEMMA KidsCome ==
    ASSUME NEW node \in Nodes, \A k \in 1 .. Len(Kids(node)) : Comes(Kids(node)[k]),
           NEW s \in Seq(Symbols), NEW i \in Nat \ {0}, Holds(s, i, Concat(KidParts(node)))
    PROVE  /\ i \in 1 .. Len(s) + 1
           /\ Lists(s)[<<i, Len(Kids(node))>>] = Read(KidValues(node), i + Len(Concat(KidParts(node))))
<1> DEFINE n == Len(Kids(node))
           q == KidParts(node)
           c == KidValues(node)
           f == Lists(s)
<1>0. \A k \in DOMAIN Kids(node) : Kids(node)[k] \in EncodeSet
    BY EncodeTyped, KidsAreNodes
<1>1. q \in Seq(Seq(Symbols)) /\ Len(q) = n /\ n \in Nat /\ \A k \in 1 .. n : q[k] = Encode[Kids(node)[k]]
    BY <1>0, PartsTyped, NodeParts
<1>2. c = [k \in 1 .. n |-> CanonicalNode[Kids(node)[k]]]
    <2>1. DOMAIN Kids(node) = 1 .. n
        BY KidsAreNodes
    <2> QED BY <2>1 DEF KidValues
<1>3. c = [k \in 1 .. n |-> c[k]] /\ \A k \in 1 .. n : c[k] = CanonicalNode[Kids(node)[k]]
    BY <1>2
<1>00. \A k \in 1 .. n : Comes(Kids(node)[k])
    OBVIOUS
<1> HIDE DEF n, q, c, f
<1>4. PICK P : Firsts(P, q, Symbols) /\ Concat(q) = P[Len(q)]
    BY <1>1, ConcatIs
<1>5. Holds(s, i, P[Len(q)])
    BY <1>4 DEF q
<1>60. /\ \A k \in 0 .. Len(q) : Len(P[k]) \in Nat /\ i + Len(P[k]) \in 1 .. Len(s) + 1
       /\ \A k \in 1 .. Len(q) : /\ Holds(s, i + Len(P[k - 1]), q[k])
                                 /\ i + Len(P[k]) = (i + Len(P[k - 1])) + Len(q[k])
    <2>1. q \in Seq(Seq(Symbols)) /\ Firsts(P, q, Symbols)
        BY <1>1, <1>4
    <2> QED BY <1>5, <2>1, FirstsHold
<1>6. /\ \A k \in 0 .. n : Len(P[k]) \in Nat /\ i + Len(P[k]) \in 1 .. Len(s) + 1
      /\ \A k \in 1 .. n : /\ Holds(s, i + Len(P[k - 1]), q[k])
                           /\ i + Len(P[k]) = (i + Len(P[k - 1])) + Len(q[k])
    BY <1>1, <1>60
<1>7. Len(P[0]) = 0 /\ i + Len(P[0]) = i
    BY <1>4 DEF Firsts
<1>8. i \in 1 .. Len(s) + 1
    BY <1>1, <1>6, <1>7
<1>9. \A j \in 1 .. Len(s) + 1 : \A m \in Nat : f[<<j, m>>] = ReadList(s, j, m, f)
    BY ListsAre DEF f
<1> DEFINE At(k) == i + Len(P[k])
           cc(m) == [j \in 1 .. m |-> c[n - m + j]]
           Good(m) == f[<<At(n - m), m>>] = Read(cc(m), At(n))
           T == {m \in 0 .. n : ~Good(m)}
<1>10. \A k \in 0 .. n : At(k) \in 1 .. Len(s) + 1
    BY <1>6
<1>11. Good(0)
    <2>1. n - 0 = n /\ n \in 0 .. n /\ cc(0) = <<>>
        BY <1>1
    <2>2. At(n) \in 1 .. Len(s) + 1
        BY <1>10, <2>1
    <2> HIDE DEF At, cc
    <2>3. f[<<At(n), 0>>] = Read(<<>>, At(n))
        BY <1>9, <2>2 DEF ReadList, InFront
    <2> QED BY <2>1, <2>3
<1> HIDE DEF At
<1>12. ASSUME NEW m \in 1 .. n, Good(m - 1) PROVE Good(m)
    <2> DEFINE k == n - m + 1
               kid == Kids(node)[k]
               x == At(n - m)
               y == At(k)
    <2>1. k \in 1 .. n /\ k - 1 = n - m /\ k \in 0 .. n /\ n - m \in 0 .. n /\ n - (m - 1) = k /\ m - 1 \in Nat
        BY <1>1
    <2>2. x \in 1 .. Len(s) + 1 /\ Holds(s, x, Encode[kid]) /\ y = x + Len(Encode[kid])
        <3>0. x = i + Len(P[k - 1]) /\ y = i + Len(P[k])
            BY <2>1 DEF At
        <3>4. \A h \in 1 .. n : Holds(s, i + Len(P[h - 1]), q[h]) /\ i + Len(P[h]) = (i + Len(P[h - 1])) + Len(q[h])
            BY <1>6
        <3>1. Holds(s, x, q[k]) /\ y = x + Len(q[k])
            <4> HIDE DEF k, x, y
            <4> QED BY <2>1, <3>0, <3>4
        <3>2. q[k] = Encode[kid]
            BY <1>1, <2>1
        <3> HIDE DEF k, x, y
        <3>3. x \in 1 .. Len(s) + 1
            BY <1>10, <2>1 DEF x
        <3> QED BY <3>1, <3>2, <3>3
    <2>3. Comes(kid)
        BY <1>00, <2>1
    <2> HIDE DEF kid, x, y
    <2>4. x \in Nat \ {0}
        BY <2>2
    <2>5. ReadNode(s, x, f) = Read(CanonicalNode[kid], y)
        BY <2>2, <2>3, <2>4 DEF Comes, f
    <2>6. f[<<y, m - 1>>] = Read(cc(m - 1), At(n))
        BY <1>12, <2>1 DEF y
    <2> DEFINE r == Read(<<CanonicalNode[kid]>> \o cc(m - 1), At(n))
    <2>7. f[<<x, m>>] = r
        <3>1. m \in Nat \ {0} /\ m \in Nat
            BY <1>1
        <3>2. f[<<x, m>>] = ReadList(s, x, m, f)
            BY <1>9, <2>2, <3>1
        <3>3. ReadList(s, x, m, f) = LET one == ReadNode(s, x, f)
                                         others == f[<<one.next, m - 1>>]
                                     IN IF one.ok /\ others.ok THEN Read(<<one.value>> \o others.value, others.next) ELSE Failed
            BY <3>1, ListCases
        <3> HIDE DEF cc
        <3> QED BY <2>5, <2>6, <3>2, <3>3, ReadIs
    <2>8. <<CanonicalNode[kid]>> \o cc(m - 1) = cc(m)
        <3> DEFINE w == cc(m - 1)
                   v == CanonicalNode[kid]
                   z == <<v>> \o w
        <3>1. IsSeq(w, m - 1)
            BY DEF IsSeq
        <3>2. v = c[k]
            BY <1>3, <2>1 DEF kid
        <3>3. \A j \in 1 .. m - 1 : w[j] = c[n - (m - 1) + j]
            OBVIOUS
        <3> HIDE DEF w, v
        <3>8. z = <<v>> \o w
            OBVIOUS
        <3> HIDE DEF z
        <3>4. IsSeq(z, (m - 1) + 1) /\ z[1] = v /\ \A j \in 1 .. m - 1 : z[j + 1] = w[j]
            <4> DEFINE h == m - 1
            <4>1. h \in Nat /\ IsSeq(w, h)
                BY <2>1, <3>1
            <4> HIDE DEF h
            <4>2. Prepended(z, v, w, h)
                BY <3>8, <4>1, Before
            <4> QED BY <4>2 DEF h, Prepended
        <3>5. z = [j \in 1 .. m |-> z[j]]
            <4>1. (m - 1) + 1 = m
                BY <1>1
            <4> QED BY <3>4, <4>1 DEF IsSeq
        <3>6. \A j \in 1 .. m : z[j] = c[n - m + j]
            <4>1. z[1] = c[n - m + 1]
                BY <3>2, <3>4
            <4>2. ASSUME NEW j \in 1 .. m, j # 1 PROVE z[j] = c[n - m + j]
                <5>1. j - 1 \in 1 .. m - 1 /\ (j - 1) + 1 = j /\ n - (m - 1) + (j - 1) = n - m + j
                    BY <1>1, <4>2
                <5>2. z[(j - 1) + 1] = w[j - 1] /\ w[j - 1] = c[n - (m - 1) + (j - 1)]
                    BY <3>3, <3>4, <5>1
                <5> QED BY <5>1, <5>2
            <4> QED BY <4>1, <4>2
        <3>7. z = [j \in 1 .. m |-> c[n - m + j]]
            BY <3>5, <3>6
        <3> QED BY <3>7 DEF z, v, w
    <2> HIDE DEF cc
    <2> QED BY <2>7, <2>8 DEF x
<1> HIDE DEF Good
<1>13. T = {}
    <2>1. SUFFICES ASSUME T # {} PROVE FALSE
        OBVIOUS
    <2>2. T \in SUBSET Nat
        BY <1>1
    <2>3. PICK m \in T : \A l \in T : m <= l
        <3> HIDE DEF T
        <3> QED BY <2>1, <2>2, LeastOf
    <2>4. m \in 1 .. n /\ m - 1 \in 0 .. n
        BY <1>1, <1>11, <2>3
    <2>5. m - 1 \notin T
        BY <2>3, <2>4
    <2> QED BY <1>12, <2>3, <2>4, <2>5
<1>14. n \in 0 .. n
    BY <1>1
<1>15. f[<<At(n - n), n>>] = Read(cc(n), At(n))
    BY <1>13, <1>14 DEF Good
<1>16. n - n = 0 /\ At(0) = i /\ cc(n) = c /\ At(n) = i + Len(Concat(q))
    <2>1. n - n = 0 /\ \A j \in 1 .. n : n - n + j = j
        BY <1>1
    <2> QED BY <1>1, <1>3, <1>4, <1>7, <2>1 DEF At
<1> QED BY <1>8, <1>15, <1>16 DEF n, q, c, f

\* What the content of a node is written as.
LEMMA ContentIs ==
    ASSUME NEW node \in Nodes
    PROVE  LET w == WriteContent(node, KidParts(node))
               c == CanonicalContent(node.content, KidValues(node))
           IN /\ node.content.kind = "none" => w = <<>> /\ c = NoContent
              /\ node.content.kind = "string" =>
                    /\ w = WriteString(node.content.string)
                    /\ c = IF IsJid(node.content.string) \/ Short(node.content.string)
                           THEN StringContent(Canonical(node.content.string)) ELSE BytesContent(node.content.string.chars)
              /\ node.content.kind = "bytes" => w = WriteBytes(node.content.bytes) /\ c = BytesContent(node.content.bytes)
              /\ node.content.kind = "nodes" =>
                    /\ w = WriteListStart(Len(KidParts(node))) \o Concat(KidParts(node))
                    /\ c = Children(KidValues(node))
<1> DEFINE d == node.content
           kp == KidParts(node)
           kv == KidValues(node)
<1>1. /\ d.kind = "none" => WriteContent(node, kp) = <<>>
      /\ d.kind = "string" => WriteContent(node, kp) = WriteString(d.string)
      /\ d.kind = "bytes" => WriteContent(node, kp) = WriteBytes(d.bytes)
      /\ d.kind = "nodes" => WriteContent(node, kp) = WriteListStart(Len(kp)) \o Concat(kp)
    BY DEF WriteContent
<1>2. d.kind = "none" => CanonicalContent(d, kv) = NoContent
    <2>1. d.kind = "none" => d = NoContent
        BY NodeParts
    <2> QED BY <2>1 DEF CanonicalContent
<1>3. d.kind = "bytes" => CanonicalContent(d, kv) = BytesContent(d.bytes)
    <2>1. d.kind = "bytes" => d = BytesContent(d.bytes)
        BY NodeParts
    <2>2. d.kind = "bytes" => CanonicalContent(d, kv) = d
        BY DEF CanonicalContent
    <2> QED BY <2>1, <2>2
<1>4. d.kind = "nodes" => CanonicalContent(d, kv) = Children(kv)
    BY DEF CanonicalContent
<1>5. d.kind = "string" =>
         CanonicalContent(d, kv) = IF IsJid(d.string) \/ Short(d.string)
                                   THEN StringContent(Canonical(d.string)) ELSE BytesContent(d.string.chars)
    BY DEF CanonicalContent, Short
<1> QED BY <1>1, <1>2, <1>3, <1>4, <1>5

\* Content that can be written comes back.
LEMMA ContentComes ==
    ASSUME NEW node \in Nodes, node.content # NoContent,
           node.content.kind = "string" => Writable(node.content.string),
           \A k \in 1 .. Len(Kids(node)) : Comes(Kids(node)[k]), Len(Kids(node)) < Byte * Byte,
           NEW s \in Seq(Symbols), NEW i \in Nat \ {0}, Holds(s, i, WriteContent(node, KidParts(node)))
    PROVE  ReadContent(s, i, Lists(s)) =
              Read(CanonicalContent(node.content, KidValues(node)), i + Len(WriteContent(node, KidParts(node))))
<1> DEFINE d == node.content
           w == WriteContent(node, KidParts(node))
           c == CanonicalContent(d, KidValues(node))
<1>1. CASE d.kind = "string"
    <2> DEFINE t == d.string
    <2>1. t \in StringSet /\ Writable(t) /\ w = WriteString(t)
          /\ c = IF IsJid(t) \/ Short(t) THEN StringContent(Canonical(t)) ELSE BytesContent(t.chars)
        BY <1>1, NodeParts, ContentIs
    <2> HIDE DEF w, c, t
    <2>0. Holds(s, i, WriteString(t))
        BY <2>1 DEF w
    <2>2. /\ ReadString(s, i) = Read(Canonical(t), i + Len(WriteString(t)))
          /\ i \in 1 .. Len(s) /\ s[i].tag \notin ListTags
          /\ s[i].tag \in Binaries <=> ~IsJid(t) /\ ~Short(t)
          /\ s[i].tag \in Binaries => SubSeq(s[i].chars, 1, s[i].a) = t.chars /\ Len(WriteString(t)) = 1
        BY <2>0, <2>1, StringComes
    <2>3. ReadContent(s, i, Lists(s)) = Read(c, i + Len(w))
        <3>1. CASE s[i].tag \in Binaries
            <4>1. ReadContent(s, i, Lists(s)) = Read(BytesContent(SubSeq(s[i].chars, 1, s[i].a)), i + 1)
                BY <2>2, <3>1, ContentCases
            <4>2. c = BytesContent(t.chars) /\ Len(w) = 1 /\ SubSeq(s[i].chars, 1, s[i].a) = t.chars
                BY <2>1, <2>2, <3>1
            <4> QED BY <4>1, <4>2
        <3>2. CASE s[i].tag \notin Binaries
            <4>1. ReadContent(s, i, Lists(s)) = LET string == ReadString(s, i)
                                                IN IF string.ok THEN Read(StringContent(string.value), string.next) ELSE Failed
                BY <2>2, <3>2, ContentCases
            <4>2. c = StringContent(Canonical(t))
                BY <2>1, <2>2, <3>2
            <4> QED BY <2>1, <2>2, <4>1, <4>2, ReadIs
        <3> QED BY <3>1, <3>2
    <2> QED BY <2>3 DEF w, c
<1>2. CASE d.kind = "bytes"
    <2> DEFINE b == d.bytes
    <2>1. b \in Seq(STRING) /\ w = WriteBytes(b) /\ c = BytesContent(b)
        BY <1>2, NodeParts, ContentIs
    <2> HIDE DEF w, c, b
    <2>2. PICK y \in Symbols : WriteBytes(b) = <<y>> /\ y.tag \in Binaries /\ y.a = Len(b) /\ y.chars = b
        BY <2>1, BytesWritten
    <2>3. i \in 1 .. Len(s) /\ s[i] = y /\ Len(w) = 1
        <3>1. Holds(s, i, <<y>>) /\ w = <<y>>
            BY <2>1, <2>2 DEF w
        <3> QED BY <3>1, HoldsOne
    <2>4. ReadContent(s, i, Lists(s)) = Read(BytesContent(SubSeq(s[i].chars, 1, s[i].a)), i + 1)
        BY <2>2, <2>3, ContentCases
    <2>5. SubSeq(b, 1, Len(b)) = b
        BY <2>1
    <2>6. ReadContent(s, i, Lists(s)) = Read(c, i + Len(w))
        BY <2>1, <2>2, <2>3, <2>4, <2>5
    <2> QED BY <2>6 DEF w, c
<1>3. CASE d.kind = "nodes"
    <2> DEFINE n == Len(Kids(node))
               kp == KidParts(node)
               e1 == WriteListStart(n)
               e2 == Concat(kp)
    <2>0. \A k \in DOMAIN Kids(node) : Kids(node)[k] \in EncodeSet
        BY EncodeTyped, KidsAreNodes
    <2>1. n \in Nat /\ n < Byte * Byte /\ Len(kp) = n /\ kp \in Seq(Seq(Symbols)) /\ e2 \in Seq(Symbols)
        BY <2>0, PartsTyped, NodeParts
    <2>2. w = e1 \o e2 /\ c = Children(KidValues(node))
        BY <1>3, <2>1, ContentIs
    <2>3. PICK y \in Symbols : e1 = <<y>> /\ y.tag \in ListTags /\ y.a = n
        BY <2>1, ListStartWritten
    <2>4. e1 \in Seq(Symbols) /\ Len(e1) = 1
        BY <2>3
    <2>5. HoldsBoth(s, i, e1, e2) /\ Len(w) = Len(e1) + Len(e2) /\ w \in Seq(Symbols)
        <3> HIDE DEF e1, e2, w
        <3>1. Holds(s, i, w)
            BY DEF w
        <3>2. Splits(s, i, w, e1, e2)
            BY <2>1, <2>2, <2>4, <3>1, HoldsConcat
        <3> QED BY <3>2 DEF Splits
    <2> HIDE DEF w, c
    <2>6. i \in 1 .. Len(s) /\ s[i] = y
        <3>1. Holds(s, i, <<y>>)
            BY <2>3, <2>5 DEF HoldsBoth
        <3> QED BY <3>1, HoldsOne
    <2>7. i + 1 \in Nat \ {0} /\ Holds(s, i + 1, Concat(KidParts(node)))
        BY <2>4, <2>5 DEF HoldsBoth
    <2>8. Lists(s)[<<i + 1, n>>] = Read(KidValues(node), (i + 1) + Len(Concat(KidParts(node))))
        <3> DEFINE j == i + 1
        <3>1. j \in Nat \ {0} /\ Holds(s, j, Concat(KidParts(node)))
            BY <2>7
        <3> HIDE DEF j
        <3>2. Lists(s)[<<j, Len(Kids(node))>>] = Read(KidValues(node), j + Len(Concat(KidParts(node))))
            BY <3>1, KidsCome
        <3> QED BY <3>2 DEF j
    <2>9. ReadContent(s, i, Lists(s)) = LET list == Lists(s)[<<i + 1, s[i].a>>]
                                        IN IF list.ok THEN Read(Children(list.value), list.next) ELSE Failed
        BY <2>3, <2>6, ContentCases
    <2>10. ReadContent(s, i, Lists(s)) = Read(c, (i + 1) + Len(e2))
        <3> HIDE DEF n, e1
        <3> QED BY <2>2, <2>3, <2>6, <2>8, <2>9, ReadIs
    <2>11. (i + 1) + Len(e2) = i + Len(w)
        <3>1. Len(e2) \in Nat
            BY <2>1
        <3> HIDE DEF e1, e2
        <3> QED BY <2>4, <2>5, <3>1
    <2> QED BY <2>10, <2>11 DEF w, c
<1> QED BY <1>1, <1>2, <1>3, NodeParts

\* A node that can be written comes back, if its children do.
WritableHere(node) ==
    /\ Writable(node.tag)
    /\ \A k \in DOMAIN node.attrs : Writable(node.attrs[k][1]) /\ Writable(node.attrs[k][2])
    /\ node.content.kind = "string" => Writable(node.content.string)
    /\ ListSize(node) < Byte * Byte /\ Len(Kids(node)) < Byte * Byte

\* So it does: by the heredity of the property this is so of every node.
LEMMA NodeComes ==
    ASSUME NEW node \in Nodes, WritableHere(node), \A k \in 1 .. Len(Kids(node)) : Comes(Kids(node)[k])
    PROVE  Comes(node)
<1> DEFINE E == Encode[node]
           n == Len(node.attrs)
           m == ListSize(node)
           a == WriteListStart(m)
           b == WriteString(node.tag)
           c == Concat(AttrParts(node.attrs))
           d == WriteContent(node, KidParts(node))
           kv == KidValues(node)
           av == [k \in 1 .. n |-> CanonicalAttr(node.attrs[k])]
<1>1. SUFFICES ASSUME NEW s \in Seq(Symbols), NEW i \in Nat \ {0}, Holds(s, i, E)
               PROVE  ReadNode(s, i, Lists(s)) = Read(CanonicalNode[node], i + Len(E))
    BY DEF Comes
<1>0. \A k \in DOMAIN Kids(node) : Kids(node)[k] \in EncodeSet
    BY EncodeTyped, KidsAreNodes
<1>2. /\ E = ((a \o b) \o c) \o d /\ E \in Seq(Symbols) /\ m \in Nat \ {0}
      /\ a \in Seq(Symbols) /\ b \in Seq(Symbols) /\ a \o b \in Seq(Symbols)
      /\ c \in Seq(Symbols) /\ d \in Seq(Symbols) /\ (a \o b) \o c \in Seq(Symbols)
    BY <1>0, EncodeParts DEF NodeStream, Opening
<1>3. m < Byte * Byte /\ Writable(node.tag) /\ node.tag \in StringSet /\ node.attrs \in Seq(AttrSet) /\ n \in Nat
    <2>1. node.tag \in StringSet /\ node.attrs \in Seq(AttrSet)
        BY NodeParts
    <2> QED BY <2>1 DEF WritableHere
<1>4. m = 2 * n + 1 + (IF node.content = NoContent THEN 0 ELSE 1)
    BY DEF ListSize
<1>5. m \in Nat \ {0} /\ m < Byte * Byte /\ (m - 1) \div 2 = n /\ (m % 2 = 0 <=> node.content # NoContent)
    <2> HIDE DEF n, m
    <2>1. CASE node.content = NoContent
        <3>1. m = 2 * n + 1
            BY <1>3, <1>4, <2>1
        <3> QED BY <1>2, <1>3, <2>1, <3>1
    <2>2. CASE node.content # NoContent
        <3>1. m = 2 * n + 2
            BY <1>3, <1>4, <2>2
        <3> QED BY <1>2, <1>3, <2>2, <3>1
    <2> QED BY <2>1, <2>2
<1>6. PICK y \in Symbols : a = <<y>> /\ y.tag \in ListTags /\ y.a = m
    <2> HIDE DEF m
    <2>1. m \in Nat
        BY <1>5
    <2> QED BY <1>5, <2>1, ListStartWritten
<1>7. CanonicalNode[node] = [tag |-> Canonical(node.tag), attrs |-> av, content |-> CanonicalContent(node.content, kv)]
    <2>1. CanonicalNode[node] = CanonicalWith(node, kv)
        BY TreesAre DEF KidValues
    <2>2. DOMAIN node.attrs = 1 .. n
        BY <1>3
    <2>3. av = [k \in DOMAIN node.attrs |-> <<Canonical(node.attrs[k][1]), Canonical(node.attrs[k][2])>>]
        BY <2>2 DEF CanonicalAttr
    <2> QED BY <2>1, <2>3 DEF CanonicalWith
<1>8. \A k \in DOMAIN node.attrs : Writable(node.attrs[k][1]) /\ Writable(node.attrs[k][2])
    BY DEF WritableHere
<1>9. node.content.kind = "string" => Writable(node.content.string)
    BY DEF WritableHere
<1>10. Len(Kids(node)) < Byte * Byte
    BY DEF WritableHere
<1> DEFINE ab == a \o b
           abc == ab \o c
<1> HIDE DEF E, n, m, a, b, c, d, ab, abc, av, kv
<1>11. HoldsBoth(s, i, abc, d) /\ Len(E) = Len(abc) + Len(d) /\ E \in Seq(Symbols)
    <2>1. abc \in Seq(Symbols) /\ d \in Seq(Symbols) /\ E = abc \o d
        BY <1>2 DEF abc, ab
    <2>2. Splits(s, i, E, abc, d)
        BY <1>1, <2>1, HoldsConcat
    <2> QED BY <2>2 DEF Splits
<1>12. Holds(s, i, abc)
    BY <1>11 DEF HoldsBoth
<1>13. HoldsBoth(s, i, ab, c) /\ Len(abc) = Len(ab) + Len(c) /\ abc \in Seq(Symbols)
    <2>1. ab \in Seq(Symbols) /\ c \in Seq(Symbols) /\ abc = ab \o c
        BY <1>2 DEF abc, ab
    <2>2. Splits(s, i, abc, ab, c)
        BY <1>12, <2>1, HoldsConcat
    <2> QED BY <2>2 DEF Splits
<1>14. Holds(s, i, ab)
    BY <1>13 DEF HoldsBoth
<1>15. HoldsBoth(s, i, a, b) /\ Len(ab) = Len(a) + Len(b) /\ ab \in Seq(Symbols)
    <2>1. a \in Seq(Symbols) /\ b \in Seq(Symbols) /\ ab = a \o b
        BY <1>2 DEF ab
    <2>2. Splits(s, i, ab, a, b)
        BY <1>14, <2>1, HoldsConcat
    <2> QED BY <2>2 DEF Splits
<1>16. i \in 1 .. Len(s) /\ s[i] = y /\ Len(a) = 1
    <2>1. Holds(s, i, <<y>>)
        BY <1>6, <1>15 DEF HoldsBoth
    <2> QED BY <1>6, <2>1, HoldsOne
<1> DEFINE j == i + 1
           k == i + Len(ab)
           l == i + Len(abc)
<1>17. /\ j \in Nat \ {0} /\ k \in Nat \ {0} /\ l \in Nat \ {0}
       /\ k = j + Len(b) /\ l = k + Len(c) /\ i + Len(E) = l + Len(d)
       /\ Holds(s, j, b) /\ Holds(s, k, c) /\ Holds(s, l, d)
    <2>1. Len(b) \in Nat /\ Len(c) \in Nat /\ Len(d) \in Nat /\ i \in Nat \ {0}
        BY <1>2
    <2>2. Len(ab) = 1 + Len(b) /\ Len(abc) = Len(ab) + Len(c) /\ Len(E) = Len(abc) + Len(d)
        BY <1>11, <1>13, <1>15, <1>16
    <2>3. /\ j \in Nat \ {0} /\ k \in Nat \ {0} /\ l \in Nat \ {0}
          /\ k = j + Len(b) /\ l = k + Len(c) /\ i + Len(E) = l + Len(d)
        BY <2>1, <2>2
    <2>4. Holds(s, j, b) /\ Holds(s, k, c) /\ Holds(s, l, d)
        BY <1>11, <1>13, <1>15, <1>16 DEF HoldsBoth
    <2> QED BY <2>3, <2>4
<1> HIDE DEF j, k, l
<1>18. ReadString(s, j) = Read(Canonical(node.tag), k)
    <2>1. Holds(s, j, WriteString(node.tag))
        BY <1>17 DEF b
    <2>2. ReadString(s, j) = Read(Canonical(node.tag), j + Len(WriteString(node.tag)))
        BY <1>3, <1>17, <2>1, StringComes
    <2> QED BY <1>17, <2>2 DEF b
<1>19. Canonical(node.tag) # Empty
    <2>1. node.tag # Empty
        BY <1>3, WritableIs
    <2>2. Canonical(node.tag) # Empty
        <3>1. CASE ~IsJid(node.tag) \/ node.tag.device = NoDevice
            BY <1>3, <2>1, <3>1, CanonicalIs
        <3>2. CASE IsJid(node.tag) /\ node.tag.device # NoDevice
            <4>1. Canonical(node.tag).chars # <<>>
                BY <1>3, <3>2, WritableIs, CanonicalIs
            <4> QED BY <4>1, EmptyIs
        <3> QED BY <3>1, <3>2
    <2> QED BY <2>2
<1>20. ReadAttrs(s, k, n) = Read(av, l)
    <2>1. Holds(s, k, Concat(AttrParts(node.attrs)))
        BY <1>17 DEF c
    <2> DEFINE at == node.attrs
    <2>2. at \in Seq(AttrSet) /\ (\A x \in DOMAIN at : Writable(at[x][1]) /\ Writable(at[x][2])) /\ Holds(s, k, Concat(AttrParts(at)))
        BY <1>3, <1>8, <2>1
    <2> HIDE DEF at
    <2>3. ReadAttrs(s, k, Len(at)) =
              Read([x \in 1 .. Len(at) |-> CanonicalAttr(at[x])], k + Len(Concat(AttrParts(at))))
        BY <1>17, <2>2, AttrsCome
    <2> QED BY <1>17, <2>3 DEF c, at, av, n
<1> DEFINE x == IF s[i].a % 2 = 0 THEN ReadContent(s, l, Lists(s)) ELSE Read(NoContent, l)
<1>21. x = Read(CanonicalContent(node.content, kv), i + Len(E))
    <2>1. CASE node.content # NoContent
        <3>1. Holds(s, l, WriteContent(node, KidParts(node)))
            BY <1>17 DEF d
        <3>2. ReadContent(s, l, Lists(s)) =
                 Read(CanonicalContent(node.content, KidValues(node)), l + Len(WriteContent(node, KidParts(node))))
            BY <1>9, <1>10, <1>17, <2>1, <3>1, ContentComes
        <3>3. s[i].a % 2 = 0
            BY <1>5, <1>6, <1>16, <2>1
        <3> QED BY <1>17, <3>2, <3>3 DEF kv, d
    <2>2. CASE node.content = NoContent
        <3>1. s[i].a % 2 # 0
            BY <1>5, <1>6, <1>16, <2>2
        <3>2. node.content.kind = "none"
            BY <2>2 DEF NoContent
        <3>3. d = <<>> /\ CanonicalContent(node.content, kv) = NoContent
            BY <3>2, ContentIs DEF d, kv
        <3>4. i + Len(E) = l
            BY <1>17, <3>3
        <3> QED BY <3>1, <3>3, <3>4
    <2> QED BY <2>1, <2>2
<1>22. IF s[i].tag \in ListTags /\ s[i].a # 0
       THEN ReadNode(s, i, Lists(s)) = Read([tag |-> Canonical(node.tag), attrs |-> av, content |-> x.value], x.next)
       ELSE TRUE
    <2> DEFINE tag == ReadString(s, i + 1)
               attrs == ReadAttrs(s, tag.next, (s[i].a - 1) \div 2)
               content == IF s[i].a % 2 = 0 THEN ReadContent(s, attrs.next, Lists(s)) ELSE Read(NoContent, attrs.next)
    <2>1. IF s[i].tag \in ListTags /\ tag.ok /\ s[i].a # 0 /\ tag.value # Empty /\ attrs.ok /\ content.ok
          THEN ReadNode(s, i, Lists(s)) = Read([tag |-> tag.value, attrs |-> attrs.value, content |-> content.value], content.next)
          ELSE ReadNode(s, i, Lists(s)) = Failed
        BY <1>16, NodeMade
    <2>2. tag.ok /\ tag.value = Canonical(node.tag) /\ tag.next = k
        BY <1>18, ReadIs DEF j
    <2>3. (s[i].a - 1) \div 2 = n
        BY <1>5, <1>6, <1>16
    <2>4. attrs = Read(av, l)
        <3> HIDE DEF tag
        <3> QED BY <1>20, <2>2, <2>3
    <2> HIDE DEF tag, attrs
    <2>5. attrs.ok /\ attrs.value = av /\ attrs.next = l
        BY <2>4, ReadIs
    <2>6. content = x
        BY <2>5
    <2> HIDE DEF content, x
    <2>7. content.ok
        BY <1>21, <2>6, ReadIs
    <2> QED BY <1>19, <2>1, <2>2, <2>5, <2>6, <2>7
<1> HIDE DEF x
<1>23. s[i].tag \in ListTags /\ s[i].a # 0
    BY <1>5, <1>6, <1>16
<1>24. ReadNode(s, i, Lists(s)) = Read(CanonicalNode[node], i + Len(E))
    BY <1>7, <1>21, <1>22, <1>23, ReadIs
<1> QED BY <1>24

\* Every node that can be written comes back.
LEMMA WritableComes ==
    \A node \in Nodes : WritableNode[node] => Comes(node)
<1> DEFINE S == {node \in Nodes : WritableNode[node] => Comes(node)}
<1>1. ASSUME NEW node \in Nodes, \A k \in DOMAIN Kids(node) : Kids(node)[k] \in S, WritableNode[node]
      PROVE  Comes(node)
    <2> DEFINE kw == [k \in DOMAIN Kids(node) |-> WritableNode[Kids(node)[k]]]
    <2>1. WritableWith(node, kw)
        BY <1>1, TreesAre
    <2>2. DOMAIN Kids(node) = 1 .. Len(Kids(node)) /\ Len(Kids(node)) \in Nat
        BY KidsAreNodes
    <2>3. DOMAIN kw = 1 .. Len(Kids(node)) /\ \A k \in 1 .. Len(Kids(node)) : kw[k] = WritableNode[Kids(node)[k]]
        BY <2>2
    <2>4. Len(kw) = Len(Kids(node))
        <3> DEFINE h == Len(Kids(node))
        <3>1. kw = [k \in 1 .. h |-> WritableNode[Kids(node)[k]]] /\ h \in Nat
            BY <2>2
        <3> HIDE DEF h, kw
        <3>2. Len(kw) = h
            BY <3>1
        <3> QED BY <3>2 DEF h
    <2>5. \A k \in 1 .. Len(Kids(node)) : kw[k]
        <3> HIDE DEF kw
        <3> QED BY <2>1, <2>3 DEF WritableWith
    <2>6. \A k \in 1 .. Len(Kids(node)) : Comes(Kids(node)[k])
        BY <1>1, <2>2, <2>3, <2>5
    <2>7. WritableHere(node)
        <3> HIDE DEF kw
        <3> QED BY <2>1, <2>4 DEF WritableWith, WritableHere
    <2> QED BY <2>6, <2>7, NodeComes
<1>2. Hereditary(S)
    BY <1>1 DEF Hereditary
<1> HIDE DEF S
<1>3. Nodes \subseteq S
    BY <1>2, Heredity
<1> QED BY <1>3 DEF S

(***************************************************************************)
(* What cannot be written does not come back.  An empty string leaves no   *)
(* symbol and makes the reader take the next one; the reader may find a    *)
(* node all the same, and even an equal one further on.  That it cannot    *)
(* end with the stream is an argument about weights.                       *)
(***************************************************************************)

\* What a symbol weighs: the frame of a JID nothing, an empty list one, any other two.
\* What is read for a string or a node never weighs less than what was written for it, and
\* weighs more when it was written as an empty string, a number or an inherited name.
WeightOf(y) == IF y.tag \in {"AD_JID", "JID_PAIR", "server"} THEN 0 ELSE IF y.tag = "LIST_EMPTY" THEN 1 ELSE 2

\* f[k] is the weight of the first k symbols.
IsWeights(f, s) ==
    f \in [0 .. Len(s) -> Nat] /\ f[0] = 0 /\ \A k \in 1 .. Len(s) : f[k] = f[k - 1] + WeightOf(s[k])
Weights(s) == CHOOSE f : IsWeights(f, s)

\* The weight in front of place i, of a whole stream, and from place i up to place j.
Weight(s, i) == Weights(s)[i - 1]
Total(e) == Weights(e)[Len(e)]
Cost(s, i, j) == Weight(s, j) - Weight(s, i)

\* A weight is a natural number.
LEMMA WeightNat ==
    \A y : WeightOf(y) \in Nat
BY DEF WeightOf

\* The sums of the weights exist.
LEMMA WeightsAre ==
    ASSUME NEW s \in Seq(Symbols)
    PROVE  IsWeights(Weights(s), s)
<1> DEFINE n == Len(s)
           Step == [x \in (1 .. n) \X Nat |-> x[2] + WeightOf(s[x[1]])]
<1>1. n \in Nat /\ 0 \in Nat
    OBVIOUS
<1>2. Step \in [(1 .. n) \X Nat -> Nat]
    <2>1. ASSUME NEW x \in (1 .. n) \X Nat PROVE x[2] + WeightOf(s[x[1]]) \in Nat
        <3>1. x[2] \in Nat /\ WeightOf(s[x[1]]) \in Nat
            BY WeightNat
        <3> QED BY <3>1
    <2> QED BY <2>1
<1>3. \A k \in 1 .. n, x \in Nat : Step[<<k, x>>] = x + WeightOf(s[k])
    OBVIOUS
<1> HIDE DEF n, Step
<1>4. PICK f \in [0 .. n -> Nat] : f[0] = 0 /\ (\A k \in 1 .. n : f[k] = Step[<<k, f[k - 1]>>]) /\ Loops(f, 0, Step, n)
    BY <1>1, <1>2, LoopIs
<1>5. ASSUME NEW k \in 1 .. n PROVE f[k] = f[k - 1] + WeightOf(s[k])
    <2>1. k - 1 \in 0 .. n
        BY <1>1
    <2>2. f[k - 1] \in Nat
        BY <2>1
    <2> QED BY <1>3, <1>4, <2>2
<1>6. IsWeights(f, s)
    BY <1>4, <1>5 DEF IsWeights, n
<1> QED BY <1>6 DEF Weights

\* The weight before each place of a stream.
LEMMA WeightIs ==
    ASSUME NEW s \in Seq(Symbols)
    PROVE  /\ \A i \in 1 .. Len(s) + 1 : Weight(s, i) \in Nat
           /\ \A i \in 1 .. Len(s) : Cost(s, i, i + 1) = WeightOf(s[i])
           /\ \A i, j, k \in 1 .. Len(s) + 1 : /\ Cost(s, i, k) = Cost(s, i, j) + Cost(s, j, k)
                                              /\ Cost(s, i, j) \in Int /\ Cost(s, i, i) = 0
           /\ Cost(s, 1, Len(s) + 1) = Total(s) /\ Total(s) \in Nat
<1> DEFINE f == Weights(s)
           n == Len(s)
<1>1. n \in Nat
    OBVIOUS
<1>2. f \in [0 .. n -> Nat] /\ f[0] = 0 /\ \A k \in 1 .. n : f[k] = f[k - 1] + WeightOf(s[k])
    BY WeightsAre DEF IsWeights
<1> HIDE DEF f, n
<1>3. ASSUME NEW i \in 1 .. n + 1 PROVE f[i - 1] \in Nat
    <2>1. i - 1 \in 0 .. n
        BY <1>1
    <2> QED BY <1>2, <2>1
<1>4. \A i \in 1 .. n + 1 : Weight(s, i) \in Nat
    BY <1>3 DEF Weight, f
<1>5. ASSUME NEW i \in 1 .. n PROVE Cost(s, i, i + 1) = WeightOf(s[i])
    <2>1. (i + 1) - 1 = i /\ i \in 1 .. n + 1
        BY <1>1
    <2>2. Weight(s, i + 1) = f[i] /\ Weight(s, i) = f[i - 1]
        BY <2>1 DEF Weight, f
    <2>3. f[i - 1] \in Nat /\ WeightOf(s[i]) \in Nat /\ f[i] = f[i - 1] + WeightOf(s[i])
        BY <1>2, <1>3, <2>1, WeightNat
    <2> QED BY <2>2, <2>3 DEF Cost
<1>6. ASSUME NEW i \in 1 .. n + 1, NEW j \in 1 .. n + 1, NEW k \in 1 .. n + 1
      PROVE  /\ Cost(s, i, k) = Cost(s, i, j) + Cost(s, j, k)
             /\ Cost(s, i, j) \in Int /\ Cost(s, i, i) = 0
    <2>1. Weight(s, i) \in Nat /\ Weight(s, j) \in Nat /\ Weight(s, k) \in Nat
        BY <1>4
    <2> QED BY <2>1 DEF Cost
<1>7. Cost(s, 1, n + 1) = Total(s) /\ Total(s) \in Nat
    <2>1. 1 - 1 = 0 /\ (n + 1) - 1 = n /\ n \in 0 .. n
        BY <1>1
    <2>2. Weight(s, n + 1) = f[n] /\ Weight(s, 1) = 0 /\ Total(s) = f[n]
        BY <1>2, <2>1 DEF Weight, f, Total, n
    <2>3. f[n] \in Nat
        BY <1>2, <2>1
    <2> QED BY <2>2, <2>3 DEF Cost
<1> QED BY <1>4, <1>5, <1>6, <1>7 DEF n

\* What a stream holds weighs there what it weighs by itself.
LEMMA HeldWeighs ==
    ASSUME NEW s \in Seq(Symbols), NEW i \in Nat \ {0}, NEW e \in Seq(Symbols), Holds(s, i, e)
    PROVE  Cost(s, i, i + Len(e)) = Total(e) /\ i \in 1 .. Len(s) + 1 /\ i + Len(e) \in 1 .. Len(s) + 1
<1> DEFINE f == Weights(s)
           g == Weights(e)
           n == Len(s)
           m == Len(e)
<1>1. n \in Nat /\ m \in Nat
    OBVIOUS
<1>2. f \in [0 .. n -> Nat] /\ \A k \in 1 .. n : f[k] = f[k - 1] + WeightOf(s[k])
    BY WeightsAre DEF IsWeights
<1>3. g \in [0 .. m -> Nat] /\ g[0] = 0 /\ \A k \in 1 .. m : g[k] = g[k - 1] + WeightOf(e[k])
    BY WeightsAre DEF IsWeights
<1>4. i + m <= n + 1 /\ \A k \in 1 .. m : s[i + k - 1] = e[k]
    BY DEF Holds
<1> HIDE DEF f, g, n, m
<1> DEFINE T == {k \in 0 .. m : f[(i - 1) + k] # f[i - 1] + g[k]}
<1>5. T = {}
    <2>1. SUFFICES ASSUME T # {} PROVE FALSE
        OBVIOUS
    <2>2. T \in SUBSET Nat
        BY <1>1
    <2>3. PICK k \in T : \A l \in T : k <= l
        <3> HIDE DEF T
        <3> QED BY <2>1, <2>2, LeastOf
    <2>0. i - 1 \in 0 .. n /\ f[i - 1] \in Nat
        <3>1. i - 1 \in 0 .. n
            BY <1>1, <1>4
        <3> QED BY <1>2, <3>1
    <2>4. k # 0
        <3>1. (i - 1) + 0 = i - 1 /\ f[i - 1] + 0 = f[i - 1]
            BY <2>0
        <3>2. f[(i - 1) + 0] = f[i - 1] + g[0]
            BY <1>3, <3>1
        <3> QED BY <2>3, <3>2
    <2>5. k \in 1 .. m /\ k - 1 \in 0 .. m /\ i + k - 1 \in 1 .. n /\ (i - 1) + k = i + k - 1
          /\ (i + k - 1) - 1 = (i - 1) + (k - 1)
        BY <1>1, <1>4, <2>3, <2>4
    <2>6. k - 1 \notin T
        <3>1. k \in Nat /\ ~(k <= k - 1)
            BY <2>5
        <3> HIDE DEF T
        <3> QED BY <2>3, <3>1
    <2>7. f[(i - 1) + (k - 1)] = f[i - 1] + g[k - 1]
        BY <2>5, <2>6
    <2>8. f[i + k - 1] = f[(i + k - 1) - 1] + WeightOf(s[i + k - 1])
        BY <1>2, <2>5
    <2>9. g[k] = g[k - 1] + WeightOf(e[k]) /\ g[k - 1] \in Nat /\ s[i + k - 1] = e[k] /\ WeightOf(e[k]) \in Nat
        BY <1>3, <1>4, <2>5, WeightNat
    <2> DEFINE w == WeightOf(e[k])
               x == f[i - 1]
               y == g[k - 1]
    <2>10. f[i + k - 1] = (x + y) + w /\ g[k] = y + w /\ x \in Nat /\ y \in Nat /\ w \in Nat
        BY <2>0, <2>5, <2>7, <2>8, <2>9
    <2> HIDE DEF w, x, y
    <2>11. f[i + k - 1] = x + g[k]
        BY <2>10
    <2>12. f[(i - 1) + k] = f[i - 1] + g[k]
        BY <2>5, <2>11 DEF x
    <2> QED BY <2>3, <2>12
<1>6. f[(i - 1) + m] = f[i - 1] + g[m]
    <2>1. m \in 0 .. m
        BY <1>1
    <2> QED BY <1>5, <2>1
<1>7. i \in 1 .. n + 1 /\ i + m \in 1 .. n + 1 /\ (i + m) - 1 = (i - 1) + m /\ i - 1 \in 0 .. n
    BY <1>1, <1>4
<1>8. Weight(s, i) = f[i - 1] /\ Weight(s, i + m) = f[i - 1] + g[m] /\ Total(e) = g[m]
    BY <1>6, <1>7 DEF Weight, Total, f, g, m
<1>9. f[i - 1] \in Nat /\ g[m] \in Nat
    <2>1. m \in 0 .. m
        BY <1>1
    <2> QED BY <1>2, <1>3, <1>7, <2>1
<1>10. Cost(s, i, i + m) = Total(e)
    BY <1>8, <1>9 DEF Cost
<1> QED BY <1>7, <1>10 DEF n, m

\* The weights of parts add up.
LEMMA TotalSum ==
    ASSUME NEW e1 \in Seq(Symbols), NEW e2 \in Seq(Symbols), NEW e, e = e1 \o e2
    PROVE  Total(e) = Total(e1) + Total(e2) /\ Total(e) \in Nat /\ Total(e1) \in Nat /\ Total(e2) \in Nat
<1>0. e \in Seq(Symbols)
    BY ConcatProperties
<1>1. Holds(e, 1, e)
    <2>1. Len(e) \in Nat /\ 1 + Len(e) <= Len(e) + 1 /\ \A k \in 1 .. Len(e) : 1 + k - 1 = k
        BY <1>0
    <2> QED BY <2>1 DEF Holds
<1>2. Splits(e, 1, e, e1, e2)
    <2> DEFINE one == 1
    <2>1. one \in Nat \ {0} /\ Holds(e, one, e)
        BY <1>1
    <2> HIDE DEF one
    <2>2. Splits(e, one, e, e1, e2)
        BY <1>0, <2>1, HoldsConcat
    <2> QED BY <2>2 DEF one
<1> DEFINE j == 1 + Len(e1)
<1>3. Holds(e, 1, e1) /\ Holds(e, j, e2) /\ j \in Nat \ {0} /\ Len(e) = Len(e1) + Len(e2)
    BY <1>2 DEF Splits, HoldsBoth
<1>4. Cost(e, 1, j) = Total(e1) /\ 1 \in 1 .. Len(e) + 1 /\ j \in 1 .. Len(e) + 1
    <2> DEFINE one == 1
    <2>1. one \in Nat \ {0} /\ Holds(e, one, e1) /\ j = one + Len(e1)
        BY <1>3
    <2> HIDE DEF one, j
    <2>2. Cost(e, one, j) = Total(e1) /\ one \in 1 .. Len(e) + 1 /\ j \in 1 .. Len(e) + 1
        BY <1>0, <2>1, HeldWeighs
    <2> QED BY <2>2 DEF one
<1>5. j + Len(e2) = Len(e) + 1
    <2>1. Len(e1) \in Nat /\ Len(e2) \in Nat /\ Len(e) \in Nat
        BY <1>0
    <2> QED BY <1>3, <2>1
<1> HIDE DEF j
<1>6. Cost(e, j, j + Len(e2)) = Total(e2)
    BY <1>0, <1>3, HeldWeighs
<1>7. Len(e) + 1 \in 1 .. Len(e) + 1
    BY <1>0
<1>8. Cost(e, 1, Len(e) + 1) = Cost(e, 1, j) + Cost(e, j, Len(e) + 1)
    BY <1>0, <1>4, <1>7, WeightIs
<1>9. Cost(e, 1, Len(e) + 1) = Total(e) /\ Total(e) \in Nat
    BY <1>0, WeightIs
<1>10. Total(e1) \in Nat /\ Total(e2) \in Nat
    BY WeightIs
<1>11. Total(e) = Total(e1) + Total(e2)
    BY <1>4, <1>5, <1>6, <1>8, <1>9
<1> QED BY <1>9, <1>10, <1>11

\* The weight of no symbol and of one.
LEMMA TotalOne ==
    /\ Total(<<>>) = 0
    /\ \A y \in Symbols : Total(<<y>>) = WeightOf(y)
<1>1. Total(<<>>) = 0
    <2>1. <<>> \in Seq(Symbols) /\ Len(<<>>) = 0
        OBVIOUS
    <2>2. IsWeights(Weights(<<>>), <<>>)
        BY <2>1, WeightsAre
    <2> QED BY <2>1, <2>2 DEF IsWeights, Total
<1>2. ASSUME NEW y \in Symbols PROVE Total(<<y>>) = WeightOf(y)
    <2> DEFINE e == <<y>>
    <2>1. e \in Seq(Symbols) /\ Len(e) = 1 /\ e[1] = y
        OBVIOUS
    <2> HIDE DEF e
    <2>2. IsWeights(Weights(e), e)
        BY <2>1, WeightsAre
    <2>3. Weights(e)[0] = 0 /\ Weights(e)[1] = Weights(e)[1 - 1] + WeightOf(e[1])
        <3>1. 1 \in 1 .. Len(e)
            BY <2>1
        <3> QED BY <2>2, <3>1 DEF IsWeights
    <2>4. Weights(e)[1] = WeightOf(y)
        BY <2>1, <2>3, WeightNat
    <2> QED BY <2>1, <2>4 DEF Total, e
<1> QED BY <1>1, <1>2

\* The weight of what is put together is that of its parts.
LEMMA TotalFirsts ==
    ASSUME NEW q \in Seq(Seq(Symbols)), NEW P, Firsts(P, q, Symbols)
    PROVE  /\ Total(P[0]) = 0 /\ \A k \in 0 .. Len(q) : Total(P[k]) \in Nat
           /\ \A k \in 1 .. Len(q) : Total(q[k]) \in Nat /\ Total(P[k]) = Total(P[k - 1]) + Total(q[k])
<1>1. P \in [0 .. Len(q) -> Seq(Symbols)] /\ P[0] = <<>> /\ \A k \in 1 .. Len(q) : P[k] = P[k - 1] \o q[k]
    BY DEF Firsts
<1>2. \A k \in 0 .. Len(q) : Total(P[k]) \in Nat
    BY <1>1, WeightIs
<1>3. ASSUME NEW k \in 1 .. Len(q) PROVE Total(q[k]) \in Nat /\ Total(P[k]) = Total(P[k - 1]) + Total(q[k])
    <2> DEFINE e1 == P[k - 1]
               e2 == q[k]
               e == P[k]
    <2>1. k - 1 \in 0 .. Len(q)
        OBVIOUS
    <2>5. q[k] \in Seq(Symbols)
        OBVIOUS
    <2>6. P[k - 1] \in Seq(Symbols)
        BY <1>1, <2>1
    <2>4. q[k] \in Seq(Symbols) /\ P[k - 1] \in Seq(Symbols)
        BY <2>5, <2>6
    <2>2. e1 \in Seq(Symbols) /\ e2 \in Seq(Symbols) /\ e = e1 \o e2
        BY <1>1, <2>4
    <2> HIDE DEF e1, e2, e
    <2>3. Total(e) = Total(e1) + Total(e2) /\ Total(e2) \in Nat
        BY <2>2, TotalSum
    <2> QED BY <2>3 DEF e, e1, e2
<1> QED BY <1>1, <1>2, <1>3, TotalOne

\* The weight of a text as it is written.
LEMMA TextWeighs ==
    ASSUME NEW t \in TextSet
    PROVE  Total(WriteText(t)) = IF t = Empty THEN 0 ELSE IF t \in Inherited THEN 1 ELSE 2
<1>1. CASE t = Empty
    BY <1>1, TextLost, TotalOne
<1>2. CASE t # Empty /\ t \in Inherited
    <2>1. PICK y \in Symbols : Tag("LIST_EMPTY") = <<y>> /\ y.tag = "LIST_EMPTY"
        BY TextLost
    <2>2. WriteText(t) = <<y>>
        BY <1>2, <2>1, TextLost
    <2>3. WeightOf(y) = 1
        BY <2>1 DEF WeightOf
    <2> QED BY <1>2, <2>2, <2>3, TotalOne
<1>3. CASE t # Empty /\ t \notin Inherited
    <2>1. PICK y : WriteText(t) = <<y>> /\ Gives(y, t)
        BY <1>3, TextWritten
    <2>2. y \in Symbols /\ WeightOf(y) = 2
        <3>1. y \in Symbols /\ y.tag \notin NoText
            BY <2>1 DEF Gives
        <3> QED BY <3>1 DEF WeightOf, NoText, ListTags
    <2> QED BY <1>3, <2>1, <2>2, TotalOne
<1> QED BY <1>1, <1>2, <1>3

\* The weight of a string as it is written.
LEMMA StringWeighs ==
    ASSUME NEW t \in StringSet
    PROVE  /\ Total(WriteString(t)) \in Nat
           /\ t.chars # <<>> => Total(WriteString(t)) = IF Text(t.chars) \in Inherited THEN 1 ELSE 2
           /\ t.chars = <<>> => /\ Total(WriteString(t)) <= 1
                                /\ Total(WriteString(t)) = 1 => t # Empty /\ (IsJid(t) => t.device = NoDevice)
<1> DEFINE u == Text(t.chars)
           w == Total(WriteString(t))
           x == IF u = Empty THEN 0 ELSE IF u \in Inherited THEN 1 ELSE 2
<1>1. u \in TextSet /\ (u = Empty <=> t.chars = <<>>)
    BY TextsAre, EmptyIs
<1>2. Total(WriteText(u)) = x /\ WriteText(u) \in Seq(Symbols)
    <2>1. WriteText(u) \in Seq(Symbols)
        <3>1. \A y \in Symbols : <<y>> \in Seq(Symbols)
            OBVIOUS
        <3>2. <<>> \in Seq(Symbols)
            OBVIOUS
        <3> QED BY <1>1, <3>1, <3>2, TextTyped
    <2> QED BY <1>1, <2>1, TextWeighs
<1>3. CASE ~IsJid(t)
    <2>1. t \in TextSet /\ WriteString(t) = WriteText(t)
        BY <1>3, TextsAre DEF WriteString
    <2>2. u = t
        BY <2>1, TextsAre
    <2>3. w = x
        BY <1>2, <2>1, <2>2
    <2> HIDE DEF w, u
    <2>4. w \in Nat /\ (t.chars # <<>> => w = IF u \in Inherited THEN 1 ELSE 2) /\ (t.chars = <<>> => w = 0)
        BY <1>1, <2>3
    <2> QED BY <2>4 DEF w, u
<1>4. CASE IsJid(t) /\ t.device # NoDevice
    <2>1. PICK y : AdJid(t, y)
        BY <1>4, JidWritten
    <2> DEFINE e1 == <<y>>
               e2 == WriteText(u)
               e == WriteString(t)
    <2>2. y \in Symbols /\ y.tag = "AD_JID" /\ e = e1 \o e2
        BY <2>1 DEF AdJid
    <2>3. e1 \in Seq(Symbols) /\ Total(e1) = 0
        <3>1. WeightOf(y) = 0
            BY <2>2 DEF WeightOf
        <3> QED BY <2>2, <3>1, TotalOne
    <2>4. e2 \in Seq(Symbols) /\ Total(e2) = x
        BY <1>2
    <2> HIDE DEF e1, e2, e, x
    <2>5. Total(e) = Total(e1) + Total(e2) /\ Total(e2) \in Nat
        BY <2>2, <2>3, <2>4, TotalSum
    <2>6. w = x
        BY <2>3, <2>4, <2>5 DEF e
    <2> HIDE DEF w, u
    <2>7. w \in Nat /\ (t.chars # <<>> => w = IF u \in Inherited THEN 1 ELSE 2) /\ (t.chars = <<>> => w = 0)
        BY <1>1, <2>6 DEF x
    <2> QED BY <2>7 DEF w, u
<1>5. CASE IsJid(t) /\ t.device = NoDevice
    <2>1. PICK y, z : JidPair(t, y, z)
        BY <1>5, JidWritten
    <2> DEFINE e1 == <<y>>
               e2 == UserOf(t)
               e12 == e1 \o e2
               e3 == <<z>>
               e == WriteString(t)
    <2>2. y \in Symbols /\ z \in Symbols /\ y.tag = "JID_PAIR" /\ z.tag = "server" /\ e = e12 \o e3
        BY <2>1 DEF JidPair
    <2>3. e1 \in Seq(Symbols) /\ Total(e1) = 0 /\ e3 \in Seq(Symbols) /\ Total(e3) = 0
        <3>1. WeightOf(y) = 0 /\ WeightOf(z) = 0
            BY <2>2 DEF WeightOf
        <3> QED BY <2>2, <3>1, TotalOne
    <2>4. e2 \in Seq(Symbols) /\ Total(e2) = IF u = Empty THEN 1 ELSE x
        <3>1. CASE u = Empty
            <4>1. PICK h \in Symbols : Tag("LIST_EMPTY") = <<h>> /\ h.tag = "LIST_EMPTY"
                BY TextLost
            <4>2. e2 = <<h>> /\ WeightOf(h) = 1
                BY <3>1, <4>1 DEF UserOf, WeightOf
            <4> QED BY <3>1, <4>1, <4>2, TotalOne
        <3>2. CASE u # Empty
            BY <1>2, <3>2 DEF UserOf
        <3> QED BY <3>1, <3>2
    <2>5. e12 \in Seq(Symbols)
        BY <2>3, <2>4, ConcatProperties
    <2>6. e12 = e1 \o e2
        OBVIOUS
    <2> HIDE DEF e1, e2, e12, e3, e, x
    <2>7. Total(e12) = Total(e1) + Total(e2) /\ Total(e2) \in Nat
        BY <2>3, <2>4, <2>6, TotalSum
    <2>8. Total(e) = Total(e12) + Total(e3)
        BY <2>2, <2>3, <2>5, TotalSum
    <2>9. w = IF u = Empty THEN 1 ELSE x
        BY <2>3, <2>4, <2>7, <2>8 DEF e
    <2> HIDE DEF w, u
    <2>10. w \in Nat /\ (t.chars # <<>> => w = IF u \in Inherited THEN 1 ELSE 2) /\ (t.chars = <<>> => w = 1)
        BY <1>1, <2>9 DEF x
    <2>11. t # Empty
        BY <1>5, TextsAre, EmptyIs
    <2> QED BY <1>5, <2>10, <2>11 DEF w, u
<1> QED BY <1>3, <1>4, <1>5

\* The weight of what is read as a text.
LEMMA TextCosts ==
    ASSUME NEW s \in Seq(Symbols), NEW i \in Nat \ {0}, ReadText(s, i).ok
    PROVE  /\ i \in 1 .. Len(s) /\ ReadText(s, i).next = i + 1
           /\ Cost(s, i, i + 1) \in {1, 2}
           /\ ReadText(s, i).value.chars # <<>> => Cost(s, i, i + 1) = 2
<1>1. i \in 1 .. Len(s) /\ IsRead(ReadText(s, i), Texts, i + 1, i + 1)
    BY TextReads
<1>2. ReadText(s, i).next = i + 1
    <2>1. ReadText(s, i).next \in (i + 1) .. (i + 1)
        BY <1>1, IsReadIs
    <2> QED BY <2>1
<1>3. s[i] \in Symbols /\ Cost(s, i, i + 1) = WeightOf(s[i])
    BY <1>1, WeightIs
<1>4. s[i].tag \notin {"AD_JID", "JID_PAIR", "server"}
    <2>1. "AD_JID" \notin Binaries /\ "JID_PAIR" \notin Binaries /\ "server" \notin Binaries
        BY DEF Binaries
    <2>2. s[i].tag \in {"AD_JID", "JID_PAIR", "server"} => ReadText(s, i) = Failed
        BY <1>1, <2>1, TextCases
    <2> QED BY <2>2, ReadIs
<1>5. CASE s[i].tag = "LIST_EMPTY"
    <2>1. ReadText(s, i) = Read(Empty, i + 1)
        BY <1>1, <1>5, TextCases
    <2>2. ReadText(s, i).value.chars = <<>>
        BY <2>1, ReadIs, EmptyIs
    <2>3. WeightOf(s[i]) = 1
        BY <1>5 DEF WeightOf
    <2> QED BY <1>1, <1>2, <1>3, <2>2, <2>3
<1>6. CASE s[i].tag # "LIST_EMPTY"
    <2>1. WeightOf(s[i]) = 2
        BY <1>4, <1>6 DEF WeightOf
    <2> QED BY <1>1, <1>2, <1>3, <2>1
<1> QED BY <1>5, <1>6

\* The weight of what is read as a string; a device that is read is of one byte.
LEMMA StringCosts ==
    ASSUME NEW s \in Seq(Symbols), NEW i \in Nat \ {0}, ReadString(s, i).ok
    PROVE  /\ i \in 1 .. Len(s) /\ ReadString(s, i).next \in (i + 1) .. Len(s) + 1
           /\ Cost(s, i, ReadString(s, i).next) \in {1, 2}
           /\ ReadString(s, i).value.chars # <<>> => Cost(s, i, ReadString(s, i).next) = 2
           /\ ReadString(s, i).value.device < Byte
<1> DEFINE r == ReadString(s, i)
           u == ReadText(s, i + 1)
<1>0. Byte \in Nat /\ NoDevice < Byte
    BY CodecAssumption DEF NoDevice
<1>1. IsRead(r, Strings, i + 1, Len(s) + 1) /\ i \in 1 .. Len(s)
    BY StringReads
<1>2. r.value \in Strings /\ r.next \in (i + 1) .. Len(s) + 1
    <2> HIDE DEF r
    <2>1. r.ok
        BY DEF r
    <2> QED BY <1>1, <2>1, IsReadIs
<1>3. s[i] \in Symbols /\ Cost(s, i, i + 1) = WeightOf(s[i])
    BY <1>1, WeightIs
<1>4. u.ok => /\ i + 1 \in 1 .. Len(s) /\ u.next = i + 2 /\ Cost(s, i + 1, i + 2) \in {1, 2}
              /\ (u.value.chars # <<>> => Cost(s, i + 1, i + 2) = 2)
    <2> DEFINE j == i + 1
    <2>1. j \in Nat \ {0} /\ j + 1 = i + 2
        OBVIOUS
    <2> HIDE DEF j
    <2>2. ReadText(s, j).ok => /\ j \in 1 .. Len(s) /\ ReadText(s, j).next = j + 1 /\ Cost(s, j, j + 1) \in {1, 2}
                               /\ (ReadText(s, j).value.chars # <<>> => Cost(s, j, j + 1) = 2)
        BY <2>1, TextCosts
    <2> QED BY <2>1, <2>2 DEF j
<1>5. CASE s[i].tag = "AD_JID"
    <2>1. r = ReadAdJid(s, i)
        BY <1>1, <1>5 DEF ReadString
    <2>2. u.ok
        BY <2>1, ReadIs DEF ReadAdJid
    <2> DEFINE d == IF s[i].b > 0 THEN s[i].b ELSE NoDevice
    <2>3. r = Read(Jid(u.value.chars, d, ServerOf(s[i].a)), u.next)
        BY <2>1, <2>2 DEF ReadAdJid
    <2>4. s[i].b < Byte /\ s[i].b \in Nat
        BY <1>3, <1>5 DEF Symbols
    <2>5. d < Byte
        BY <1>0, <2>4
    <2> HIDE DEF d, r, u
    <2>6. r.value.chars = u.value.chars /\ r.value.device = d /\ r.next = i + 2
        BY <1>4, <2>2, <2>3, ReadIs DEF Jid
    <2>7. WeightOf(s[i]) = 0
        BY <1>5 DEF WeightOf
    <2>8. Cost(s, i, i + 2) = Cost(s, i, i + 1) + Cost(s, i + 1, i + 2)
        <3>1. i \in 1 .. Len(s) + 1 /\ i + 1 \in 1 .. Len(s) + 1 /\ i + 2 \in 1 .. Len(s) + 1
            BY <1>1, <1>4, <2>2
        <3> QED BY <3>1, WeightIs
    <2>9. Cost(s, i, i + 2) = Cost(s, i + 1, i + 2)
        BY <1>3, <1>4, <2>2, <2>7, <2>8
    <2> QED BY <1>1, <1>2, <1>4, <2>2, <2>5, <2>6, <2>9 DEF r
<1>6. CASE s[i].tag = "JID_PAIR"
    <2>1. r = ReadJidPair(s, i)
        BY <1>1, <1>6 DEF ReadString
    <2>2. u.ok /\ u.next <= Len(s) /\ s[u.next].tag = "server"
        BY <2>1, ReadIs DEF ReadJidPair
    <2>3. r = Read(Jid(u.value.chars, NoDevice, s[u.next].chars), u.next + 1)
        BY <2>1, <2>2 DEF ReadJidPair
    <2> HIDE DEF r, u
    <2>4. u.next = i + 2 /\ i + 2 \in 1 .. Len(s) /\ (i + 2) + 1 = i + 3
        BY <1>1, <1>4, <2>2
    <2>5. r.value.chars = u.value.chars /\ r.value.device = NoDevice /\ r.next = i + 3
        BY <2>3, <2>4, ReadIs DEF Jid
    <2>6. WeightOf(s[i]) = 0 /\ WeightOf(s[i + 2]) = 0
        BY <1>6, <2>2, <2>4 DEF WeightOf
    <2>7. Cost(s, i + 2, i + 3) = 0
        <3> DEFINE j == i + 2
        <3> HIDE DEF j
        <3>1. Cost(s, j, j + 1) = WeightOf(s[j])
            BY <2>4, WeightIs DEF j
        <3> QED BY <2>4, <2>6, <3>1 DEF j
    <2>8. /\ Cost(s, i, i + 3) = Cost(s, i, i + 1) + Cost(s, i + 1, i + 3)
          /\ Cost(s, i + 1, i + 3) = Cost(s, i + 1, i + 2) + Cost(s, i + 2, i + 3)
        <3> DEFINE j1 == i + 1
                   j2 == i + 2
                   j3 == i + 3
        <3>1. i \in 1 .. Len(s) + 1 /\ j1 \in 1 .. Len(s) + 1 /\ j2 \in 1 .. Len(s) + 1 /\ j3 \in 1 .. Len(s) + 1
            BY <1>1, <2>4
        <3> HIDE DEF j1, j2, j3
        <3>2. Cost(s, i, j3) = Cost(s, i, j1) + Cost(s, j1, j3) /\ Cost(s, j1, j3) = Cost(s, j1, j2) + Cost(s, j2, j3)
            BY <3>1, WeightIs
        <3> QED BY <3>2 DEF j1, j2, j3
    <2>9. Cost(s, i, i + 3) = Cost(s, i + 1, i + 2)
        BY <1>3, <1>4, <2>2, <2>6, <2>7, <2>8
    <2> QED BY <1>0, <1>1, <1>2, <1>4, <2>2, <2>5, <2>9 DEF r
<1>7. CASE s[i].tag \notin {"AD_JID", "JID_PAIR"}
    <2>1. r = ReadText(s, i)
        BY <1>1, <1>7 DEF ReadString
    <2>2. r.next = i + 1 /\ Cost(s, i, i + 1) \in {1, 2} /\ (r.value.chars # <<>> => Cost(s, i, i + 1) = 2)
        BY <2>1, TextCosts
    <2>3. r.value.device = NoDevice
        <3>1. IsRead(ReadText(s, i), Texts, i + 1, i + 1)
            BY TextReads
        <3>2. r.value \in Texts
            BY <2>1, <3>1, IsReadIs
        <3> QED BY <3>2 DEF Texts
    <2> QED BY <1>0, <1>1, <1>2, <2>2, <2>3
<1> QED BY <1>5, <1>6, <1>7

\* What is read as a string weighs no less than what was written for it; as much only
\* for a string that can be written.
LEMMA StringPays ==
    ASSUME NEW t \in StringSet, NEW s \in Seq(Symbols), NEW i \in Nat \ {0}, ReadString(s, i).ok,
           ReadString(s, i).value = Canonical(t)
    PROVE  /\ Total(WriteString(t)) \in Nat /\ Total(WriteString(t)) <= Cost(s, i, ReadString(s, i).next)
           /\ Total(WriteString(t)) = Cost(s, i, ReadString(s, i).next) => Writable(t)
<1> DEFINE w == Total(WriteString(t))
           c == Cost(s, i, ReadString(s, i).next)
           u == Text(t.chars)
<1>1. /\ c \in {1, 2} /\ (Canonical(t).chars # <<>> => c = 2) /\ Canonical(t).device < Byte
    BY StringCosts
<1>2. Canonical(t).chars = t.chars /\ (t.device \in Nat \ {0} => Canonical(t).device = t.device)
    BY CanonicalIs
<1>3. /\ w \in Nat
      /\ t.chars # <<>> => w = IF u \in Inherited THEN 1 ELSE 2
      /\ t.chars = <<>> => w <= 1 /\ (w = 1 => t # Empty /\ (IsJid(t) => t.device = NoDevice))
    BY StringWeighs
<1>4. Writable(t) <=> /\ t # Empty /\ u \notin Inherited
                      /\ IsJid(t) /\ t.device # NoDevice => t.chars # <<>> /\ t.device < Byte
    BY WritableIs
<1>5. (u = Empty <=> t.chars = <<>>) /\ Empty \notin Inherited /\ (t.chars # <<>> => t # Empty)
    BY EmptyIs, TextsAre
<1>6. IsJid(t) /\ t.device # NoDevice => t.device < Byte
    <2>1. IsJid(t) /\ t.device # NoDevice => t.device \in Nat
        BY DEF StringSet, TextSet, IsJid
    <2>2. 0 < Byte
        BY CodecAssumption
    <2> QED BY <1>1, <1>2, <2>1, <2>2
<1> HIDE DEF w, c, u
<1>7. CASE t.chars # <<>>
    <2>1. c = 2 /\ w = IF u \in Inherited THEN 1 ELSE 2
        BY <1>1, <1>2, <1>3, <1>7
    <2>2. w <= c /\ (w = c => u \notin Inherited)
        BY <2>1
    <2>3. w = c => Writable(t)
        BY <1>4, <1>5, <1>6, <1>7, <2>2
    <2> QED BY <1>3, <2>2, <2>3 DEF w, c
<1>8. CASE t.chars = <<>>
    <2>1. w <= c /\ (w = c => w = 1)
        BY <1>1, <1>3, <1>8
    <2>2. u \notin Inherited
        BY <1>5, <1>8
    <2>3. w = c => Writable(t)
        BY <1>3, <1>4, <1>8, <2>1, <2>2
    <2> QED BY <1>3, <2>1, <2>3 DEF w, c
<1> QED BY <1>7, <1>8 DEF w, c

\* Pair v is read from place x up to place y.
PairBetween(s, x, y, v) ==
    LET key == ReadString(s, x)
        value == ReadString(s, key.next)
    IN key.ok /\ value.ok /\ y = value.next /\ v = <<key.value, value.value>>

\* The attributes that are read are, in their order, what was read at each of their places.
LEMMA AttrsBack ==
    ASSUME NEW s \in Seq(Symbols), NEW i \in 1 .. Len(s) + 1, NEW n \in Nat, NEW f, AttrsLoop(f, s, i, n),
           \A k \in 0 .. n : IsRead(f[k], Attrs, i, Len(s) + 1), f[n].ok
    PROVE  /\ Len(f[n].value) = n /\ f[n].value \in Attrs
           /\ f[0].next = i /\ \A k \in 0 .. n : f[k].next \in 1 .. Len(s) + 1
           /\ \A k \in 1 .. n : PairBetween(s, f[k - 1].next, f[k].next, f[n].value[k])
<1>1. f[0] = Read(<<>>, i) /\ \A k \in 1 .. n : f[k] = ReadAttr(s, f[k - 1])
    BY DEF AttrsLoop
<1> DEFINE V == Strings \X Strings
           Pair(k) == <<ReadString(s, f[k - 1].next).value, ReadString(s, ReadString(s, f[k - 1].next).next).value>>
<1>2. ASSUME NEW k \in 1 .. n, f[k].ok
      PROVE  /\ f[k - 1].ok /\ f[k].value = Append(f[k - 1].value, Pair(k)) /\ Pair(k) \in V
             /\ f[k - 1].value \in Seq(V) /\ PairBetween(s, f[k - 1].next, f[k].next, Pair(k))
    <2> DEFINE prior == f[k - 1]
               key == ReadString(s, prior.next)
               value == ReadString(s, key.next)
    <2>1. k - 1 \in 0 .. n
        OBVIOUS
    <2>2. IsRead(prior, Attrs, i, Len(s) + 1) /\ f[k] = ReadAttr(s, prior)
        BY <1>1, <2>1
    <2> HIDE DEF prior
    <2>3. /\ prior.ok /\ key.ok /\ value.ok
          /\ prior.next \in i .. Len(s) /\ key.next \in (prior.next + 1) .. Len(s)
          /\ ReadAttr(s, prior) = Read(Append(prior.value, <<key.value, value.value>>), value.next)
        BY <1>2, <2>2, AttrReads
    <2>4. prior.value \in Attrs
        BY <2>2, <2>3, IsReadIs
    <2>5. prior.next \in Nat \ {0}
        BY <2>3
    <2>6. IsRead(key, Strings, prior.next + 1, Len(s) + 1)
        BY <2>5, StringReads
    <2> DEFINE kn == key.next
    <2>7. kn \in Nat \ {0}
        BY <2>3, <2>5
    <2> HIDE DEF kn
    <2>8. IsRead(ReadString(s, kn), Strings, kn + 1, Len(s) + 1)
        BY <2>7, StringReads
    <2>9. key.value \in Strings /\ value.value \in Strings
        <3>1. key.value \in Strings
            <4> HIDE DEF key
            <4> QED BY <2>3, <2>6, IsReadIs
        <3>2. value = ReadString(s, kn)
            BY DEF kn
        <3>3. ReadString(s, kn).value \in Strings
            BY <2>3, <2>8, <3>2, IsReadIs
        <3> QED BY <3>1, <3>2, <3>3
    <2>10. Pair(k) = <<key.value, value.value>>
        BY DEF prior
    <2> HIDE DEF Pair, V, key, value
    <2>11. f[k].value = Append(prior.value, Pair(k)) /\ f[k].next = value.next
        <3>1. f[k] = Read(Append(prior.value, Pair(k)), value.next)
            BY <2>2, <2>3, <2>10
        <3> DEFINE a == Append(prior.value, Pair(k))
                   b == value.next
        <3> HIDE DEF a, b
        <3>2. f[k] = Read(a, b)
            BY <3>1 DEF a, b
        <3>3. f[k].value = a /\ f[k].next = b
            BY <3>2, ReadIs
        <3> QED BY <3>3 DEF a, b
    <2>12. PairBetween(s, prior.next, f[k].next, Pair(k))
        BY <2>3, <2>10, <2>11 DEF PairBetween, key, value
    <2>13. Pair(k) \in V
        BY <2>9, <2>10 DEF V
    <2>14. prior.value \in Seq(V)
        BY <2>4 DEF V, Attrs
    <2> QED BY <2>3, <2>11, <2>12, <2>13, <2>14 DEF prior
<1>3. ASSUME NEW k \in 1 .. n, f[k].ok
      PROVE  /\ Len(f[k].value) = Len(f[k - 1].value) + 1 /\ Len(f[k - 1].value) \in Nat
             /\ f[k].value[Len(f[k - 1].value) + 1] = Pair(k)
             /\ \A j \in 1 .. Len(f[k - 1].value) : f[k].value[j] = f[k - 1].value[j]
    <2> DEFINE q == f[k - 1].value
               p == Pair(k)
               z == f[k].value
    <2>1. q \in Seq(V) /\ p \in V /\ z = Append(q, p)
        BY <1>2, <1>3
    <2> HIDE DEF q, p, V, z
    <2>2. Len(z) = Len(q) + 1 /\ Len(q) \in Nat /\ z[Len(q) + 1] = p /\ \A j \in 1 .. Len(q) : z[j] = q[j]
        BY <2>1, AppendProperties
    <2> QED BY <2>2 DEF q, p, z
<1> HIDE DEF Pair
<1> DEFINE T == {k \in 0 .. n : f[k].ok /\ Len(f[k].value) # k}
<1>4. T = {}
    <2>1. SUFFICES ASSUME T # {} PROVE FALSE
        OBVIOUS
    <2>2. T \in SUBSET Nat
        OBVIOUS
    <2>3. PICK k \in T : \A l \in T : k <= l
        <3> HIDE DEF T
        <3> QED BY <2>1, <2>2, LeastOf
    <2>4. k # 0
        <3>1. f[0].value = <<>>
            BY <1>1, ReadIs
        <3>2. Len(f[0].value) = 0
            BY <3>1
        <3> QED BY <2>3, <3>2
    <2>5. k \in 1 .. n /\ k - 1 \in 0 .. n
        BY <2>3, <2>4
    <2>6. k - 1 \notin T
        <3>1. k \in Nat /\ ~(k <= k - 1)
            BY <2>5
        <3> HIDE DEF T
        <3> QED BY <2>3, <3>1
    <2>7. f[k].ok
        BY <2>3
    <2>8. f[k - 1].ok /\ Len(f[k].value) = Len(f[k - 1].value) + 1
        BY <1>2, <1>3, <2>5, <2>7
    <2>9. Len(f[k - 1].value) = k - 1
        BY <2>5, <2>6, <2>8
    <2>10. Len(f[k].value) = k
        BY <2>5, <2>8, <2>9
    <2> QED BY <2>3, <2>10
<1> DEFINE Good(k) == f[k].ok /\ \A j \in 1 .. k : f[k].value[j] = f[n].value[j]
           U == {k \in 0 .. n : ~Good(n - k)}
<1>5. U = {}
    <2>1. SUFFICES ASSUME U # {} PROVE FALSE
        OBVIOUS
    <2>2. U \in SUBSET Nat
        OBVIOUS
    <2>3. PICK k \in U : \A l \in U : k <= l
        <3> HIDE DEF U
        <3> QED BY <2>1, <2>2, LeastOf
    <2>4. k # 0
        <3>1. Good(n)
            OBVIOUS
        <3>2. n - 0 = n
            OBVIOUS
        <3> HIDE DEF Good
        <3> QED BY <2>3, <3>1, <3>2
    <2>5. k - 1 \in 0 .. n /\ n - (k - 1) \in 1 .. n /\ (n - (k - 1)) - 1 = n - k
        BY <2>3, <2>4
    <2>6. k - 1 \notin U
        <3>1. k \in Nat /\ ~(k <= k - 1)
            BY <2>3
        <3> HIDE DEF U
        <3> QED BY <2>3, <3>1
    <2> DEFINE m == n - (k - 1)
    <2>7. Good(m) /\ m \in 1 .. n /\ m - 1 = n - k
        BY <2>5, <2>6
    <2> HIDE DEF m
    <2>8. f[m].ok /\ f[m - 1].ok
        BY <1>2, <2>7
    <2>9. Len(f[m - 1].value) = m - 1
        <3>1. m - 1 \in 0 .. n
            BY <2>7
        <3> QED BY <1>4, <2>8, <3>1
    <2>10. \A j \in 1 .. m - 1 : f[m].value[j] = f[m - 1].value[j]
        BY <1>3, <2>7, <2>8, <2>9
    <2>11. \A j \in 1 .. m - 1 : j \in 1 .. m
        BY <2>7
    <2>12. Good(m - 1)
        BY <2>7, <2>8, <2>10, <2>11
    <2> HIDE DEF Good
    <2> QED BY <2>3, <2>7, <2>12
<1>6. ASSUME NEW k \in 0 .. n PROVE Good(k)
    <2> DEFINE m == n - k
    <2>1. m \in 0 .. n /\ n - m = k
        OBVIOUS
    <2> HIDE DEF m, Good
    <2>2. Good(n - m)
        BY <1>5, <2>1
    <2> QED BY <2>1, <2>2
<1>7. ASSUME NEW k \in 1 .. n PROVE PairBetween(s, f[k - 1].next, f[k].next, f[n].value[k])
    <2>1. k \in 0 .. n /\ k - 1 \in 0 .. n /\ k \in 1 .. k /\ (k - 1) + 1 = k
        OBVIOUS
    <2>2. f[k].ok /\ f[k - 1].ok /\ f[k].value[k] = f[n].value[k]
        BY <1>6, <2>1
    <2>3. Len(f[k - 1].value) = k - 1
        BY <1>4, <2>1, <2>2
    <2>4. f[k].value[k] = Pair(k)
        BY <1>3, <2>1, <2>2, <2>3
    <2>5. PairBetween(s, f[k - 1].next, f[k].next, Pair(k))
        BY <1>2, <2>2
    <2> QED BY <2>2, <2>4, <2>5
<1>8. ASSUME NEW k \in 0 .. n PROVE f[k].next \in 1 .. Len(s) + 1
    <2>1. f[k].ok /\ IsRead(f[k], Attrs, i, Len(s) + 1)
        BY <1>6
    <2>2. f[k].next \in i .. Len(s) + 1
        BY <2>1, IsReadIs
    <2> QED BY <2>2
<1>9. Len(f[n].value) = n /\ f[n].value \in Attrs /\ f[0].next = i
    <2>1. n \in 0 .. n
        OBVIOUS
    <2>2. Len(f[n].value) = n
        BY <1>4, <2>1
    <2>3. f[n].value \in Attrs
        BY <2>1, IsReadIs
    <2> QED BY <1>1, <2>2, <2>3, ReadIs
<1> QED BY <1>7, <1>8, <1>9

\* An attribute weighs no less when it is read; one with a number is never read.
LEMMA AttrPays ==
    ASSUME NEW a \in AttrSet, NEW s \in Seq(Symbols), NEW x \in Nat \ {0}, NEW y,
           PairBetween(s, x, y, CanonicalAttr(a)), x <= Len(s) + 1
    PROVE  /\ Total(WriteAttr(a)) \in Nat /\ Total(WriteAttr(a)) <= Cost(s, x, y)
           /\ Total(WriteAttr(a)) = Cost(s, x, y) => Writable(a[1]) /\ Writable(a[2])
<1> DEFINE key == ReadString(s, x)
           j == key.next
           value == ReadString(s, j)
<1>1. key.ok /\ value.ok /\ y = value.next /\ key.value = Canonical(a[1]) /\ value.value = Canonical(a[2])
    BY DEF PairBetween, CanonicalAttr
<1>2. /\ x \in 1 .. Len(s) /\ j \in (x + 1) .. Len(s) + 1 /\ IsRead(key, Strings, x + 1, Len(s) + 1)
    BY <1>1, StringCosts, StringReads
<1>3. j \in Nat \ {0} /\ j \in 1 .. Len(s) + 1 /\ x \in 1 .. Len(s) + 1
    BY <1>2
<1> HIDE DEF j
<1>4. y \in (j + 1) .. Len(s) + 1 /\ IsRead(value, Strings, j + 1, Len(s) + 1)
    BY <1>1, <1>3, StringCosts, StringReads
<1>5. y \in 1 .. Len(s) + 1
    BY <1>3, <1>4
<1>6. a[1] \in StringSet /\ a[2] \in StringSet
    <2>1. a[1] \in StringSet /\ a[2] \in StringSet \cup {Number}
        BY AttrTyped
    <2>2. value.value \in Strings
        <3> HIDE DEF value
        <3> QED BY <1>1, <1>4, IsReadIs
    <2>3. Canonical(Number) \notin Strings
        <3>1. Canonical(Number) = Number
            BY DEF Canonical
        <3>2. "device" \notin DOMAIN Number
            BY DEF Number, Symbol
        <3>3. \A z \in Strings : "device" \in DOMAIN z
            BY DEF Strings, Texts
        <3> QED BY <3>1, <3>2, <3>3
    <2>4. a[2] # Number
        BY <1>1, <2>2, <2>3
    <2> QED BY <2>1, <2>4
<1> DEFINE e1 == WriteString(a[1])
           e2 == WriteString(a[2])
           e == WriteAttr(a)
<1>7. e1 \in Seq(Symbols) /\ e2 \in Seq(Symbols) /\ e = e1 \o e2
    BY <1>6, AttrTyped, StringTyped
<1>8. Total(e1) \in Nat /\ Total(e1) <= Cost(s, x, j) /\ (Total(e1) = Cost(s, x, j) => Writable(a[1]))
    BY <1>1, <1>6, StringPays DEF j
<1>9. Total(e2) \in Nat /\ Total(e2) <= Cost(s, j, y) /\ (Total(e2) = Cost(s, j, y) => Writable(a[2]))
    BY <1>1, <1>3, <1>6, StringPays
<1> HIDE DEF e1, e2, e
<1>10. Total(e) = Total(e1) + Total(e2)
    BY <1>7, TotalSum
<1>11. Cost(s, x, y) = Cost(s, x, j) + Cost(s, j, y) /\ Cost(s, x, j) \in Int /\ Cost(s, j, y) \in Int
    BY <1>3, <1>5, WeightIs
<1>12. Total(e) \in Nat /\ Total(e) <= Cost(s, x, y)
       /\ (Total(e) = Cost(s, x, y) => Total(e1) = Cost(s, x, j) /\ Total(e2) = Cost(s, j, y))
    BY <1>8, <1>9, <1>10, <1>11
<1> QED BY <1>8, <1>9, <1>12 DEF e

\* So it is with all of the attributes of a node; those that are read are as many.
LEMMA AttrsPay ==
    ASSUME NEW attrs \in Seq(AttrSet), NEW s \in Seq(Symbols), NEW i \in 1 .. Len(s) + 1, NEW n \in Nat,
           ReadAttrs(s, i, n).ok, ReadAttrs(s, i, n).value = [k \in 1 .. Len(attrs) |-> CanonicalAttr(attrs[k])]
    PROVE  /\ n = Len(attrs) /\ ReadAttrs(s, i, n).next \in 1 .. Len(s) + 1
           /\ Total(Concat(AttrParts(attrs))) \in Nat
           /\ Total(Concat(AttrParts(attrs))) <= Cost(s, i, ReadAttrs(s, i, n).next)
           /\ Total(Concat(AttrParts(attrs))) = Cost(s, i, ReadAttrs(s, i, n).next) =>
                 \A k \in 1 .. Len(attrs) : Writable(attrs[k][1]) /\ Writable(attrs[k][2])
<1> DEFINE q == AttrParts(attrs)
           m == Len(attrs)
           W(k) == Writable(attrs[k][1]) /\ Writable(attrs[k][2])
<1>1. q \in Seq(Seq(Symbols)) /\ Len(q) = m /\ m \in Nat /\ \A k \in 1 .. m : q[k] = WriteAttr(attrs[k]) /\ attrs[k] \in AttrSet
    BY AttrPartsAre
<1>2. PICK f : /\ AttrsLoop(f, s, i, n) /\ ReadAttrs(s, i, n) = f[n]
               /\ \A k \in 0 .. n : IsRead(f[k], Attrs, i, Len(s) + 1)
    BY AttrsRead
<1>3. f[n].ok /\ f[n].value = [k \in 1 .. m |-> CanonicalAttr(attrs[k])]
    BY <1>2
<1>4. /\ Len(f[n].value) = n /\ f[n].value \in Attrs
      /\ f[0].next = i /\ \A k \in 0 .. n : f[k].next \in 1 .. Len(s) + 1
      /\ \A k \in 1 .. n : PairBetween(s, f[k - 1].next, f[k].next, f[n].value[k])
    BY <1>2, <1>3, AttrsBack
<1> HIDE DEF q, m
<1>5. n = m
    <2> DEFINE z == f[n].value
    <2>1. z = [k \in 1 .. m |-> CanonicalAttr(attrs[k])]
        BY <1>3
    <2> HIDE DEF z
    <2>2. Len(z) = m
        BY <1>1, <2>1
    <2> QED BY <1>4, <2>2 DEF z
<1>6. \A k \in 1 .. n : f[n].value[k] = CanonicalAttr(attrs[k])
    BY <1>3, <1>5
<1>7. PICK P : Firsts(P, q, Symbols) /\ Concat(q) = P[Len(q)]
    BY <1>1, ConcatIs
<1>8. /\ Total(P[0]) = 0 /\ \A k \in 0 .. n : Total(P[k]) \in Nat
      /\ \A k \in 1 .. n : Total(q[k]) \in Nat /\ Total(P[k]) = Total(P[k - 1]) + Total(q[k])
    <2>1. /\ Total(P[0]) = 0 /\ \A k \in 0 .. Len(q) : Total(P[k]) \in Nat
          /\ \A k \in 1 .. Len(q) : Total(q[k]) \in Nat /\ Total(P[k]) = Total(P[k - 1]) + Total(q[k])
        BY <1>1, <1>7, TotalFirsts
    <2> QED BY <1>1, <1>5, <2>1
<1> DEFINE At(k) == f[k].next
           Good(k) == /\ Total(P[k]) <= Cost(s, i, At(k))
                      /\ Total(P[k]) = Cost(s, i, At(k)) => \A j \in 1 .. k : W(j)
           T == {k \in 0 .. n : ~Good(k)}
<1>9. \A k \in 0 .. n : At(k) \in 1 .. Len(s) + 1
    BY <1>4
<1>10. Good(0)
    <2>1. Cost(s, i, i) = 0
        BY WeightIs
    <2>2. At(0) = i
        BY <1>4
    <2> HIDE DEF At
    <2> QED BY <1>8, <2>1, <2>2
<1>11. ASSUME NEW k \in 1 .. n, Good(k - 1) PROVE Good(k)
    <2> DEFINE a == attrs[k]
               x == At(k - 1)
               y == At(k)
    <2>1. k \in 0 .. n /\ k - 1 \in 0 .. n
        OBVIOUS
    <2>2. x \in 1 .. Len(s) + 1 /\ y \in 1 .. Len(s) + 1
        BY <1>9, <2>1
    <2>3. PairBetween(s, x, y, CanonicalAttr(a))
        BY <1>4, <1>6
    <2>4. a \in AttrSet /\ q[k] = WriteAttr(a)
        BY <1>1, <1>5
    <2>5. Total(P[k - 1]) <= Cost(s, i, x) /\ (Total(P[k - 1]) = Cost(s, i, x) => \A j \in 1 .. k - 1 : W(j))
        BY <1>11
    <2>6. (Writable(a[1]) /\ Writable(a[2])) <=> W(k)
        OBVIOUS
    <2> HIDE DEF a, x, y, W
    <2>7. x \in Nat \ {0} /\ x <= Len(s) + 1
        BY <2>2
    <2>8. /\ Total(WriteAttr(a)) \in Nat /\ Total(WriteAttr(a)) <= Cost(s, x, y)
          /\ Total(WriteAttr(a)) = Cost(s, x, y) => Writable(a[1]) /\ Writable(a[2])
        BY <2>3, <2>4, <2>7, AttrPays
    <2>9. Cost(s, i, y) = Cost(s, i, x) + Cost(s, x, y) /\ Cost(s, i, x) \in Int /\ Cost(s, x, y) \in Int
        BY <2>2, WeightIs
    <2>10. Total(P[k]) = Total(P[k - 1]) + Total(WriteAttr(a)) /\ Total(P[k - 1]) \in Nat
        BY <1>8, <2>1, <2>4
    <2> DEFINE p1 == Total(P[k - 1])
               p2 == Total(WriteAttr(a))
               p == Total(P[k])
               c1 == Cost(s, i, x)
               c2 == Cost(s, x, y)
               c == Cost(s, i, y)
    <2>11. p1 \in Nat /\ p2 \in Nat /\ c1 \in Int /\ c2 \in Int /\ p = p1 + p2 /\ c = c1 + c2 /\ p1 <= c1 /\ p2 <= c2
        BY <2>5, <2>8, <2>9, <2>10
    <2> HIDE DEF p1, p2, p, c1, c2, c
    <2>12. p <= c /\ (p = c => p1 = c1 /\ p2 = c2)
        BY <2>11
    <2>13. p = c => \A j \in 1 .. k : W(j)
        <3>1. \A j \in 1 .. k : j = k \/ j \in 1 .. k - 1
            OBVIOUS
        <3> QED BY <2>5, <2>6, <2>8, <2>12, <3>1 DEF p1, p2, c1, c2
    <2> HIDE DEF At
    <2> QED BY <2>12, <2>13 DEF p, c, y
<1>12. T = {}
    <2>1. SUFFICES ASSUME T # {} PROVE FALSE
        OBVIOUS
    <2>2. T \in SUBSET Nat
        OBVIOUS
    <2> HIDE DEF Good
    <2>3. PICK k \in T : \A l \in T : k <= l
        <3> HIDE DEF T
        <3> QED BY <2>1, <2>2, LeastOf
    <2>4. k \in 1 .. n /\ k - 1 \in 0 .. n
        BY <1>10, <2>3
    <2>5. k - 1 \notin T
        BY <2>3, <2>4
    <2> QED BY <1>11, <2>3, <2>4, <2>5
<1>13. Good(n)
    <2>1. n \in 0 .. n
        OBVIOUS
    <2> HIDE DEF Good
    <2> QED BY <1>12, <2>1
<1>14. At(n) = ReadAttrs(s, i, n).next /\ Concat(q) = P[n] /\ n \in 0 .. n
    BY <1>1, <1>2, <1>5, <1>7
<1>15. At(n) \in 1 .. Len(s) + 1 /\ Total(P[n]) \in Nat
    BY <1>8, <1>9, <1>14
<1> HIDE DEF At
<1>16. Total(Concat(q)) <= Cost(s, i, ReadAttrs(s, i, n).next)
       /\ (Total(Concat(q)) = Cost(s, i, ReadAttrs(s, i, n).next) => \A j \in 1 .. m : W(j))
    BY <1>5, <1>13, <1>14
<1> QED BY <1>5, <1>14, <1>15, <1>16 DEF q, m

\* Wherever a node is read as node would be, it weighs no less than what is written for
\* node; as much only when node can be written.
Pays(node) ==
    \A s \in Seq(Symbols) : \A i \in 1 .. Len(s) + 1 :
        LET r == ReadNode(s, i, Lists(s))
        IN r.ok /\ r.value = CanonicalNode[node] =>
              Total(Encode[node]) <= Cost(s, i, r.next) /\ (Total(Encode[node]) = Cost(s, i, r.next) => WritableNode[node])

\* A list that begins with a node goes on with a shorter one.
LEMMA ListBack ==
    ASSUME NEW s \in Seq(Symbols), NEW x \in 1 .. Len(s) + 1, NEW h \in Nat \ {0}, Lists(s)[<<x, h>>].ok
    PROVE  LET r == Lists(s)[<<x, h>>]
               first == ReadNode(s, x, Lists(s))
               others == Lists(s)[<<first.next, h - 1>>]
           IN /\ first.ok /\ first.next \in 1 .. Len(s) + 1 /\ others.ok /\ r.next = others.next
              /\ others.next \in 1 .. Len(s) + 1 /\ IsSeq(others.value, h - 1)
              /\ Prepended(r.value, first.value, others.value, h - 1)
<1> DEFINE f == Lists(s)
           r == f[<<x, h>>]
           first == ReadNode(s, x, f)
           y == first.next
           others == f[<<y, h - 1>>]
<1>0. h \in Nat /\ h - 1 \in Nat /\ x \in Nat
    OBVIOUS
<1>1. r = ReadList(s, x, h, f)
    BY <1>0, ListsAre
<1>2. r = IF first.ok /\ others.ok THEN Read(<<first.value>> \o others.value, others.next) ELSE Failed
    BY <1>1, ListCases
<1>3. ListsAfter(f, s, x)
    BY <1>0, ListsAre
<1>4. IsPart(first, x, Len(s) + 1)
    <2> HIDE DEF f
    <2> QED BY <1>3, NodeReads
<1>00. r.ok
    OBVIOUS
<1> HIDE DEF r
<1>5. first.ok /\ others.ok /\ r = Read(<<first.value>> \o others.value, others.next)
    BY <1>2, <1>00, ReadIs
<1>6. y \in (x + 1) .. Len(s) + 1
    <2> HIDE DEF first
    <2> QED BY <1>4, <1>5, ReadIs DEF IsPart
<1>7. y \in 1 .. Len(s) + 1
    BY <1>6
<1> HIDE DEF y
<1>8. IsList(others, y, h - 1, Len(s) + 1)
    BY <1>0, <1>7, ListsAre
<1> HIDE DEF others
<1>9. others.next \in y .. Len(s) + 1 /\ IsSeq(others.value, h - 1)
    BY <1>5, <1>8, ReadIs DEF IsList
<1>10. others.next \in 1 .. Len(s) + 1
    BY <1>7, <1>9
<1>11. Prepended(r.value, first.value, others.value, h - 1)
    <2> DEFINE z == r.value
               v == first.value
               q == others.value
               l == h - 1
    <2>1. z = <<v>> \o q /\ l \in Nat /\ IsSeq(q, l)
        BY <1>0, <1>5, <1>9, ReadIs
    <2> HIDE DEF z, v, q, l
    <2>2. Prepended(z, v, q, l)
        BY <2>1, Before
    <2> QED BY <2>2 DEF z, v, q, l
<1>12. r.next = others.next
    BY <1>5, ReadIs
<1> HIDE DEF first, f
<1> QED BY <1>5, <1>7, <1>9, <1>10, <1>11, <1>12 DEF f, r, first, y, others

\* The children that are read are as many, and weigh no less.
LEMMA KidsPay ==
    ASSUME NEW node \in Nodes, \A k \in 1 .. Len(Kids(node)) : Pays(Kids(node)[k]),
           NEW s \in Seq(Symbols), NEW i \in 1 .. Len(s) + 1, NEW m \in Nat, Lists(s)[<<i, m>>].ok,
           Lists(s)[<<i, m>>].value = KidValues(node)
    PROVE  /\ m = Len(Kids(node)) /\ Lists(s)[<<i, m>>].next \in 1 .. Len(s) + 1
           /\ Total(Concat(KidParts(node))) \in Nat
           /\ Total(Concat(KidParts(node))) <= Cost(s, i, Lists(s)[<<i, m>>].next)
           /\ Total(Concat(KidParts(node))) = Cost(s, i, Lists(s)[<<i, m>>].next) =>
                 \A k \in 1 .. Len(Kids(node)) : WritableNode[Kids(node)[k]]
<1> DEFINE n == Len(Kids(node))
           q == KidParts(node)
           c == KidValues(node)
           f == Lists(s)
           W(k) == WritableNode[Kids(node)[k]]
<1>0. \A k \in DOMAIN Kids(node) : Kids(node)[k] \in EncodeSet
    BY EncodeTyped, KidsAreNodes
<1>1. q \in Seq(Seq(Symbols)) /\ Len(q) = n /\ n \in Nat /\ \A k \in 1 .. n : q[k] = Encode[Kids(node)[k]]
    BY <1>0, PartsTyped, NodeParts
<1>2. c = [k \in 1 .. n |-> CanonicalNode[Kids(node)[k]]]
    <2>1. DOMAIN Kids(node) = 1 .. n
        BY KidsAreNodes
    <2> QED BY <2>1 DEF KidValues
<1>3. c = [k \in 1 .. n |-> c[k]] /\ \A k \in 1 .. n : c[k] = CanonicalNode[Kids(node)[k]]
    BY <1>2
<1>4. \A k \in 1 .. n : Pays(Kids(node)[k])
    OBVIOUS
<1>5. f[<<i, m>>].ok /\ f[<<i, m>>].value = c
    OBVIOUS
<1>6. IsList(f[<<i, m>>], i, m, Len(s) + 1)
    BY ListsAre
<1> HIDE DEF n, q, c, f
<1>7. m = n
    <2>1. IsSeq(c, m)
        BY <1>5, <1>6, ReadIs DEF IsList
    <2>2. c = [k \in 1 .. m |-> c[k]]
        BY <2>1 DEF IsSeq
    <2>3. \A l \in Nat : c = [k \in 1 .. l |-> c[k]] => Len(c) = l
        OBVIOUS
    <2> QED BY <1>1, <1>3, <2>2, <2>3
<1>8. PICK P : Firsts(P, q, Symbols) /\ Concat(q) = P[Len(q)]
    BY <1>1, ConcatIs
<1>9. /\ Total(P[0]) = 0 /\ \A k \in 0 .. n : Total(P[k]) \in Nat
      /\ \A k \in 1 .. n : Total(q[k]) \in Nat /\ Total(P[k]) = Total(P[k - 1]) + Total(q[k])
    <2>1. /\ Total(P[0]) = 0 /\ \A k \in 0 .. Len(q) : Total(P[k]) \in Nat
          /\ \A k \in 1 .. Len(q) : Total(q[k]) \in Nat /\ Total(P[k]) = Total(P[k - 1]) + Total(q[k])
        BY <1>1, <1>8, TotalFirsts
    <2> QED BY <1>1, <2>1
<1> DEFINE cc(h) == [j \in 1 .. h |-> c[n - h + j]]
           D(h) == Total(P[n]) - Total(P[n - h])
           Good(h) == \A x \in 1 .. Len(s) + 1 :
                         f[<<x, h>>].ok /\ f[<<x, h>>].value = cc(h) =>
                            /\ f[<<x, h>>].next \in 1 .. Len(s) + 1
                            /\ D(h) <= Cost(s, x, f[<<x, h>>].next)
                            /\ D(h) = Cost(s, x, f[<<x, h>>].next) => \A k \in n - h + 1 .. n : W(k)
           T == {h \in 0 .. n : ~Good(h)}
<1>10. Good(0)
    <2>1. ASSUME NEW x \in 1 .. Len(s) + 1 PROVE f[<<x, 0>>].next = x /\ Cost(s, x, x) = 0
        <3>1. f[<<x, 0>>] = ReadList(s, x, 0, f)
            BY ListsAre DEF f
        <3>2. ReadList(s, x, 0, f) = Read(<<>>, x)
            BY DEF ReadList, InFront
        <3> QED BY <3>1, <3>2, ReadIs, WeightIs
    <2>2. D(0) = 0
        <3>1. n - 0 = n /\ n \in 0 .. n
            BY <1>1
        <3>2. Total(P[n]) \in Nat
            BY <1>9, <3>1
        <3> QED BY <3>1, <3>2
    <2>3. n - 0 + 1 .. n = {}
        BY <1>1
    <2> HIDE DEF D, W, cc
    <2> QED BY <2>1, <2>2, <2>3
<1>11. ASSUME NEW h \in 1 .. n, Good(h - 1) PROVE Good(h)
    <2> DEFINE k == n - h + 1
               kid == Kids(node)[k]
               l == h - 1
    <2>1. k \in 1 .. n /\ k - 1 = n - h /\ n - h \in 0 .. n /\ k \in 0 .. n /\ n - l = k /\ l \in Nat /\ h \in Nat \ {0}
        BY <1>1
    <2>2. D(h) = D(l) + Total(Encode[kid]) /\ Total(Encode[kid]) \in Nat /\ D(l) \in Int
        <3>1. Total(P[k]) = Total(P[n - h]) + Total(q[k]) /\ Total(P[n - h]) \in Nat /\ Total(P[k]) \in Nat /\ Total(q[k]) \in Nat
            BY <1>9, <2>1
        <3>2. n \in 0 .. n /\ Total(P[n]) \in Nat
            <4>1. n \in 0 .. n
                BY <1>1
            <4> QED BY <1>9, <4>1
        <3>3. D(l) = Total(P[n]) - Total(P[k]) /\ D(h) = Total(P[n]) - Total(P[n - h])
            BY <2>1
        <3>4. q[k] = Encode[kid]
            BY <1>1, <2>1
        <3> HIDE DEF D, k, l, kid
        <3> QED BY <3>1, <3>2, <3>3, <3>4
    <2>3. ASSUME NEW x \in 1 .. Len(s) + 1, f[<<x, h>>].ok, f[<<x, h>>].value = cc(h)
          PROVE  /\ f[<<x, h>>].next \in 1 .. Len(s) + 1
                 /\ D(h) <= Cost(s, x, f[<<x, h>>].next)
                 /\ D(h) = Cost(s, x, f[<<x, h>>].next) => \A g \in k .. n : W(g)
        <3> DEFINE first == ReadNode(s, x, f)
                   y == first.next
                   others == f[<<y, l>>]
                   z == others.next
        <3>1. /\ first.ok /\ y \in 1 .. Len(s) + 1 /\ others.ok /\ f[<<x, h>>].next = z
              /\ z \in 1 .. Len(s) + 1 /\ IsSeq(others.value, l)
              /\ Prepended(f[<<x, h>>].value, first.value, others.value, l)
            BY <2>1, <2>3, ListBack DEF f
        <3>2. first.value = CanonicalNode[kid] /\ others.value = cc(l)
            <4> DEFINE r == f[<<x, h>>].value
                       v == first.value
                       o == others.value
            <4>1. r[1] = v /\ \A j \in 1 .. l : r[j + 1] = o[j]
                BY <3>1 DEF Prepended
            <4>2. r = cc(h) /\ o = [j \in 1 .. l |-> o[j]]
                BY <2>3, <3>1 DEF IsSeq
            <4>3. 1 \in 1 .. h /\ \A j \in 1 .. l : j + 1 \in 1 .. h /\ n - h + (j + 1) = n - l + j
                BY <1>1
            <4>4. cc(h)[1] = c[k] /\ \A j \in 1 .. l : cc(h)[j + 1] = c[n - l + j]
                BY <4>3
            <4>5. \A j \in 1 .. l : cc(l)[j] = c[n - l + j]
                OBVIOUS
            <4>6. cc(l) = [j \in 1 .. l |-> c[n - l + j]]
                OBVIOUS
            <4> HIDE DEF cc, r, v, o, l
            <4>7. v = c[k] /\ \A j \in 1 .. l : o[j] = c[n - l + j]
                BY <4>1, <4>2, <4>4
            <4>8. o = cc(l)
                BY <4>2, <4>6, <4>7
            <4>9. c[k] = CanonicalNode[kid]
                BY <1>3, <2>1
            <4> QED BY <4>7, <4>8, <4>9 DEF v, o, l
        <3>3. Total(Encode[kid]) <= Cost(s, x, y) /\ (Total(Encode[kid]) = Cost(s, x, y) => W(k))
            <4>1. Pays(kid)
                BY <1>4, <2>1
            <4> HIDE DEF kid
            <4>2. first.ok /\ first.value = CanonicalNode[kid] /\ first = ReadNode(s, x, Lists(s))
                BY <3>1, <3>2 DEF f
            <4>3. /\ Total(Encode[kid]) <= Cost(s, x, y) /\ (Total(Encode[kid]) = Cost(s, x, y) => WritableNode[kid])
                <5> HIDE DEF first
                <5> QED BY <4>1, <4>2 DEF Pays
            <4> QED BY <4>3 DEF kid
        <3>4. D(l) <= Cost(s, y, z) /\ (D(l) = Cost(s, y, z) => \A g \in k + 1 .. n : W(g))
            <4>1. n - l + 1 = k + 1
                BY <2>1
            <4>2. Good(l)
                BY <1>11
            <4> HIDE DEF D, W, cc, y, l, k
            <4> QED BY <3>1, <3>2, <4>1, <4>2
        <3> HIDE DEF first, y, others, z
        <3>5. Cost(s, x, z) = Cost(s, x, y) + Cost(s, y, z) /\ Cost(s, x, y) \in Int /\ Cost(s, y, z) \in Int
            BY <3>1, WeightIs
        <3> DEFINE w1 == Total(Encode[kid])
                   w2 == D(l)
                   w == D(h)
                   c1 == Cost(s, x, y)
                   c2 == Cost(s, y, z)
                   c3 == Cost(s, x, z)
        <3>6. w1 \in Nat /\ w2 \in Int /\ w = w2 + w1 /\ c1 \in Int /\ c2 \in Int /\ c3 = c1 + c2 /\ w1 <= c1 /\ w2 <= c2
            BY <2>2, <3>3, <3>4, <3>5
        <3> HIDE DEF w1, w2, w, c1, c2, c3
        <3>7. w <= c3 /\ (w = c3 => w1 = c1 /\ w2 = c2)
            BY <3>6
        <3>8. w = c3 => \A g \in k .. n : W(g)
            <4>1. \A g \in k .. n : g = k \/ g \in k + 1 .. n
                BY <2>1
            <4> HIDE DEF W, k, D
            <4> QED BY <3>3, <3>4, <3>7, <4>1 DEF w1, w2, c1, c2
        <3> QED BY <3>1, <3>7, <3>8 DEF w, c3
    <2> HIDE DEF D, W, cc
    <2> QED BY <2>3
<1> HIDE DEF Good
<1>12. T = {}
    <2>1. SUFFICES ASSUME T # {} PROVE FALSE
        OBVIOUS
    <2>2. T \in SUBSET Nat
        BY <1>1
    <2>3. PICK h \in T : \A l \in T : h <= l
        <3> HIDE DEF T
        <3> QED BY <2>1, <2>2, LeastOf
    <2>4. h \in 1 .. n /\ h - 1 \in 0 .. n
        BY <1>1, <1>10, <2>3
    <2>5. h - 1 \notin T
        BY <2>3, <2>4
    <2> QED BY <1>11, <2>3, <2>4, <2>5
<1>13. Good(n)
    <2>1. n \in 0 .. n
        BY <1>1
    <2> QED BY <1>12, <2>1
<1>14. cc(n) = c /\ n - n + 1 = 1 /\ D(n) = Total(P[n]) /\ Total(P[n]) \in Nat
    <2>1. n - n = 0 /\ n - n + 1 = 1 /\ n \in 0 .. n /\ \A j \in 1 .. n : n - n + j = j
        BY <1>1
    <2>2. cc(n) = c
        BY <1>3, <2>1
    <2>3. Total(P[n]) \in Nat
        BY <1>9, <2>1
    <2>4. D(n) = Total(P[n])
        BY <1>9, <2>1, <2>3
    <2> QED BY <2>1, <2>2, <2>3, <2>4
<1> DEFINE e == f[<<i, m>>].next
<1>15. /\ e \in 1 .. Len(s) + 1 /\ Total(P[n]) <= Cost(s, i, e)
       /\ Total(P[n]) = Cost(s, i, e) => \A k \in 1 .. n : W(k)
    <2> HIDE DEF W
    <2>1. f[<<i, n>>].ok /\ f[<<i, n>>].value = cc(n) /\ e = f[<<i, n>>].next
        BY <1>5, <1>7, <1>14
    <2> HIDE DEF e, cc, D
    <2> QED BY <1>13, <1>14, <2>1 DEF Good
<1>16. Concat(q) = P[n]
    BY <1>1, <1>8
<1> QED BY <1>7, <1>14, <1>15, <1>16 DEF n, q, f

\* The content that is read is what its tag says.
LEMMA ContentBack ==
    ASSUME NEW s \in Seq(Symbols), NEW i \in 1 .. Len(s) + 1, NEW f, ReadContent(s, i, f).ok
    PROVE  LET r == ReadContent(s, i, f)
               list == f[<<i + 1, s[i].a>>]
               string == ReadString(s, i)
           IN /\ i \in 1 .. Len(s)
              /\ r.value.kind = "nodes" => /\ s[i].tag \in ListTags /\ s[i].a \in Nat /\ list.ok
                                           /\ r.value = Children(list.value) /\ r.next = list.next
              /\ r.value.kind = "bytes" => s[i].tag \in Binaries /\ r.next = i + 1
              /\ r.value.kind = "string" => string.ok /\ r.value = StringContent(string.value) /\ r.next = string.next
              /\ r.value.kind \in {"nodes", "bytes", "string"}
<1> DEFINE r == ReadContent(s, i, f)
           list == f[<<i + 1, s[i].a>>]
           string == ReadString(s, i)
<1>1. i \in 1 .. Len(s)
    <2>1. i > Len(s) => r = Failed
        BY DEF ReadContent
    <2> QED BY <2>1, ReadIs
<1>2. /\ \A v : Children(v).kind = "nodes" /\ StringContent(v).kind = "string" /\ BytesContent(v).kind = "bytes"
      /\ \A v, n : Read(v, n).value = v /\ Read(v, n).next = n
    BY ReadIs DEF Children, StringContent, BytesContent
<1>3. r.ok
    OBVIOUS
<1>4. CASE s[i].tag \in ListTags
    <2>1. s[i].a \in Nat /\ r = IF list.ok THEN Read(Children(list.value), list.next) ELSE Failed
        BY <1>1, <1>4, ContentCases
    <2> HIDE DEF r, list
    <2>2. list.ok /\ r = Read(Children(list.value), list.next)
        BY <1>3, <2>1, ReadIs
    <2>3. r.value = Children(list.value) /\ r.next = list.next /\ r.value.kind = "nodes"
        BY <1>2, <2>2
    <2> QED BY <1>1, <1>4, <2>1, <2>2, <2>3 DEF r, list
<1>5. CASE s[i].tag \in Binaries
    <2>1. r = Read(BytesContent(SubSeq(s[i].chars, 1, s[i].a)), i + 1)
        BY <1>1, <1>5, ContentCases
    <2> HIDE DEF r
    <2>2. r.next = i + 1 /\ r.value.kind = "bytes"
        BY <1>2, <2>1
    <2> QED BY <1>1, <1>5, <2>2 DEF r
<1>6. CASE s[i].tag \notin ListTags \cup Binaries
    <2>1. r = IF string.ok THEN Read(StringContent(string.value), string.next) ELSE Failed
        BY <1>1, <1>6, ContentCases
    <2> HIDE DEF r, string
    <2>2. string.ok /\ r = Read(StringContent(string.value), string.next)
        BY <1>3, <2>1, ReadIs
    <2>3. r.value = StringContent(string.value) /\ r.next = string.next /\ r.value.kind = "string"
        BY <1>2, <2>2
    <2> QED BY <1>1, <2>2, <2>3 DEF r, string
<1> QED BY <1>4, <1>5, <1>6

\* What is read as content weighs no less than what was written for it.
LEMMA ContentPays ==
    ASSUME NEW node \in Nodes, node.content # NoContent, \A k \in 1 .. Len(Kids(node)) : Pays(Kids(node)[k]),
           NEW s \in Seq(Symbols), NEW i \in 1 .. Len(s) + 1, ReadContent(s, i, Lists(s)).ok,
           ReadContent(s, i, Lists(s)).value = CanonicalContent(node.content, KidValues(node))
    PROVE  LET w == Total(WriteContent(node, KidParts(node)))
               j == ReadContent(s, i, Lists(s)).next
           IN /\ j \in 1 .. Len(s) + 1 /\ w \in Nat /\ w <= Cost(s, i, j) /\ Len(Kids(node)) < Byte * Byte
              /\ w = Cost(s, i, j) => /\ node.content.kind = "string" => Writable(node.content.string)
                                      /\ \A k \in 1 .. Len(Kids(node)) : WritableNode[Kids(node)[k]]
<1> DEFINE d == node.content
           e == WriteContent(node, KidParts(node))
           c == CanonicalContent(d, KidValues(node))
           r == ReadContent(s, i, Lists(s))
           list == Lists(s)[<<i + 1, s[i].a>>]
           string == ReadString(s, i)
           j == r.next
<1>1. /\ i \in 1 .. Len(s)
      /\ r.value.kind = "nodes" => /\ s[i].tag \in ListTags /\ s[i].a \in Nat /\ list.ok
                                   /\ r.value = Children(list.value) /\ j = list.next
      /\ r.value.kind = "bytes" => s[i].tag \in Binaries /\ j = i + 1
      /\ r.value.kind = "string" => string.ok /\ r.value = StringContent(string.value) /\ j = string.next
    BY ContentBack
<1>2. r.value = c
    OBVIOUS
<1>3. s[i] \in Symbols /\ Cost(s, i, i + 1) = WeightOf(s[i]) /\ i + 1 \in 1 .. Len(s) + 1 /\ i \in Nat \ {0}
    <2>1. i \in 1 .. Len(s)
        BY <1>1
    <2>2. s[i] \in Symbols /\ i + 1 \in 1 .. Len(s) + 1 /\ i \in Nat \ {0}
        BY <2>1
    <2>3. Cost(s, i, i + 1) = WeightOf(s[i])
        BY <2>1, WeightIs
    <2> QED BY <2>2, <2>3
<1>4. Byte * Byte \in Nat /\ 0 < Byte * Byte
    BY CodecAssumption
<1>5. d.kind # "nodes" => Len(Kids(node)) = 0
    BY DEF Kids
<1>6. \A v : Children(v).kind = "nodes" /\ StringContent(v).kind = "string" /\ BytesContent(v).kind = "bytes"
    BY DEF Children, StringContent, BytesContent
<1>7. s[i].tag \in Binaries => Cost(s, i, i + 1) = 2
    BY <1>3 DEF Binaries, WeightOf
<1> HIDE DEF j, r, e, c
<1>8. CASE d.kind = "string"
    <2> DEFINE t == d.string
    <2>1. t \in StringSet /\ e = WriteString(t)
          /\ c = IF IsJid(t) \/ Short(t) THEN StringContent(Canonical(t)) ELSE BytesContent(t.chars)
        BY <1>8, NodeParts, ContentIs DEF e, c
    <2> HIDE DEF t
    <2>2. Len(Kids(node)) = 0
        BY <1>5, <1>8
    <2>3. CASE IsJid(t) \/ Short(t)
        <3>1. r.value = StringContent(Canonical(t)) /\ r.value.kind = "string"
            BY <1>2, <1>6, <2>1, <2>3
        <3>2. string.ok /\ string.value = Canonical(t) /\ j = string.next
            BY <1>1, <3>1 DEF StringContent
        <3>3. /\ Total(WriteString(t)) \in Nat /\ Total(WriteString(t)) <= Cost(s, i, ReadString(s, i).next)
              /\ Total(WriteString(t)) = Cost(s, i, ReadString(s, i).next) => Writable(t)
            BY <1>3, <2>1, <3>2, StringPays
        <3>4. j \in 1 .. Len(s) + 1
            <4>1. ReadString(s, i).next \in (i + 1) .. Len(s) + 1
                BY <1>3, <3>2, StringCosts
            <4> QED BY <1>3, <3>2, <4>1
        <3> QED BY <1>4, <1>8, <2>1, <2>2, <3>2, <3>3, <3>4 DEF t, e, j, r
    <2>4. CASE ~IsJid(t) /\ ~Short(t)
        <3>1. r.value.kind = "bytes"
            BY <1>2, <1>6, <2>1, <2>4
        <3>2. j = i + 1 /\ Cost(s, i, j) = 2
            BY <1>1, <1>7, <3>1
        <3>3. t \in TextSet /\ e = WriteText(t)
            BY <2>1, <2>4, TextsAre DEF WriteString
        <3>4. Total(e) = IF t = Empty THEN 0 ELSE IF t \in Inherited THEN 1 ELSE 2
            BY <3>3, TextWeighs
        <3>5. Text(t.chars) = t
            BY <3>3, TextsAre
        <3>6. Total(e) = 2 => Writable(t)
            BY <2>1, <2>4, <3>4, <3>5, WritableIs
        <3>7. Total(e) \in Nat /\ Total(e) <= 2
            BY <3>4
        <3> QED BY <1>3, <1>4, <1>8, <2>2, <3>2, <3>6, <3>7 DEF t, e, j, r
    <2> QED BY <2>3, <2>4
<1>9. CASE d.kind = "bytes"
    <2>1. d.bytes \in Seq(STRING) /\ e = WriteBytes(d.bytes) /\ c = BytesContent(d.bytes)
        BY <1>9, NodeParts, ContentIs DEF e, c
    <2>2. PICK y \in Symbols : WriteBytes(d.bytes) = <<y>> /\ y.tag \in Binaries
        BY <2>1, BytesWritten
    <2>3. Total(e) = 2
        <3>1. WeightOf(y) = 2
            BY <2>2 DEF WeightOf, Binaries
        <3> QED BY <2>1, <2>2, <3>1, TotalOne
    <2>4. j = i + 1 /\ Cost(s, i, j) = 2
        BY <1>1, <1>2, <1>6, <1>7, <2>1
    <2>5. Len(Kids(node)) = 0 /\ d.kind # "string"
        BY <1>5, <1>9
    <2> QED BY <1>3, <1>4, <2>3, <2>4, <2>5 DEF e, j, r
<1>10. CASE d.kind = "nodes"
    <2> DEFINE n == Len(Kids(node))
               kp == KidParts(node)
               e1 == WriteListStart(n)
               e2 == Concat(kp)
               m == s[i].a
               x == i + 1
    <2>0. \A k \in DOMAIN Kids(node) : Kids(node)[k] \in EncodeSet
        BY EncodeTyped, KidsAreNodes
    <2>1. n \in Nat /\ Len(kp) = n /\ e2 \in Seq(Symbols)
        BY <2>0, PartsTyped, NodeParts
    <2>2. e = e1 \o e2 /\ c = Children(KidValues(node))
        BY <1>10, <2>1, ContentIs DEF e, c
    <2>3. PICK y \in Symbols : e1 = <<y>> /\ y.tag \in ListTags /\ (y.tag = "LIST_EMPTY" <=> n = 0)
        BY <2>1, ListStartWritten
    <2>4. e1 \in Seq(Symbols) /\ Total(e1) = WeightOf(y)
        BY <2>3, TotalOne
    <2>5. s[i].tag \in ListTags /\ m \in Nat /\ list.ok /\ j = list.next /\ list.value = KidValues(node)
        BY <1>1, <1>2, <1>6, <2>2 DEF Children
    <2> HIDE DEF m, x, e1, e2, n
    <2>6. /\ m = n /\ j \in 1 .. Len(s) + 1 /\ Total(e2) \in Nat /\ Total(e2) <= Cost(s, x, j)
          /\ Total(e2) = Cost(s, x, j) => \A k \in 1 .. n : WritableNode[Kids(node)[k]]
        <3>1. Lists(s)[<<x, m>>] = list
            BY DEF x, m
        <3>2. x \in 1 .. Len(s) + 1 /\ Lists(s)[<<x, m>>].ok /\ Lists(s)[<<x, m>>].value = KidValues(node) /\ j = Lists(s)[<<x, m>>].next
            BY <1>3, <2>5, <3>1 DEF x
        <3>3. /\ m = Len(Kids(node)) /\ Lists(s)[<<x, m>>].next \in 1 .. Len(s) + 1
              /\ Total(Concat(KidParts(node))) \in Nat
              /\ Total(Concat(KidParts(node))) <= Cost(s, x, Lists(s)[<<x, m>>].next)
              /\ Total(Concat(KidParts(node))) = Cost(s, x, Lists(s)[<<x, m>>].next) =>
                    \A k \in 1 .. Len(Kids(node)) : WritableNode[Kids(node)[k]]
            BY <2>5, <3>2, KidsPay
        <3> QED BY <3>2, <3>3 DEF n, e2
    <2>7. m < Byte * Byte /\ (s[i].tag = "LIST_EMPTY" => m = 0)
        <3>1. s[i].tag # "server"
            BY <2>5 DEF ListTags
        <3> QED BY <1>3, <2>5, <3>1 DEF Symbols, m
    <2>8. WeightOf(y) \in Nat /\ WeightOf(y) <= WeightOf(s[i]) /\ WeightOf(s[i]) \in Nat
        <3>1. \A z : z.tag \in ListTags => WeightOf(z) = IF z.tag = "LIST_EMPTY" THEN 1 ELSE 2
            BY DEF WeightOf, ListTags
        <3>2. WeightOf(y) = (IF n = 0 THEN 1 ELSE 2) /\ WeightOf(s[i]) = IF s[i].tag = "LIST_EMPTY" THEN 1 ELSE 2
            BY <2>3, <2>5, <3>1
        <3> QED BY <2>6, <2>7, <3>2
    <2>9. Total(e) = Total(e1) + Total(e2)
        BY <2>1, <2>2, <2>4, TotalSum DEF e2
    <2>10. Cost(s, i, j) = Cost(s, i, x) + Cost(s, x, j) /\ Cost(s, i, x) = WeightOf(s[i]) /\ Cost(s, x, j) \in Int
        BY <1>3, <2>6, WeightIs DEF x
    <2>11. Total(e) \in Nat /\ Total(e) <= Cost(s, i, j) /\ (Total(e) = Cost(s, i, j) => Total(e2) = Cost(s, x, j))
        BY <2>4, <2>6, <2>8, <2>9, <2>10
    <2>12. d.kind # "string"
        BY <1>10
    <2> QED BY <2>6, <2>7, <2>11, <2>12 DEF n, e, j, r
<1> QED BY <1>8, <1>9, <1>10, NodeParts

\* What is read as a node weighs no less than what was written for it.
LEMMA NodePays ==
    ASSUME NEW node \in Nodes, \A k \in 1 .. Len(Kids(node)) : Pays(Kids(node)[k])
    PROVE  Pays(node)
<1> DEFINE n == Len(node.attrs)
           m == ListSize(node)
           e1 == WriteListStart(m)
           e2 == WriteString(node.tag)
           e3 == Concat(AttrParts(node.attrs))
           e4 == WriteContent(node, KidParts(node))
           e == Encode[node]
           av == [k \in 1 .. n |-> CanonicalAttr(node.attrs[k])]
           kw == [k \in DOMAIN Kids(node) |-> WritableNode[Kids(node)[k]]]
<1>1. SUFFICES ASSUME NEW s \in Seq(Symbols), NEW i \in 1 .. Len(s) + 1, ReadNode(s, i, Lists(s)).ok,
                      ReadNode(s, i, Lists(s)).value = CanonicalNode[node]
               PROVE  /\ Total(e) <= Cost(s, i, ReadNode(s, i, Lists(s)).next)
                      /\ Total(e) = Cost(s, i, ReadNode(s, i, Lists(s)).next) => WritableNode[node]
    BY DEF Pays
<1> DEFINE r == ReadNode(s, i, Lists(s))
           j == i + 1
           tag == ReadString(s, j)
           k1 == tag.next
           a == s[i].a
           l == (a - 1) \div 2
           attrs == ReadAttrs(s, k1, l)
           k2 == attrs.next
           content == IF a % 2 = 0 THEN ReadContent(s, k2, Lists(s)) ELSE Read(NoContent, k2)
           k3 == content.next
\* The parts of what was read.
<1>2. /\ i <= Len(s) /\ s[i].tag \in ListTags /\ a \in Nat \ {0} /\ l \in Nat
      /\ tag.ok /\ tag.value # Empty /\ k1 \in (i + 2) .. Len(s) + 1
      /\ attrs.ok /\ k2 \in k1 .. Len(s) + 1 /\ content.ok
      /\ r = Read([tag |-> tag.value, attrs |-> attrs.value, content |-> content.value], k3)
    <2>1. NodeAt(s, i, Lists(s))
        BY <1>1, NodeCases, ReadIs
    <2> QED BY <2>1, Zenon DEF NodeAt
<1>3. CanonicalNode[node] = [tag |-> Canonical(node.tag), attrs |-> av, content |-> CanonicalContent(node.content, KidValues(node))]
    <2>1. CanonicalNode[node] = CanonicalWith(node, KidValues(node))
        BY TreesAre DEF KidValues
    <2>2. DOMAIN node.attrs = 1 .. n
        BY NodeParts
    <2>3. av = [k \in DOMAIN node.attrs |-> <<Canonical(node.attrs[k][1]), Canonical(node.attrs[k][2])>>]
        BY <2>2 DEF CanonicalAttr
    <2> QED BY <2>1, <2>3 DEF CanonicalWith
<1>4. tag.value = Canonical(node.tag) /\ attrs.value = av /\ content.value = CanonicalContent(node.content, KidValues(node)) /\ r.next = k3
    <2> HIDE DEF r, tag, attrs, content, av
    <2>1. r.value = [tag |-> tag.value, attrs |-> attrs.value, content |-> content.value] /\ r.next = k3
        BY <1>2, ReadIs
    <2>2. r.value = CanonicalNode[node]
        BY <1>1 DEF r
    <2> QED BY <1>3, <2>1, <2>2
<1>5. node.tag \in StringSet /\ node.attrs \in Seq(AttrSet) /\ n \in Nat
    BY NodeParts
<1>00. s[i] \in Symbols /\ i \in 1 .. Len(s) /\ Len(s) \in Nat
    <2>1. i \in 1 .. Len(s)
        BY <1>2
    <2> QED BY <2>1
<1>6. i \in 1 .. Len(s) + 1 /\ j \in 1 .. Len(s) + 1 /\ j \in Nat \ {0} /\ k1 \in 1 .. Len(s) + 1 /\ k2 \in 1 .. Len(s) + 1
    <2> HIDE DEF k1, k2
    <2> QED BY <1>2, <1>00
\* The tag.
<1>7. Total(e2) \in Nat /\ Total(e2) <= Cost(s, j, k1) /\ (Total(e2) = Cost(s, j, k1) => Writable(node.tag))
    <2> HIDE DEF j
    <2>1. tag.ok /\ tag.value = Canonical(node.tag)
        BY <1>2, <1>4
    <2> QED BY <1>5, <1>6, <2>1, StringPays
\* The attributes.
<1>8. /\ l = n /\ Total(e3) \in Nat /\ Total(e3) <= Cost(s, k1, k2)
      /\ Total(e3) = Cost(s, k1, k2) => \A k \in 1 .. n : Writable(node.attrs[k][1]) /\ Writable(node.attrs[k][2])
    <2> DEFINE at == node.attrs
    <2> HIDE DEF k1, l
    <2>1. ReadAttrs(s, k1, l).ok /\ ReadAttrs(s, k1, l).value = [k \in 1 .. Len(at) |-> CanonicalAttr(at[k])]
        BY <1>2, <1>4
    <2>2. at \in Seq(AttrSet) /\ l \in Nat
        BY <1>2, <1>5
    <2> HIDE DEF at
    <2>3. /\ l = Len(at) /\ Total(Concat(AttrParts(at))) \in Nat
          /\ Total(Concat(AttrParts(at))) <= Cost(s, k1, ReadAttrs(s, k1, l).next)
          /\ Total(Concat(AttrParts(at))) = Cost(s, k1, ReadAttrs(s, k1, l).next) =>
                \A k \in 1 .. Len(at) : Writable(at[k][1]) /\ Writable(at[k][2])
        BY <1>6, <2>1, <2>2, AttrsPay
    <2> QED BY <2>3 DEF at
<1> HIDE DEF n, m, e, e1, e2, e3, e4, av, kw, r, j, tag, k1, l, attrs, k2
\* The content, and the size that says whether there is one.
<1>9. a % 2 = 0 <=> node.content # NoContent
    <2>1. CASE a % 2 = 0
        <3>1. content = ReadContent(s, k2, Lists(s))
            BY <2>1
        <3>2. ReadContent(s, k2, Lists(s)).ok
            BY <1>2, <3>1
        <3>3. content.value.kind \in {"nodes", "bytes", "string"}
            <4> HIDE DEF content
            <4> QED BY <1>6, <3>1, <3>2, ContentBack
        <3>4. CanonicalContent(NoContent, KidValues(node)) = NoContent /\ NoContent.kind = "none"
            BY DEF CanonicalContent, NoContent
        <3>5. node.content # NoContent
            <4> HIDE DEF content
            <4> QED BY <1>4, <3>3, <3>4
        <3> QED BY <2>1, <3>5
    <2>2. CASE a % 2 # 0
        <3>1. CanonicalContent(node.content, KidValues(node)) = NoContent
            BY <1>4, <2>2, ReadIs
        <3>2. /\ node.content.kind = "string" =>
                    CanonicalContent(node.content, KidValues(node)).kind \in {"string", "bytes"}
              /\ node.content.kind = "bytes" => CanonicalContent(node.content, KidValues(node)).kind = "bytes"
              /\ node.content.kind = "nodes" => CanonicalContent(node.content, KidValues(node)).kind = "nodes"
            <4> DEFINE c == CanonicalContent(node.content, KidValues(node))
            <4>1. /\ node.content.kind = "string" => c = StringContent(Canonical(node.content.string)) \/ c = BytesContent(node.content.string.chars)
                  /\ node.content.kind = "bytes" => c = BytesContent(node.content.bytes)
                  /\ node.content.kind = "nodes" => c = Children(KidValues(node))
                BY ContentIs
            <4>2. \A v : Children(v).kind = "nodes" /\ StringContent(v).kind = "string" /\ BytesContent(v).kind = "bytes"
                BY DEF Children, StringContent, BytesContent
            <4> HIDE DEF c
            <4> QED BY <4>1, <4>2 DEF c
        <3>3. NoContent.kind = "none"
            BY DEF NoContent
        <3>4. node.content = NoContent
            BY <3>1, <3>2, <3>3, NodeParts
        <3> QED BY <2>2, <3>4
    <2> QED BY <2>1, <2>2
<1>10. /\ k3 \in 1 .. Len(s) + 1 /\ Total(e4) \in Nat /\ Total(e4) <= Cost(s, k2, k3) /\ Len(Kids(node)) < Byte * Byte
       /\ Total(e4) = Cost(s, k2, k3) => /\ node.content.kind = "string" => Writable(node.content.string)
                                         /\ \A k \in 1 .. Len(Kids(node)) : WritableNode[Kids(node)[k]]
    <2>1. CASE node.content # NoContent
        <3>1. content = ReadContent(s, k2, Lists(s)) /\ content.ok /\ content.value = CanonicalContent(node.content, KidValues(node))
            BY <1>2, <1>4, <1>9, <2>1
        <3> HIDE DEF content
        <3>2. ReadContent(s, k2, Lists(s)).ok /\ ReadContent(s, k2, Lists(s)).value = CanonicalContent(node.content, KidValues(node))
            BY <3>1
        <3> QED BY <1>6, <2>1, <3>1, <3>2, ContentPays DEF e4
    <2>2. CASE node.content = NoContent
        <3>1. k3 = k2
            BY <1>9, <2>2, ReadIs
        <3>2. node.content.kind = "none"
            BY <2>2 DEF NoContent
        <3>3. e4 = <<>>
            BY <3>2, ContentIs DEF e4
        <3>4. Kids(node) = <<>>
            BY <3>2 DEF Kids
        <3>5. Total(e4) = 0 /\ Cost(s, k2, k2) = 0
            BY <1>6, <3>3, TotalOne, WeightIs
        <3>6. Len(Kids(node)) = 0 /\ 0 < Byte * Byte
            BY <3>4, CodecAssumption
        <3> HIDE DEF k3
        <3> QED BY <1>6, <3>1, <3>2, <3>5, <3>6
    <2> QED BY <2>1, <2>2
<1> HIDE DEF content, k3
\* The size.
<1>11. a = m /\ m \in Nat \ {0} /\ m < Byte * Byte
    <2>1. m = 2 * n + 1 + (IF node.content = NoContent THEN 0 ELSE 1)
        BY DEF m, n, ListSize
    <2>2. a \in Nat \ {0} /\ (a - 1) \div 2 = n
        BY <1>2, <1>8 DEF l
    <2>3. a < Byte * Byte
        <3>1. s[i].tag # "server"
            BY <1>2 DEF ListTags
        <3> QED BY <1>2, <1>00, <3>1 DEF Symbols
    <2> HIDE DEF a
    <2>4. CASE node.content = NoContent
        <3>1. m = 2 * n + 1 /\ a % 2 # 0
            BY <1>5, <1>9, <2>1, <2>4
        <3>2. a = m
            BY <1>5, <2>2, <3>1
        <3> QED BY <2>2, <2>3, <3>2
    <2>5. CASE node.content # NoContent
        <3>1. m = 2 * n + 2 /\ a % 2 = 0
            BY <1>5, <1>9, <2>1, <2>5
        <3>2. a = m
            BY <1>5, <2>2, <3>1
        <3> QED BY <2>2, <2>3, <3>2
    <2> QED BY <2>4, <2>5
<1>12. Total(e1) = 2 /\ Cost(s, i, j) = 2 /\ e1 \in Seq(Symbols)
    <2>1. PICK y \in Symbols : e1 = <<y>> /\ y.tag \in ListTags /\ (y.tag = "LIST_EMPTY" <=> m = 0)
        BY <1>11, ListStartWritten DEF e1
    <2>2. WeightOf(y) = 2
        BY <1>11, <2>1 DEF WeightOf, ListTags
    <2>3. s[i].tag # "LIST_EMPTY"
        BY <1>2, <1>00 DEF Symbols, ListTags
    <2>4. WeightOf(s[i]) = 2
        BY <1>2, <2>3 DEF WeightOf, ListTags
    <2>5. Cost(s, i, i + 1) = WeightOf(s[i])
        BY <1>00, WeightIs
    <2> QED BY <2>1, <2>2, <2>4, <2>5, TotalOne DEF j
\* All of it.
<1> DEFINE e12 == e1 \o e2
           e123 == e12 \o e3
<1>13. e2 \in Seq(Symbols) /\ e3 \in Seq(Symbols) /\ e4 \in Seq(Symbols) /\ e12 \in Seq(Symbols) /\ e123 \in Seq(Symbols) /\ e = e123 \o e4
    <2>1. \A k \in DOMAIN Kids(node) : Kids(node)[k] \in EncodeSet
        BY EncodeTyped, KidsAreNodes
    <2>2. /\ Encode[node] = NodeStream(node) /\ WriteString(node.tag) \in Seq(Symbols) /\ Opening(node) \in Seq(Symbols)
          /\ Concat(AttrParts(node.attrs)) \in Seq(Symbols) /\ WriteContent(node, KidParts(node)) \in Seq(Symbols)
          /\ Opening(node) \o Concat(AttrParts(node.attrs)) \in Seq(Symbols)
        BY <2>1, EncodeParts
    <2> QED BY <2>2 DEF e, e1, e2, e3, e4, m, NodeStream, Opening
<1>14. e12 = e1 \o e2 /\ e123 = e12 \o e3
    OBVIOUS
<1> HIDE DEF e12, e123
<1>15. Total(e12) = Total(e1) + Total(e2)
    BY <1>12, <1>13, <1>14, TotalSum
<1>16. Total(e123) = Total(e12) + Total(e3)
    BY <1>13, <1>14, TotalSum
<1>17. Total(e) = Total(e123) + Total(e4)
    BY <1>13, TotalSum
<1>18. /\ Cost(s, i, k3) = Cost(s, i, j) + Cost(s, j, k3) /\ Cost(s, j, k3) = Cost(s, j, k1) + Cost(s, k1, k3)
       /\ Cost(s, k1, k3) = Cost(s, k1, k2) + Cost(s, k2, k3)
       /\ Cost(s, j, k1) \in Int /\ Cost(s, k1, k2) \in Int /\ Cost(s, k2, k3) \in Int
    BY <1>6, <1>10, WeightIs
<1> DEFINE w2 == Total(e2)
           w3 == Total(e3)
           w4 == Total(e4)
           c2 == Cost(s, j, k1)
           c3 == Cost(s, k1, k2)
           c4 == Cost(s, k2, k3)
           w == Total(e)
           c == Cost(s, i, k3)
<1>19. /\ w2 \in Nat /\ w3 \in Nat /\ w4 \in Nat /\ c2 \in Int /\ c3 \in Int /\ c4 \in Int
       /\ w2 <= c2 /\ w3 <= c3 /\ w4 <= c4 /\ w = ((2 + w2) + w3) + w4 /\ c = 2 + (c2 + (c3 + c4))
    BY <1>7, <1>8, <1>10, <1>12, <1>15, <1>16, <1>17, <1>18
<1> HIDE DEF w2, w3, w4, c2, c3, c4, w, c
<1>20. w <= c /\ (w = c => w2 = c2 /\ w3 = c3 /\ w4 = c4)
    BY <1>19
<1>21. ASSUME w = c PROVE WritableNode[node]
    <2>1. /\ Writable(node.tag) /\ (\A k \in 1 .. n : Writable(node.attrs[k][1]) /\ Writable(node.attrs[k][2]))
          /\ (node.content.kind = "string" => Writable(node.content.string))
          /\ \A k \in 1 .. Len(Kids(node)) : WritableNode[Kids(node)[k]]
        BY <1>7, <1>8, <1>10, <1>20, <1>21 DEF w2, w3, w4, c2, c3, c4
    <2>2. DOMAIN Kids(node) = 1 .. Len(Kids(node)) /\ Len(Kids(node)) \in Nat /\ DOMAIN node.attrs = 1 .. n
        BY KidsAreNodes, NodeParts DEF n
    <2>3. DOMAIN kw = 1 .. Len(Kids(node)) /\ \A k \in 1 .. Len(Kids(node)) : kw[k] = WritableNode[Kids(node)[k]]
        BY <2>2 DEF kw
    <2>4. Len(kw) = Len(Kids(node))
        <3> DEFINE h == Len(Kids(node))
        <3>1. kw = [k \in 1 .. h |-> WritableNode[Kids(node)[k]]] /\ h \in Nat
            BY <2>2 DEF kw
        <3> HIDE DEF h
        <3>2. Len(kw) = h
            BY <3>1
        <3> QED BY <3>2 DEF h
    <2>5. \A k \in DOMAIN kw : kw[k]
        BY <2>1, <2>3
    <2>6. ListSize(node) < Byte * Byte /\ Len(kw) < Byte * Byte
        BY <1>10, <1>11, <2>4 DEF m
    <2>7. WritableWith(node, kw)
        BY <2>1, <2>2, <2>5, <2>6 DEF WritableWith
    <2>8. WritableNode[node] = WritableWith(node, kw)
        BY TreesAre DEF kw
    <2> QED BY <2>7, <2>8
<1>22. r.next = k3
    BY <1>4
<1> QED BY <1>20, <1>21, <1>22 DEF w, c, r

\* It is so with every node.
LEMMA NodesPay ==
    \A node \in Nodes : Pays(node)
<1> DEFINE S == {node \in Nodes : Pays(node)}
<1>1. ASSUME NEW node \in Nodes, \A k \in DOMAIN Kids(node) : Kids(node)[k] \in S PROVE node \in S
    <2>1. DOMAIN Kids(node) = 1 .. Len(Kids(node))
        BY KidsAreNodes
    <2> QED BY <1>1, <2>1, NodePays
<1>2. Hereditary(S)
    BY <1>1 DEF Hereditary
<1> HIDE DEF S
<1>3. Nodes \subseteq S
    BY <1>2, Heredity
<1> QED BY <1>3 DEF S

\* What is written for a node is read as that node to its end just when it can be written.
LEMMA DecodeIs ==
    ASSUME NEW node \in Nodes
    PROVE  Encode[node] # <<>> /\ (Decode(Encode[node]) = Read(CanonicalNode[node], Len(Encode[node]) + 1) <=> WritableNode[node])
<1> DEFINE e == Encode[node]
           one == 1
           r == ReadNode(e, one, Lists(e))
<1>1. e \in Seq(Symbols) /\ e # <<>>
    <2>1. \A k \in DOMAIN Kids(node) : Kids(node)[k] \in EncodeSet
        BY EncodeTyped, KidsAreNodes
    <2> QED BY <2>1, EncodeParts
<1>2. Decode(e) = r
    BY <1>1, ListsAre
<1> HIDE DEF e
<1>3. one \in Nat \ {0} /\ one \in 1 .. Len(e) + 1 /\ Holds(e, one, e)
    <2>1. Len(e) \in Nat /\ 1 + Len(e) <= Len(e) + 1 /\ \A k \in 1 .. Len(e) : 1 + k - 1 = k
        BY <1>1
    <2> QED BY <2>1 DEF Holds
<1>4. Cost(e, one, Len(e) + 1) = Total(e)
    BY <1>1, WeightIs
<1>5. one + Len(e) = Len(e) + 1
    BY <1>1
<1> HIDE DEF one
<1>6. ASSUME WritableNode[node] PROVE r = Read(CanonicalNode[node], Len(e) + 1)
    <2>1. Comes(node)
        BY <1>6, WritableComes
    <2>2. ReadNode(e, one, Lists(e)) = Read(CanonicalNode[node], one + Len(e))
        BY <1>1, <1>3, <2>1 DEF Comes, e
    <2> QED BY <1>5, <2>2
<1>7. ASSUME r = Read(CanonicalNode[node], Len(e) + 1) PROVE WritableNode[node]
    <2>1. Pays(node)
        BY NodesPay
    <2>2. r.ok /\ r.value = CanonicalNode[node] /\ r.next = Len(e) + 1
        BY <1>7, ReadIs
    <2>3. Total(Encode[node]) = Cost(e, one, r.next)
        BY <1>4, <2>2 DEF e
    <2> QED BY <1>1, <1>3, <2>1, <2>2, <2>3 DEF Pays
<1> QED BY <1>1, <1>2, <1>6, <1>7 DEF e

\* The stream is what was written for the node, and what was read is read from it.
CodecInv ==
    /\ sent \in Nodes \cup {Number}
    /\ sent = Number => wire = <<>>
    /\ sent # Number => wire = <<>> \/ wire = Encode[sent]
    /\ sent # Number /\ wire = <<>> => got = Decode(Encode[sent])

\* Nodes of lib/binary-node.js: a node is read as it was, to the last symbol of the stream,
\* just when all of its strings can be written and its sizes fit into two bytes.
THEOREM NodesAreRead ==
    CodecSpec => []NodesComeBack
<1>0. Number \notin Nodes
    <2>4. "attrs" \notin DOMAIN Number
        BY DEF Number, Symbol
    <2>5. \A node \in Nodes : "attrs" \in DOMAIN node
        <3>1. ASSUME NEW node \in Nodes PROVE "attrs" \in DOMAIN node
            <4>1. PICK d \in 1 .. Len(Levels) : node \in Levels[d]
                BY CodecAssumption DEF Nodes
            <4>2. node \in [tag : StringSet, attrs : Seq(AttrSet), content : ContentSet(d)]
                BY <4>1, NodeTyped
            <4> QED BY <4>2
        <3> QED BY <3>1
    <2> QED BY <2>4, <2>5
<1>1. CodecInit => CodecInv
    BY DEF CodecInit, CodecInv
<1>2. CodecInv /\ [CodecNext]_codecVars => CodecInv'
    <2> SUFFICES ASSUME CodecInv, [CodecNext]_codecVars PROVE CodecInv'
        OBVIOUS
    <2>1. ASSUME NEW node \in Nodes, EncodeNode(node) PROVE CodecInv'
        <3>1. sent' = node /\ wire' = Encode[node]
            BY <2>1 DEF EncodeNode
        <3>2. Encode[node] # <<>> /\ node # Number
            BY <1>0, DecodeIs
        <3> QED BY <3>1, <3>2 DEF CodecInv
    <2>2. CASE DecodeNode
        <3>1. wire # <<>> /\ got' = Decode(wire) /\ wire' = <<>> /\ sent' = sent
            BY <2>2 DEF DecodeNode
        <3>2. sent # Number /\ wire = Encode[sent]
            BY <3>1 DEF CodecInv
        <3> QED BY <3>1, <3>2 DEF CodecInv
    <2>3. CASE UNCHANGED codecVars
        BY <2>3 DEF CodecInv, codecVars
    <2> QED BY <2>1, <2>2, <2>3 DEF CodecNext
<1>3. CodecInv => NodesComeBack
    <2> SUFFICES ASSUME CodecInv, sent # Number, wire = <<>>
                 PROVE  got = Read(CanonicalNode[sent], Len(Encode[sent]) + 1) <=> WritableNode[sent]
        BY DEF NodesComeBack
    <2>1. sent \in Nodes /\ got = Decode(Encode[sent])
        BY DEF CodecInv
    <2> QED BY <2>1, DecodeIs
<1> QED BY <1>1, <1>2, <1>3, PTL DEF CodecSpec

\* What is written, to the server or to the store, is what is read again, for any nodes
\* and any session records.
THEOREM WrittenIsRead ==
    CodecSpec /\ RecordSpec => []WrittenComesBack
BY NodesAreRead, SessionsComeBack, PTL DEF WrittenComesBack
=============================================================================
