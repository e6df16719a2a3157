----------------------------- MODULE AuthFiles -----------------------------
(***************************************************************************)
(* One file of useMultiFileAuthState in lib/auth-state.js.  Nothing keeps  *)
(* two writes of the file apart: each writes what it serialised when it    *)
(* was called to a temporary file, named for the millisecond, and renames  *)
(* that.  The process may crash and start anew.                            *)
(***************************************************************************)
EXTENDS Integers, FiniteSets

CONSTANTS Saves,       \* the calls of writeData and removeData, each with its own data
          NoFile, Torn,
          MaxMillis,   \* bound: the clock
          MaxCrashes   \* bound

ASSUME AuthFilesAssumption ==
    {NoFile, Torn} \cap Saves = {} /\ NoFile # Torn /\ MaxMillis \in Nat /\ MaxCrashes \in Nat

VARIABLES file,     \* what the file holds
          tmp,      \* tmp[i]: the temporary file of millisecond i
          save,     \* save[s]: how far the call is, and its millisecond
          before,   \* before[s]: the calls that had succeeded when s was made
          millis,
          shared,   \* two calls had one temporary file
          crashes

fileVars == <<file, tmp, save, before, millis, shared, crashes>>

Content == Saves \cup {NoFile, Torn}
Stamps == 0..MaxMillis
UsesTmp(s) == save[s].pc \in {"called", "opened", "written"}
HasTmp(s) == UsesTmp(s) \/ save[s].pc = "cleanup"
Running(s) == HasTmp(s) \/ save[s].pc = "unlink"

\* Plausible bug: the caller does not await the rename.
Succeeded_Early(s) == save[s].pc \in {"written", "ok", "removed"}

Succeeded(s) == save[s].pc \in {"ok", "removed"}

FileInit ==
    /\ file = NoFile
    /\ tmp = [i \in Stamps |-> NoFile]
    /\ save = [s \in Saves |-> [pc |-> "new", at |-> 0]]
    /\ before = [s \in Saves |-> {}]
    /\ millis = 0 /\ shared = FALSE /\ crashes = 0

\* writeData(value, file), or removeData(file): all up to the first await.
SaveCalled(s, removes) ==
    /\ save[s].pc = "new"
    /\ save' = [save EXCEPT ![s] = [pc |-> IF removes THEN "unlink" ELSE "called", at |-> millis]]
    /\ before' = [before EXCEPT ![s] = {r \in Saves : Succeeded(r)}]
    /\ shared' = (shared \/ (~removes /\ \E r \in Saves : HasTmp(r) /\ save[r].at = millis))
    /\ UNCHANGED <<file, tmp, millis, crashes>>

\* Plausible bug: the file itself is written.
SaveOpened_InPlace(s) ==
    /\ file' = Torn
    /\ UNCHANGED tmp

\* writeFile opens the temporary file, which empties it, and then writes it.
SaveOpened(s) ==
    /\ tmp' = [tmp EXCEPT ![save[s].at] = Torn]
    /\ UNCHANGED file

SaveOpen(s) ==
    /\ save[s].pc = "called"
    /\ SaveOpened(s)
    /\ save' = [save EXCEPT ![s].pc = "opened"]
    /\ UNCHANGED <<before, millis, shared, crashes>>

\* Where another call has the same temporary file, what comes out may be a
\* mixture, and may go to a file that has been renamed meanwhile.
SaveWritten(s) ==
    /\ save[s].pc = "opened"
    /\ save' = [save EXCEPT ![s].pc = "written"]
    /\ IF ~shared
       THEN tmp' = [tmp EXCEPT ![save[s].at] = s] /\ UNCHANGED file
       ELSE \E c \in {s, Torn} :
               \/ tmp[save[s].at] # NoFile /\ tmp' = [tmp EXCEPT ![save[s].at] = c] /\ UNCHANGED file
               \/ file' = c /\ UNCHANGED tmp
    /\ UNCHANGED <<before, millis, shared, crashes>>

SaveRenamed(s) ==
    /\ save[s].pc = "written"
    /\ IF tmp[save[s].at] = NoFile
       THEN save' = [save EXCEPT ![s].pc = "cleanup"] /\ UNCHANGED <<file, tmp>>
       ELSE /\ file' = tmp[save[s].at]
            /\ tmp' = [tmp EXCEPT ![save[s].at] = NoFile]
            /\ save' = [save EXCEPT ![s].pc = "ok"]
    /\ UNCHANGED <<before, millis, shared, crashes>>

\* The disk is full, the folder is gone: before or after a part was written.
SaveFails(s) ==
    /\ UsesTmp(s)
    /\ save' = [save EXCEPT ![s].pc = "cleanup"]
    /\ UNCHANGED <<file, tmp, before, millis, shared, crashes>>

Cleaned(s) == tmp' = [tmp EXCEPT ![save[s].at] = NoFile]

SaveCleanup(s) ==
    /\ save[s].pc = "cleanup"
    /\ Cleaned(s)
    /\ save' = [save EXCEPT ![s].pc = "err"]
    /\ UNCHANGED <<file, before, millis, shared, crashes>>

\* removeData does not mind that there is no file.
FileRemoved(s) ==
    /\ save[s].pc = "unlink"
    /\ file' = NoFile
    /\ save' = [save EXCEPT ![s].pc = "removed"]
    /\ UNCHANGED <<tmp, before, millis, shared, crashes>>

Crash ==
    /\ crashes < MaxCrashes
    /\ crashes' = crashes + 1
    /\ save' = [s \in Saves |-> IF Running(s) THEN [save[s] EXCEPT !.pc = "err"] ELSE save[s]]
    /\ UNCHANGED <<file, tmp, before, millis, shared>>

Tick ==
    /\ millis < MaxMillis
    /\ millis' = millis + 1
    /\ UNCHANGED <<file, tmp, save, before, shared, crashes>>

FileNext ==
    \/ \E s \in Saves, removes \in BOOLEAN : SaveCalled(s, removes)
    \/ \E s \in Saves : SaveOpen(s)
    \/ \E s \in Saves : SaveWritten(s)
    \/ \E s \in Saves : SaveRenamed(s)
    \/ \E s \in Saves : SaveFails(s)
    \/ \E s \in Saves : SaveCleanup(s)
    \/ \E s \in Saves : FileRemoved(s)
    \/ Crash
    \/ Tick

FileSpec == FileInit /\ [][FileNext]_fileVars
-----------------------------------------------------------------------------
\* Whenever the process dies, what it finds when it starts anew is the whole
\* of what some call wrote; unless two calls shared a millisecond.
NeverTorn == file # Torn \/ shared

\* The data of a call that succeeded is not covered by that of a call made
\* before it that was no longer running when it was made: the file holds the
\* last data, or that of a call that overlapped with it.
Superseded(s) == \E r \in Saves : Succeeded(r) /\ s \in before[r]

NoSaveUndone ==
    /\ file \in Saves => ~Superseded(file)
    /\ file = NoFile => \/ \A s \in Saves : save[s].pc # "ok"
                        \/ \E s \in Saves : save[s].pc = "removed" /\ ~Superseded(s)

\* What a restart finds: the credentials as some call wrote them, and no older
\* ones than the last call that succeeded alone.
FilesSound == NeverTorn /\ NoSaveUndone
=============================================================================
