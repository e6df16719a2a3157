---------------------------- MODULE MediaUpload ----------------------------
(***************************************************************************)
(* Uploads of media: encryptAndUploadMedia of lib/messages-send.js, over   *)
(* encryptedStream and waUploadToServer of lib/messages-media.js and the   *)
(* media connection that refreshMediaConn keeps for all of them.  An       *)
(* upload encrypts its source into a temporary file, whose writes nobody   *)
(* waits for, and offers that file to one host after the other.  An        *)
(* authorization is known by the fetch it came with.                       *)
(***************************************************************************)
EXTENDS Integers, Sequences

CONSTANTS Uploads,
          Hosts,       \* how many hosts the server names
          Pieces,      \* how many pieces a source comes in
          MaxFetches   \* bound: fetches of the media connection

ASSUME UploadAssumption == Hosts \in Nat /\ Pieces \in Nat /\ MaxFetches \in Nat

VARIABLES fetches,           \* the fetches of the media connection: "asked", "answered", "failed"
          mediaConn,         \* the fetch that mediaConn is of, 0 for none
          expired,           \* whether mediaConn is older than ten minutes
          mediaConnPromise,  \* the fetch it stands for, 0 for none
          upload,            \* where each upload is
          tmpFile,           \* its temporary file: "none", "there", "removed"
          encrypted,         \* how many pieces were encrypted
          flushed,           \* how many of them are in the file
          fetch,             \* the fetch it waits for, 0 for none
          auth,              \* the fetch its authorization is of
          host,              \* the host it tries
          refusedAt          \* how many fetches there were at its last refusal

uploadVars == <<fetches, mediaConn, expired, mediaConnPromise, upload, tmpFile, encrypted, flushed, fetch, auth, host, refusedAt>>
mediaConnVars == <<fetches, mediaConn, expired, mediaConnPromise>>
fileVars == <<tmpFile, encrypted, flushed>>

NotRefused == -1

UploadInit ==
    /\ fetches = <<>> /\ mediaConn = 0 /\ expired = FALSE /\ mediaConnPromise = 0
    /\ upload = [u \in Uploads |-> "none"]
    /\ tmpFile = [u \in Uploads |-> "none"]
    /\ encrypted = [u \in Uploads |-> 0] /\ flushed = [u \in Uploads |-> 0]
    /\ fetch = [u \in Uploads |-> 0] /\ auth = [u \in Uploads |-> 0]
    /\ host = [u \in Uploads |-> 0] /\ refusedAt = [u \in Uploads |-> NotRefused]

Moves(u, to) == upload' = [upload EXCEPT ![u] = to]

\* getStream and createWriteStream.
Encrypts(u) ==
    /\ upload[u] = "none"
    /\ Moves(u, "encrypting")
    /\ UNCHANGED <<mediaConnVars, fileVars, fetch, auth, host, refusedAt>>

EncryptsPiece(u) ==
    /\ upload[u] = "encrypting" /\ encrypted[u] < Pieces
    /\ encrypted' = [encrypted EXCEPT ![u] = @ + 1]
    /\ UNCHANGED <<mediaConnVars, upload, tmpFile, flushed, fetch, auth, host, refusedAt>>

\* The source breaks, or is longer than it may be: the file is removed, if it is
\* there by now.
SourceFails(u) ==
    /\ upload[u] = "encrypting"
    /\ Moves(u, "broken")
    /\ tmpFile' = [tmpFile EXCEPT ![u] = IF @ = "there" THEN "removed" ELSE @]
    /\ UNCHANGED <<mediaConnVars, encrypted, flushed, fetch, auth, host, refusedAt>>

\* The file is opened and written in the background; what a destroyed stream had
\* asked for before, the opening, is done all the same.
Opened(u) ==
    /\ upload[u] # "none" /\ tmpFile[u] = "none"
    /\ tmpFile' = [tmpFile EXCEPT ![u] = "there"]
    /\ UNCHANGED <<mediaConnVars, upload, encrypted, flushed, fetch, auth, host, refusedAt>>

FlushesPiece(u) ==
    /\ tmpFile[u] = "there" /\ flushed[u] < encrypted[u] /\ upload[u] # "broken"
    /\ flushed' = [flushed EXCEPT ![u] = @ + 1]
    /\ UNCHANGED <<mediaConnVars, upload, tmpFile, encrypted, fetch, auth, host, refusedAt>>
-----------------------------------------------------------------------------
\* refreshMediaConn: the connection that is there, or the fetch that is to bring
\* one.  A fetch that was made before is never forgotten, whatever became of it.
RefreshMediaConn(u, forceGet) ==
    IF mediaConn = 0 \/ forceGet \/ expired
    THEN /\ IF mediaConnPromise = 0 \/ forceGet
            THEN /\ Len(fetches) < MaxFetches
                 /\ fetches' = Append(fetches, "asked")
                 /\ mediaConnPromise' = Len(fetches')
            ELSE UNCHANGED <<fetches, mediaConnPromise>>
         /\ fetch' = [fetch EXCEPT ![u] = mediaConnPromise']
         /\ UNCHANGED auth
    ELSE /\ auth' = [auth EXCEPT ![u] = mediaConn]
         /\ UNCHANGED <<fetches, mediaConnPromise, fetch>>

\* The encryption ends and the upload begins: only the end of the writes is asked
\* for.
EncryptionEnds(u) ==
    /\ upload[u] = "encrypting" /\ encrypted[u] = Pieces
    /\ RefreshMediaConn(u, FALSE)
    /\ IF fetch'[u] # 0
       THEN Moves(u, "connecting") /\ UNCHANGED host
       ELSE Moves(u, "offering") /\ host' = [host EXCEPT ![u] = 1]
    /\ UNCHANGED <<mediaConn, expired, fileVars, refusedAt>>

FetchEnds(f, ok) ==
    /\ fetches[f] = "asked"
    /\ fetches' = [fetches EXCEPT ![f] = IF ok THEN "answered" ELSE "failed"]
    /\ IF ok THEN mediaConn' = f /\ expired' = FALSE ELSE UNCHANGED <<mediaConn, expired>>
    /\ UNCHANGED <<mediaConnPromise, upload, fileVars, fetch, auth, host, refusedAt>>

\* Ten minutes go by.
Expires ==
    /\ mediaConn # 0 /\ ~expired
    /\ expired' = TRUE
    /\ UNCHANGED <<fetches, mediaConn, mediaConnPromise, upload, fileVars, fetch, auth, host, refusedAt>>

\* The next host; an upload that no host took fails, and leaves its file.
NextHost(u) ==
    IF host[u] < Hosts
    THEN Moves(u, "offering") /\ host' = [host EXCEPT ![u] = @ + 1]
    ELSE Moves(u, "failed") /\ UNCHANGED host

\* The first fetch gives the authorization, or its failure is that of the upload.
Connected(u) ==
    /\ upload[u] = "connecting" /\ fetches[fetch[u]] # "asked"
    /\ fetch' = [fetch EXCEPT ![u] = 0]
    /\ IF fetches[fetch[u]] = "answered"
       THEN /\ auth' = [auth EXCEPT ![u] = fetch[u]]
            /\ Moves(u, "offering") /\ host' = [host EXCEPT ![u] = 1]
       ELSE /\ Moves(u, "failed")
            /\ UNCHANGED <<auth, host>>
    /\ UNCHANGED <<mediaConnVars, fileVars, refusedAt>>

\* What is in the file by now is read and posted.
Offers(u) ==
    /\ upload[u] = "offering" /\ tmpFile[u] = "there"
    /\ Moves(u, IF flushed[u] = Pieces THEN "posted" ELSE "short")
    /\ UNCHANGED <<mediaConnVars, fileVars, fetch, auth, host, refusedAt>>

\* The file is not there yet, the host is out of reach, or it does not answer.
HostFails(u) ==
    /\ upload[u] \in {"offering", "posted", "short"}
    /\ upload[u] = "offering" => tmpFile[u] # "there"
    /\ NextHost(u)
    /\ UNCHANGED <<mediaConnVars, fileVars, fetch, auth, refusedAt>>

\* The name of the file in the url is its hash: a host takes whole files.
HostTakes(u) ==
    /\ upload[u] = "posted"
    /\ Moves(u, "done")
    /\ tmpFile' = [tmpFile EXCEPT ![u] = "removed"]
    /\ UNCHANGED <<mediaConnVars, encrypted, flushed, fetch, auth, host, refusedAt>>

HostRefuses(u) ==
    /\ upload[u] \in {"posted", "short"}
    /\ Moves(u, "renewing")
    /\ RefreshMediaConn(u, TRUE)
    /\ refusedAt' = [refusedAt EXCEPT ![u] = Len(fetches)]
    /\ UNCHANGED <<mediaConn, expired, fileVars, host>>

\* Plausible bug: the renewed connection is waited for and forgotten.
Renewed_Forgotten(u) ==
    /\ upload[u] = "renewing" /\ fetches[fetch[u]] # "asked"
    /\ fetch' = [fetch EXCEPT ![u] = 0]
    /\ NextHost(u)
    /\ UNCHANGED <<mediaConnVars, fileVars, auth, refusedAt>>

Renewed(u) ==
    /\ upload[u] = "renewing" /\ fetches[fetch[u]] # "asked"
    /\ fetch' = [fetch EXCEPT ![u] = 0]
    /\ auth' = [auth EXCEPT ![u] = IF fetches[fetch[u]] = "answered" THEN fetch[u] ELSE @]
    /\ NextHost(u)
    /\ UNCHANGED <<mediaConnVars, fileVars, refusedAt>>

UploadNext ==
    \/ \E u \in Uploads :
        \/ Encrypts(u) \/ EncryptsPiece(u) \/ SourceFails(u) \/ Opened(u) \/ FlushesPiece(u) \/ EncryptionEnds(u)
        \/ Connected(u) \/ Offers(u) \/ HostFails(u) \/ HostTakes(u) \/ HostRefuses(u) \/ Renewed(u)
    \/ \E f \in DOMAIN fetches, ok \in BOOLEAN : FetchEnds(f, ok)
    \/ Expires

UploadSpec == UploadInit /\ [][UploadNext]_uploadVars
-----------------------------------------------------------------------------
\* Once a host has refused an upload, whatever other uploads have fetched
\* meanwhile, it goes to the next host with an authorization that was asked for
\* after the refusal, unless that very fetch failed.  And an upload that is done
\* leaves no file behind, and its host got all of it.
UploadsRenewed ==
    \A u \in Uploads :
        /\ upload[u] \in {"offering", "posted", "short"} /\ refusedAt[u] # NotRefused =>
            \/ auth[u] > refusedAt[u]
            \/ fetches[refusedAt[u] + 1] = "failed"
        /\ upload[u] = "done" => tmpFile[u] = "removed" /\ flushed[u] = Pieces
=============================================================================
