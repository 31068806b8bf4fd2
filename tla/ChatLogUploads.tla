--------------------------- MODULE ChatLogUploads ---------------------------
(***************************************************************************)
(* How a chat-log package gets into the database and out again.  A client  *)
(* reserves its size with start, sends the parts of the file one request   *)
(* at a time, and then asks for the staged parts to be read back, checked  *)
(* in a validator process and stored as the package of a claim             *)
(* (src/submission_api/trajectory_uploads.py, trajectory_quota.py,         *)
(* trajectory_validation.py, trajectory_storage.py and the routes of       *)
(* routers/trajectories.py that call them).  Requests of one account may   *)
(* run at the same time, in two workers; a package can be replaced or      *)
(* cleared while somebody downloads it.                                    *)
(*                                                                         *)
(* A file is a sequence of parts; one part stands for CHUNK_BYTES.  The    *)
(* digest of a package is its content.  What each route demands of the     *)
(* claim's review state is left to ChatLogClaims, and the request rate     *)
(* limiters, which only refuse, are left out.                              *)
(***************************************************************************)
EXTENDS Naturals, Sequences, FiniteSets, Functions

CONSTANTS
    Accounts,      \* contributors
    LogRequests,   \* requests in progress, each in a worker of its own
    LogClaims,     \* claims, each with at most one package
    ClaimOwner,    \* [LogClaims -> Accounts]
    PartAt,        \* what the k-th part of a file can hold; its length bounds a file
    InlineParts,   \* INLINE_BYTES: packages up to this size are one field
    AccountParts,  \* ACCOUNT_BYTES
    GlobalParts,   \* GLOBAL_BYTES
    MaxPending,    \* MAX_PENDING_UPLOADS
    StoredBefore,  \* the packages, or <<>> for none, a claim may start with
    MaxUploads,    \* bound: uploads ever started
    MaxStored,     \* bound: packages ever stored
    MaxDownloads   \* bound: downloads ever begun

NoAccount == "nobody"
MaxParts == Len(PartAt)
PackageFiles(n) == {f \in UNION {[1 .. k -> UNION Range(PartAt)] : k \in 1 .. n} :
                \A k \in DOMAIN f : f[k] \in PartAt[k]}

ASSUME LogBounds == /\ {InlineParts, AccountParts, GlobalParts} \subseteq Nat
                    /\ {MaxPending, MaxUploads, MaxStored, MaxDownloads} \subseteq Nat
                    /\ IsFiniteSet(LogClaims) /\ ClaimOwner \in [LogClaims -> Accounts]
                    /\ PartAt \in Seq(Range(PartAt))
                    /\ NoAccount \notin LogRequests
                    /\ StoredBefore \subseteq PackageFiles(MaxParts) \cup {<<>>}

VARIABLES
    logUploads,    \* trajectory_uploads with their chunks, by number
    packages,   \* the package columns and chunk rows of each claim
    admissionLock,  \* who holds the admission lock of trajectory_quota
    requests,   \* what each request is doing
    validator,  \* the child process of each request
    download,   \* the download in progress
    stored,     \* packages stored so far
    downloads   \* downloads begun so far

uploadVars == <<logUploads, packages, admissionLock, requests, validator, download, stored, downloads>>

Nothing == [at |-> "idle"]
Started == DOMAIN logUploads
NoUpload == [account |-> "", size |-> 0, parts |-> <<>>, expired |-> FALSE, acknowledged |-> {}]
Present == {u \in Started : logUploads[u] # NoUpload}

(* A package small enough to be one field is not chunked. *)
Chunked(file) == Len(file) > InlineParts
Package(file) == [content |-> file, chunked |-> Chunked(file), digest |-> file]

----------------------------------------------------------------------------
(* Admission: staged uploads reserve the size they declared, stored       *)
(* packages count with the size they have.  The lock is tried once and    *)
(* held until the transaction ends.                                       *)

UsedBy(accounts, leftOut, replaced) ==
    SumFunctionOnSet([u \in Started |-> logUploads[u].size],
                     {u \in Present \ leftOut : logUploads[u].account \in accounts})
    + SumFunctionOnSet([c \in LogClaims |-> Len(packages[c].content)],
                       {c \in LogClaims \ replaced : ClaimOwner[c] \in accounts})

Fits(a, n, leftOut, replaced) ==
    /\ UsedBy({a}, leftOut, replaced) + n <= AccountParts
    /\ UsedBy(Accounts, leftOut, replaced) + n <= GlobalParts

UploadsInit ==
    /\ logUploads = <<>>
    /\ \E before \in [LogClaims -> StoredBefore] : packages = [c \in LogClaims |-> Package(before[c])]
    /\ \A a \in Accounts : Fits(a, 0, {}, {})  \* these packages were admitted too
    /\ admissionLock = NoAccount
    /\ requests = [q \in LogRequests |-> Nothing]
    /\ validator = [q \in LogRequests |-> "none"]
    /\ download = Nothing
    /\ stored = 0
    /\ downloads = 0

LockFree(q) == admissionLock = NoAccount

check_capacity(q, a, n, leftOut, replaced) ==
    /\ LockFree(q)
    /\ Fits(a, n, leftOut, replaced)
    /\ admissionLock' = q

(* start deletes the expired uploads and the account's own one, counts    *)
(* what is left and reserves the declared size.                           *)
Superseded(a) == {u \in Present : logUploads[u].expired \/ logUploads[u].account = a}

start_upload(q, a, n) ==
    /\ requests[q] = Nothing
    /\ Len(logUploads) < MaxUploads
    /\ Cardinality(Present \ Superseded(a)) < MaxPending
    /\ check_capacity(q, a, n, Superseded(a), {})
    /\ requests' = [requests EXCEPT ![q] = [at |-> "starting", account |-> a, size |-> n,
                                            gone |-> Superseded(a)]]
    /\ UNCHANGED <<logUploads, packages, validator, download, stored, downloads>>

Gone(us) == [u \in Started |-> IF u \in us THEN NoUpload ELSE logUploads[u]]

started(q) ==
    /\ requests[q].at = "starting"
    /\ Len(logUploads) < MaxUploads
    /\ logUploads' = Append(Gone(requests[q].gone),
                         [account |-> requests[q].account, size |-> requests[q].size, parts |-> <<>>,
                          expired |-> FALSE, acknowledged |-> {}])
    /\ admissionLock' = NoAccount
    /\ requests' = [requests EXCEPT ![q] = Nothing]
    /\ UNCHANGED <<packages, validator, download, stored, downloads>>

----------------------------------------------------------------------------
(* The parts.  upload_part looks for the upload, reads the body without a *)
(* transaction, and append looks again under the row lock.                *)

owned(u, a) == u \in Present /\ logUploads[u].account = a /\ ~logUploads[u].expired

upload_part(q, u, k, p) ==
    /\ requests[q] = Nothing
    /\ u \in Present /\ owned(u, logUploads[u].account)
    /\ k \in 1 .. logUploads[u].size
    /\ requests' = [requests EXCEPT ![q] = [at |-> "part", account |-> logUploads[u].account,
                                            upload |-> u, offset |-> k, data |-> p]]
    /\ UNCHANGED <<logUploads, packages, admissionLock, validator, download, stored, downloads>>

(* A resend is acknowledged whatever it holds. *)
resent_anything(have, k, p) == k <= Len(have)

(* A part already there is acknowledged only when it is the same part.    *)
resent(have, k, p) == k <= Len(have) /\ have[k] = p

append(q) ==
    LET r == requests[q]  u == r.upload
    IN  /\ r.at = "part"
        /\ requests' = [requests EXCEPT ![q] = Nothing]
        /\ IF /\ owned(u, r.account)
              /\ resent(logUploads[u].parts, r.offset, r.data) \/ r.offset = Len(logUploads[u].parts) + 1
           THEN logUploads' = [logUploads EXCEPT
                              ![u].parts = IF r.offset > Len(@) THEN Append(@, r.data) ELSE @,
                              ![u].acknowledged = @ \union {<<r.offset, r.data>>}]
           ELSE UNCHANGED logUploads
        /\ UNCHANGED <<packages, admissionLock, validator, download, stored, downloads>>

----------------------------------------------------------------------------
(* The package: read back under the row lock (or taken from the body when *)
(* it is small), checked by a child process without any lock, and saved   *)
(* for a claim of the account under the admission lock.                   *)

(* A small package is read into memory and loses the number of its upload *)
(* (see save).                                                            *)
read(q, c) ==
    /\ requests[q] = Nothing
    /\ stored < MaxStored
    /\ \/ \E u \in Present :
            /\ owned(u, ClaimOwner[c]) /\ Len(logUploads[u].parts) = logUploads[u].size
            /\ requests' = [requests EXCEPT ![q] =
                 [at |-> "validating", claim |-> c, raw |-> logUploads[u].parts, upload |-> {u}]]
       \/ \E file \in PackageFiles(InlineParts) :
            requests' = [requests EXCEPT ![q] =
                 [at |-> "validating", claim |-> c, raw |-> file, upload |-> {}]]
    /\ validator' = [validator EXCEPT ![q] = "running"]
    /\ UNCHANGED <<logUploads, packages, admissionLock, download, stored, downloads>>

(* The child may stop answering: a decompressor that never ends. *)
hang(q) ==
    /\ validator[q] = "running"
    /\ validator' = [validator EXCEPT ![q] = "hung"]
    /\ UNCHANGED <<logUploads, packages, admissionLock, requests, download, stored, downloads>>

(* A reply, or a refusal, a time-out or a cancelled request: whichever it *)
(* is, the child is gone before the request goes on.                      *)
run_validator(q) ==
    /\ requests[q].at = "validating"
    /\ requests' = [requests EXCEPT ![q] =
         IF validator[q] = "running" THEN [@ EXCEPT !.at = "checked"] ELSE Nothing]
    /\ validator' = [validator EXCEPT ![q] = "none"]
    /\ UNCHANGED <<logUploads, packages, admissionLock, download, stored, downloads>>

(* The package is refused, the client went away, or the lock was taken. *)
give_up(q) ==
    /\ requests[q].at \in {"part", "validating", "checked", "starting", "saving"}
    /\ requests' = [requests EXCEPT ![q] = Nothing]
    /\ validator' = [validator EXCEPT ![q] = "none"]
    /\ admissionLock' = IF admissionLock = q THEN NoAccount ELSE admissionLock
    /\ UNCHANGED <<logUploads, packages, download, stored, downloads>>

save(q) ==
    LET r == requests[q]
    IN  /\ r.at = "checked"
        /\ stored < MaxStored
        /\ check_capacity(q, ClaimOwner[r.claim], Len(r.raw),
                          IF Chunked(r.raw) THEN r.upload ELSE {}, {r.claim})
        /\ requests' = [requests EXCEPT ![q].at = "saving"]
        /\ UNCHANGED <<logUploads, packages, validator, download, stored, downloads>>

(* The old chunks go, the new package comes and the upload is discarded,  *)
(* all with one commit.                                                   *)
saved(q) ==
    LET r == requests[q]
    IN  /\ r.at = "saving"
        /\ stored < MaxStored
        /\ packages' = [packages EXCEPT ![r.claim] = Package(r.raw)]
        /\ logUploads' = Gone(r.upload)
        /\ requests' = [requests EXCEPT ![q] = Nothing]
        /\ admissionLock' = NoAccount
        /\ stored' = stored + 1
        /\ UNCHANGED <<validator, download, downloads>>

----------------------------------------------------------------------------
(* Withdrawal and expiry clear a package; its digest stays in the claim.  *)

clear(c) ==
    /\ packages[c].content # <<>>
    /\ \A q \in LogRequests : requests[q].at = "saving" => requests[q].claim # c
    /\ packages' = [packages EXCEPT ![c].content = <<>>, ![c].chunked = FALSE]
    /\ UNCHANGED <<logUploads, admissionLock, requests, validator, download, stored, downloads>>

discard(u) ==
    /\ logUploads' = Gone({u})
    /\ UNCHANGED <<packages, admissionLock, requests, validator, download, stored, downloads>>

expire(u) ==
    /\ ~logUploads[u].expired
    /\ logUploads' = [logUploads EXCEPT ![u].expired = TRUE]
    /\ UNCHANGED <<packages, admissionLock, requests, validator, download, stored, downloads>>

purge_expired ==
    /\ \E u \in Present : logUploads[u].expired
    /\ logUploads' = Gone({u \in Present : logUploads[u].expired})
    /\ UNCHANGED <<packages, admissionLock, requests, validator, download, stored, downloads>>

----------------------------------------------------------------------------
(* Downloads.  The claim is read, the access is recorded and committed,   *)
(* and then each chunk is fetched by a query of its own, for as long as   *)
(* the claim still has the digest that was read.                          *)

download_response(c) ==
    /\ download.at \in {"idle", "whole", "failed"}
    /\ downloads < MaxDownloads
    /\ packages[c].content # <<>>
    /\ download' = [at |-> "streaming", claim |-> c, digest |-> packages[c].digest,
                    chunked |-> packages[c].chunked, sent |-> <<>>]
    /\ downloads' = downloads + 1
    /\ UNCHANGED <<logUploads, packages, admissionLock, requests, validator, stored>>

(* What the next query returns: one chunk of the package that was asked   *)
(* for, or the whole of an inline one.                                    *)
Downloaded(d, p) ==
    IF p.digest # d.digest \/ p.chunked # d.chunked \/ Len(d.sent) >= Len(p.content) THEN <<>>
    ELSE IF ~d.chunked THEN p.content
    ELSE SubSeq(p.content, Len(d.sent) + 1, Len(d.sent) + 1)

(* The stream ends well only if what was sent has the digest. *)
StreamEnds(d) == IF d.sent = d.digest THEN "whole" ELSE "failed"

chunks ==
    /\ download.at = "streaming"
    /\ LET data == Downloaded(download, packages[download.claim])
       IN  download' = IF data # <<>>
                       THEN [download EXCEPT !.sent = @ \o data]
                       ELSE [download EXCEPT !.at = StreamEnds(download)]
    /\ UNCHANGED <<logUploads, packages, admissionLock, requests, validator, stored, downloads>>

----------------------------------------------------------------------------
RequestGoesOn(q) == started(q) \/ append(q) \/ run_validator(q) \/ saved(q) \/ save(q)
EndRequest(q) == RequestGoesOn(q) \/ (requests[q].at = "checked" /\ give_up(q))

UploadsNext ==
    \/ \E q \in LogRequests :
         \/ \E a \in Accounts, n \in 1 .. MaxParts : start_upload(q, a, n)
         \/ \E u \in Started, k \in 1 .. MaxParts : \E p \in PartAt[k] : upload_part(q, u, k, p)
         \/ \E c \in LogClaims : read(q, c)
         \/ hang(q)
         \/ RequestGoesOn(q)
         \/ give_up(q)
    \/ \E c \in LogClaims : clear(c) \/ download_response(c)
    \/ \E u \in Present : discard(u) \/ expire(u)
    \/ purge_expired
    \/ chunks

UploadsSpec == /\ UploadsInit /\ [][UploadsNext]_uploadVars
               /\ \A q \in LogRequests : WF_uploadVars(EndRequest(q))
               /\ WF_uploadVars(chunks)

----------------------------------------------------------------------------
(* Reservations and packages together never exceed what one account, or   *)
(* all of them, may keep, however starts, revisions and stored packages   *)
(* are interleaved (check_capacity under its advisory lock, and a package *)
(* that replaces its own reservation).                                    *)
QuotaHolds ==
    /\ UsedBy(Accounts, {}, {}) <= GlobalParts
    /\ \A a \in Accounts : UsedBy({a}, {}, {}) <= AccountParts

(* A part whose receipt was confirmed is the part that is staged: a       *)
(* resend after a lost answer, or a second request for the same offset,   *)
(* never gets a confirmation for other bytes (append).                    *)
ConfirmedPartIsStaged ==
    \A u \in Present : \A a \in logUploads[u].acknowledged :
        a[1] <= Len(logUploads[u].parts) /\ logUploads[u].parts[a[1]] = a[2]

(* A download that ends well delivered exactly the package the access     *)
(* record names, although the package may be replaced or cleared between  *)
(* two of its queries (download_response).                                *)
DownloadIsWhole == download.at = "whole" => download.sent = download.digest

(* No validator process outlives the request that started it (the finally *)
(* clause of run_validator).                                              *)
NoValidatorIsLeft == \A q \in LogRequests : validator[q] # "none" => requests[q].at = "validating"

(* Every request and every download comes to an end, even when validators *)
(* hang and other requests keep coming: the wall-clock limit ends the     *)
(* wait and the admission lock is only ever tried.  Fairness: the event   *)
(* loop runs what can run.                                                *)
TransfersEnd == /\ \A q \in LogRequests : []<>(requests[q] = Nothing)
                /\ []<>(download.at # "streaming")

(* What a transfer keeps: the quota, the parts that were confirmed, the    *)
(* package that was named, and no process behind (trajectory_*.py).        *)
TransfersAreExact == QuotaHolds /\ ConfirmedPartIsStaged /\ DownloadIsWhole /\ NoValidatorIsLeft
=============================================================================
