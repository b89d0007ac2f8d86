------------------------------- MODULE Updater -------------------------------
(***************************************************************************)
(* One call of TryUpdateAndInstall per boot: the HTTP exchange with the    *)
(* update server, the download to DOWNLOAD_PATH with its running SHA-256,  *)
(* the comparison with the digest the server announced, and the copy over  *)
(* INSTALL_PATH.  Every external call may fail; power may be lost between  *)
(* any two calls.                                                          *)
(*                                                                         *)
(* Bytes are abstracted to prefixes: a file holds the first len bytes of   *)
(* one image, which is all that a truncating open followed by appends can  *)
(* leave.  A digest stands for the content it was computed from.           *)
(***************************************************************************)
EXTENDS Integers

CONSTANTS
    Images,        \* module images a file can hold bytes of
    Published,     \* images whose digest the update server announces
    Factory,       \* the image installed by hand
    NoImage,       \* not an image
    Size,          \* bytes of a complete image
    Chunk,         \* most bytes one receive or one read returns
    UninitCompare  \* outcomes of comparing memory that was never written

ASSUME ImagesAssumption ==
    /\ Published \subseteq Images
    /\ Factory \in Images
    /\ NoImage \notin Images
ASSUME SizeAssumption == Size \in Nat \ {0} /\ Chunk \in Nat \ {0}
ASSUME UninitAssumption == UninitCompare \in SUBSET BOOLEAN /\ UninitCompare # {}

VARIABLES
    pc,      \* the next call the updater makes
    disk,    \* the two files, which survive a power loss
    held,    \* external resources acquired and not yet released
    err,     \* DownloadUpdate's err, then the value TryUpdateAndInstall returns
    resp,    \* the server's response to the request
    hdrOk,   \* hash_header was filled in by cellHttpResponseGetHeader
    hashOk,  \* hash_buf was filled in by cellSha256BlockResult
    taken,   \* bytes received and hashed, or read from DOWNLOAD_PATH
    chunk,   \* bytes of them in the transfer buffer
    offset   \* how many of those have been written

vars == <<pc, disk, held, err, resp, hdrOk, hashOk, taken, chunk, offset>>

-------------------------------------------------------------------------------
Contents == [img : Images, len : 0..Size]
Complete(i) == [img |-> i, len |-> Size]
Emptied(i) == [img |-> i, len |-> 0]

Resources == {"net", "pool", "http", "client", "trans",
              "downloadFd", "srcFd", "dstFd"}

\* 500 stands for every status other than 200 and 204.  The body may be cut
\* short, or be that of an image the digest was not computed from.
Responses == [status : {200, 204, 500}, hash : Published \union {NoImage},
              body : Images, len : 0..Size]
NoResponse == [status |-> 500, hash |-> NoImage, body |-> Factory, len |-> 0]

Locations == {"net", "alloc", "init", "client", "trans", "send", "header", "open", "recv",
              "write", "compare", "dtor", "end", "destroyClient", "free",
              "finalize", "openCopy", "openDst", "read", "copy",
              "returned", "unbootable"}

\* A file absent from the disk is treated as an empty one.
Init ==
    /\ pc = "net"
    /\ disk = [download |-> Emptied(Factory), install |-> Complete(Factory)]
    /\ held = {}
    /\ err = 0
    /\ resp = NoResponse
    /\ hdrOk = FALSE /\ hashOk = FALSE
    /\ taken = 0 /\ chunk = 0 /\ offset = 0

Goto(from, to) == pc = from /\ pc' = to

transfer == <<taken, chunk, offset>>
session == <<resp, hdrOk, hashOk>>

-------------------------------------------------------------------------------
(* TryUpdateAndInstall up to the request.                                  *)

\* sys_net_initialize_network: 0, which is success, ends the call at once with
\* 2.  The call goes on after any other result: this call brought no network
\* up, but one that is up already serves the calls that follow.
InitNetwork ==
    /\ \/ Goto("net", "returned") /\ err' = 2 /\ held' = held \union {"net"}
       \/ Goto("net", "alloc") /\ UNCHANGED <<err, held>>
    /\ UNCHANGED <<disk, session, transfer>>

\* sys_memory_allocate is not checked; DownloadUpdate returns 2 without a pool.
AllocatePool ==
    /\ \/ Goto("alloc", "free") /\ err' = 2 /\ UNCHANGED held
       \/ Goto("alloc", "init") /\ held' = held \union {"pool"} /\ UNCHANGED err
    /\ UNCHANGED <<disk, session, transfer>>

\* HttpContext_ctor, cellHttpInit: no client is created where it fails, and the
\* caller does not look at the failure.
InitHttp ==
    /\ \/ Goto("init", "trans") /\ UNCHANGED held
       \/ Goto("init", "client") /\ held' = held \union {"http"}
    /\ UNCHANGED <<disk, err, session, transfer>>

\* HttpContext_ctor, cellHttpCreateClient: not looked at either.
CreateClient ==
    /\ Goto("client", "trans")
    /\ held' \in {held, held \union {"client"}}
    /\ UNCHANGED <<disk, err, session, transfer>>

\* HttpTransaction_ctor: fails when the URI does not parse (or needs more than
\* TRANSACTION_POOL_SIZE bytes) or the client was not created; not looked at.
CreateTransaction ==
    /\ Goto("trans", "send")
    /\ \/ "client" \in held /\ held' = held \union {"trans"}
       \/ UNCHANGED held
    /\ UNCHANGED <<disk, err, session, transfer>>

\* Wrong: the early return leaves the transaction to the end of the library.
SendRequestKeepTransaction ==
    /\ \/ Goto("send", "end") /\ err' = 2 /\ UNCHANGED resp
       \/ /\ Goto("send", "header")
          /\ "trans" \in held
          /\ resp' \in Responses
          /\ UNCHANGED err
    /\ UNCHANGED <<disk, held, hdrOk, hashOk, transfer>>

\* HttpTransactionSendRequest: the request, the content length and the status
\* code, any of which may fail; a transaction that was not created always does.
SendRequest ==
    /\ \/ Goto("send", "dtor") /\ err' = 2 /\ UNCHANGED resp
       \/ /\ Goto("send", "header")
          /\ "trans" \in held
          /\ resp' \in Responses
          /\ UNCHANGED err
    /\ UNCHANGED <<disk, held, hdrOk, hashOk, transfer>>

-------------------------------------------------------------------------------
(* DownloadUpdate from the response to the verdict.                        *)

\* The verdict after the two header calls: a 204 clears their failure.
HeaderErr(status, sized, read) == IF status = 204 \/ (sized /\ read) THEN 0 ELSE 2

\* The two cellHttpResponseGetHeader calls, for the size and for the value; the
\* second cannot succeed in the empty buffer a failure of the first leaves it.
GetHeader ==
    /\ pc = "header"
    /\ \E sized, read \in BOOLEAN :
          /\ sized => resp.hash # NoImage
          /\ read => sized
          /\ hdrOk' = read
          /\ err' = HeaderErr(resp.status, sized, read)
    /\ pc' = IF resp.status = 200 THEN "open" ELSE "dtor"
    /\ UNCHANGED <<disk, held, resp, hashOk, transfer>>

\* HttpDownloadFile opens and truncates DOWNLOAD_PATH.
OpenDownload ==
    /\ \/ Goto("open", "compare") /\ UNCHANGED <<disk, held, taken>>
       \/ /\ Goto("open", "recv")
          /\ disk' = [disk EXCEPT !.download = Emptied(resp.body)]
          /\ held' = held \union {"downloadFd"}
          /\ taken' = 0
    /\ UNCHANGED <<err, session, chunk, offset>>

\* Wrong: offset is declared outside the receive loop and not reset.
ReceiveChunkStaleOffset ==
    /\ \/ Goto("recv", "compare") /\ UNCHANGED <<held, hashOk, transfer>>
       \/ /\ Goto("recv", "write")
          /\ \E n \in 1..Chunk :
                /\ taken + n <= resp.len
                /\ chunk' = n /\ taken' = taken + n
          /\ UNCHANGED <<held, hashOk, offset>>
    /\ UNCHANGED <<disk, err, resp, hdrOk>>

\* Wrong: a failed receive opens the file and starts the download again.
ReceiveChunkRetry ==
    /\ \/ Goto("recv", "open") /\ UNCHANGED <<held, hashOk, transfer>>
       \/ /\ taken = resp.len
          /\ Goto("recv", "compare")
          /\ held' = held \ {"downloadFd"}
          /\ hashOk' = TRUE
          /\ UNCHANGED transfer
       \/ /\ Goto("recv", "write")
          /\ \E n \in 1..Chunk :
                /\ taken + n <= resp.len
                /\ chunk' = n /\ offset' = 0 /\ taken' = taken + n
          /\ UNCHANGED <<held, hashOk>>
    /\ UNCHANGED <<disk, err, resp, hdrOk>>

\* cellHttpRecvResponse: an error leaves the file open and hash_buf unwritten,
\* no bytes end the download, any other chunk is hashed before it is written.
ReceiveChunk ==
    /\ \/ Goto("recv", "compare") /\ UNCHANGED <<held, hashOk, transfer>>
       \/ /\ taken = resp.len
          /\ Goto("recv", "compare")
          /\ held' = held \ {"downloadFd"}
          /\ hashOk' = TRUE
          /\ UNCHANGED transfer
       \/ /\ Goto("recv", "write")
          /\ \E n \in 1..Chunk :
                /\ taken + n <= resp.len
                /\ chunk' = n /\ offset' = 0 /\ taken' = taken + n
          /\ UNCHANGED <<held, hashOk>>
    /\ UNCHANGED <<disk, err, resp, hdrOk>>

\* Wrong: one write per chunk, however few bytes it wrote.
AfterOneWrite(written, again, done) == done

\* The write loop: go on while bytes of the chunk are left.
AfterWrite(written, again, done) ==
    IF offset + written < chunk THEN again ELSE done

\* cellFsWrite of the rest of the chunk: 0 bytes end the download (the file
\* stays open), fewer than asked are followed by another write.
WriteChunk ==
    /\ \/ Goto("write", "compare") /\ UNCHANGED <<disk, offset>>
       \/ \E n \in 1..(chunk - offset) :
             /\ Goto("write", AfterWrite(n, "write", "recv"))
             /\ disk' = [disk EXCEPT !.download.len = @ + n]
             /\ offset' = offset + n
    /\ UNCHANGED <<held, err, session, taken, chunk>>

\* Wrong: the comparison loop without its break, whose last turn sets 1.
VerdictsWithoutBreak == IF hdrOk /\ hashOk THEN {TRUE} ELSE UninitCompare

\* The 32 byte comparisons of hash_header's value with hash_buf.
Verdicts ==
    IF hdrOk /\ hashOk THEN {resp.body = resp.hash /\ taken = Size}
                       ELSE UninitCompare

\* Wrong: a mismatch leaves err as the headers set it.
CompareDigestKeepErr ==
    /\ Goto("compare", "dtor")
    /\ \E equal \in Verdicts : err' = IF equal THEN 1 ELSE err
    /\ UNCHANGED <<disk, held, session, transfer>>

\* HttpDownloadFile's result is not looked at: the comparison takes place
\* whatever became of the download and of the header.
CompareDigest ==
    /\ Goto("compare", "dtor")
    /\ \E equal \in Verdicts : err' = IF equal THEN 1 ELSE 2
    /\ UNCHANGED <<disk, held, session, transfer>>

\* HttpTransaction_dtor, on both ways out of DownloadUpdate.
DestroyTransaction ==
    /\ Goto("dtor", "end")
    /\ held' = held \ {"trans"}
    /\ UNCHANGED <<disk, err, session, transfer>>

\* HttpContext_dtor ends the library first (cellHttpEnd) ...
EndHttp ==
    /\ Goto("end", "destroyClient")
    /\ held' = held \ {"http"}
    /\ UNCHANGED <<disk, err, session, transfer>>

\* ... and then has it destroy the client, which it may refuse.
DestroyClient ==
    /\ Goto("destroyClient", "free")
    /\ held' \in {held, held \ {"client"}}
    /\ UNCHANGED <<disk, err, session, transfer>>

-------------------------------------------------------------------------------
(* The end of TryUpdateAndInstall, and CopyFile.                           *)

\* Wrong: the pool is released on the way to a copy only.
FreePoolEarly ==
    /\ Goto("free", "finalize")
    /\ held' = IF err = 1 THEN held \ {"pool"} ELSE held
    /\ UNCHANGED <<disk, err, session, transfer>>

\* sys_memory_free, also of the pool that was not allocated.
FreePool ==
    /\ Goto("free", "finalize")
    /\ held' = held \ {"pool"}
    /\ UNCHANGED <<disk, err, session, transfer>>

\* Wrong: everything but an error installs what DOWNLOAD_PATH holds.
FinalizeNetworkUnlessError ==
    /\ Goto("finalize", IF err # 2 THEN "openCopy" ELSE "returned")
    /\ held' = held \ {"net"}
    /\ UNCHANGED <<disk, err, session, transfer>>

\* sys_net_finalize_network, then an err of 1, and no other, installs.
FinalizeNetwork ==
    /\ Goto("finalize", IF err = 1 THEN "openCopy" ELSE "returned")
    /\ held' = held \ {"net"}
    /\ UNCHANGED <<disk, err, session, transfer>>

\* CopyFile opens DOWNLOAD_PATH.  Its result is not looked at: err stays 1.
OpenSource ==
    /\ \/ Goto("openCopy", "returned") /\ UNCHANGED held
       \/ Goto("openCopy", "openDst") /\ held' = held \union {"srcFd"}
    /\ UNCHANGED <<disk, err, session, transfer>>

\* CopyFile opens and truncates INSTALL_PATH, or closes DOWNLOAD_PATH again.
OpenTarget ==
    /\ \/ /\ Goto("openDst", "returned")
          /\ held' = held \ {"srcFd"}
          /\ UNCHANGED <<disk, taken>>
       \/ /\ Goto("openDst", "read")
          /\ disk' = [disk EXCEPT !.install = Emptied(disk.download.img)]
          /\ held' = held \union {"dstFd"}
          /\ taken' = 0
    /\ UNCHANGED <<err, session, chunk, offset>>

CloseCopy == held' = held \ {"srcFd", "dstFd"}

\* cellFsRead: no bytes or a failure end the copy.
ReadChunk ==
    /\ \/ Goto("read", "returned") /\ CloseCopy /\ UNCHANGED transfer
       \/ /\ Goto("read", "copy")
          /\ \E n \in 1..Chunk :
                /\ taken + n <= disk.download.len
                /\ chunk' = n /\ offset' = 0 /\ taken' = taken + n
          /\ UNCHANGED held
    /\ UNCHANGED <<disk, err, session>>

CopyChunk ==
    /\ \/ Goto("copy", "returned") /\ CloseCopy /\ UNCHANGED <<disk, offset>>
       \/ \E n \in 1..(chunk - offset) :
             /\ Goto("copy", AfterWrite(n, "copy", "read"))
             /\ disk' = [disk EXCEPT !.install.len = @ + n]
             /\ offset' = offset + n
             /\ UNCHANGED held
    /\ UNCHANGED <<err, session, taken, chunk>>

-------------------------------------------------------------------------------
\* What the next boot does with the file at INSTALL_PATH: a module that is not
\* complete does not load, and then nothing calls the updater.
Loaded == IF disk.install.len = Size THEN "net" ELSE "unbootable"

\* The console is switched off, or the game is quit, and started again.
PowerCycle ==
    /\ pc' = Loaded
    /\ held' = {} /\ err' = 0 /\ resp' = NoResponse
    /\ hdrOk' = FALSE /\ hashOk' = FALSE
    /\ taken' = 0 /\ chunk' = 0 /\ offset' = 0
    /\ UNCHANGED disk

Step ==
    \/ InitNetwork \/ AllocatePool \/ InitHttp \/ CreateClient
    \/ CreateTransaction \/ SendRequest \/ GetHeader
    \/ OpenDownload \/ ReceiveChunk \/ WriteChunk \/ CompareDigest
    \/ DestroyTransaction \/ EndHttp \/ DestroyClient \/ FreePool
    \/ FinalizeNetwork \/ OpenSource \/ OpenTarget \/ ReadChunk \/ CopyChunk

Next == Step \/ PowerCycle

Spec == Init /\ [][Next]_vars

\* Every external call returns, so the updater's thread keeps running.
FairSpec == Spec /\ WF_vars(Step)

-------------------------------------------------------------------------------
(* Safety.                                                                 *)

TypeOK ==
    /\ pc \in Locations
    /\ disk \in [download : Contents, install : Contents]
    /\ held \subseteq Resources
    /\ err \in 0..2
    /\ resp \in Responses
    /\ hdrOk \in BOOLEAN /\ hashOk \in BOOLEAN
    /\ taken \in 0..Size /\ chunk \in 0..Chunk /\ offset \in 0..chunk

\* In both transfer loops (http.c HttpDownloadFile, fs.c CopyFile) every byte
\* taken from the source is in the file or is still in the buffer, whatever
\* the sizes of the receives and of the short writes: the digest covers the
\* bytes in the file, and the copy has no holes.
NothingSkipped ==
    /\ pc = "recv" => taken = disk.download.len
    /\ pc = "write" => taken = disk.download.len + (chunk - offset)
    /\ pc \in {"recv", "write"} => disk.download.img = resp.body
    /\ pc = "read" => taken = disk.install.len
    /\ pc = "copy" => taken = disk.install.len + (chunk - offset)
    /\ pc \in {"read", "copy"} =>
          disk.install.img = disk.download.img /\ taken <= disk.download.len

Installing == pc \in {"openCopy", "openDst", "read", "copy"}

\* If the header was read and the download came to its end, CopyFile starts
\* only from a DOWNLOAD_PATH that holds all of the image whose digest the
\* server announced (update.c:64-82, :106).
InstallNeedsProof ==
    Installing /\ hdrOk /\ hashOk => disk.download = Complete(resp.hash)

\* The HTTP library never outlives the pool it allocates from, and the
\* transaction is gone before its client, the library or the pool is: the
\* constructors report failures that no caller looks at (http.c:3-37), and both
\* ways out of DownloadUpdate run the destructors in the same order.  Nothing
\* is said of the client, which the code destroys after it has ended the
\* library (http.c:18-19).
PoolOutlivesHttp ==
    /\ "http" \in held => "pool" \in held
    /\ "trans" \in held => {"client", "http"} \subseteq held

\* However the call ends, it gives back the pool, the library, the transaction
\* and both ends of the copy.  It can keep three things only: a descriptor of
\* DOWNLOAD_PATH, if the download broke off; a client that the ended library
\* did not destroy; and the network, if it came up, and then nothing else
\* (update.c:96-104).
ReturnReleases ==
    pc = "returned" =>
        /\ held \subseteq {"downloadFd", "client", "net"}
        /\ hashOk => "downloadFd" \notin held
        /\ "net" \in held => held = {"net"} /\ err = 2

\* The value returned agrees with the response on the two statuses the code
\* knows: 1 only for an image that was offered with 200, and an offer that did
\* not check out is 2, never 0 (update.c:60-82).
ResultFitsStatus ==
    pc = "returned" => /\ err = 1 => resp.status = 200
                       /\ err = 0 => resp.status # 200

\* Where comparing unwritten memory never finds equality, a power loss at any
\* instant leaves INSTALL_PATH whole or leaves all of the image it was being
\* given at DOWNLOAD_PATH: the installation could always be finished by hand.
RecoverableImage ==
    disk.install.len < Size => disk.download = Complete(disk.install.img)

-------------------------------------------------------------------------------
(* Refinement: the installed file goes through the states of ImageStore.   *)

Store == INSTANCE ImageStore
    WITH installed <- disk.install,
         accepted <- IF Installing THEN resp.hash ELSE NoImage,
         None <- NoImage

\* With UninitCompare = {FALSE}: the installed file is only replaced while it
\* is complete, by an image the server announced, front to back.
StoreSpec == Store!Spec

-------------------------------------------------------------------------------
(* Liveness.                                                               *)

\* A boot that is not cut short gets out of TryUpdateAndInstall: the loops of
\* HttpDownloadFile and CopyFile end, whatever the short reads and writes, so
\* start goes on to patch the game.
UpdateReturns == <>[][Step]_vars => <>(pc \in {"returned", "unbootable"})

-------------------------------------------------------------------------------
(* What the comment says of the result.                                    *)

\* "1 if we downloaded a new update" (update.c:4): the download ended, and the
\* "string hash provided by server" was compared to it (update.c:69).
OneMeansDownloaded == pc = "returned" /\ err = 1 => hdrOk /\ hashOk
===============================================================================
