----------------------------- MODULE UpdaterProofs -----------------------------
(***************************************************************************)
(* Proofs about Updater: the inductive invariant IInv, the safety          *)
(* properties that follow from it, and the refinement of ImageStore.       *)
(***************************************************************************)
EXTENDS Updater, TLAPS

-------------------------------------------------------------------------------
(* The parts of the inductive invariant.                                   *)

\* Comparing memory that was never written may find it equal to the header.
LuckyCompare == TRUE \in UninitCompare

BeforeHttp == {"net", "alloc", "init", "client"}
Transaction == {"send", "header", "open", "recv", "write", "compare", "dtor"}
WithLibrary == {"client", "trans", "end"} \union Transaction
WithPool == {"init", "destroyClient"} \union WithLibrary
Ending == {"dtor", "end", "destroyClient", "free", "finalize"}
Copying == {"read", "copy"}
Ended == {"returned", "unbootable"}

\* Which resources can be held where.  Of the library's objects only the client
\* may still be there once it has ended.
HeldInv ==
    /\ pc = "net" => held = {}
    /\ pc \in WithPool => "pool" \in held
    /\ pc = "client" => "http" \in held
    /\ "pool" \in held => pc \in WithPool \union {"free"}
    /\ "http" \in held => pc \in WithLibrary
    /\ "trans" \in held => pc \in Transaction /\ {"client", "http"} \subseteq held
    /\ "client" \in held => pc \notin {"net", "alloc", "init", "client"}
    /\ "client" \in held /\ pc = "trans" => "http" \in held
    /\ "srcFd" \in held => pc \in {"openDst"} \union Copying
    /\ "dstFd" \in held => pc \in Copying
    /\ "net" \in held => pc = "returned" /\ held = {"net"} /\ err = 2

\* The download is open from OpenDownload on, and closed when hash_buf is
\* filled in; neither digest is there before its call has succeeded.
DownloadInv ==
    /\ pc \in BeforeHttp \union {"trans", "send", "header", "open"} =>
          "downloadFd" \notin held
    /\ pc \in BeforeHttp \union {"trans", "send", "header", "open", "recv", "write"} =>
          ~hashOk
    /\ hashOk => "downloadFd" \notin held
    /\ pc \in BeforeHttp \union {"trans", "send", "header"} => ~hdrOk

\* What the verdict is taken from, and what it shows.
VerdictInv ==
    /\ hdrOk => resp.hash \in Published
    /\ pc = "compare" /\ hashOk =>
          taken = disk.download.len /\ disk.download.img = resp.body
    /\ Installing => err = 1
    /\ (Installing \/ pc \in Ending) /\ err = 1 /\ hdrOk /\ hashOk =>
          disk.download = Complete(resp.hash)
    /\ (Installing \/ pc \in Ending) /\ err = 1
       /\ ~LuckyCompare => hdrOk /\ hashOk

\* The result, seen with the response.
StatusInv ==
    /\ pc \in {"open", "recv", "write", "compare"} => resp.status = 200
    /\ pc \in BeforeHttp \union {"trans", "send", "header"} => err = 0
    /\ pc \in Ending \union {"returned"} =>
          /\ err = 1 => resp.status = 200
          /\ err = 0 => resp.status # 200
    /\ Installing => resp.status = 200

\* The installed image is only ever short of bytes of the downloaded one.
InstallInv ==
    /\ pc \notin Copying \union Ended => disk.install.len = Size
    /\ ~LuckyCompare => RecoverableImage

IInv == /\ TypeOK
        /\ NothingSkipped
        /\ HeldInv
        /\ DownloadInv
        /\ VerdictInv
        /\ StatusInv
        /\ InstallInv

LEMMA NoResponseType == NoResponse \in Responses
<1>1. NoResponse.status \in {200, 204, 500}
  BY DEF NoResponse
<1>2. NoResponse.hash \in Published \union {NoImage}
  BY DEF NoResponse
<1>3. NoResponse.body \in Images /\ NoResponse.len \in 0..Size
  BY ImagesAssumption, SizeAssumption DEF NoResponse
<1> QED
  BY <1>1, <1>2, <1>3 DEF NoResponse, Responses

\* What an err of 1 says: both digests were equal, or unwritten memory was.
LEMMA VerdictOfDigest ==
    ASSUME TypeOK, VerdictInv, CompareDigest, err' = 1
    PROVE  /\ hdrOk /\ hashOk => disk.download = Complete(resp.hash)
           /\ ~LuckyCompare => hdrOk /\ hashOk
<1>1. PICK equal \in Verdicts : err' = IF equal THEN 1 ELSE 2
  BY DEF CompareDigest
<1>2. ASSUME hdrOk, hashOk PROVE disk.download = Complete(resp.hash)
  <2>0. equal
    BY <1>1
  <2>1. resp.body = resp.hash /\ taken = Size
    BY <1>1, <1>2, <2>0 DEF Verdicts
  <2>2. taken = disk.download.len /\ disk.download.img = resp.body
    BY <1>2 DEF VerdictInv, CompareDigest, Goto
  <2>3. disk.download \in Contents
    BY DEF TypeOK
  <2> QED
    BY <2>1, <2>2, <2>3 DEF Complete, Contents
<1>3. ASSUME ~LuckyCompare, ~(hdrOk /\ hashOk) PROVE FALSE
  <2>1. equal \in UninitCompare
    BY <1>1, <1>3 DEF Verdicts
  <2>2. UninitCompare \subseteq BOOLEAN
    BY UninitAssumption
  <2>3. equal = TRUE
    BY <1>1, <2>1, <2>2
  <2> QED
    BY <1>3, <2>1, <2>3, Zenon DEF LuckyCompare
<1> QED
  BY <1>2, <1>3

-------------------------------------------------------------------------------
(* Every step preserves each part: TypeOK variable by variable, the others *)
(* action by action.                                                       *)

LEMMA TypeStep == TypeOK /\ NothingSkipped /\ Next => TypeOK'
<1> SUFFICES ASSUME TypeOK, NothingSkipped, Next PROVE TypeOK'
  OBVIOUS
<1> USE DEF transfer, session
<1>1. pc' \in Locations
  BY DEF Next, Step, InitNetwork, AllocatePool, InitHttp, CreateClient,
         CreateTransaction, SendRequest, GetHeader, OpenDownload, ReceiveChunk,
         WriteChunk, CompareDigest, DestroyTransaction, EndHttp, DestroyClient,
         FreePool, FinalizeNetwork, OpenSource, OpenTarget, ReadChunk,
         CopyChunk, PowerCycle, Goto, TypeOK, Locations, AfterWrite, Loaded
<1>2. disk' \in [download : Contents, install : Contents]
  BY ImagesAssumption, SizeAssumption DEF Next, Step, InitNetwork,
         AllocatePool, InitHttp, CreateClient, CreateTransaction, SendRequest,
         GetHeader, OpenDownload, ReceiveChunk, WriteChunk, CompareDigest,
         DestroyTransaction, EndHttp, DestroyClient, FreePool, FinalizeNetwork,
         OpenSource, OpenTarget, ReadChunk, CopyChunk, PowerCycle, Goto,
         TypeOK, Contents, Responses, NothingSkipped, Emptied
<1>3. held' \subseteq Resources
  BY DEF Next, Step, InitNetwork, AllocatePool, InitHttp, CreateClient,
         CreateTransaction, SendRequest, GetHeader, OpenDownload, ReceiveChunk,
         WriteChunk, CompareDigest, DestroyTransaction, EndHttp, DestroyClient,
         FreePool, FinalizeNetwork, OpenSource, OpenTarget, ReadChunk,
         CopyChunk, PowerCycle, Goto, TypeOK, Resources, CloseCopy
<1>4. err' \in 0..2
  BY DEF Next, Step, InitNetwork, AllocatePool, InitHttp, CreateClient,
         CreateTransaction, SendRequest, GetHeader, OpenDownload, ReceiveChunk,
         WriteChunk, CompareDigest, DestroyTransaction, EndHttp, DestroyClient,
         FreePool, FinalizeNetwork, OpenSource, OpenTarget, ReadChunk,
         CopyChunk, PowerCycle, Goto, TypeOK, HeaderErr
<1>5. resp' \in Responses /\ hdrOk' \in BOOLEAN /\ hashOk' \in BOOLEAN
  BY NoResponseType DEF Next, Step, InitNetwork, AllocatePool, InitHttp,
         CreateClient, CreateTransaction, SendRequest, GetHeader, OpenDownload,
         ReceiveChunk, WriteChunk, CompareDigest, DestroyTransaction, EndHttp,
         DestroyClient, FreePool, FinalizeNetwork, OpenSource, OpenTarget,
         ReadChunk, CopyChunk, PowerCycle, Goto, TypeOK
<1>6. taken' \in 0..Size /\ chunk' \in 0..Chunk /\ offset' \in 0..chunk'
  BY SizeAssumption DEF Next, Step, InitNetwork, AllocatePool, InitHttp,
         CreateClient, CreateTransaction, SendRequest, GetHeader, OpenDownload,
         ReceiveChunk, WriteChunk, CompareDigest, DestroyTransaction, EndHttp,
         DestroyClient, FreePool, FinalizeNetwork, OpenSource, OpenTarget,
         ReadChunk, CopyChunk, PowerCycle, Goto, TypeOK, Responses, Contents
<1> QED
  BY <1>1, <1>2, <1>3, <1>4, <1>5, <1>6 DEF TypeOK

LEMMA TransferStep == TypeOK /\ NothingSkipped /\ Next => NothingSkipped'
<1> SUFFICES ASSUME TypeOK, NothingSkipped, Next PROVE NothingSkipped'
  OBVIOUS
<1> USE DEF NothingSkipped, TypeOK, Contents, Responses, transfer, session
<1>1. CASE InitNetwork
  BY <1>1 DEF InitNetwork, Goto
<1>2. CASE AllocatePool
  BY <1>2 DEF AllocatePool, Goto
<1>3. CASE InitHttp
  BY <1>3 DEF InitHttp, Goto
<1>4. CASE CreateClient
  BY <1>4 DEF CreateClient, Goto
<1>5. CASE CreateTransaction
  BY <1>5 DEF CreateTransaction, Goto
<1>6. CASE SendRequest
  BY <1>6 DEF SendRequest, Goto
<1>7. CASE GetHeader
  BY <1>7 DEF GetHeader
<1>8. CASE OpenDownload
  BY <1>8 DEF OpenDownload, Goto, Emptied
<1>9. CASE ReceiveChunk
  BY <1>9 DEF ReceiveChunk, Goto
<1>10. CASE WriteChunk
  BY <1>10 DEF WriteChunk, Goto, AfterWrite
<1>11. CASE CompareDigest
  BY <1>11 DEF CompareDigest, Goto
<1>12. CASE DestroyTransaction
  BY <1>12 DEF DestroyTransaction, Goto
<1>13. CASE EndHttp
  BY <1>13 DEF EndHttp, Goto
<1>14. CASE DestroyClient
  BY <1>14 DEF DestroyClient, Goto
<1>15. CASE FreePool
  BY <1>15 DEF FreePool, Goto
<1>16. CASE FinalizeNetwork
  BY <1>16 DEF FinalizeNetwork, Goto
<1>17. CASE OpenSource
  BY <1>17 DEF OpenSource, Goto
<1>18. CASE OpenTarget
  BY <1>18 DEF OpenTarget, Goto, Emptied
<1>19. CASE ReadChunk
  BY <1>19 DEF ReadChunk, Goto
<1>20. CASE CopyChunk
  BY <1>20 DEF CopyChunk, Goto, AfterWrite
<1>21. CASE PowerCycle
  BY <1>21 DEF PowerCycle, Loaded
<1> QED
  BY <1>1, <1>2, <1>3, <1>4, <1>5, <1>6, <1>7, <1>8, <1>9, <1>10, <1>11, <1>12,
     <1>13, <1>14, <1>15, <1>16, <1>17, <1>18, <1>19, <1>20, <1>21 DEF Next,
     Step

LEMMA HeldStep == HeldInv /\ Next => HeldInv'
<1> SUFFICES ASSUME HeldInv, Next PROVE HeldInv'
  OBVIOUS
<1> USE DEF HeldInv, Transaction, WithLibrary, WithPool, Copying, transfer, session
<1>1. CASE InitNetwork
  BY <1>1 DEF InitNetwork, Goto
<1>2. CASE AllocatePool
  BY <1>2 DEF AllocatePool, Goto
<1>3. CASE InitHttp
  BY <1>3 DEF InitHttp, Goto
<1>4. CASE CreateClient
  BY <1>4 DEF CreateClient, Goto
<1>5. CASE CreateTransaction
  BY <1>5 DEF CreateTransaction, Goto
<1>6. CASE SendRequest
  BY <1>6 DEF SendRequest, Goto
<1>7. CASE GetHeader
  BY <1>7 DEF GetHeader
<1>8. CASE OpenDownload
  BY <1>8 DEF OpenDownload, Goto
<1>9. CASE ReceiveChunk
  BY <1>9 DEF ReceiveChunk, Goto
<1>10. CASE WriteChunk
  BY <1>10 DEF WriteChunk, Goto, AfterWrite
<1>11. CASE CompareDigest
  BY <1>11 DEF CompareDigest, Goto
<1>12. CASE DestroyTransaction
  BY <1>12 DEF DestroyTransaction, Goto
<1>13. CASE EndHttp
  BY <1>13 DEF EndHttp, Goto
<1>14. CASE DestroyClient
  BY <1>14 DEF DestroyClient, Goto
<1>15. CASE FreePool
  BY <1>15 DEF FreePool, Goto
<1>16. CASE FinalizeNetwork
  BY <1>16 DEF FinalizeNetwork, Goto
<1>17. CASE OpenSource
  BY <1>17 DEF OpenSource, Goto
<1>18. CASE OpenTarget
  BY <1>18 DEF OpenTarget, Goto
<1>19. CASE ReadChunk
  BY <1>19 DEF ReadChunk, Goto, CloseCopy
<1>20. CASE CopyChunk
  BY <1>20 DEF CopyChunk, Goto, CloseCopy, AfterWrite
<1>21. CASE PowerCycle
  BY <1>21 DEF PowerCycle, Loaded
<1> QED
  BY <1>1, <1>2, <1>3, <1>4, <1>5, <1>6, <1>7, <1>8, <1>9, <1>10, <1>11, <1>12,
     <1>13, <1>14, <1>15, <1>16, <1>17, <1>18, <1>19, <1>20, <1>21 DEF Next,
     Step

LEMMA DownloadStep == DownloadInv /\ Next => DownloadInv'
<1> SUFFICES ASSUME DownloadInv, Next PROVE DownloadInv'
  OBVIOUS
<1> USE DEF DownloadInv, BeforeHttp, transfer, session
<1>1. CASE InitNetwork
  BY <1>1 DEF InitNetwork, Goto
<1>2. CASE AllocatePool
  BY <1>2 DEF AllocatePool, Goto
<1>3. CASE InitHttp
  BY <1>3 DEF InitHttp, Goto
<1>4. CASE CreateClient
  BY <1>4 DEF CreateClient, Goto
<1>5. CASE CreateTransaction
  BY <1>5 DEF CreateTransaction, Goto
<1>6. CASE SendRequest
  BY <1>6 DEF SendRequest, Goto
<1>7. CASE GetHeader
  BY <1>7 DEF GetHeader
<1>8. CASE OpenDownload
  BY <1>8 DEF OpenDownload, Goto
<1>9. CASE ReceiveChunk
  BY <1>9 DEF ReceiveChunk, Goto
<1>10. CASE WriteChunk
  BY <1>10 DEF WriteChunk, Goto, AfterWrite
<1>11. CASE CompareDigest
  BY <1>11 DEF CompareDigest, Goto
<1>12. CASE DestroyTransaction
  BY <1>12 DEF DestroyTransaction, Goto
<1>13. CASE EndHttp
  BY <1>13 DEF EndHttp, Goto
<1>14. CASE DestroyClient
  BY <1>14 DEF DestroyClient, Goto
<1>15. CASE FreePool
  BY <1>15 DEF FreePool, Goto
<1>16. CASE FinalizeNetwork
  BY <1>16 DEF FinalizeNetwork, Goto
<1>17. CASE OpenSource
  BY <1>17 DEF OpenSource, Goto
<1>18. CASE OpenTarget
  BY <1>18 DEF OpenTarget, Goto
<1>19. CASE ReadChunk
  BY <1>19 DEF ReadChunk, Goto, CloseCopy
<1>20. CASE CopyChunk
  BY <1>20 DEF CopyChunk, Goto, CloseCopy, AfterWrite
<1>21. CASE PowerCycle
  BY <1>21 DEF PowerCycle, Loaded
<1> QED
  BY <1>1, <1>2, <1>3, <1>4, <1>5, <1>6, <1>7, <1>8, <1>9, <1>10, <1>11, <1>12,
     <1>13, <1>14, <1>15, <1>16, <1>17, <1>18, <1>19, <1>20, <1>21 DEF Next,
     Step

LEMMA VerdictStep == TypeOK /\ NothingSkipped /\ DownloadInv /\ VerdictInv /\ Next => VerdictInv'
<1> SUFFICES ASSUME TypeOK, NothingSkipped, DownloadInv, VerdictInv, Next PROVE VerdictInv'
  OBVIOUS
<1> USE DEF VerdictInv, Ending, Installing, Complete, transfer, session
<1>1. CASE InitNetwork
  BY <1>1 DEF InitNetwork, Goto
<1>2. CASE AllocatePool
  BY <1>2 DEF AllocatePool, Goto
<1>3. CASE InitHttp
  BY <1>3 DEF InitHttp, Goto
<1>4. CASE CreateClient
  BY <1>4 DEF CreateClient, Goto
<1>5. CASE CreateTransaction
  BY <1>5 DEF CreateTransaction, Goto
<1>6. CASE SendRequest
  BY <1>6 DEF SendRequest, Goto, DownloadInv, BeforeHttp
<1>7. CASE GetHeader
  BY <1>7 DEF GetHeader, HeaderErr, TypeOK, Contents, Responses
<1>8. CASE OpenDownload
  BY <1>8 DEF OpenDownload, Goto, Emptied, TypeOK, Contents, DownloadInv,
         BeforeHttp
<1>9. CASE ReceiveChunk
  BY <1>9 DEF ReceiveChunk, Goto, TypeOK, Contents, NothingSkipped
<1>10. CASE WriteChunk
  BY <1>10 DEF WriteChunk, Goto, AfterWrite, TypeOK, Contents, DownloadInv,
         BeforeHttp
<1>11. CASE CompareDigest
  BY <1>11, VerdictOfDigest DEF CompareDigest, Goto, TypeOK
<1>12. CASE DestroyTransaction
  BY <1>12 DEF DestroyTransaction, Goto
<1>13. CASE EndHttp
  BY <1>13 DEF EndHttp, Goto
<1>14. CASE DestroyClient
  BY <1>14 DEF DestroyClient, Goto
<1>15. CASE FreePool
  BY <1>15 DEF FreePool, Goto
<1>16. CASE FinalizeNetwork
  BY <1>16 DEF FinalizeNetwork, Goto
<1>17. CASE OpenSource
  BY <1>17 DEF OpenSource, Goto
<1>18. CASE OpenTarget
  BY <1>18 DEF OpenTarget, Goto, Emptied, TypeOK, Contents
<1>19. CASE ReadChunk
  BY <1>19 DEF ReadChunk, Goto
<1>20. CASE CopyChunk
  BY <1>20 DEF CopyChunk, Goto, AfterWrite, TypeOK, Contents
<1>21. CASE PowerCycle
  BY <1>21 DEF PowerCycle, Loaded
<1> QED
  BY <1>1, <1>2, <1>3, <1>4, <1>5, <1>6, <1>7, <1>8, <1>9, <1>10, <1>11, <1>12,
     <1>13, <1>14, <1>15, <1>16, <1>17, <1>18, <1>19, <1>20, <1>21 DEF Next,
     Step

LEMMA StatusStep == VerdictInv /\ StatusInv /\ Next => StatusInv'
<1> SUFFICES ASSUME VerdictInv, StatusInv, Next PROVE StatusInv'
  OBVIOUS
<1> USE DEF StatusInv, BeforeHttp, Ending, Installing, transfer, session
<1>1. CASE InitNetwork
  BY <1>1 DEF InitNetwork, Goto
<1>2. CASE AllocatePool
  BY <1>2 DEF AllocatePool, Goto
<1>3. CASE InitHttp
  BY <1>3 DEF InitHttp, Goto
<1>4. CASE CreateClient
  BY <1>4 DEF CreateClient, Goto
<1>5. CASE CreateTransaction
  BY <1>5 DEF CreateTransaction, Goto
<1>6. CASE SendRequest
  BY <1>6 DEF SendRequest, Goto
<1>7. CASE GetHeader
  BY <1>7 DEF GetHeader, HeaderErr
<1>8. CASE OpenDownload
  BY <1>8 DEF OpenDownload, Goto
<1>9. CASE ReceiveChunk
  BY <1>9 DEF ReceiveChunk, Goto
<1>10. CASE WriteChunk
  BY <1>10 DEF WriteChunk, Goto, AfterWrite
<1>11. CASE CompareDigest
  BY <1>11 DEF CompareDigest, Goto
<1>12. CASE DestroyTransaction
  BY <1>12 DEF DestroyTransaction, Goto
<1>13. CASE EndHttp
  BY <1>13 DEF EndHttp, Goto
<1>14. CASE DestroyClient
  BY <1>14 DEF DestroyClient, Goto
<1>15. CASE FreePool
  BY <1>15 DEF FreePool, Goto
<1>16. CASE FinalizeNetwork
  BY <1>16 DEF FinalizeNetwork, Goto
<1>17. CASE OpenSource
  BY <1>17 DEF OpenSource, Goto, VerdictInv
<1>18. CASE OpenTarget
  BY <1>18 DEF OpenTarget, Goto, VerdictInv
<1>19. CASE ReadChunk
  BY <1>19 DEF ReadChunk, Goto, VerdictInv
<1>20. CASE CopyChunk
  BY <1>20 DEF CopyChunk, Goto, AfterWrite, VerdictInv
<1>21. CASE PowerCycle
  BY <1>21 DEF PowerCycle, Loaded
<1> QED
  BY <1>1, <1>2, <1>3, <1>4, <1>5, <1>6, <1>7, <1>8, <1>9, <1>10, <1>11, <1>12,
     <1>13, <1>14, <1>15, <1>16, <1>17, <1>18, <1>19, <1>20, <1>21 DEF Next,
     Step

LEMMA InstallStep == TypeOK /\ NothingSkipped /\ VerdictInv /\ InstallInv /\ Next => InstallInv'
<1> SUFFICES ASSUME TypeOK, NothingSkipped, VerdictInv, InstallInv, Next PROVE InstallInv'
  OBVIOUS
<1> USE DEF InstallInv, RecoverableImage, Complete, Copying, Ended, transfer, session
<1>1. CASE InitNetwork
  BY <1>1 DEF InitNetwork, Goto
<1>2. CASE AllocatePool
  BY <1>2 DEF AllocatePool, Goto
<1>3. CASE InitHttp
  BY <1>3 DEF InitHttp, Goto
<1>4. CASE CreateClient
  BY <1>4 DEF CreateClient, Goto
<1>5. CASE CreateTransaction
  BY <1>5 DEF CreateTransaction, Goto
<1>6. CASE SendRequest
  BY <1>6 DEF SendRequest, Goto
<1>7. CASE GetHeader
  BY <1>7 DEF GetHeader
<1>8. CASE OpenDownload
  BY <1>8 DEF OpenDownload, Goto, Emptied, TypeOK, Contents
<1>9. CASE ReceiveChunk
  BY <1>9 DEF ReceiveChunk, Goto
<1>10. CASE WriteChunk
  BY <1>10 DEF WriteChunk, Goto, AfterWrite, TypeOK, Contents
<1>11. CASE CompareDigest
  BY <1>11 DEF CompareDigest, Goto
<1>12. CASE DestroyTransaction
  BY <1>12 DEF DestroyTransaction, Goto
<1>13. CASE EndHttp
  BY <1>13 DEF EndHttp, Goto
<1>14. CASE DestroyClient
  BY <1>14 DEF DestroyClient, Goto
<1>15. CASE FreePool
  BY <1>15 DEF FreePool, Goto
<1>16. CASE FinalizeNetwork
  BY <1>16 DEF FinalizeNetwork, Goto
<1>17. CASE OpenSource
  BY <1>17 DEF OpenSource, Goto, VerdictInv, Installing
<1>18. CASE OpenTarget
  BY <1>18 DEF OpenTarget, Goto, Emptied, TypeOK, Contents, VerdictInv,
         Installing
<1>19. CASE ReadChunk
  BY <1>19 DEF ReadChunk, Goto, TypeOK, Contents, NothingSkipped, VerdictInv,
         Installing
<1>20. CASE CopyChunk
  BY <1>20 DEF CopyChunk, Goto, AfterWrite, TypeOK, Contents, NothingSkipped,
         VerdictInv, Installing
<1>21. CASE PowerCycle
  BY <1>21 DEF PowerCycle, Loaded
<1> QED
  BY <1>1, <1>2, <1>3, <1>4, <1>5, <1>6, <1>7, <1>8, <1>9, <1>10, <1>11, <1>12,
     <1>13, <1>14, <1>15, <1>16, <1>17, <1>18, <1>19, <1>20, <1>21 DEF Next,
     Step

-------------------------------------------------------------------------------
(* IInv is an invariant, and what follows from it.                         *)

LEMMA InitIInv == Init => IInv
<1> SUFFICES ASSUME Init PROVE IInv
  OBVIOUS
<1> USE DEF Init
<1>1. TypeOK
  <2>1. disk \in [download : Contents, install : Contents]
    BY ImagesAssumption, SizeAssumption DEF Contents, Emptied, Complete
  <2>2. resp \in Responses
    BY NoResponseType
  <2>3. pc \in Locations /\ held \subseteq Resources
    BY DEF Locations
  <2>4. taken \in 0..Size /\ chunk \in 0..Chunk /\ offset \in 0..chunk
    BY SizeAssumption
  <2>5. err \in 0..2
    OBVIOUS
  <2>6. hdrOk \in BOOLEAN /\ hashOk \in BOOLEAN
    BY Zenon
  <2> QED
    BY <2>1, <2>2, <2>3, <2>4, <2>5, <2>6 DEF TypeOK
<1>2. NothingSkipped /\ HeldInv /\ DownloadInv
  BY DEF NothingSkipped, HeldInv, DownloadInv, BeforeHttp, Transaction, WithLibrary,
         WithPool, Copying
<1>3. VerdictInv /\ StatusInv
  BY DEF VerdictInv, StatusInv, BeforeHttp, Ending, Installing
<1>4. InstallInv
  BY SizeAssumption DEF InstallInv, RecoverableImage, Complete, Copying, Ended
<1> QED
  BY <1>1, <1>2, <1>3, <1>4 DEF IInv

LEMMA StutterStep == IInv /\ UNCHANGED vars => IInv'
  BY DEF IInv, vars, TypeOK, NothingSkipped, HeldInv, DownloadInv, VerdictInv, StatusInv,
         InstallInv, RecoverableImage, Installing

LEMMA InvStep == IInv /\ Next => IInv'
  BY TypeStep, TransferStep, HeldStep, DownloadStep, VerdictStep, StatusStep,
     InstallStep DEF IInv

\* The strengthening of the safety properties is inductive.
THEOREM Invariance == Spec => []IInv
  BY InitIInv, InvStep, StutterStep, PTL DEF Spec

\* All that a boot needs of the one before it is in the two files.
LEMMA PowerCycleInv == TypeOK /\ InstallInv /\ PowerCycle => IInv'
<1> SUFFICES ASSUME TypeOK, InstallInv, PowerCycle PROVE IInv'
  OBVIOUS
<1> USE DEF PowerCycle, Loaded
<1>1. TypeOK'
  <2>1. /\ resp' \in Responses
        /\ taken' \in 0..Size /\ chunk' \in 0..Chunk /\ offset' \in 0..chunk'
    BY NoResponseType, SizeAssumption
  <2>2. hdrOk' \in BOOLEAN /\ hashOk' \in BOOLEAN
    BY Zenon
  <2> QED
    BY <2>1, <2>2 DEF TypeOK, Locations
<1>2. NothingSkipped' /\ HeldInv' /\ DownloadInv'
  BY DEF NothingSkipped, HeldInv, DownloadInv, BeforeHttp, Transaction, WithLibrary,
         WithPool, Copying
<1>3. VerdictInv' /\ StatusInv'
  BY DEF VerdictInv, StatusInv, BeforeHttp, Ending, Installing
<1>4. InstallInv'
  BY DEF InstallInv, RecoverableImage, Complete, Copying, Ended
<1> QED
  BY <1>1, <1>2, <1>3, <1>4 DEF IInv

\* Every variable keeps its type, for every number of images, image size and
\* buffer size.
THEOREM TypeCorrectness == Spec => []TypeOK
<1>1. IInv => TypeOK
  BY DEF IInv
<1> QED
  BY Invariance, <1>1, PTL

\* The digest covers the bytes in the file, and the copy has no holes, whatever
\* the sizes of the receives, reads and writes.
THEOREM TransferIsExact == Spec => []NothingSkipped
<1>1. IInv => NothingSkipped
  BY DEF IInv
<1> QED
  BY Invariance, <1>1, PTL

\* With both digests in hand, only a whole announced image is installed.
THEOREM InstallSafety == Spec => []InstallNeedsProof
<1>1. IInv => InstallNeedsProof
  BY DEF IInv, VerdictInv, InstallNeedsProof
<1> QED
  BY Invariance, <1>1, PTL

\* The HTTP library never outlives its pool, and the transaction is gone before
\* its client, the library or the pool is, whichever constructor fails and
\* whichever way out DownloadUpdate takes.
THEOREM PoolSafety == Spec => []PoolOutlivesHttp
<1>1. ASSUME IInv PROVE PoolOutlivesHttp
  <2>1. "http" \in held => "pool" \in held
    BY <1>1 DEF IInv, HeldInv, WithPool
  <2>2. "trans" \in held => {"client", "http"} \subseteq held
    BY <1>1 DEF IInv, HeldInv
  <2> QED
    BY <2>1, <2>2 DEF PoolOutlivesHttp
<1> QED
  BY Invariance, <1>1, PTL

\* What a call can leave behind is the descriptor of a broken download, a
\* client that the ended library did not destroy, and the network where it
\* came up.
THEOREM ReleaseSafety == Spec => []ReturnReleases
<1>1. ASSUME IInv PROVE ReturnReleases
  <2> SUFFICES ASSUME pc = "returned"
               PROVE  /\ held \subseteq {"downloadFd", "client", "net"}
                      /\ hashOk => "downloadFd" \notin held
                      /\ "net" \in held => held = {"net"} /\ err = 2
    BY DEF ReturnReleases
  <2>1. held \subseteq Resources
    BY <1>1 DEF IInv, TypeOK
  <2>2. held \intersect {"pool", "http", "trans", "srcFd", "dstFd"} = {}
    BY <1>1 DEF IInv, HeldInv, Transaction, WithLibrary, WithPool, Copying
  <2>3. hashOk => "downloadFd" \notin held
    BY <1>1 DEF IInv, DownloadInv
  <2>4. "net" \in held => held = {"net"} /\ err = 2
    BY <1>1 DEF IInv, HeldInv
  <2> QED
    BY <2>1, <2>2, <2>3, <2>4 DEF Resources
<1> QED
  BY Invariance, <1>1, PTL

\* An offer that did not check out is never reported as being up to date.
THEOREM StatusSafety == Spec => []ResultFitsStatus
<1>1. IInv => ResultFitsStatus
  BY DEF IInv, StatusInv, ResultFitsStatus
<1> QED
  BY Invariance, <1>1, PTL

\* Provided unwritten memory never compares equal to the header, a power loss
\* leaves the installed image whole or its replacement whole.
THEOREM Recoverability == ASSUME ~LuckyCompare PROVE Spec => []RecoverableImage
<1>1. IInv => RecoverableImage
  BY DEF IInv, InstallInv
<1> QED
  BY Invariance, <1>1, PTL

-------------------------------------------------------------------------------
(* The file while it is not replaced.                                      *)

\* The copy over INSTALL_PATH has not begun, or the call ended without one.
NotReplaced ==
    pc \notin {"read", "copy", "unbootable"} /\ ~(pc = "returned" /\ err = 1)

\* A call on its way to the copy, or past it without one, has left INSTALL_PATH
\* alone all along.
LEMMA NotReplacedStep ==
    ASSUME TypeOK, VerdictInv, Step, NotReplaced'
    PROVE  NotReplaced /\ disk'.install = disk.install
<1> USE DEF NotReplaced, VerdictInv, Installing, Goto
<1>0. disk \in [download : Contents, install : Contents]
  BY DEF TypeOK
<1>1. CASE \/ InitNetwork \/ AllocatePool \/ InitHttp \/ CreateClient
           \/ CreateTransaction
  BY <1>1 DEF InitNetwork, AllocatePool, InitHttp, CreateClient, CreateTransaction
<1>2. CASE SendRequest \/ GetHeader \/ ReceiveChunk \/ CompareDigest
  BY <1>2 DEF SendRequest, GetHeader, ReceiveChunk, CompareDigest
<1>3. CASE OpenDownload \/ WriteChunk
  BY <1>0, <1>3 DEF OpenDownload, WriteChunk, AfterWrite
<1>4. CASE \/ DestroyTransaction \/ EndHttp \/ DestroyClient \/ FreePool
           \/ FinalizeNetwork
  BY <1>4 DEF DestroyTransaction, EndHttp, DestroyClient, FreePool, FinalizeNetwork
<1>5. CASE OpenSource \/ OpenTarget
  BY <1>5 DEF OpenSource, OpenTarget
<1>6. CASE ReadChunk
  BY <1>6 DEF ReadChunk
<1>7. CASE CopyChunk
  BY <1>7 DEF CopyChunk, AfterWrite
<1> QED
  BY <1>1, <1>2, <1>3, <1>4, <1>5, <1>6, <1>7 DEF Step

-------------------------------------------------------------------------------
(* The refinement of ImageStore.                                           *)

\* A step that leaves INSTALL_PATH alone and is not part of the installation.
Outside == ~Installing /\ ~Installing' /\ UNCHANGED disk.install

LEMMA StoreInit == Init => Store!Init
  BY DEF Init, Store!Init, Store!Complete, Complete, Installing

LEMMA OutsideStep == Outside => UNCHANGED Store!vars
  BY DEF Outside, Store!vars, Installing

LEMMA DownloadOutside ==
    IInv /\ (\/ InitNetwork \/ AllocatePool \/ InitHttp \/ CreateClient
             \/ CreateTransaction \/ SendRequest \/ GetHeader \/ OpenDownload
             \/ ReceiveChunk \/ WriteChunk \/ CompareDigest \/ DestroyTransaction
             \/ EndHttp \/ DestroyClient \/ FreePool) => Outside
<1> SUFFICES ASSUME IInv PROVE
      (\/ InitNetwork \/ AllocatePool \/ InitHttp \/ CreateClient
       \/ CreateTransaction \/ SendRequest \/ GetHeader \/ OpenDownload
       \/ ReceiveChunk \/ WriteChunk \/ CompareDigest \/ DestroyTransaction
       \/ EndHttp \/ DestroyClient \/ FreePool) => Outside
  OBVIOUS
<1> USE DEF Goto, Outside, Installing
<1>1. disk \in [download : Contents, install : Contents]
  BY DEF IInv, TypeOK
<1>2. (InitNetwork \/ AllocatePool \/ InitHttp \/ CreateClient \/ CreateTransaction)
      => Outside
  BY DEF InitNetwork, AllocatePool, InitHttp, CreateClient, CreateTransaction
<1>3. (SendRequest \/ GetHeader \/ ReceiveChunk \/ CompareDigest) => Outside
  BY DEF SendRequest, GetHeader, ReceiveChunk, CompareDigest
<1>4. (OpenDownload \/ WriteChunk) => Outside
  BY <1>1 DEF OpenDownload, WriteChunk, AfterWrite
<1>5. (DestroyTransaction \/ EndHttp \/ DestroyClient \/ FreePool) => Outside
  BY DEF DestroyTransaction, EndHttp, DestroyClient, FreePool
<1> QED
  BY <1>2, <1>3, <1>4, <1>5

\* Where installing begins and while it goes on, resp.hash is the announced
\* image, and DOWNLOAD_PATH holds it.
LEMMA AcceptedImage ==
    ASSUME ~LuckyCompare, IInv, Installing \/ (pc = "finalize" /\ err = 1)
    PROVE  /\ resp.hash \in Published /\ resp.hash # NoImage
           /\ disk.download = Complete(resp.hash)
<1>1. hdrOk /\ hashOk
  BY DEF IInv, VerdictInv, Ending
<1> QED
  BY <1>1, ImagesAssumption DEF IInv, VerdictInv, Ending

LEMMA FinalizeNetworkStore ==
    ASSUME ~LuckyCompare, IInv, FinalizeNetwork
    PROVE  Store!Next \/ UNCHANGED Store!vars
<1> USE DEF FinalizeNetwork, Goto
<1>1. CASE err = 1
  <2>1. disk.install.len = Size
    BY DEF IInv, InstallInv, Copying, Ended
  <2>2. Store!Accept
    BY <1>1, <2>1, AcceptedImage DEF Store!Accept, Installing, session
  <2> QED
    BY <2>2 DEF Store!Next
<1>2. CASE err # 1
  BY <1>2, OutsideStep DEF Outside, Installing
<1> QED
  BY <1>1, <1>2

LEMMA OpenSourceStore ==
    ASSUME OpenSource
    PROVE  Store!Next \/ UNCHANGED Store!vars
<1> USE DEF OpenSource, Goto
<1>1. CASE pc' = "returned"
  BY <1>1 DEF Store!Next, Store!Finish, Installing
<1>2. CASE pc' = "openDst"
  BY <1>2 DEF Store!vars, Installing, session
<1> QED
  BY <1>1, <1>2

LEMMA OpenTargetStore ==
    ASSUME ~LuckyCompare, IInv, OpenTarget
    PROVE  Store!Next \/ UNCHANGED Store!vars
<1> USE DEF OpenTarget, Goto
<1>1. CASE pc' = "returned"
  BY <1>1 DEF Store!Next, Store!Finish, Installing
<1>2. CASE pc' = "read"
  <2>1. disk.install.len = Size
    BY DEF IInv, InstallInv, Copying, Ended
  <2>2. disk \in [download : Contents, install : Contents]
    BY DEF IInv, TypeOK
  <2>3. disk.download.img = resp.hash
    BY AcceptedImage DEF Installing, Complete
  <2>4. disk'.install = Emptied(resp.hash)
    BY <1>2, <2>2, <2>3
  <2>5. Store!Truncate
    BY <1>2, <2>1, <2>4, AcceptedImage
       DEF Store!Truncate, Emptied, Installing, session
  <2> QED
    BY <2>5 DEF Store!Next
<1> QED
  BY <1>1, <1>2

LEMMA ReadChunkStore ==
    ASSUME IInv, ReadChunk
    PROVE  Store!Next \/ UNCHANGED Store!vars
<1> USE DEF ReadChunk, Goto
<1>1. CASE pc' = "returned"
  BY <1>1 DEF Store!Next, Store!Finish, Installing
<1>2. CASE pc' = "copy"
  BY <1>2 DEF Store!vars, Installing, session
<1> QED
  BY <1>1, <1>2

LEMMA CopyChunkStore ==
    ASSUME ~LuckyCompare, IInv, CopyChunk
    PROVE  Store!Next \/ UNCHANGED Store!vars
<1> USE DEF CopyChunk, Goto
<1>1. CASE pc' = "returned"
  BY <1>1 DEF AfterWrite, Store!Next, Store!Finish, Installing
<1>2. CASE pc' # "returned"
  <2>1. PICK n \in 1..(chunk - offset) :
           /\ pc' = AfterWrite(n, "copy", "read")
           /\ disk' = [disk EXCEPT !.install.len = @ + n]
    BY <1>2
  <2>2. pc' \in {"read", "copy"}
    BY <2>1 DEF AfterWrite
  <2>3. /\ disk \in [download : Contents, install : Contents]
        /\ chunk \in 0..Chunk /\ offset \in 0..chunk /\ taken \in 0..Size
    BY DEF IInv, TypeOK
  <2>4. disk.install.img = resp.hash
    BY AcceptedImage DEF IInv, NothingSkipped, Installing, Complete
  <2>5. disk.install.len + n \in disk.install.len..Size
    BY <2>3, SizeAssumption DEF IInv, NothingSkipped, Contents
  <2>6. disk'.install = [disk.install EXCEPT !.len = disk.install.len + n]
    BY <2>1, <2>3
  <2>7. Store!Grow
    BY <2>2, <2>4, <2>5, <2>6, AcceptedImage
       DEF Store!Grow, Installing, session
  <2> QED
    BY <2>7 DEF Store!Next
<1> QED
  BY <1>1, <1>2

LEMMA PowerCycleStore ==
    PowerCycle => Store!Next \/ UNCHANGED Store!vars
  BY DEF PowerCycle, Loaded, Store!Next, Store!Finish, Installing

LEMMA StoreStep ==
    ASSUME ~LuckyCompare, IInv, Next
    PROVE  Store!Next \/ UNCHANGED Store!vars
<1>1. CASE FinalizeNetwork
  BY <1>1, FinalizeNetworkStore
<1>2. CASE OpenSource
  BY <1>2, OpenSourceStore
<1>3. CASE OpenTarget
  BY <1>3, OpenTargetStore
<1>4. CASE ReadChunk
  BY <1>4, ReadChunkStore
<1>5. CASE CopyChunk
  BY <1>5, CopyChunkStore
<1>6. CASE PowerCycle
  BY <1>6, PowerCycleStore
<1> QED
  BY <1>1, <1>2, <1>3, <1>4, <1>5, <1>6, DownloadOutside, OutsideStep DEF Next, Step

LEMMA StoreStutter == UNCHANGED vars => UNCHANGED Store!vars
  BY DEF vars, Store!vars, Installing

\* Provided unwritten memory never compares equal to the header, the updater
\* implements ImageStore: the installed file is replaced only while it is whole,
\* by an announced image, front to back, across every failure and power loss.
THEOREM Refinement == ASSUME ~LuckyCompare PROVE Spec => StoreSpec
  BY Invariance, StoreInit, StoreStep, StoreStutter, PTL
     DEF Spec, StoreSpec, Store!Spec
===============================================================================
