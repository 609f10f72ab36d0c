---------------------------- MODULE FsimUpload ----------------------------
(***************************************************************************)
(* The fdo.upload module: UploadRequest of the owner service asks for a    *)
(* file, Upload of the device sends it while it may change.                *)
(***************************************************************************)
EXTENDS ServiceInfoModules

CONSTANT MaxEdits           \* edits of the device's file

ASSUME UploadAssumption == MaxEdits \in Nat

VARIABLES
    devFile,                \* the device's file; Nil: there is none
    edits,                  \* edits of it so far
    upOwner,                \* UploadRequest
    upDevice,               \* Upload, and the state of a running upload
    stored                  \* the file the owner service stored

uploadVars == <<devFile, edits, upOwner, upDevice, stored>>

NewUpload == [requested |-> FALSE, length |-> 0, temp |-> <<>>, sha |-> Nil]

\* Upload.reset; left is what is left to send, sent what was.
ResetUpload == [needSha |-> FALSE, left |-> Nil, sent |-> <<>>]

UploadInit ==
    /\ devFile \in IF Contains(list, "upload") THEN Contents \cup {Nil} ELSE {Nil}
    /\ edits = 0
    /\ upOwner = NewUpload
    /\ upDevice = ResetUpload
    /\ stored = Nil

------------------------------------------------------------------------------
(* Device: Upload.                                                           *)

UploadActive ==
    /\ handleActive("upload")
    /\ upDevice' = IF active["upload"] THEN upDevice ELSE ResetUpload
    /\ UNCHANGED <<devFile, edits, upOwner, stored>>

UploadNeedSha ==
    /\ Received("upload", "need-sha")
    /\ Handled(<<>>)
    /\ upDevice' = [upDevice EXCEPT !.needSha = TRUE]
    /\ UNCHANGED <<devFile, edits, upOwner, stored>>

\* The name starts the upload: the size the file has now is announced.
UploadOpen ==
    /\ Received("upload", "name")
    /\ upDevice.left = Nil
    /\ \/ /\ devFile # Nil
          /\ Responds(<<KV("upload", "length", Len(devFile))>>)
          /\ upDevice' = [upDevice EXCEPT !.left = Len(devFile)]
       \/ /\ devFile = Nil
          /\ DeviceFails
          /\ upDevice' = ResetUpload
    /\ UNCHANGED <<devFile, edits, upOwner, stored>>

UploadRead_FromStart ==                  \* mutant: every read begins at the start of the file
    /\ Received("upload", "name")
    /\ upDevice.left # Nil /\ upDevice.left > 0
    /\ LET n     == IF upDevice.left < ChunkSize THEN upDevice.left ELSE ChunkSize
           chunk == SubSeq(devFile, 1, IF n < Len(devFile) THEN n ELSE Len(devFile))
       IN  IF chunk # <<>>
           THEN /\ Responds(<<KV("upload", "data", chunk)>>)
                /\ upDevice' = [upDevice EXCEPT !.left = @ - Len(chunk), !.sent = @ \o chunk]
           ELSE DeviceFails /\ upDevice' = ResetUpload
    /\ UNCHANGED <<devFile, edits, upOwner, stored>>

\* The next chunk of what is left; a file that became shorter ends in an error.
UploadRead ==
    /\ Received("upload", "name")
    /\ upDevice.left # Nil /\ upDevice.left > 0
    /\ LET from  == Len(upDevice.sent)
           n     == IF upDevice.left < ChunkSize THEN upDevice.left ELSE ChunkSize
           last  == IF from + n < Len(devFile) THEN from + n ELSE Len(devFile)
           chunk == SubSeq(devFile, from + 1, last)
       IN  \/ /\ chunk # <<>>
              /\ Responds(<<KV("upload", "data", chunk)>>)
              /\ upDevice' = [upDevice EXCEPT !.left = @ - Len(chunk), !.sent = @ \o chunk]
           \/ /\ chunk = <<>>
              /\ DeviceFails
              /\ upDevice' = ResetUpload
    /\ UNCHANGED <<devFile, edits, upOwner, stored>>

UploadFinish ==
    /\ Received("upload", "name")
    /\ upDevice.left = 0
    /\ Handled(IF upDevice.needSha THEN <<KV("upload", "sha-384", upDevice.sent)>> ELSE <<>>)
    /\ upDevice' = ResetUpload
    /\ UNCHANGED <<devFile, edits, upOwner, stored>>

UploadYield ==
    /\ Yields("upload")
    /\ Yielded(<<>>)
    /\ UNCHANGED uploadVars

------------------------------------------------------------------------------
(* Owner: UploadRequest.                                                     *)

UploadHandleInfo ==
    /\ \/ /\ HandleInfo("upload", "active")
          /\ InfoHandled
          /\ UNCHANGED upOwner
       \/ /\ HandleInfo("upload", "length")
          /\ InfoHandled
          /\ upOwner' = [upOwner EXCEPT !.length = toOwner[1].val]
       \/ /\ HandleInfo("upload", "data")        \* the disk of the owner takes it
          /\ InfoHandled
          /\ upOwner' = [upOwner EXCEPT !.temp = @ \o toOwner[1].val]
       \/ /\ HandleInfo("upload", "data")        \* or not
          /\ OwnerFails
          /\ UNCHANGED upOwner
       \/ /\ HandleInfo("upload", "sha-384")
          /\ InfoHandled
          /\ upOwner' = [upOwner EXCEPT !.sha = toOwner[1].val]
    /\ UNCHANGED <<devFile, edits, upDevice, stored>>

\* The file is complete when a hash and all of a length above 0 are there.
UploadComplete ==
    /\ upOwner.sha # Nil
    /\ upOwner.length > 0
    /\ Len(upOwner.temp) >= upOwner.length

UploadProduceInfo ==
    /\ ProduceInfo("upload")
    /\ \/ /\ ~upOwner.requested
          /\ Produced(<<KV("upload", "active", TRUE), KV("upload", "need-sha", TRUE),
                        KV("upload", "name", TRUE)>>, FALSE, FALSE)
          /\ upOwner' = [upOwner EXCEPT !.requested = TRUE]
          /\ UNCHANGED stored
       \/ /\ upOwner.requested /\ ~UploadComplete
          /\ Produced(<<>>, FALSE, FALSE)
          /\ UNCHANGED <<upOwner, stored>>
       \/ /\ upOwner.requested /\ UploadComplete        \* finalize
          /\ Len(upOwner.temp) = upOwner.length /\ upOwner.sha = upOwner.temp
          /\ Produced(<<>>, FALSE, TRUE)
          /\ stored' = upOwner.temp
          /\ upOwner' = NewUpload
       \/ /\ upOwner.requested /\ UploadComplete        \* it differs, or cannot be renamed
          /\ OwnerFails
          /\ UNCHANGED <<upOwner, stored>>
    /\ UNCHANGED <<devFile, edits, upDevice>>

------------------------------------------------------------------------------
UploadFault ==
    /\ edits < MaxEdits
    /\ edits' = edits + 1
    /\ devFile # Nil
    /\ devFile' \in Contents \ {devFile}
    /\ UNCHANGED <<upOwner, upDevice, stored>>

UploadStep ==
    \/ UploadActive \/ UploadNeedSha \/ UploadOpen \/ UploadRead \/ UploadFinish \/ UploadYield
    \/ UploadHandleInfo \/ UploadProduceInfo

------------------------------------------------------------------------------
(* Properties.                                                               *)

\* The owner stores a file only once the device has sent all of it and said so,
\* and then exactly what one unbroken upload sent; an unedited file arrives as
\* it is.
Stored ==
    stored' # stored => /\ upDevice.left = Nil
                        /\ edits = 0 => stored' = devFile
=============================================================================
