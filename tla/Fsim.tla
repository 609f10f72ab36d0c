------------------------------- MODULE Fsim -------------------------------
(***************************************************************************)
(* A session of TO2 that runs service info modules of the fsim package,    *)
(* and the calls of TO2 that follow it when it fails.                      *)
(***************************************************************************)
EXTENDS FsimDownload, FsimUpload, FsimWget, FsimCommand

vars == <<exchangeVars, downloadVars, uploadVars, wgetVars, commandVars>>

Init == ExchangeInit /\ DownloadInit /\ UploadInit /\ WgetInit /\ CommandInit

\* The owner's modules of a session are new; the device's are kept.
NewCall ==
    /\ Retry
    /\ dlOwner' = NewDownload
    /\ upOwner' = NewUpload
    /\ wgOwner' = NewWget
    /\ cmOwner' = NewCommand
    /\ UNCHANGED <<contents, disk, faults, dlDevice, placed, devFile, edits, upDevice, stored>>
    /\ UNCHANGED <<wget, fetch, files, signals, cmd, process>>

Next ==
    \/ /\ DownloadStep \/ (Current("download") /\ DownloadFault /\ UNCHANGED exchangeVars)
       /\ UNCHANGED <<uploadVars, wgetVars, commandVars>>
    \/ /\ UploadStep \/ (Current("upload") /\ UploadFault /\ UNCHANGED exchangeVars)
       /\ UNCHANGED <<downloadVars, wgetVars, commandVars>>
    \/ WgetStep /\ UNCHANGED <<downloadVars, uploadVars, commandVars>>
    \/ CommandStep /\ UNCHANGED <<downloadVars, uploadVars, wgetVars>>
    \/ NothingToYield /\ UNCHANGED <<downloadVars, uploadVars, wgetVars, commandVars>>
    \/ Interrupted /\ UNCHANGED <<downloadVars, uploadVars, wgetVars, commandVars>>
    \/ NewCall

Spec == Init /\ [][Next]_vars

------------------------------------------------------------------------------
(* Properties.                                                               *)

\* The owner goes on to the next module only when the device has done its part:
\* the file is in place, or its refusal was accepted; the upload is stored; the
\* fetched file is in place with the length or checksum asked for, unless a
\* fetch left over from an earlier call put its file there; the process has exited.
CompleteIsComplete ==
    [][Running /\ Len(modules') < Len(modules) =>
          CASE modules[1] = "download" -> placed = dlOwner.sha \/ ~dlOwner.must
            [] modules[1] = "upload"   -> stored' = upOwner.sha
            [] modules[1] = "wget"     -> \/ wgOwner.check = "none"
                                      \/ \E i \in DOMAIN fetch : fetch[i].call < call
                                      \/ files[wgOwner.url] = wgOwner.url
            [] modules[1] = "command"  -> process.st = "exit" /\ cmOwner.exit # Nil]_vars

\* Files arrive as they were sent, however transfers and calls of TO2 are broken
\* off: downloads, uploads and fetches.
ArrivesIntact == [][Placed /\ Stored /\ Fetched]_vars

\* A transfer that nobody disturbs succeeds, whatever calls of TO2 came before.  The
\* device refuses a download only if the file was edited or the device's disk was in
\* trouble; and only a transfer of a file that is empty or was edited runs into the
\* limit of rounds.
UndisturbedSucceeds ==
    /\ \A i \in 1..Len(toOwner) :
           toOwner[i].mod = "download" /\ toOwner[i].msg = "done" /\ toOwner[i].val = -1 => faults > 0
    /\ result = "rounds" /\ modules # <<>> =>
           /\ modules[1] = "download" => faults > 0 \/ contents = <<>>
           /\ modules[1] = "upload" => edits > 0 \/ devFile = <<>>
=============================================================================
