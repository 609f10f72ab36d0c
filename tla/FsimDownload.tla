--------------------------- MODULE FsimDownload ---------------------------
(***************************************************************************)
(* The fdo.download module: DownloadContents of the owner service sends a  *)
(* file, Download of the device puts it in place.  The owner reads the     *)
(* file once for its hash and again, chunk by chunk over many messages, to *)
(* send it; it may change in between.  A SHA-384 is written as the         *)
(* contents it is the hash of.                                             *)
(***************************************************************************)
EXTENDS ServiceInfoModules

CONSTANT MaxFaults          \* edits of a file and changes of a disk

ASSUME DownloadAssumption == MaxFaults \in Nat

VARIABLES
    contents,               \* the file the owner serves
    disk,                   \* the device's disk: "ok", "full", "nodir"
    faults,                 \* edits and changes of the disk so far
    dlOwner,                \* DownloadContents
    dlDevice,               \* Download
    placed                  \* file on the device under the name that was sent

downloadVars == <<contents, disk, faults, dlOwner, dlDevice, placed>>

\* A new DownloadContents.  must is MustDownload, chosen when the module starts;
\* sha the hash, and with it the length, that it computes then.
NewDownload == [must |-> FALSE, started |-> FALSE, sha |-> Nil, index |-> 0, done |-> FALSE]

\* Download.reset: the temporary file is removed, the hash cleared.
ResetDownload == [name |-> FALSE, length |-> 0, sha |-> Nil, temp |-> Nil]

DownloadInit ==
    /\ contents \in IF Contains(list, "download") THEN Contents ELSE {<<>>}
    /\ disk = "ok"
    /\ faults = 0
    /\ dlOwner = NewDownload
    /\ dlDevice = ResetDownload
    /\ placed = Nil

------------------------------------------------------------------------------
(* Device: Download.                                                         *)

DownloadActive_KeepState ==              \* mutant: Transition does not reset
    /\ handleActive("download")
    /\ UNCHANGED downloadVars

DownloadActive ==
    /\ handleActive("download")
    /\ dlDevice' = IF active["download"] THEN dlDevice ELSE ResetDownload
    /\ UNCHANGED <<contents, disk, faults, dlOwner, placed>>

DownloadParameter ==
    /\ \/ /\ Received("download", "length")
          /\ dlDevice' = [dlDevice EXCEPT !.length = toDevice[1].val]
       \/ /\ Received("download", "sha-384")
          /\ dlDevice' = [dlDevice EXCEPT !.sha = toDevice[1].val]
       \/ /\ Received("download", "name")
          /\ dlDevice' = [dlDevice EXCEPT !.name = TRUE]
    /\ Handled(<<>>)
    /\ UNCHANGED <<contents, disk, faults, dlOwner, placed>>

Done(v) == <<KV("download", "done", v)>>

\* The length, then the checksum, then the rename; whatever comes out, the
\* module is reset.  (The owner always names the file before it sends data.)
finalize(w) ==
    /\ IF Len(w) > dlDevice.length \/ w # dlDevice.sha \/ disk = "nodir"
       THEN Handled(Done(-1)) /\ UNCHANGED placed
       ELSE Handled(Done(Len(w))) /\ placed' = w
    /\ dlDevice' = ResetDownload

\* A data message: the temporary file is created with the first.
DownloadData ==
    /\ Received("download", "data")
    /\ LET temp == IF dlDevice.temp = Nil THEN <<>> ELSE dlDevice.temp
           w    == temp \o toDevice[1].val
       IN  \/ /\ disk = "full" /\ dlDevice.temp = Nil
              /\ DeviceFails
              /\ dlDevice' = ResetDownload /\ UNCHANGED placed
           \/ /\ disk = "full" /\ dlDevice.temp # Nil
              /\ Handled(Done(-1))
              /\ dlDevice' = ResetDownload /\ UNCHANGED placed
           \/ /\ disk # "full" /\ Len(w) < dlDevice.length
              /\ Handled(<<>>)
              /\ dlDevice' = [dlDevice EXCEPT !.temp = w] /\ UNCHANGED placed
           \/ /\ disk # "full" /\ Len(w) >= dlDevice.length
              /\ finalize(w)
    /\ UNCHANGED <<contents, disk, faults, dlOwner>>

DownloadYield ==
    /\ Yields("download")
    /\ Yielded(<<>>)
    /\ UNCHANGED downloadVars

------------------------------------------------------------------------------
(* Owner: DownloadContents.                                                  *)

DownloadHandleInfo ==
    \/ /\ HandleInfo("download", "active")
       /\ InfoHandled
       /\ UNCHANGED downloadVars
    \/ /\ HandleInfo("download", "done")
       /\ LET v == toOwner[1].val
              refused == IF v = -1 THEN dlOwner.must ELSE v # dlOwner.index
          IN  \/ refused /\ OwnerFails /\ UNCHANGED dlOwner
              \/ ~refused /\ InfoHandled /\ dlOwner' = [dlOwner EXCEPT !.done = TRUE]
       /\ UNCHANGED <<contents, disk, faults, dlDevice, placed>>

\* The hash of the contents first; then, a chunk at a time, what the file has at
\* the index by then.
DownloadProduceInfo ==
    /\ ProduceInfo("download")
    /\ \/ /\ dlOwner.done
          /\ Produced(<<>>, FALSE, TRUE)
          /\ dlOwner' = NewDownload
       \/ /\ ~dlOwner.done /\ ~dlOwner.started
          /\ Produced(<<KV("download", "active", TRUE), KV("download", "name", TRUE),
                        KV("download", "length", Len(contents)),
                        KV("download", "sha-384", contents)>>, FALSE, FALSE)
          /\ \E must \in BOOLEAN :
                dlOwner' = [dlOwner EXCEPT !.must = must, !.started = TRUE, !.sha = contents]
       \/ /\ ~dlOwner.done /\ dlOwner.started
          /\ LET last  == IF dlOwner.index + ChunkSize < Len(contents)
                          THEN dlOwner.index + ChunkSize ELSE Len(contents)
                 chunk == SubSeq(contents, dlOwner.index + 1, last)
             IN  /\ Produced(IF chunk = <<>> THEN <<>> ELSE <<KV("download", "data", chunk)>>, FALSE, FALSE)
                 /\ dlOwner' = [dlOwner EXCEPT !.index = @ + Len(chunk)]
    /\ UNCHANGED <<contents, disk, faults, dlDevice, placed>>

------------------------------------------------------------------------------
(* Around them: the owner's file is edited, the device's disk fills up or is *)
(* put right.                                                                *)

DownloadFault ==
    /\ faults < MaxFaults
    /\ faults' = faults + 1
    /\ \/ contents' \in Contents \ {contents} /\ UNCHANGED disk
       \/ disk' \in {"ok", "full", "nodir"} \ {disk} /\ UNCHANGED contents
    /\ UNCHANGED <<dlOwner, dlDevice, placed>>

DownloadStep ==
    \/ DownloadActive \/ DownloadParameter \/ DownloadData \/ DownloadYield
    \/ DownloadHandleInfo \/ DownloadProduceInfo

------------------------------------------------------------------------------
(* Properties.                                                               *)

\* What the module puts in place is what the owner hashed when it began this
\* download, even if the file changed while it was sent.
Placed == placed' # placed => placed' = dlOwner.sha
=============================================================================
