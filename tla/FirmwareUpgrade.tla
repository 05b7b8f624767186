-------------------------- MODULE FirmwareUpgrade --------------------------
(***************************************************************************)
(* Firmware upgrade over the C2 link: the request, download, check, write  *)
(* and run commands of alink_upgrade.c, handled one at a time by the ALINK *)
(* thread, the transfer state of firmware.c, and auto_reboot_task, which   *)
(* unpacks the cached image concurrently with later commands.              *)
(*                                                                         *)
(* The ALINK thread and the tasks share cache_file_fd and its position:    *)
(* each lseek, read and write of it is a step of its own.  (The write of a *)
(* chunk that was read goes through the descriptor of the task and is part *)
(* of the step that reads it.)                                             *)
(*                                                                         *)
(* The image is a sequence of cells; a cell says which image it belongs to *)
(* and at which position, so that a fragment of another transfer shows.    *)
(* The first cell is the entry header of the one file the image holds.     *)
(* The CRC is represented by the cells it was computed over: two different *)
(* sequences are taken to have different CRCs.                             *)
(***************************************************************************)
EXTENDS Integers, Sequences

CONSTANTS
    Image,      \* images a host may send
    NoImage,    \* no header received since the start
    ImageLen,   \* firmwareLength of each image, in cells
    BufferSize, \* FIRMWARE_BUFFER_SIZE in cells
    Fragment,   \* lengths of a download fragment
    NoFragment, \* the ALINK thread is not between lseek and write
    Chunk,      \* cells of buffer[4096] of the copy loop
    Retries,    \* WRITE_FAIL_RETRY_CNT
    MaxTask,    \* bound on the auto_reboot_task threads between two reboots
    MaxRequest, \* bound on the accepted upgrade requests
    MaxFault    \* bound on failing file operations

ASSUME FirmwareAssumption ==
    /\ NoImage \notin Image
    /\ ImageLen \in [Image -> Nat \ {0}]
    /\ BufferSize \in Nat
    /\ Fragment \subseteq Nat \ {0}
    /\ NoFragment \notin [img : Image, len : Fragment]
    /\ Chunk \in Nat \ {0} /\ Retries \in Nat \ {0}
    /\ MaxTask \in Nat /\ MaxRequest \in Nat /\ MaxFault \in Nat

\* The threads, numbered as they are started.
Task == 1 .. MaxTask

VARIABLES
    updateState,\* update_state
    saveOk,     \* firmware_save_ok
    header,     \* sHeader: the announced image
    offset,     \* uOffset: cells received
    crc,        \* crc: the cells it was computed over
    cache,      \* the cache file
    cacheFd,    \* cache_file_fd is open
    fdPos,      \* file position of cache_file_fd, shared by its users
    frag,       \* the fragment between lseek and write of firmware_recv_data
    task,       \* task[k]: a started auto_reboot_task
    unpacked,   \* the unpacked file under FIRMWARE_DIR
    requests,   \* accepted requests
    faults,     \* failed file operations
    verified,   \* history: the image passed firmware_check since the request
    disturbed,  \* history: since the request, a request or a second run hit a task at work
    slipped,    \* history: since the request, a task moved fdPos while frag was pending
    unread      \* history: since the request, a task's read of a chunk failed

transfer == <<header, offset, crc, cache, cacheFd>>
bounds   == <<requests, faults>>
history  == <<verified, disturbed, slipped, unread>>
vars == <<updateState, saveOk, transfer, fdPos, frag, task, unpacked, bounds, history>>

Cell == [img : Image, pos : Nat]
Hole == [img |-> NoImage, pos |-> 0]
Contents(img) == [i \in 1 .. ImageLen[img] |-> [img |-> img, pos |-> i]]

\* The cells of img from position "at" on.
Data(img, at, len) == [i \in 1 .. len |-> [img |-> img, pos |-> at + i]]

Longer(a, b) == IF a < b THEN b ELSE a

\* write(2) of data at position pos: a gap behind the end of the file is zeros.
Written(file, pos, data) ==
    IF data = <<>> THEN file
    ELSE [i \in 1 .. Longer(Len(file), pos + Len(data)) |->
            IF pos < i /\ i <= pos + Len(data) THEN data[i - pos]
            ELSE IF i <= Len(file) THEN file[i] ELSE Hole]

UpdateStates == {"no_start", "request", "download", "check", "write", "wait_reboot"}
TaskPcs == {"none", "seek", "head", "copy", "close", "abandon", "switch", "failed"}
\* off: file_offset, len: file_len, left: file_len - all_len, wrote: position in
\* the unpacked file, linked: that file has its name, cnt: rounds of the loop
TaskState == [pc : TaskPcs, off : Nat, len : Nat, left : Nat, wrote : Nat,
              linked : BOOLEAN, cnt : Nat]
NoTask == [pc |-> "none", off |-> 0, len |-> 0, left |-> 0, wrote |-> 0,
           linked |-> TRUE, cnt |-> 0]
Working(k) == task[k].pc \notin {"none", "failed"}

Init ==
    /\ updateState = "no_start" /\ saveOk = FALSE
    /\ header = NoImage /\ offset = 0 /\ crc = <<>>
    /\ cache = <<>> /\ cacheFd = FALSE /\ fdPos = 0 /\ frag = NoFragment
    /\ task = [k \in Task |-> NoTask]
    /\ unpacked = <<>>
    /\ requests = 0 /\ faults = 0
    /\ verified = FALSE /\ disturbed = FALSE /\ slipped = FALSE /\ unread = FALSE

Fault == faults < MaxFault /\ faults' = faults + 1

----------------------------------------------------------------------------
(* Commands of the host, handled one at a time by the ALINK thread.        *)

Idle == frag = NoFragment

\* upgrade_request_upgrade: firmware_recv_init empties FIRMWARE_DIR and the
\* cache before it opens a new cache file.  The old descriptor is not closed;
\* a task that copies goes on into a file without a name.
RequestUpgrade(img) ==
    /\ Idle
    /\ updateState # "wait_reboot"
    /\ ImageLen[img] <= BufferSize
    /\ requests < MaxRequest /\ requests' = requests + 1
    /\ updateState' = "request"
    /\ header' = img /\ offset' = 0 /\ crc' = <<>>
    /\ cache' = <<>> /\ cacheFd' = TRUE /\ fdPos' = 0
    /\ unpacked' = <<>>
    /\ task' = [k \in Task |-> [task[k] EXCEPT !.linked = task[k].pc # "copy"]]
    /\ disturbed' = \E k \in Task : Working(k)
    /\ verified' = FALSE /\ slipped' = FALSE /\ unread' = FALSE
    /\ UNCHANGED <<saveOk, frag, faults>>

\* The same with a cache file that cannot be opened: the transfer of before
\* goes on, on a file that has lost its name.
RequestFails ==
    /\ Idle
    /\ updateState # "wait_reboot"
    /\ Fault
    /\ unpacked' = <<>>
    /\ task' = [k \in Task |-> [task[k] EXCEPT !.linked = task[k].pc # "copy"]]
    /\ disturbed' = (disturbed \/ \E k \in Task : Working(k))
    /\ UNCHANGED <<updateState, saveOk, transfer, fdPos, frag, requests,
                   verified, slipped, unread>>

\* Mutant of Downloading: fragments are still taken after the check.
DownloadingChecked == updateState \in {"request", "download", "check"}

Downloading == updateState \in {"request", "download"}

\* Mutant of DownloadSeek: the fragment is not compared with the buffer.
DownloadUnbounded(img, at, len) ==
    /\ Idle
    /\ Downloading
    /\ at = offset
    /\ frag' = [img |-> img, len |-> len]
    /\ fdPos' = IF cacheFd THEN offset ELSE fdPos
    /\ UNCHANGED <<updateState, saveOk, transfer, task, unpacked, bounds, history>>

\* upgrade_download_image with the fragment at "at" of len cells of img, where
\* it continues what was received: firmware_recv_data seeks to uOffset.
DownloadSeek(img, at, len) ==
    /\ Idle
    /\ Downloading
    /\ at = offset
    /\ offset + len <= BufferSize
    /\ frag' = [img |-> img, len |-> len]
    /\ fdPos' = IF cacheFd THEN offset ELSE fdPos
    /\ UNCHANGED <<updateState, saveOk, transfer, task, unpacked, bounds, history>>

\* It writes the fragment wherever the descriptor stands by now.
DownloadWrite ==
    /\ ~Idle /\ cacheFd
    /\ LET data == Data(frag.img, offset, frag.len) IN
       /\ cache' = Written(cache, fdPos, data)
       /\ crc' = crc \o data
    /\ offset' = offset + frag.len
    /\ fdPos' = fdPos + frag.len
    /\ frag' = NoFragment
    /\ updateState' = "download"
    /\ UNCHANGED <<saveOk, header, cacheFd, task, unpacked, bounds, history>>

\* Mutant of DownloadFails: a short write moves uOffset by what was written.
DownloadFailsAhead ==
    /\ ~Idle /\ cacheFd
    /\ Fault
    /\ \E n \in 0 .. frag.len - 1 :
          /\ cache' = Written(cache, fdPos, Data(frag.img, offset, n))
          /\ fdPos' = fdPos + n
          /\ offset' = offset + n
    /\ frag' = NoFragment
    /\ UNCHANGED <<updateState, saveOk, header, crc, cacheFd, task,
                   unpacked, requests, history>>

\* The write to the cache is short or fails: part of the fragment may be in
\* the file, but neither uOffset nor crc moves.
DownloadFails ==
    /\ ~Idle /\ cacheFd
    /\ Fault
    /\ \E n \in 0 .. frag.len - 1 :
          /\ cache' = Written(cache, fdPos, Data(frag.img, offset, n))
          /\ fdPos' = fdPos + n
    /\ frag' = NoFragment
    /\ UNCHANGED <<updateState, saveOk, header, offset, crc, cacheFd, task,
                   unpacked, requests, history>>

\* A task has closed the descriptor: nothing is written.
DownloadUnopened ==
    /\ ~Idle /\ ~cacheFd
    /\ frag' = NoFragment
    /\ UNCHANGED <<updateState, saveOk, transfer, fdPos, task, unpacked, bounds, history>>

\* A fragment that does not continue it, or exceeds the buffer, is dropped
\* and acknowledged with the offset wanted next.
DownloadDropped(at, len) ==
    /\ Idle
    /\ Downloading
    /\ at # offset \/ offset + len > BufferSize
    /\ updateState' = "download"
    /\ UNCHANGED <<saveOk, transfer, fdPos, frag, task, unpacked, bounds, history>>

\* firmware_check
ImageComplete ==
    /\ header # NoImage
    /\ offset = ImageLen[header]
    /\ crc = Contents(header)

\* upgrade_check_image: in any state.
CheckImage ==
    /\ Idle
    /\ ImageComplete
    /\ updateState' = "check"
    /\ verified' = TRUE
    /\ UNCHANGED <<saveOk, transfer, fdPos, frag, task, unpacked, bounds,
                   disturbed, slipped, unread>>

\* upgrade_write_image: removes update.flag and writes it anew; nothing here reads it.
WriteImage ==
    /\ Idle
    /\ updateState \notin {"no_start", "request"}
    /\ updateState' = "write"
    /\ saveOk' = TRUE
    /\ UNCHANGED <<transfer, fdPos, frag, task, unpacked, bounds, history>>

WriteImageFails ==
    /\ Idle
    /\ updateState \notin {"no_start", "request"}
    /\ Fault
    /\ updateState' = "write"
    /\ UNCHANGED <<saveOk, transfer, fdPos, frag, task, unpacked, requests, history>>

\* upgrade_goto_app: in any state, and as often as the host asks.
GotoApp(k) ==
    /\ Idle
    /\ task[k].pc = "none" /\ \A j \in Task : j < k => task[j].pc # "none"
    /\ task' = [task EXCEPT ![k] = [NoTask EXCEPT !.pc = "seek"]]
    /\ updateState' = "wait_reboot"
    /\ saveOk' = FALSE
    /\ disturbed' = (disturbed \/ \E j \in Task : Working(j))
    /\ UNCHANGED <<transfer, fdPos, frag, unpacked, bounds, verified, slipped, unread>>

----------------------------------------------------------------------------
(* auto_reboot_task k: firmware_save, the switch script, the reboot.       *)

\* The task leaves the descriptor at pos, perhaps under a pending fragment.
MovesTo(pos) ==
    /\ fdPos' = pos
    /\ slipped' = (slipped \/ (~Idle /\ pos # fdPos))

\* What the task leaves alone while it works on its files.
saving == <<updateState, saveOk, transfer, frag, requests, verified, disturbed>>

\* A task before the next round of the loop over the entries of the image.
Round(off, cnt) == [NoTask EXCEPT !.pc = "seek", !.off = off, !.cnt = cnt]

\* It seeks to the next entry, or has come to the end.
SaveSeek(k) ==
    /\ task[k].pc = "seek"
    /\ IF task[k].off < offset /\ task[k].cnt < Retries
       THEN /\ MovesTo(IF cacheFd THEN task[k].off ELSE fdPos)
            /\ task' = [task EXCEPT ![k].pc = "head"]
       ELSE /\ task' = [task EXCEPT ![k] = [NoTask EXCEPT !.pc = "close", !.off = task[k].off]]
            /\ UNCHANGED <<fdPos, slipped>>
    /\ UNCHANGED <<saving, unpacked, faults, unread>>

\* The next n cells of the cache can be read.
Readable(n) == cacheFd /\ fdPos + n <= Len(cache)

\* The size of the file that the entry header next in the cache announces.
Announced == ImageLen[cache[fdPos + 1].img] - 1

\* An entry header is next, and the cells received so far can hold its file.
EntryNext(k) ==
    /\ cache[fdPos + 1].pos = 1
    /\ task[k].off + 1 + Announced <= offset

\* The entry header is read and the unpacked file opened, not truncated.
SaveHead(k) ==
    /\ task[k].pc = "head"
    /\ Readable(1) /\ EntryNext(k)
    /\ task' = [task EXCEPT ![k] =
                  IF Announced = 0 THEN Round(task[k].off + 1, task[k].cnt + 1)
                  ELSE [pc |-> "copy", off |-> task[k].off + 1, len |-> Announced,
                        left |-> Announced, wrote |-> 0, linked |-> TRUE, cnt |-> task[k].cnt]]
    /\ MovesTo(fdPos + 1)
    /\ UNCHANGED <<saving, unpacked, faults, unread>>

\* There is no entry header, or it announces more than was received.
SaveHeadWrong(k) ==
    /\ task[k].pc = "head"
    /\ ~(Readable(1) /\ EntryNext(k))
    /\ MovesTo(IF Readable(1) THEN fdPos + 1 ELSE fdPos)
    /\ task' = [task EXCEPT ![k] = [NoTask EXCEPT !.pc = "abandon"]]
    /\ UNCHANGED <<saving, unpacked, faults, unread>>

\* The header cannot be read, or the unpacked file cannot be opened.
SaveHeadFails(k) ==
    /\ task[k].pc = "head"
    /\ Fault
    /\ \E n \in {0, 1} : Readable(n) /\ MovesTo(fdPos + n)
    /\ task' = [task EXCEPT ![k] = [NoTask EXCEPT !.pc = "abandon"]]
    /\ UNCHANGED <<saving, unpacked, unread>>

\* Cells of the next chunk of the copy loop.
Wanted(k) == IF task[k].left < Chunk THEN task[k].left ELSE Chunk

\* A chunk of n cells is behind: at the end of the file the entry is.
Counted(k, n, wrote) ==
    task' = [task EXCEPT ![k] =
               IF task[k].left = n THEN Round(task[k].off + task[k].len, task[k].cnt + 1)
               ELSE [task[k] EXCEPT !.left = task[k].left - n, !.wrote = wrote]]

\* The next n cells of the cache go to the unpacked file of task k.
Unpack(k, n) ==
    unpacked' = IF task[k].linked
                THEN Written(unpacked, task[k].wrote, SubSeq(cache, fdPos + 1, fdPos + n))
                ELSE unpacked

\* One chunk of the copy loop.
SaveChunk(k) ==
    /\ task[k].pc = "copy"
    /\ LET n == Wanted(k) IN
       /\ Readable(n)
       /\ Unpack(k, n)
       /\ Counted(k, n, task[k].wrote + n)
       /\ MovesTo(fdPos + n)
    /\ UNCHANGED <<saving, faults, unread>>

\* Mutant of SaveChunkShort: a chunk that is not all there is tried again.
SaveChunkInsists(k) ==
    /\ task[k].pc = "copy"
    /\ ~Readable(Wanted(k))
    /\ MovesTo(IF cacheFd THEN Longer(fdPos, Len(cache)) ELSE fdPos)
    /\ UNCHANGED <<saving, task, unpacked, faults, unread>>

\* A chunk that is not all there is not written, and counts as copied.
SaveChunkShort(k) ==
    /\ task[k].pc = "copy"
    /\ ~Readable(Wanted(k))
    /\ MovesTo(IF cacheFd THEN Longer(fdPos, Len(cache)) ELSE fdPos)
    /\ Counted(k, Wanted(k), task[k].wrote)
    /\ UNCHANGED <<saving, unpacked, faults, unread>>

\* Nor is one that is there when its read fails or is cut short.
SaveReadFails(k) ==
    /\ task[k].pc = "copy"
    /\ Fault
    /\ Readable(Wanted(k))
    /\ \E m \in 0 .. Wanted(k) - 1 : MovesTo(fdPos + m)
    /\ Counted(k, Wanted(k), task[k].wrote)
    /\ unread' = TRUE
    /\ UNCHANGED <<saving, unpacked>>

\* Mutant of SaveWriteFails: a chunk that cannot be written counts as copied.
SaveWriteMissed(k) ==
    /\ task[k].pc = "copy"
    /\ Fault
    /\ Readable(Wanted(k))
    /\ MovesTo(fdPos + Wanted(k))
    /\ \E m \in 0 .. Wanted(k) - 1 :
          /\ Unpack(k, m)
          /\ Counted(k, Wanted(k), task[k].wrote + m)
    /\ UNCHANGED <<saving, unread>>

\* A chunk that cannot be written ends the copy; the next entry is then looked
\* for behind the header of this one.
SaveWriteFails(k) ==
    /\ task[k].pc = "copy"
    /\ Fault
    /\ Readable(Wanted(k))
    /\ MovesTo(fdPos + Wanted(k))
    /\ \E m \in 0 .. Wanted(k) - 1 : Unpack(k, m)
    /\ task' = [task EXCEPT ![k] = Round(task[k].off, task[k].cnt + 1)]
    /\ UNCHANGED <<saving, unread>>

\* firmware_write is content when its last entry ends where the image ends.
AllSaved(k) == task[k].pc = "close" /\ task[k].off = offset

\* firmware_save closes the cache in any case.
SaveClose(k) ==
    /\ task[k].pc \in {"close", "abandon"}
    /\ cacheFd' = FALSE /\ fdPos' = 0
    /\ task' = [task EXCEPT ![k] =
                  [NoTask EXCEPT !.pc = IF AllSaved(k) THEN "switch" ELSE "failed"]]
    /\ UNCHANGED <<updateState, saveOk, header, offset, crc, cache, frag,
                   unpacked, bounds, history>>

\* The switch script does not leave its flag file: no reboot, and the state
\* stays UPDATE_STAT_WAIT_REBOOT.
SwitchFails(k) ==
    /\ task[k].pc = "switch"
    /\ Fault
    /\ task' = [task EXCEPT ![k].pc = "failed"]
    /\ UNCHANGED <<updateState, saveOk, transfer, fdPos, frag, unpacked, requests, history>>

\* The script switches to the unpacked file and the device reboots; the
\* unpacked file is kept, everything else starts over.
SwitchAndReboot(k) ==
    /\ task[k].pc = "switch"
    /\ updateState' = "no_start" /\ saveOk' = FALSE
    /\ header' = NoImage /\ offset' = 0 /\ crc' = <<>>
    /\ cache' = <<>> /\ cacheFd' = FALSE /\ fdPos' = 0 /\ frag' = NoFragment
    /\ task' = [j \in Task |-> NoTask]
    /\ verified' = FALSE /\ disturbed' = FALSE /\ slipped' = FALSE /\ unread' = FALSE
    /\ UNCHANGED <<unpacked, bounds>>

----------------------------------------------------------------------------
Host ==
    \/ \E img \in Image : RequestUpgrade(img)
    \/ RequestFails
    \/ \E at \in 0 .. BufferSize, len \in Fragment :
          \/ \E img \in Image : DownloadSeek(img, at, len)
          \/ DownloadDropped(at, len)
    \/ DownloadWrite
    \/ DownloadFails
    \/ DownloadUnopened
    \/ CheckImage
    \/ WriteImage
    \/ WriteImageFails
    \/ \E k \in Task : GotoApp(k)

Save(k) ==
    \/ SaveSeek(k)
    \/ SaveHead(k)
    \/ SaveHeadWrong(k)
    \/ SaveHeadFails(k)
    \/ SaveChunk(k)
    \/ SaveChunkShort(k)
    \/ SaveReadFails(k)
    \/ SaveWriteFails(k)
    \/ SaveClose(k)
    \/ SwitchFails(k)
    \/ SwitchAndReboot(k)

Next == Host \/ \E k \in Task : Save(k)

Spec == Init /\ [][Next]_vars
FairSpec == Spec /\ \A k \in Task : WF_vars(Save(k))

----------------------------------------------------------------------------
Cells == Cell \cup {Hole}

TransferType ==
    /\ header \in Image \cup {NoImage}
    /\ offset \in 0 .. BufferSize
    /\ crc \in Seq(Cell)
    /\ cacheFd \in BOOLEAN
    /\ fdPos \in Nat
    /\ frag \in [img : Image, len : Fragment] \cup {NoFragment}

TaskType == task \in [Task -> TaskState]

FilesType == cache \in Seq(Cells) /\ unpacked \in Seq(Cells)

ControlType ==
    /\ updateState \in UpdateStates
    /\ saveOk \in BOOLEAN
    /\ requests \in Nat /\ faults \in Nat
    /\ verified \in BOOLEAN /\ disturbed \in BOOLEAN
    /\ slipped \in BOOLEAN /\ unread \in BOOLEAN

TypeOK == TransferType /\ TaskType /\ FilesType /\ ControlType

(* The running CRC and the cache file do not come apart: whatever fragments *)
(* were repeated, skipped, cut short by a failing write or left over from   *)
(* an earlier transfer, crc covers exactly the uOffset cells that a later   *)
(* firmware_write will read, and each cell lies at the position it has in   *)
(* its image.  Excluded is a transfer in which a task at work has moved the *)
(* shared position between the lseek and the write of a fragment: the code  *)
(* then writes elsewhere and counts it all the same.                        *)
CrcCoversCache ==
    ~slipped =>
        /\ Len(crc) = offset /\ offset <= Len(cache)
        /\ \A i \in 1 .. offset : crc[i] = cache[i] /\ crc[i].pos = i

(* An image that passed firmware_check is the announced one, and no late   *)
(* fragment touches it until the next accepted request: check, write and   *)
(* run, in whatever order, leave the transfer closed.                      *)
VerifiedStaysComplete == verified => ImageComplete

(* What the device is about to switch to is the file of the received image, *)
(* whole and with nothing behind it, whatever write, seek or open failed,   *)
(* provided that something was received, that the task was left alone while *)
(* it worked (no new request, no second run command came in between), and   *)
(* that no read of the cache failed: firmware_write counts a chunk whose    *)
(* read fails as copied.                                                    *)
SwitchesToReceivedFile ==
    \A k \in Task : task[k].pc = "switch" /\ ~disturbed /\ ~unread /\ offset # 0 =>
        /\ Len(unpacked) = offset - 1
        /\ \A i \in 1 .. offset - 1 : unpacked[i] = crc[i + 1]

(* A run command decides: its task ends in a reboot or in a failure.       *)
RunEnds ==
    \A k \in Task : Working(k) ~> ~Working(k)
=============================================================================
