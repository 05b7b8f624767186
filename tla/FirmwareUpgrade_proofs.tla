----------------------- MODULE FirmwareUpgrade_proofs -----------------------
(***************************************************************************)
(* FirmwareUpgrade for every set of images, fragment lengths, sizes of the *)
(* buffers and number of reboot tasks: the CRC covers the cache file until *)
(* a task moves the shared descriptor under a fragment, a verified image   *)
(* stays the announced one, and an undisturbed task whose reads succeed    *)
(* switches to the received file.                                          *)
(***************************************************************************)
EXTENDS FirmwareUpgrade, SequenceTheorems, TLAPS

----------------------------------------------------------------------------
(* Facts about the data.                                                   *)

LEMMA NoTaskType == NoTask \in TaskState
  BY DEF NoTask, TaskState, TaskPcs

LEMMA TaskFields ==
  ASSUME NEW r \in TaskState
  PROVE  /\ r.pc \in TaskPcs /\ r.off \in Nat /\ r.len \in Nat /\ r.left \in Nat
         /\ r.wrote \in Nat /\ r.linked \in BOOLEAN /\ r.cnt \in Nat
  BY DEF TaskState

LEMMA DataFacts ==
  ASSUME NEW img \in Image, NEW at \in Nat, NEW len \in Nat
  PROVE  /\ Data(img, at, len) \in Seq(Cell)
         /\ Len(Data(img, at, len)) = len
         /\ \A i \in 1 .. len : Data(img, at, len)[i] = [img |-> img, pos |-> at + i]
<1>1. \A i \in 1 .. len : [img |-> img, pos |-> at + i] \in Cell
  BY DEF Cell
<1> QED BY <1>1 DEF Data

\* A file that is written to is a file, and holds data from pos on.
LEMMA WrittenFacts ==
  ASSUME NEW file \in Seq(Cells), NEW pos \in Nat, NEW data \in Seq(Cells)
  PROVE  /\ Written(file, pos, data) \in Seq(Cells)
         /\ data = <<>> => Written(file, pos, data) = file
         /\ data # <<>> => Len(Written(file, pos, data)) = Longer(Len(file), pos + Len(data))
         /\ \A i \in 1 .. Len(data) : Written(file, pos, data)[pos + i] = data[i]
         /\ \A i \in 1 .. Len(file) :
              i <= pos \/ i > pos + Len(data) => Written(file, pos, data)[i] = file[i]
<1>1. CASE data = <<>>
  <2>1. Written(file, pos, data) = file /\ Len(data) = 0
    BY <1>1 DEF Written
  <2> QED BY <1>1, <2>1
<1>2. CASE data # <<>>
  <2> DEFINE last == Longer(Len(file), pos + Len(data))
             cell(i) == IF pos < i /\ i <= pos + Len(data) THEN data[i - pos]
                        ELSE IF i <= Len(file) THEN file[i] ELSE Hole
  <2>1. Written(file, pos, data) = [i \in 1 .. last |-> cell(i)]
    BY <1>2 DEF Written
  <2>2. /\ last \in Nat /\ pos + Len(data) <= last /\ Len(file) <= last
        /\ Len(data) \in Nat /\ Len(file) \in Nat
    BY DEF Longer
  <2>3. ASSUME NEW i \in 1 .. last PROVE cell(i) \in Cells
    <3>1. CASE pos < i /\ i <= pos + Len(data)
      <4>1. i - pos \in 1 .. Len(data)
        BY <2>2, <3>1
      <4>2. data[i - pos] \in Cells
        BY <4>1
      <4> QED BY <3>1, <4>2
    <3>2. CASE ~(pos < i /\ i <= pos + Len(data)) /\ i <= Len(file)
      <4>1. i \in 1 .. Len(file)
        BY <2>2, <3>2
      <4>2. file[i] \in Cells
        BY <4>1
      <4> QED BY <3>2, <4>2
    <3>3. CASE ~(pos < i /\ i <= pos + Len(data)) /\ ~(i <= Len(file))
      BY <3>3 DEF Cells
    <3> QED BY <3>1, <3>2, <3>3
  <2>4. ASSUME NEW i \in 1 .. Len(data) PROVE pos + i \in 1 .. last /\ cell(pos + i) = data[i]
    <3>1. pos + i \in 1 .. last /\ pos < pos + i /\ pos + i <= pos + Len(data) /\ (pos + i) - pos = i
      BY <2>2
    <3> QED BY <3>1
  <2>5. ASSUME NEW i \in 1 .. Len(file), i <= pos \/ i > pos + Len(data)
        PROVE  i \in 1 .. last /\ cell(i) = file[i]
    BY <2>2, <2>5
  <2> HIDE DEF last, cell
  <2>6. Written(file, pos, data) \in Seq(Cells) /\ Len(Written(file, pos, data)) = last
    BY <2>1, <2>2, <2>3
  <2>7. \A i \in 1 .. last : Written(file, pos, data)[i] = cell(i)
    BY <2>1
  <2>8. \A i \in 1 .. Len(data) : Written(file, pos, data)[pos + i] = data[i]
    BY <2>4, <2>7
  <2>9. \A i \in 1 .. Len(file) :
          i <= pos \/ i > pos + Len(data) => Written(file, pos, data)[i] = file[i]
    BY <2>5, <2>7
  <2> QED BY <1>2, <2>6, <2>8, <2>9 DEF last
<1> QED BY <1>1, <1>2

\* A write at the end of a file appends to it.
LEMMA WrittenAtEnd ==
  ASSUME NEW file \in Seq(Cells), NEW data \in Seq(Cells), data # <<>>
  PROVE  /\ Len(Written(file, Len(file), data)) = Len(file) + Len(data)
         /\ \A i \in 1 .. Len(data) : Written(file, Len(file), data)[Len(file) + i] = data[i]
         /\ \A i \in 1 .. Len(file) : Written(file, Len(file), data)[i] = file[i]
<1>1. Len(file) \in Nat /\ Len(data) \in Nat
  OBVIOUS
<1> DEFINE end == Len(file)
           out == Written(file, end, data)
<1>2. end \in Nat /\ end = Len(file)
  BY <1>1
<1> HIDE DEF end
<1>3. /\ Len(out) = Longer(Len(file), end + Len(data))
      /\ \A i \in 1 .. Len(data) : out[end + i] = data[i]
      /\ \A i \in 1 .. Len(file) : i <= end \/ i > end + Len(data) => out[i] = file[i]
  BY <1>2, WrittenFacts
<1> HIDE DEF out
<1>4. Len(out) = end + Len(data)
  BY <1>1, <1>2, <1>3 DEF Longer
<1>5. \A i \in 1 .. Len(file) : out[i] = file[i]
  BY <1>1, <1>2, <1>3
<1>6. Written(file, Len(file), data) = out
  BY <1>2 DEF out
<1> QED BY <1>2, <1>3, <1>4, <1>5, <1>6

LEMMA DataIsCells == \A s \in Seq(Cell) : s \in Seq(Cells)
<1> SUFFICES ASSUME NEW s \in Seq(Cell) PROVE s \in Seq(Cells)
  OBVIOUS
<1>1. \A i \in 1 .. Len(s) : s[i] \in Cells
  BY DEF Cells
<1> QED BY <1>1

\* What a task reads is a stretch of the cache.
LEMMA ReadFacts ==
  ASSUME cache \in Seq(Cells), NEW at \in Nat, NEW n \in Nat, at + n <= Len(cache)
  PROVE  /\ SubSeq(cache, at + 1, at + n) \in Seq(Cells)
         /\ Len(SubSeq(cache, at + 1, at + n)) = n
         /\ \A i \in 1 .. n : SubSeq(cache, at + 1, at + n)[i] = cache[at + i]
<1> DEFINE first == at + 1
           last == at + n
<1>1. first \in Int /\ last \in Int /\ last - first + 1 = n /\ (n = 0 <=> ~(first <= last))
  OBVIOUS
<1>2. \A i \in first .. last : cache[i] \in Cells
  <2>1. \A i \in first .. last : i \in 1 .. Len(cache)
    OBVIOUS
  <2> QED BY <2>1
<1>3. \A i \in 1 .. n : first + i - 1 = at + i
  OBVIOUS
<1> HIDE DEF first, last
<1>4. /\ SubSeq(cache, first, last) \in Seq(Cells)
      /\ Len(SubSeq(cache, first, last)) = IF first <= last THEN last - first + 1 ELSE 0
      /\ \A i \in 1 .. last - first + 1 : SubSeq(cache, first, last)[i] = cache[first + i - 1]
  BY <1>1, <1>2, SubSeqProperties
<1>5. Len(SubSeq(cache, first, last)) = n
  BY <1>1, <1>4
<1>6. \A i \in 1 .. n : SubSeq(cache, first, last)[i] = cache[at + i]
  BY <1>1, <1>3, <1>4
<1> QED BY <1>4, <1>5, <1>6 DEF first, last

----------------------------------------------------------------------------
(* Type correctness, by group of variables.  The offset stays within the   *)
(* buffer because a pending fragment does.                                 *)

FragInv ==
    frag # NoFragment =>
        /\ Downloading /\ offset + frag.len <= BufferSize
        /\ cacheFd /\ ~slipped => fdPos = offset

LEMMA FragmentFields ==
  ASSUME TransferType, frag # NoFragment
  PROVE  frag.img \in Image /\ frag.len \in Nat \ {0}
<1>1. frag \in [img : Image, len : Fragment]
  BY DEF TransferType
<1> QED BY <1>1, FirmwareAssumption

LEMMA InitType == Init => TypeOK /\ FragInv
<1> SUFFICES ASSUME Init PROVE TypeOK /\ FragInv
  OBVIOUS
<1>1. TransferType
  <2>1. crc \in Seq(Cell)
    BY DEF Init
  <2>2. offset \in 0 .. BufferSize /\ fdPos \in Nat
    BY FirmwareAssumption DEF Init
  <2> QED BY <2>1, <2>2 DEF Init, TransferType
<1>2. TaskType
  BY NoTaskType DEF Init, TaskType
<1>3. FilesType
  BY DEF Init, FilesType
<1>4. ControlType
  BY DEF Init, ControlType, UpdateStates
<1> QED BY <1>1, <1>2, <1>3, <1>4 DEF TypeOK, FragInv, Init

\* The first cell of an entry, when it is a header, has an image.
LEMMA AnnouncedType ==
  ASSUME TypeOK, Readable(1), NEW k \in Task, EntryNext(k)
  PROVE  Announced \in Nat
<1>1. fdPos + 1 \in 1 .. Len(cache) /\ cache \in Seq(Cells)
  BY DEF TypeOK, TransferType, FilesType, Readable
<1>2. cache[fdPos + 1] \in Cells
  BY <1>1
<1>3. cache[fdPos + 1].img \in Image
  BY <1>2 DEF Cells, Cell, Hole, EntryNext
<1> QED BY <1>3, FirmwareAssumption DEF Announced

\* A chunk is not empty, nor larger than what is left of the file.
LEMMA WantedFacts ==
  ASSUME TypeOK, NEW k \in Task
  PROVE  /\ Wanted(k) \in Nat /\ Wanted(k) <= task[k].left
         /\ task[k].left # 0 => Wanted(k) # 0
<1>1. task[k].left \in Nat
  BY TaskFields DEF TypeOK, TaskType
<1> QED BY <1>1, FirmwareAssumption DEF Wanted

\* While it saves, a task at most moves the shared descriptor.
LEMMA TaskMovement ==
  ASSUME TypeOK, NEW k \in Task,
         \/ SaveSeek(k) \/ SaveHead(k) \/ SaveHeadWrong(k) \/ SaveHeadFails(k)
         \/ SaveChunk(k) \/ SaveChunkShort(k) \/ SaveReadFails(k) \/ SaveWriteFails(k)
         \/ SwitchFails(k)
  PROVE  /\ UNCHANGED <<updateState, saveOk, transfer, offset, crc, cache, cacheFd, frag, requests,
                        verified, disturbed>>
         /\ (fdPos' = fdPos /\ slipped' = slipped) \/ \E pos \in Nat : MovesTo(pos)
<1>0. /\ fdPos \in Nat /\ Len(cache) \in Nat
      /\ task[k].off \in Nat /\ Wanted(k) \in Nat
  BY WantedFacts, TaskFields DEF TypeOK, TransferType, FilesType, TaskType
<1>1. UNCHANGED <<updateState, saveOk, transfer, offset, crc, cache, cacheFd, frag, requests,
                  verified, disturbed>>
  BY DEF SaveSeek, SaveHead, SaveHeadWrong, SaveHeadFails, SaveChunk, SaveChunkShort,
     SaveReadFails, SaveWriteFails, SwitchFails, saving, transfer, history
<1>2. (fdPos' = fdPos /\ slipped' = slipped) \/ \E pos \in Nat : MovesTo(pos)
  <2>1. CASE SaveSeek(k)
    BY <1>0, <2>1 DEF SaveSeek
  <2>2. CASE SaveHead(k) \/ SaveHeadWrong(k)
    <3>1. fdPos + 1 \in Nat
      BY <1>0
    <3> QED BY <1>0, <2>2, <3>1 DEF SaveHead, SaveHeadWrong
  <2>3. CASE SaveHeadFails(k)
    <3>1. \A n \in {0, 1} : fdPos + n \in Nat
      BY <1>0
    <3> QED BY <2>3, <3>1 DEF SaveHeadFails
  <2>4. CASE SaveChunk(k) \/ SaveWriteFails(k)
    <3>1. fdPos + Wanted(k) \in Nat
      BY <1>0
    <3> QED BY <2>4, <3>1 DEF SaveChunk, SaveWriteFails
  <2>5. CASE SaveChunkShort(k)
    <3>1. (IF cacheFd THEN Longer(fdPos, Len(cache)) ELSE fdPos) \in Nat
      BY <1>0 DEF Longer
    <3> QED BY <2>5, <3>1 DEF SaveChunkShort
  <2>6. CASE SaveReadFails(k)
    <3>1. PICK m \in 0 .. Wanted(k) - 1 : MovesTo(fdPos + m)
      BY <2>6 DEF SaveReadFails
    <3>2. fdPos + m \in Nat
      BY <1>0
    <3> QED BY <3>1, <3>2
  <2>7. CASE SwitchFails(k)
    BY <2>7 DEF SwitchFails, history
  <2> QED BY <2>1, <2>2, <2>3, <2>4, <2>5, <2>6, <2>7
<1> QED BY <1>1, <1>2

LEMMA RoundType ==
  ASSUME NEW off \in Nat, NEW cnt \in Nat
  PROVE  Round(off, cnt) \in TaskState /\ Round(off, cnt).pc = "seek" /\ Round(off, cnt).off = off
BY DEF Round, NoTask, TaskState, TaskPcs

LEMMA CountedType ==
  ASSUME TypeOK, NEW k \in Task, NEW n \in Nat, n <= task[k].left, NEW wrote \in Nat,
         Counted(k, n, wrote)
  PROVE  \E r \in TaskState : task' = [task EXCEPT ![k] = r]
<1>1. /\ task[k] \in TaskState
      /\ task[k].off \in Nat /\ task[k].len \in Nat /\ task[k].left \in Nat /\ task[k].cnt \in Nat
  BY TaskFields DEF TypeOK, TaskType
<1>2. CASE task[k].left = n
  <2>1. Round(task[k].off + task[k].len, task[k].cnt + 1) \in TaskState
    BY <1>1, RoundType
  <2> QED BY <1>2, <2>1 DEF Counted
<1>3. CASE task[k].left # n
  <2>1. task[k].left - n \in Nat
    BY <1>1
  <2>2. [task[k] EXCEPT !.left = task[k].left - n, !.wrote = wrote] \in TaskState
    BY <1>1, <2>1 DEF TaskState
  <2> QED BY <1>3, <2>2 DEF Counted
<1> QED BY <1>2, <1>3

LEMMA TaskSteps ==
  ASSUME TypeOK, NEW k \in Task, Save(k), ~SwitchAndReboot(k)
  PROVE  \E r \in TaskState : task' = [task EXCEPT ![k] = r]
<1>0. /\ task[k] \in TaskState
      /\ task[k].off \in Nat /\ task[k].cnt \in Nat /\ task[k].left \in Nat /\ task[k].wrote \in Nat
  BY TaskFields DEF TypeOK, TaskType
<1>1. ASSUME NEW p \in TaskPcs PROVE [NoTask EXCEPT !.pc = p] \in TaskState
  BY NoTaskType DEF TaskState
<1>2. ASSUME NEW p \in TaskPcs PROVE [task[k] EXCEPT !.pc = p] \in TaskState
  BY <1>0 DEF TaskState
<1>3. CASE SaveSeek(k)
  <2>1. [NoTask EXCEPT !.pc = "close", !.off = task[k].off] \in TaskState
    BY <1>0, NoTaskType DEF TaskState, TaskPcs
  <2>2. [task[k] EXCEPT !.pc = "head"] \in TaskState
    BY <1>2 DEF TaskPcs
  <2> QED BY <1>3, <2>1, <2>2 DEF SaveSeek
<1>4. CASE SaveHead(k)
  <2>1. Announced \in Nat
    BY <1>4, AnnouncedType DEF SaveHead
  <2>2. Round(task[k].off + 1, task[k].cnt + 1) \in TaskState
    BY <1>0, RoundType
  <2>3. [pc |-> "copy", off |-> task[k].off + 1, len |-> Announced, left |-> Announced,
         wrote |-> 0, linked |-> TRUE, cnt |-> task[k].cnt] \in TaskState
    BY <1>0, <2>1 DEF TaskState, TaskPcs
  <2> QED BY <1>4, <2>2, <2>3 DEF SaveHead
<1>5. CASE SaveHeadWrong(k) \/ SaveHeadFails(k)
  <2>1. [NoTask EXCEPT !.pc = "abandon"] \in TaskState
    BY <1>1 DEF TaskPcs
  <2> QED BY <1>5, <2>1 DEF SaveHeadWrong, SaveHeadFails
<1>6. CASE SaveChunk(k) \/ SaveChunkShort(k) \/ SaveReadFails(k)
  <2>1. \E wrote \in Nat : Counted(k, Wanted(k), wrote)
    <3>1. task[k].wrote + Wanted(k) \in Nat
      BY <1>0, WantedFacts
    <3> QED BY <1>0, <1>6, <3>1 DEF SaveChunk, SaveChunkShort, SaveReadFails
  <2> QED BY <2>1, WantedFacts, CountedType
<1>7. CASE SaveWriteFails(k)
  <2>1. Round(task[k].off, task[k].cnt + 1) \in TaskState
    BY <1>0, RoundType
  <2> QED BY <1>7, <2>1 DEF SaveWriteFails
<1>8. CASE SaveClose(k)
  <2>1. [NoTask EXCEPT !.pc = IF AllSaved(k) THEN "switch" ELSE "failed"] \in TaskState
    BY <1>1 DEF TaskPcs
  <2> QED BY <1>8, <2>1 DEF SaveClose
<1>9. CASE SwitchFails(k)
  <2>1. [task[k] EXCEPT !.pc = "failed"] \in TaskState
    BY <1>2 DEF TaskPcs
  <2> QED BY <1>9, <2>1 DEF SwitchFails
<1> QED BY <1>3, <1>4, <1>5, <1>6, <1>7, <1>8, <1>9 DEF Save

LEMMA StepFrag == TypeOK /\ FragInv /\ [Next]_vars => FragInv'
<1> SUFFICES ASSUME TypeOK, FragInv, [Next]_vars PROVE FragInv'
  OBVIOUS
<1>1. ASSUME NEW img \in Image, NEW len \in Fragment, NEW at \in 0 .. BufferSize,
             DownloadSeek(img, at, len)
      PROVE  FragInv'
  <2>1. frag' = [img |-> img, len |-> len] /\ Downloading /\ offset + len <= BufferSize
    BY <1>1 DEF DownloadSeek
  <2>2. UNCHANGED <<updateState, offset, cacheFd>> /\ (cacheFd => fdPos' = offset)
    BY <1>1 DEF DownloadSeek, transfer
  <2> QED BY <2>1, <2>2 DEF FragInv, Downloading
<1>2. ASSUME frag' = NoFragment PROVE FragInv'
  BY <1>2 DEF FragInv
<1>3. ASSUME UNCHANGED <<updateState, frag, offset, cacheFd>>,
             (fdPos' = fdPos /\ slipped' = slipped) \/ \E pos \in Nat : MovesTo(pos)
      PROVE  FragInv'
  BY <1>3 DEF FragInv, Downloading, MovesTo, Idle
<1>4. ASSUME NEW k \in Task, SaveClose(k) PROVE FragInv'
  BY <1>4 DEF SaveClose, FragInv, Downloading
<1>5. CASE \/ \E img \in Image : RequestUpgrade(img)
           \/ RequestFails \/ CheckImage \/ WriteImage \/ WriteImageFails
           \/ \E at \in 0 .. BufferSize, len \in Fragment : DownloadDropped(at, len)
           \/ \E k \in Task : GotoApp(k)
  <2>1. frag = NoFragment /\ frag' = frag
    BY <1>5 DEF RequestUpgrade, RequestFails, CheckImage, WriteImage, WriteImageFails,
       DownloadDropped, GotoApp, Idle
  <2> QED BY <1>2, <2>1
<1>6. CASE DownloadWrite \/ DownloadFails \/ DownloadUnopened
  BY <1>2, <1>6 DEF DownloadWrite, DownloadFails, DownloadUnopened
<1>7. ASSUME NEW k \in Task, SwitchAndReboot(k) PROVE FragInv'
  BY <1>2, <1>7 DEF SwitchAndReboot
<1>8. ASSUME NEW k \in Task,
             \/ SaveSeek(k) \/ SaveHead(k) \/ SaveHeadWrong(k) \/ SaveHeadFails(k)
             \/ SaveChunk(k) \/ SaveChunkShort(k) \/ SaveReadFails(k) \/ SaveWriteFails(k)
             \/ SwitchFails(k)
      PROVE  FragInv'
  BY <1>3, <1>8, TaskMovement
<1>9. CASE UNCHANGED vars
  BY <1>3, <1>9 DEF vars, transfer, history
<1> QED BY <1>1, <1>4, <1>5, <1>6, <1>7, <1>8, <1>9 DEF Next, Host, Save

LEMMA StepTransferType == TypeOK /\ FragInv /\ [Next]_vars => TransferType'
<1> SUFFICES ASSUME TypeOK, FragInv, [Next]_vars PROVE TransferType'
  OBVIOUS
<1> USE FirmwareAssumption
<1>0. TransferType
  BY DEF TypeOK
<1>1. ASSUME NEW img \in Image, RequestUpgrade(img) PROVE TransferType'
  <2>1. crc' \in Seq(Cell)
    BY <1>1 DEF RequestUpgrade
  <2> QED BY <1>0, <1>1, <2>1 DEF RequestUpgrade, TransferType
<1>2. ASSUME NEW img \in Image, NEW len \in Fragment, NEW at \in 0 .. BufferSize,
             DownloadSeek(img, at, len)
      PROVE  TransferType'
  <2>1. frag' \in [img : Image, len : Fragment] /\ fdPos' \in Nat
    BY <1>0, <1>2 DEF DownloadSeek, TransferType
  <2> QED BY <1>0, <1>2, <2>1 DEF DownloadSeek, TransferType, transfer
<1>3. CASE DownloadWrite
  <2>1. frag.img \in Image /\ frag.len \in Nat /\ offset + frag.len <= BufferSize
    BY <1>0, <1>3, FragmentFields DEF DownloadWrite, Idle, FragInv
  <2> DEFINE data == Data(frag.img, offset, frag.len)
  <2>2. crc' = crc \o data
    BY <1>3 DEF DownloadWrite
  <2>3. data \in Seq(Cell)
    <3>1. offset \in Nat
      BY <1>0 DEF TransferType
    <3> QED BY <2>1, <3>1, DataFacts
  <2>4. crc' \in Seq(Cell)
    <3> HIDE DEF data
    <3> QED BY <1>0, <2>2, <2>3 DEF TransferType
  <2>5. offset' \in 0 .. BufferSize /\ fdPos' \in Nat
    BY <1>0, <1>3, <2>1 DEF DownloadWrite, TransferType
  <2> QED BY <1>0, <1>3, <2>4, <2>5 DEF DownloadWrite, TransferType
<1>4. CASE DownloadFails
  <2>1. frag.len \in Nat
    BY <1>0, <1>4, FragmentFields DEF DownloadFails, Idle
  <2>2. \E n \in 0 .. frag.len - 1 : fdPos' = fdPos + n
    BY <1>4 DEF DownloadFails
  <2>3. fdPos' \in Nat
    BY <1>0, <2>1, <2>2 DEF TransferType
  <2> QED BY <1>0, <1>4, <2>3 DEF DownloadFails, TransferType
<1>5. CASE DownloadUnopened
  BY <1>0, <1>5 DEF DownloadUnopened, TransferType, transfer
<1>6. ASSUME NEW k \in Task, SaveClose(k) PROVE TransferType'
  BY <1>0, <1>6 DEF SaveClose, TransferType
<1>7. ASSUME NEW k \in Task, SwitchAndReboot(k) PROVE TransferType'
  <2>1. crc' \in Seq(Cell)
    BY <1>7 DEF SwitchAndReboot
  <2>2. offset' \in 0 .. BufferSize /\ fdPos' \in Nat
    BY <1>7 DEF SwitchAndReboot
  <2> QED BY <1>7, <2>1, <2>2 DEF SwitchAndReboot, TransferType
<1>8. ASSUME NEW k \in Task,
             \/ SaveSeek(k) \/ SaveHead(k) \/ SaveHeadWrong(k) \/ SaveHeadFails(k)
             \/ SaveChunk(k) \/ SaveChunkShort(k) \/ SaveReadFails(k) \/ SaveWriteFails(k)
             \/ SwitchFails(k)
      PROVE  TransferType'
  <2>1. fdPos' \in Nat /\ UNCHANGED <<transfer, frag>>
    BY <1>0, <1>8, TaskMovement DEF MovesTo, TransferType
  <2> QED BY <1>0, <2>1 DEF TransferType, transfer
<1>9. ASSUME UNCHANGED <<transfer, fdPos, frag>> PROVE TransferType'
  BY <1>0, <1>9 DEF TransferType, transfer
<1> QED
  BY <1>1, <1>2, <1>3, <1>4, <1>5, <1>6, <1>7, <1>8, <1>9
  DEF Next, Host, Save, RequestFails, DownloadDropped, CheckImage, WriteImage,
      WriteImageFails, GotoApp, vars

LEMMA StepTaskType == TypeOK /\ [Next]_vars => TaskType'
<1> SUFFICES ASSUME TypeOK, [Next]_vars PROVE TaskType'
  OBVIOUS
<1>0. TaskType
  BY DEF TypeOK
<1>1. ASSUME task' = [k \in Task |-> [task[k] EXCEPT !.linked = task[k].pc # "copy"]]
      PROVE  TaskType'
  <2>2. ASSUME NEW r \in TaskState, NEW b \in BOOLEAN PROVE [r EXCEPT !.linked = b] \in TaskState
    BY DEF TaskState
  <2>3. \A k \in Task : (task[k].pc # "copy") \in BOOLEAN
    OBVIOUS
  <2> QED BY <1>0, <1>1, <2>2, <2>3 DEF TaskType
<1>2. ASSUME NEW k \in Task, GotoApp(k) PROVE TaskType'
  <2>1. [NoTask EXCEPT !.pc = "seek"] \in TaskState
    BY DEF NoTask, TaskState, TaskPcs
  <2> QED BY <1>0, <1>2, <2>1 DEF GotoApp, TaskType
<1>3. ASSUME NEW k \in Task, NEW r \in TaskState, task' = [task EXCEPT ![k] = r] PROVE TaskType'
  BY <1>0, <1>3 DEF TaskType
<1>4. ASSUME NEW k \in Task, Save(k), ~SwitchAndReboot(k) PROVE TaskType'
  BY <1>3, <1>4, TaskSteps
<1>5. ASSUME NEW k \in Task, SwitchAndReboot(k) PROVE TaskType'
  BY <1>5, NoTaskType DEF SwitchAndReboot, TaskType
<1>6. ASSUME UNCHANGED task PROVE TaskType'
  BY <1>0, <1>6 DEF TaskType
<1> QED
  BY <1>1, <1>2, <1>4, <1>5, <1>6
  DEF Next, Host, RequestUpgrade, RequestFails, DownloadSeek, DownloadWrite, DownloadFails, DownloadUnopened,
      DownloadDropped, CheckImage, WriteImage, WriteImageFails, vars

LEMMA StepFilesType == TypeOK /\ FragInv /\ [Next]_vars => FilesType'
<1> SUFFICES ASSUME TypeOK, FragInv, [Next]_vars PROVE FilesType'
  OBVIOUS
<1>0. TransferType /\ FilesType
  BY DEF TypeOK
<1>1. ASSUME NEW img \in Image, RequestUpgrade(img) PROVE FilesType'
  BY <1>1 DEF RequestUpgrade, FilesType
<1>2. CASE RequestFails
  BY <1>0, <1>2 DEF RequestFails, FilesType, transfer
<1>3. CASE DownloadWrite \/ DownloadFails
  <2>1. frag.img \in Image /\ frag.len \in Nat /\ offset \in Nat /\ fdPos \in Nat
    BY <1>0, <1>3, FragmentFields, FirmwareAssumption DEF DownloadWrite, DownloadFails, Idle, TransferType
  <2>2. \E n \in Nat : cache' = Written(cache, fdPos, Data(frag.img, offset, n))
    <3>1. CASE DownloadWrite
      BY <2>1, <3>1 DEF DownloadWrite
    <3>2. CASE DownloadFails
      <4>1. \A n \in 0 .. frag.len - 1 : n \in Nat
        BY <2>1
      <4> QED BY <3>2, <4>1 DEF DownloadFails
    <3> QED BY <1>3, <3>1, <3>2
  <2>3. PICK n \in Nat : cache' = Written(cache, fdPos, Data(frag.img, offset, n))
    BY <2>2
  <2>4. Data(frag.img, offset, n) \in Seq(Cells)
    BY <2>1, DataFacts, DataIsCells
  <2>5. cache' \in Seq(Cells)
    BY <1>0, <2>1, <2>3, <2>4, WrittenFacts DEF FilesType
  <2> QED BY <1>0, <1>3, <2>5 DEF DownloadWrite, DownloadFails, FilesType
<1>4. ASSUME NEW k \in Task, SaveChunk(k) \/ SaveWriteFails(k) PROVE FilesType'
  <2>1. Readable(Wanted(k)) /\ cache' = cache
    BY <1>4 DEF SaveChunk, SaveWriteFails, saving, transfer
  <2>2. Wanted(k) \in Nat /\ task[k].wrote \in Nat /\ fdPos \in Nat /\ Len(cache) \in Nat
    BY <1>0, WantedFacts, TaskFields DEF TypeOK, TaskType, TransferType, FilesType
  <2>3. \E n \in 0 .. Wanted(k) : Unpack(k, n)
    <3>1. CASE SaveChunk(k)
      <4>1. Wanted(k) \in 0 .. Wanted(k)
        BY <2>2
      <4> QED BY <3>1, <4>1 DEF SaveChunk
    <3>2. CASE SaveWriteFails(k)
      <4>1. 0 .. Wanted(k) - 1 \subseteq 0 .. Wanted(k)
        BY <2>2
      <4> QED BY <3>2, <4>1 DEF SaveWriteFails
    <3> QED BY <1>4, <3>1, <3>2
  <2>4. PICK n \in 0 .. Wanted(k) : Unpack(k, n)
    BY <2>3
  <2>5. n \in Nat /\ fdPos + n <= Len(cache)
    BY <2>1, <2>2 DEF Readable
  <2>6. SubSeq(cache, fdPos + 1, fdPos + n) \in Seq(Cells)
    BY <1>0, <2>2, <2>5, ReadFacts DEF FilesType
  <2>7. Written(unpacked, task[k].wrote, SubSeq(cache, fdPos + 1, fdPos + n)) \in Seq(Cells)
    BY <1>0, <2>2, <2>6, WrittenFacts DEF FilesType
  <2> QED BY <1>0, <2>1, <2>4, <2>7 DEF Unpack, FilesType
<1>5. ASSUME NEW k \in Task, SwitchAndReboot(k) PROVE FilesType'
  BY <1>0, <1>5 DEF SwitchAndReboot, FilesType
<1>6. ASSUME UNCHANGED <<cache, unpacked>> PROVE FilesType'
  BY <1>0, <1>6 DEF FilesType
<1> QED
  BY <1>1, <1>2, <1>3, <1>4, <1>5, <1>6
  DEF Next, Host, Save, DownloadSeek, DownloadUnopened, DownloadDropped, CheckImage,
      WriteImage, WriteImageFails, GotoApp, SaveSeek, SaveHead, SaveHeadWrong, SaveHeadFails,
      SaveChunkShort, SaveReadFails, SaveClose, SwitchFails, saving, transfer, vars

LEMMA StepControlType == TypeOK /\ [Next]_vars => ControlType'
<1> SUFFICES ASSUME TypeOK, [Next]_vars PROVE ControlType'
  OBVIOUS
<1>0. ControlType
  BY DEF TypeOK
<1> USE <1>0 DEF ControlType, UpdateStates
<1>1. ASSUME NEW img \in Image, RequestUpgrade(img) PROVE ControlType'
  <2>1. disturbed' \in BOOLEAN
    BY <1>1, Zenon DEF RequestUpgrade
  <2>2. updateState' \in UpdateStates /\ requests' \in Nat
    BY <1>1 DEF RequestUpgrade
  <2> QED BY <1>1, <2>1, <2>2 DEF RequestUpgrade
<1>2. CASE RequestFails
  <2>1. disturbed' \in BOOLEAN
    BY <1>2, Zenon DEF RequestFails
  <2> QED BY <1>2, <2>1 DEF RequestFails, Fault
<1>3. ASSUME NEW at \in 0 .. BufferSize, NEW len \in Fragment,
             DownloadDropped(at, len) \/ \E img \in Image : DownloadSeek(img, at, len)
      PROVE  ControlType'
  BY <1>3 DEF DownloadSeek, DownloadDropped, bounds, history
<1>4. CASE DownloadWrite \/ DownloadUnopened \/ CheckImage \/ WriteImage
  BY <1>4 DEF DownloadWrite, DownloadUnopened, CheckImage, WriteImage, bounds, history
<1>5. CASE DownloadFails \/ WriteImageFails
  BY <1>5 DEF DownloadFails, WriteImageFails, Fault, history
<1>6. ASSUME NEW k \in Task, GotoApp(k) PROVE ControlType'
  <2>1. disturbed' \in BOOLEAN
    BY <1>6, Zenon DEF GotoApp
  <2> QED BY <1>6, <2>1 DEF GotoApp, bounds
<1>7. ASSUME NEW k \in Task,
             \/ SaveSeek(k) \/ SaveHead(k) \/ SaveHeadWrong(k) \/ SaveHeadFails(k)
             \/ SaveChunk(k) \/ SaveChunkShort(k) \/ SaveReadFails(k) \/ SaveWriteFails(k)
             \/ SwitchFails(k)
      PROVE  ControlType'
  <2>1. slipped' \in BOOLEAN
    <3>1. ASSUME NEW pos \in Nat, MovesTo(pos) PROVE slipped' \in BOOLEAN
      BY <3>1, Zenon DEF MovesTo
    <3> QED BY <1>7, <3>1, TaskMovement
  <2>2. faults' \in Nat /\ unread' \in BOOLEAN
    <3>1. CASE SaveSeek(k) \/ SaveHead(k) \/ SaveHeadWrong(k) \/ SaveChunk(k) \/ SaveChunkShort(k)
      BY <3>1 DEF SaveSeek, SaveHead, SaveHeadWrong, SaveChunk, SaveChunkShort
    <3>2. CASE SaveHeadFails(k) \/ SaveReadFails(k) \/ SaveWriteFails(k) \/ SwitchFails(k)
      <4>1. Fault /\ (unread' = unread \/ unread' = TRUE)
        BY <3>2 DEF SaveHeadFails, SaveReadFails, SaveWriteFails, SwitchFails, history
      <4>2. faults' \in Nat
        BY <4>1 DEF Fault
      <4>3. unread' \in BOOLEAN
        BY <4>1, Zenon
      <4> QED BY <4>2, <4>3
    <3> QED BY <1>7, <3>1, <3>2
  <2> QED BY <1>7, <2>1, <2>2, TaskMovement
<1>8. ASSUME NEW k \in Task, SaveClose(k) \/ SwitchAndReboot(k) PROVE ControlType'
  BY <1>8 DEF SaveClose, SwitchAndReboot, bounds, history
<1>9. CASE UNCHANGED vars
  BY <1>9 DEF vars, bounds, history
<1> QED BY <1>1, <1>2, <1>3, <1>4, <1>5, <1>6, <1>7, <1>8, <1>9 DEF Next, Host, Save

LEMMA Typed == Spec => [](TypeOK /\ FragInv)
<1>1. (TypeOK /\ FragInv) /\ [Next]_vars => (TypeOK /\ FragInv)'
  BY StepTransferType, StepTaskType, StepFilesType, StepControlType, StepFrag DEF TypeOK
<1> QED BY InitType, <1>1, PTL DEF Spec

(* The values of the transfer, the files, the reboot tasks and the command *)
(* state stay in their types under every interleaving of host commands,    *)
(* file faults and reboot tasks.                                           *)
THEOREM TypeInvariant == Spec => []TypeOK
BY Typed, PTL

----------------------------------------------------------------------------
(* The CRC and the cache.                                                  *)

LEMMA Appended ==
  \A s, d \in Seq(Cell) :
     /\ Len(s \o d) = Len(s) + Len(d)
     /\ \A i \in 1 .. Len(s) : (s \o d)[i] = s[i]
     /\ \A i \in 1 .. Len(d) : (s \o d)[Len(s) + i] = d[i]
<1> DEFINE S == Cell
<1>1. \A s, d \in Seq(S) :
        /\ Len(s \o d) = Len(s) + Len(d)
        /\ \A i \in 1 .. Len(s) : (s \o d)[i] = s[i]
        /\ \A i \in 1 .. Len(d) : (s \o d)[Len(s) + i] = d[i]
  <2> HIDE DEF S
  <2> QED OBVIOUS
<1> QED BY <1>1

\* A fragment, whole or in part, that is written where uOffset stands.
LEMMA WriteAtOffset ==
  ASSUME TypeOK, FragInv, CrcCoversCache, ~Idle, cacheFd, ~slipped,
         NEW n \in 0 .. frag.len, cache' = Written(cache, fdPos, Data(frag.img, offset, n))
  PROVE  /\ Len(cache') >= offset /\ \A i \in 1 .. offset : cache'[i] = cache[i]
         /\ n # 0 => Len(cache') >= offset + n
         /\ \A i \in 1 .. n : cache'[offset + i] = Data(frag.img, offset, n)[i]
<1>1. /\ offset \in Nat /\ fdPos = offset /\ n \in Nat /\ frag.img \in Image
      /\ cache \in Seq(Cells) /\ Len(cache) \in Nat /\ offset <= Len(cache)
  BY FragmentFields, FirmwareAssumption
  DEF TypeOK, TransferType, FilesType, Idle, FragInv, CrcCoversCache
<1> DEFINE data == Data(frag.img, offset, n)
<1>2. data \in Seq(Cells) /\ Len(data) = n
  BY <1>1, DataFacts, DataIsCells
<1> HIDE DEF data
<1>3. cache' = Written(cache, offset, data)
  BY <1>1 DEF data
<1>4. /\ cache' \in Seq(Cells)
      /\ data = <<>> => cache' = cache
      /\ data # <<>> => Len(cache') = Longer(Len(cache), offset + n)
      /\ \A i \in 1 .. n : cache'[offset + i] = data[i]
      /\ \A i \in 1 .. Len(cache) : i <= offset \/ i > offset + n => cache'[i] = cache[i]
  <2> PICK s, o : s = cache /\ o = offset
    OBVIOUS
  <2>1. s \in Seq(Cells) /\ o \in Nat
    BY <1>1
  <2>2. /\ Written(s, o, data) \in Seq(Cells)
        /\ data = <<>> => Written(s, o, data) = s
        /\ data # <<>> => Len(Written(s, o, data)) = Longer(Len(s), o + Len(data))
        /\ \A i \in 1 .. Len(data) : Written(s, o, data)[o + i] = data[i]
        /\ \A i \in 1 .. Len(s) :
             i <= o \/ i > o + Len(data) => Written(s, o, data)[i] = s[i]
    BY <1>2, <2>1, WrittenFacts
  <2> QED BY <1>2, <1>3, <2>2
<1>5. Len(cache') >= offset /\ (n # 0 => Len(cache') >= offset + n)
  <2>1. CASE data = <<>>
    <3>1. n = 0
      BY <1>2, <2>1
    <3> QED BY <1>1, <1>4, <2>1, <3>1
  <2>2. CASE data # <<>>
    BY <1>1, <1>4, <2>2 DEF Longer
  <2> QED BY <2>1, <2>2
<1>6. ASSUME NEW i \in 1 .. offset PROVE cache'[i] = cache[i]
  <2>1. i \in 1 .. Len(cache) /\ i <= offset
    BY <1>1
  <2> QED BY <1>4, <2>1
<1> QED BY <1>4, <1>5, <1>6 DEF data

LEMMA StepCrc == TypeOK /\ FragInv /\ CrcCoversCache /\ [Next]_vars => CrcCoversCache'
<1> SUFFICES ASSUME TypeOK, FragInv, CrcCoversCache, [Next]_vars PROVE CrcCoversCache'
  OBVIOUS
<1>0. /\ offset \in Nat /\ crc \in Seq(Cell) /\ Len(cache) \in Nat
  BY FirmwareAssumption DEF TypeOK, TransferType, FilesType
<1>1. ASSUME offset' = 0, crc' = <<>>, cache' = <<>> PROVE CrcCoversCache'
  <2>1. Len(crc') = 0 /\ Len(cache') = 0
    BY <1>1
  <2> QED BY <1>1, <2>1 DEF CrcCoversCache
<1>2. CASE DownloadWrite
  <2> SUFFICES ASSUME ~slipped PROVE CrcCoversCache'
    BY <1>2 DEF DownloadWrite, CrcCoversCache, history
  <2> DEFINE data == Data(frag.img, offset, frag.len)
             whole == crc \o data
  <2>1. frag.img \in Image /\ frag.len \in Nat \ {0}
    BY <1>2, FragmentFields DEF DownloadWrite, Idle, TypeOK
  <2>2. /\ data \in Seq(Cell) /\ Len(data) = frag.len
        /\ \A i \in 1 .. frag.len : data[i].pos = offset + i
    <3>1. /\ data \in Seq(Cell) /\ Len(data) = frag.len
          /\ \A i \in 1 .. frag.len : data[i] = [img |-> frag.img, pos |-> offset + i]
      BY <1>0, <2>1, DataFacts
    <3>2. ASSUME NEW i \in 1 .. frag.len PROVE data[i].pos = offset + i
      <4>1. data[i] = [img |-> frag.img, pos |-> offset + i]
        BY <3>1
      <4> QED BY <4>1
    <3> QED BY <3>1, <3>2
  <2>3. /\ crc' = whole /\ offset' = offset + frag.len
        /\ cache' = Written(cache, fdPos, data) /\ ~Idle /\ cacheFd
    BY <1>2 DEF DownloadWrite
  <2>4. frag.len \in 0 .. frag.len
    BY <2>1
  <2>5. /\ Len(cache') >= offset' /\ \A i \in 1 .. offset : cache'[i] = cache[i]
        /\ \A i \in 1 .. frag.len : cache'[offset + i] = data[i]
    BY <2>1, <2>3, <2>4, WriteAtOffset
  <2> HIDE DEF data
  <2>6. /\ Len(whole) = Len(crc) + Len(data)
        /\ \A j \in 1 .. Len(crc) : whole[j] = crc[j]
        /\ \A j \in 1 .. Len(data) : whole[Len(crc) + j] = data[j]
    BY <1>0, <2>2, Appended, ZenonT(20)
  <2> HIDE DEF whole
  <2>7. Len(crc) = offset /\ \A i \in 1 .. offset : crc[i] = cache[i] /\ crc[i].pos = i
    BY DEF CrcCoversCache
  <2>8. ASSUME NEW i \in 1 .. offset' PROVE crc'[i] = cache'[i] /\ crc'[i].pos = i
    <3>1. CASE i <= offset
      <4>1. i \in 1 .. offset /\ i \in 1 .. Len(crc)
        BY <1>0, <2>1, <2>3, <2>7, <3>1
      <4> QED BY <2>3, <2>5, <2>6, <2>7, <4>1
    <3>2. CASE i > offset
      <4> DEFINE j == i - offset
      <4>1. j \in 1 .. frag.len /\ i = offset + j
        BY <1>0, <2>1, <2>3, <3>2
      <4> HIDE DEF j
      <4>2. crc'[i] = data[j]
        BY <2>2, <2>3, <2>6, <2>7, <4>1
      <4>3. cache'[i] = data[j] /\ data[j].pos = i
        BY <2>2, <2>5, <4>1
      <4> QED BY <4>2, <4>3
    <3> QED BY <1>0, <2>3, <3>1, <3>2
  <2>9. Len(crc') = offset'
    BY <2>2, <2>3, <2>6, <2>7
  <2> QED BY <2>5, <2>8, <2>9 DEF CrcCoversCache
<1>3. CASE DownloadFails
  <2> SUFFICES ASSUME ~slipped PROVE CrcCoversCache'
    BY <1>3 DEF DownloadFails, CrcCoversCache, history
  <2>1. frag.len \in Nat
    BY <1>3, FragmentFields DEF DownloadFails, Idle, TypeOK
  <2>2. PICK n \in 0 .. frag.len - 1 : cache' = Written(cache, fdPos, Data(frag.img, offset, n))
    BY <1>3 DEF DownloadFails
  <2>3. n \in 0 .. frag.len /\ ~Idle /\ cacheFd /\ crc' = crc /\ offset' = offset
    BY <1>3, <2>1 DEF DownloadFails
  <2>4. Len(cache') >= offset /\ \A i \in 1 .. offset : cache'[i] = cache[i]
    BY <2>2, <2>3, WriteAtOffset
  <2> QED BY <2>3, <2>4 DEF CrcCoversCache
<1>4. ASSUME UNCHANGED <<offset, crc, cache>>, slipped' = slipped
      PROVE  CrcCoversCache'
  BY <1>4 DEF CrcCoversCache
<1>5. ASSUME NEW img \in Image, RequestUpgrade(img) PROVE CrcCoversCache'
  BY <1>1, <1>5 DEF RequestUpgrade
<1>6. ASSUME NEW k \in Task, SwitchAndReboot(k) PROVE CrcCoversCache'
  BY <1>1, <1>6 DEF SwitchAndReboot
<1>7. ASSUME NEW k \in Task,
             \/ SaveSeek(k) \/ SaveHead(k) \/ SaveHeadWrong(k) \/ SaveHeadFails(k)
             \/ SaveChunk(k) \/ SaveChunkShort(k) \/ SaveReadFails(k) \/ SaveWriteFails(k)
             \/ SwitchFails(k)
      PROVE  CrcCoversCache'
  <2>1. UNCHANGED <<offset, crc, cache>> /\ (slipped => slipped')
    BY <1>7, TaskMovement DEF MovesTo
  <2> QED BY <2>1 DEF CrcCoversCache
<1>8. ASSUME NEW k \in Task, SaveClose(k) PROVE CrcCoversCache'
  BY <1>4, <1>8 DEF SaveClose, history
<1>9. CASE UNCHANGED vars
  BY <1>4, <1>9 DEF vars, transfer, history
<1>10. CASE \/ RequestFails \/ DownloadUnopened \/ CheckImage \/ WriteImage \/ WriteImageFails
            \/ \E k \in Task : GotoApp(k)
            \/ \E at \in 0 .. BufferSize, len \in Fragment :
                  DownloadDropped(at, len) \/ \E img \in Image : DownloadSeek(img, at, len)
  <2>1. UNCHANGED <<transfer, slipped>>
    BY <1>10 DEF RequestFails, DownloadUnopened, CheckImage, WriteImage, WriteImageFails,
       GotoApp, DownloadDropped, DownloadSeek, history
  <2> QED BY <1>4, <2>1 DEF transfer
<1> QED
  BY <1>2, <1>3, <1>5, <1>6, <1>7, <1>8, <1>9, <1>10 DEF Next, Host, Save

(* For every image and fragment size: whatever is repeated, reordered or   *)
(* cut short on its way into firmware_recv_data, the CRC that firmware_    *)
(* check compares is the CRC of the cells firmware_write will read, as     *)
(* long as no auto_reboot_task has moved cache_file_fd between the lseek   *)
(* and the write of a fragment.                                            *)
THEOREM CrcTheorem == Spec => []CrcCoversCache
<1>1. Init => CrcCoversCache
  <2> SUFFICES ASSUME Init PROVE CrcCoversCache
    OBVIOUS
  <2>1. offset = 0 /\ Len(crc) = 0 /\ Len(cache) = 0
    BY DEF Init
  <2> QED BY <2>1 DEF CrcCoversCache
<1> QED BY <1>1, StepCrc, Typed, PTL DEF Spec

----------------------------------------------------------------------------
(* A verified image.                                                       *)

\* Once verified, the transfer is closed: every command that ends "check" ends
\* in a state in which upgrade_download_image refuses fragments.
VerifiedIsClosed == verified => ImageComplete /\ ~Downloading

LEMMA StepVerified == TypeOK /\ FragInv /\ VerifiedIsClosed /\ [Next]_vars => VerifiedIsClosed'
<1> SUFFICES ASSUME TypeOK, FragInv, VerifiedIsClosed, [Next]_vars PROVE VerifiedIsClosed'
  OBVIOUS
<1> USE DEF VerifiedIsClosed, ImageComplete, Downloading
<1>1. ASSUME NEW img \in Image, RequestUpgrade(img) PROVE VerifiedIsClosed'
  BY <1>1 DEF RequestUpgrade
<1>2. CASE DownloadWrite \/ DownloadFails \/ DownloadUnopened
  <2>1. ~verified /\ verified' = verified
    BY <1>2 DEF DownloadWrite, DownloadFails, DownloadUnopened, FragInv, Idle, history
  <2> QED BY <2>1
<1>3. ASSUME NEW at \in 0 .. BufferSize, NEW len \in Fragment,
             DownloadDropped(at, len) \/ \E img \in Image : DownloadSeek(img, at, len)
      PROVE  VerifiedIsClosed'
  BY <1>3 DEF DownloadSeek, DownloadDropped, transfer, history
<1>4. CASE CheckImage
  BY <1>4 DEF CheckImage, transfer
<1>5. CASE RequestFails \/ WriteImage \/ WriteImageFails
  BY <1>5 DEF RequestFails, WriteImage, WriteImageFails, transfer, history
<1>6. ASSUME NEW k \in Task, GotoApp(k) PROVE VerifiedIsClosed'
  BY <1>6 DEF GotoApp, transfer
<1>7. ASSUME NEW k \in Task,
             \/ SaveSeek(k) \/ SaveHead(k) \/ SaveHeadWrong(k) \/ SaveHeadFails(k)
             \/ SaveChunk(k) \/ SaveChunkShort(k) \/ SaveReadFails(k) \/ SaveWriteFails(k)
             \/ SwitchFails(k)
      PROVE  VerifiedIsClosed'
  <2>1. UNCHANGED <<updateState, transfer, verified>>
    BY <1>7, TaskMovement
  <2> QED BY <2>1 DEF transfer
<1>8. ASSUME NEW k \in Task, SaveClose(k) \/ SwitchAndReboot(k) PROVE VerifiedIsClosed'
  BY <1>8 DEF SaveClose, SwitchAndReboot, history
<1>9. CASE UNCHANGED vars
  BY <1>9 DEF vars, transfer, history
<1> QED
  BY <1>1, <1>2, <1>3, <1>4, <1>5, <1>6, <1>7, <1>8, <1>9 DEF Next, Host, Save

(* After firmware_check has accepted an image, no command sequence of the  *)
(* host short of a new request changes the received image or its CRC.      *)
THEOREM VerifiedTheorem == Spec => []VerifiedStaysComplete
<1>1. Init => VerifiedIsClosed
  BY DEF Init, VerifiedIsClosed
<1>2. VerifiedIsClosed => VerifiedStaysComplete
  BY DEF VerifiedIsClosed, VerifiedStaysComplete
<1> QED BY <1>1, <1>2, StepVerified, Typed, PTL DEF Spec

----------------------------------------------------------------------------
(* What the device switches to.                                            *)

Copied(n) == Len(unpacked) = n /\ \A i \in 1 .. n : unpacked[i] = cache[i + 1]

\* The file that followed the entry header has been unpacked.
FileSaved == offset # 0 /\ ~unread => Copied(offset - 1)

\* A task that has not opened its unpacked file, or will not any more.
Fresh(r) == r.pc \in {"none", "failed"} \/ (r.pc \in {"seek", "head"} /\ r.off = 0)

\* How far a task that was left alone has come: while it copies, the shared file
\* position is its own, its entry ends within what was received, and unless a
\* read failed it wrote what follows the entry header in the cache.
Progress(r) ==
    /\ r.pc \in {"seek", "close"} /\ r.off # 0 /\ r.off = offset => FileSaved
    /\ r.pc = "head" => r.off < offset /\ (cacheFd => fdPos = r.off)
    /\ r.pc = "copy" =>
          /\ cacheFd /\ r.off = 1 /\ r.linked /\ r.left \in 1 .. r.len /\ 1 + r.len <= offset
          /\ ~unread => r.wrote + r.left = r.len /\ fdPos = r.wrote + 1 /\ Copied(r.wrote)
    /\ r.pc = "switch" => ~cacheFd /\ FileSaved

\* Until it is disturbed, one task works, the host cannot send fragments, and
\* nothing is unpacked before the task has read an entry header.
SavingInv ==
    ~disturbed =>
        /\ ~slipped
        /\ \A j, k \in Task : Working(j) /\ Working(k) => j = k
        /\ \A k \in Task : Working(k) => ~Downloading
        /\ cacheFd /\ (\A k \in Task : Fresh(task[k])) => unpacked = <<>>
        /\ \A k \in Task : Progress(task[k])

\* With no task at work there is little to say.
LEMMA SavingIdle ==
  ASSUME \A k \in Task : ~Working(k)', ~disturbed' => ~slipped',
         ~disturbed' /\ cacheFd' => unpacked' = <<>>
  PROVE  SavingInv'
<1>1. \A k \in Task : Progress(task[k])'
  BY DEF Working, Progress
<1> QED BY <1>1 DEF SavingInv, Working

\* Commands of the host that neither disturb a task nor touch the transfer.
LEMMA SavingKept ==
  ASSUME SavingInv, UNCHANGED <<transfer, fdPos, task, unpacked, disturbed, slipped, unread>>,
         Downloading' => Downloading
  PROVE  SavingInv'
<1>1. \A k \in Task : Progress(task[k]) => Progress(task[k])'
  BY DEF Progress, FileSaved, Copied, transfer
<1>2. CASE disturbed
  BY <1>2 DEF SavingInv
<1>3. CASE ~disturbed
  BY <1>1, <1>3 DEF SavingInv, Working, transfer
<1> QED BY <1>2, <1>3

\* A step of the one task at work.
LEMMA SavingMove ==
  ASSUME TypeOK, SavingInv, NEW k \in Task, Working(k), NEW r, task' = [task EXCEPT ![k] = r],
         UNCHANGED <<updateState, disturbed>>,
         ~disturbed => /\ ~slipped' /\ Progress(r)'
                       /\ cacheFd' /\ Fresh(r) => unpacked' = <<>>
  PROVE  SavingInv'
<1> SUFFICES ASSUME ~disturbed PROVE SavingInv'
  BY DEF SavingInv
<1>1. \A j \in Task : j # k => ~Working(j)
  BY DEF SavingInv
<1>2. task'[k] = r /\ \A j \in Task : j # k => task'[j] = task[j]
  BY DEF TypeOK, TaskType
<1>3. \A j \in Task : j # k => ~Working(j)'
  BY <1>1, <1>2 DEF Working
<1>4. \A j \in Task : ~Working(j)' => Progress(task[j])'
  BY DEF Working, Progress
<1>5. Progress(task[k])'
  BY <1>2
<1>6. ~Downloading'
  BY DEF SavingInv, Downloading
<1>7. cacheFd' /\ (\A j \in Task : Fresh(task[j])') => unpacked' = <<>>
  BY <1>2
<1> QED BY <1>3, <1>4, <1>5, <1>6, <1>7 DEF SavingInv

LEMMA SavingHost == TypeOK /\ FragInv /\ SavingInv /\ Host => SavingInv'
<1> SUFFICES ASSUME TypeOK, FragInv, SavingInv, Host PROVE SavingInv'
  OBVIOUS
<1>1. ASSUME task' = [k \in Task |-> [task[k] EXCEPT !.linked = task[k].pc # "copy"]]
      PROVE  \A k \in Task : Working(k)' <=> Working(k)
  <2>1. \A k \in Task : task'[k].pc = task[k].pc
    BY <1>1 DEF TypeOK, TaskType, TaskState
  <2> QED BY <2>1 DEF Working
<1>2. ASSUME NEW img \in Image, RequestUpgrade(img) PROVE SavingInv'
  <2> SUFFICES ASSUME ~disturbed' PROVE SavingInv'
    BY DEF SavingInv
  <2>1. \A k \in Task : ~Working(k)'
    BY <1>1, <1>2 DEF RequestUpgrade
  <2> QED BY <1>2, <2>1, SavingIdle DEF RequestUpgrade
<1>3. CASE RequestFails
  <2> SUFFICES ASSUME ~disturbed' PROVE SavingInv'
    BY DEF SavingInv
  <2>1. ~disturbed /\ \A k \in Task : ~Working(k)'
    BY <1>1, <1>3 DEF RequestFails
  <2> QED BY <1>3, <2>1, SavingIdle DEF RequestFails, SavingInv
<1>4. CASE \/ DownloadWrite \/ DownloadFails \/ DownloadUnopened
           \/ \E at \in 0 .. BufferSize, len \in Fragment :
                 DownloadDropped(at, len) \/ \E img \in Image : DownloadSeek(img, at, len)
  <2>1. Downloading
    BY <1>4 DEF DownloadWrite, DownloadFails, DownloadUnopened, DownloadDropped, DownloadSeek,
       FragInv, Idle
  <2>2. UNCHANGED <<task, disturbed, slipped, unpacked, cacheFd>>
    BY <1>4 DEF DownloadWrite, DownloadFails, DownloadUnopened, DownloadDropped, DownloadSeek,
       history, transfer
  <2> SUFFICES ASSUME ~disturbed PROVE SavingInv'
    BY <2>2 DEF SavingInv
  <2>3. \A k \in Task : ~Working(k) /\ ~Working(k)'
    BY <2>1, <2>2 DEF SavingInv, Working
  <2>4. \A k \in Task : Fresh(task[k])
    BY <2>3 DEF Working, Fresh
  <2>5. ~slipped' /\ (cacheFd' => unpacked' = <<>>)
    BY <2>2, <2>4 DEF SavingInv
  <2> QED BY <2>3, <2>5, SavingIdle
<1>5. CASE CheckImage \/ WriteImage \/ WriteImageFails
  <2>1. UNCHANGED <<transfer, fdPos, task, unpacked, disturbed, slipped, unread>> /\ ~Downloading'
    BY <1>5 DEF CheckImage, WriteImage, WriteImageFails, Downloading, history
  <2> QED BY <2>1, SavingKept
<1>6. ASSUME NEW k \in Task, GotoApp(k) PROVE SavingInv'
  <2> SUFFICES ASSUME ~disturbed' PROVE SavingInv'
    BY DEF SavingInv
  <2>1. ~disturbed /\ \A j \in Task : ~Working(j)
    BY <1>6 DEF GotoApp
  <2>2. /\ task' = [task EXCEPT ![k] = [NoTask EXCEPT !.pc = "seek"]]
        /\ updateState' = "wait_reboot"
        /\ UNCHANGED <<transfer, unpacked, slipped>>
    BY <1>6 DEF GotoApp
  <2>3. /\ task'[k].pc = "seek" /\ task'[k].off = 0
        /\ \A j \in Task : j # k => task'[j] = task[j]
    BY <2>2 DEF TypeOK, TaskType, NoTask
  <2>4. \A j \in Task : Working(j)' => j = k
    BY <2>1, <2>3 DEF Working
  <2>5. \A j \in Task : Progress(task[j])'
    <3>1. \A j \in Task : ~Working(j)' => Progress(task[j])'
      BY DEF Working, Progress
    <3>2. Progress(task[k])'
      BY <2>3 DEF Progress
    <3> QED BY <2>4, <3>1, <3>2
  <2>6. ~Downloading'
    BY <2>2 DEF Downloading
  <2>7. \A j \in Task : Fresh(task[j])
    BY <2>1 DEF Working, Fresh
  <2>8. ~slipped' /\ (cacheFd' => unpacked' = <<>>)
    BY <2>1, <2>2, <2>7 DEF SavingInv, transfer
  <2> QED BY <2>4, <2>5, <2>6, <2>8 DEF SavingInv
<1> QED BY <1>2, <1>3, <1>4, <1>5, <1>6 DEF Host

\* What a task that was left alone finds.
LEMMA Undisturbed ==
  ASSUME TypeOK, FragInv, CrcCoversCache, SavingInv, ~disturbed, NEW k \in Task, Working(k)
  PROVE  /\ Idle /\ ~slipped /\ Progress(task[k])
         /\ cacheFd /\ Fresh(task[k]) => unpacked = <<>>
         /\ offset \in Nat /\ Len(cache) \in Nat /\ offset <= Len(cache)
         /\ \A i \in 1 .. offset : cache[i].pos = i
<1>1. Idle /\ ~slipped /\ Progress(task[k])
  BY DEF SavingInv, FragInv, Idle
<1>2. \A j \in Task : j # k => Fresh(task[j])
  BY DEF SavingInv, Working, Fresh
<1>3. cacheFd /\ Fresh(task[k]) => unpacked = <<>>
  BY <1>2 DEF SavingInv
<1>4. offset \in Nat /\ Len(cache) \in Nat
  BY FirmwareAssumption DEF TypeOK, TransferType, FilesType
<1>5. offset <= Len(cache) /\ \A i \in 1 .. offset : cache[i].pos = i
  BY <1>1 DEF CrcCoversCache
<1> QED BY <1>1, <1>3, <1>4, <1>5

LEMMA SavingSeek ==
  ASSUME TypeOK, FragInv, CrcCoversCache, SavingInv, NEW k \in Task, SaveSeek(k)
  PROVE  SavingInv'
<1>1. /\ Working(k) /\ task[k].pc = "seek" /\ task[k] \in TaskState
      /\ UNCHANGED <<updateState, disturbed, offset, cache, cacheFd, unpacked, unread>>
  BY DEF SaveSeek, Working, saving, transfer, TypeOK, TaskType
<1>2. CASE task[k].off < offset /\ task[k].cnt < Retries
  <2> PICK r : r = [task[k] EXCEPT !.pc = "head"]
    OBVIOUS
  <2>1. /\ task' = [task EXCEPT ![k] = r]
        /\ MovesTo(IF cacheFd THEN task[k].off ELSE fdPos)
    BY <1>2 DEF SaveSeek
  <2>2. r.pc = "head" /\ r.off = task[k].off
    BY <1>1 DEF TaskState
  <2>3. ASSUME ~disturbed PROVE ~slipped' /\ Progress(r)' /\ (cacheFd' /\ Fresh(r) => unpacked' = <<>>)
    <3>1. Idle /\ ~slipped /\ (cacheFd /\ Fresh(task[k]) => unpacked = <<>>)
      BY <1>1, <2>3, Undisturbed
    <3>2. ~slipped'
      BY <2>1, <3>1 DEF MovesTo
    <3>3. Progress(r)'
      BY <1>1, <1>2, <2>1, <2>2 DEF Progress, MovesTo
    <3>4. Fresh(r) => Fresh(task[k])
      BY <1>1, <2>2 DEF Fresh
    <3> QED BY <1>1, <3>1, <3>2, <3>3, <3>4
  <2> QED BY <1>1, <2>1, <2>3, SavingMove
<1>3. CASE ~(task[k].off < offset /\ task[k].cnt < Retries)
  <2> PICK r : r = [NoTask EXCEPT !.pc = "close", !.off = task[k].off]
    OBVIOUS
  <2>1. task' = [task EXCEPT ![k] = r] /\ slipped' = slipped
    BY <1>3 DEF SaveSeek
  <2>2. r.pc = "close" /\ r.off = task[k].off
    BY DEF NoTask
  <2>3. ASSUME ~disturbed PROVE ~slipped' /\ Progress(r)' /\ ~Fresh(r)
    <3>1. ~slipped /\ Progress(task[k])
      BY <1>1, <2>3, Undisturbed
    <3>2. Progress(r)'
      BY <1>1, <2>2, <3>1 DEF Progress, FileSaved, Copied
    <3> QED BY <2>1, <2>2, <3>1, <3>2 DEF Fresh
  <2> QED BY <1>1, <2>1, <2>3, SavingMove
<1> QED BY <1>2, <1>3

\* A header is only found at the front of the image.
LEMMA SavingHead ==
  ASSUME TypeOK, FragInv, CrcCoversCache, SavingInv, NEW k \in Task, SaveHead(k)
  PROVE  SavingInv'
<1>1. /\ Working(k) /\ task[k].pc = "head" /\ task[k].off \in Nat /\ task[k].cnt \in Nat
      /\ UNCHANGED <<updateState, disturbed, offset, cache, cacheFd, unpacked, unread>>
      /\ Readable(1) /\ EntryNext(k) /\ Announced \in Nat /\ MovesTo(fdPos + 1)
  BY AnnouncedType, TaskFields DEF SaveHead, Working, saving, transfer, TypeOK, TaskType
<1> PICK r : r = IF Announced = 0 THEN Round(task[k].off + 1, task[k].cnt + 1)
                 ELSE [pc |-> "copy", off |-> task[k].off + 1, len |-> Announced,
                       left |-> Announced, wrote |-> 0, linked |-> TRUE, cnt |-> task[k].cnt]
  OBVIOUS
<1>2. task' = [task EXCEPT ![k] = r]
  BY DEF SaveHead
<1>3. ASSUME ~disturbed PROVE ~slipped' /\ Progress(r)' /\ ~Fresh(r)
  <2>1. /\ Idle /\ ~slipped /\ Progress(task[k]) /\ (cacheFd /\ Fresh(task[k]) => unpacked = <<>>)
        /\ offset \in Nat /\ \A i \in 1 .. offset : cache[i].pos = i
    BY <1>1, <1>3, Undisturbed
  <2>2. cacheFd /\ task[k].off < offset /\ fdPos = task[k].off
    BY <1>1, <2>1 DEF Progress, Readable
  <2>3. task[k].off = 0
    <3>1. fdPos + 1 \in 1 .. offset /\ cache[fdPos + 1].pos = 1
      BY <1>1, <2>1, <2>2 DEF EntryNext
    <3> QED BY <1>1, <2>1, <2>2, <3>1
  <2>4. unpacked = <<>> /\ Copied(0)'
    BY <1>1, <2>1, <2>2, <2>3 DEF Fresh, Copied
  <2>5. fdPos' = 1 /\ ~slipped' /\ 1 + Announced <= offset
    <3>1. fdPos' = 1
      BY <1>1, <2>2, <2>3 DEF MovesTo
    <3>2. ~slipped'
      BY <1>1, <2>1 DEF MovesTo
    <3>3. 0 + 1 + Announced <= offset
      BY <1>1, <2>3 DEF EntryNext
    <3> QED BY <1>1, <3>1, <3>2, <3>3
  <2>6. CASE Announced = 0
    <3>1. r.pc = "seek" /\ r.off = 1
      BY <1>1, <2>3, <2>6, RoundType
    <3>2. r.off = offset' => FileSaved'
      BY <1>1, <2>4, <3>1 DEF FileSaved
    <3> QED BY <2>5, <3>1, <3>2 DEF Progress, Fresh
  <2>7. CASE Announced # 0
    <3>1. /\ r.pc = "copy" /\ r.off = 1 /\ r.linked /\ r.left = Announced /\ r.len = Announced
          /\ r.wrote = 0
      BY <1>1, <2>3, <2>7
    <3>2. r.left \in 1 .. r.len /\ 1 + r.len <= offset /\ r.wrote + r.left = r.len
      BY <1>1, <2>5, <2>7, <3>1
    <3> QED BY <1>1, <2>2, <2>4, <2>5, <3>1, <3>2 DEF Progress, Fresh
  <2> QED BY <2>6, <2>7
<1> QED BY <1>1, <1>2, <1>3, SavingMove

\* A task that gives up.
LEMMA SavingAbandon ==
  ASSUME TypeOK, FragInv, CrcCoversCache, SavingInv, NEW k \in Task,
         SaveHeadWrong(k) \/ SaveHeadFails(k)
  PROVE  SavingInv'
<1>1. /\ Working(k) /\ UNCHANGED <<updateState, disturbed>>
      /\ task' = [task EXCEPT ![k] = [NoTask EXCEPT !.pc = "abandon"]]
      /\ \E pos : MovesTo(pos)
  BY DEF SaveHeadWrong, SaveHeadFails, Working, saving
<1> PICK r : r = [NoTask EXCEPT !.pc = "abandon"]
  OBVIOUS
<1>2. r.pc = "abandon"
  BY DEF NoTask
<1>3. ASSUME ~disturbed PROVE ~slipped' /\ Progress(r)' /\ ~Fresh(r)
  <2>1. Idle /\ ~slipped
    BY <1>1, <1>3, Undisturbed
  <2> QED BY <1>1, <1>2, <2>1 DEF MovesTo, Progress, Fresh
<1> QED BY <1>1, <1>3, SavingMove

\* What a chunk adds to the unpacked file.
LEMMA ChunkCopied ==
  ASSUME TypeOK, NEW k \in Task, NEW n \in Nat, n # 0, Readable(n), Unpack(k, n), cache' = cache,
         NEW w \in Nat, w = task[k].wrote, task[k].linked, fdPos = w + 1, Copied(w)
  PROVE  Copied(w + n)'
<1>2. /\ fdPos = w + 1 /\ fdPos \in Nat /\ fdPos + n <= Len(cache) /\ Len(unpacked) = w
      /\ cache \in Seq(Cells) /\ unpacked \in Seq(Cells)
      /\ \A i \in 1 .. w : unpacked[i] = cache[i + 1]
  BY DEF Readable, Copied, TypeOK, FilesType
<1> DEFINE data == SubSeq(cache, fdPos + 1, fdPos + n)
<1>3. /\ data \in Seq(Cells) /\ Len(data) = n /\ data # <<>>
      /\ \A i \in 1 .. n : data[i] = cache[w + 1 + i]
  <2>1. /\ data \in Seq(Cells) /\ Len(data) = n
        /\ \A i \in 1 .. n : data[i] = cache[fdPos + i]
    BY <1>2, ReadFacts
  <2>2. data # <<>>
    BY <2>1
  <2> QED BY <1>2, <2>1, <2>2
<1>4. unpacked' = Written(unpacked, w, data)
  BY DEF Unpack
<1> HIDE DEF data
<1>5. Written(unpacked, Len(unpacked), data) = unpacked'
  BY <1>2, <1>4
<1>6. /\ Len(unpacked') = w + n
      /\ \A i \in 1 .. n : unpacked'[w + i] = data[i]
      /\ \A i \in 1 .. w : unpacked'[i] = unpacked[i]
  <2>1. /\ Len(Written(unpacked, Len(unpacked), data)) = Len(unpacked) + Len(data)
        /\ \A i \in 1 .. Len(data) : Written(unpacked, Len(unpacked), data)[Len(unpacked) + i] = data[i]
        /\ \A i \in 1 .. Len(unpacked) : Written(unpacked, Len(unpacked), data)[i] = unpacked[i]
    BY <1>2, <1>3, WrittenAtEnd
  <2> QED BY <1>2, <1>3, <1>5, <2>1
<1>7. ASSUME NEW i \in 1 .. w + n PROVE unpacked'[i] = cache[i + 1]
  <2>1. CASE i <= w
    <3>1. i \in 1 .. w
      BY <2>1
    <3> QED BY <1>2, <1>6, <3>1
  <2>2. CASE i > w
    <3> DEFINE j == i - w
    <3>1. j \in 1 .. n /\ i = w + j /\ w + 1 + j = i + 1
      BY <2>2
    <3> HIDE DEF j
    <3>2. unpacked'[w + j] = data[j] /\ data[j] = cache[w + 1 + j]
      BY <1>3, <1>6, <3>1
    <3> QED BY <3>1, <3>2
  <2> QED BY <2>1, <2>2
<1> QED BY <1>6, <1>7 DEF Copied

\* A chunk of n cells is behind, wrote cells of the file are written.
LEMMA ChunkCounted ==
  ASSUME TypeOK, NEW k \in Task, task[k].pc = "copy", Progress(task[k]), offset \in Nat,
         NEW n \in Nat, n # 0, n <= task[k].left, NEW wrote \in Nat,
         UNCHANGED <<offset, cacheFd>>,
         ~unread' => /\ wrote + (task[k].left - n) = task[k].len
                     /\ fdPos' = wrote + 1 /\ Copied(wrote)',
         NEW r,
         r = IF task[k].left = n THEN Round(task[k].off + task[k].len, task[k].cnt + 1)
             ELSE [task[k] EXCEPT !.left = task[k].left - n, !.wrote = wrote]
  PROVE  Progress(r)' /\ ~Fresh(r)
<1>1. /\ task[k] \in TaskState /\ task[k].cnt \in Nat
      /\ task[k].off = 1 /\ task[k].len \in Nat /\ task[k].left \in 1 .. task[k].len
      /\ cacheFd /\ task[k].linked /\ 1 + task[k].len <= offset
  BY TaskFields DEF TypeOK, TaskType, Progress
<1>2. CASE task[k].left = n
  <2>1. r.pc = "seek" /\ r.off = 1 + task[k].len
    <3>1. task[k].off + task[k].len \in Nat /\ task[k].cnt + 1 \in Nat
      BY <1>1
    <3>2. r = Round(task[k].off + task[k].len, task[k].cnt + 1)
      BY <1>2
    <3>3. /\ Round(task[k].off + task[k].len, task[k].cnt + 1).pc = "seek"
          /\ Round(task[k].off + task[k].len, task[k].cnt + 1).off = task[k].off + task[k].len
      BY <3>1, RoundType
    <3> QED BY <1>1, <3>2, <3>3
  <2>2. r.off = offset' => FileSaved'
    <3> SUFFICES ASSUME r.off = offset', ~unread' PROVE Copied(offset - 1)'
      BY DEF FileSaved
    <3>1. wrote = offset' - 1
      BY <1>1, <1>2, <2>1
    <3> QED BY <3>1
  <2>3. r.off # 0
    BY <1>1, <2>1
  <2> QED BY <2>1, <2>2, <2>3 DEF Progress, Fresh
<1>3. CASE task[k].left # n
  <2>1. /\ r.pc = "copy" /\ r.off = 1 /\ r.len = task[k].len /\ r.linked
        /\ r.left = task[k].left - n /\ r.wrote = wrote
    BY <1>1, <1>3 DEF TaskState
  <2>2. r.left \in 1 .. r.len /\ 1 + r.len <= offset'
    BY <1>1, <1>3, <2>1
  <2> QED BY <1>1, <2>1, <2>2 DEF Progress, Fresh
<1> QED BY <1>2, <1>3

LEMMA SavingChunk ==
  ASSUME TypeOK, FragInv, CrcCoversCache, SavingInv, NEW k \in Task,
         SaveChunk(k) \/ SaveChunkShort(k) \/ SaveReadFails(k)
  PROVE  SavingInv'
<1>1. /\ Working(k) /\ task[k].pc = "copy" /\ task[k].wrote \in Nat /\ task[k].left \in Nat
      /\ UNCHANGED <<updateState, disturbed, offset, cache, cacheFd>>
      /\ \E pos : MovesTo(pos)
  BY TaskFields DEF SaveChunk, SaveChunkShort, SaveReadFails, Working, saving, transfer, TypeOK, TaskType
<1>2. PICK n \in Nat : n = Wanted(k) /\ n <= task[k].left /\ (task[k].left # 0 => n # 0)
  BY WantedFacts
<1> DEFINE after(wrote) == IF task[k].left = n THEN Round(task[k].off + task[k].len, task[k].cnt + 1)
                           ELSE [task[k] EXCEPT !.left = task[k].left - n, !.wrote = wrote]
<1>3. ASSUME NEW wrote \in Nat, Counted(k, n, wrote),
             ~disturbed /\ ~unread' => /\ wrote + (task[k].left - n) = task[k].len
                                       /\ fdPos' = wrote + 1 /\ Copied(wrote)'
      PROVE  SavingInv'
  <2> PICK r : r = after(wrote)
    OBVIOUS
  <2>1. task' = [task EXCEPT ![k] = r]
    BY <1>3 DEF Counted
  <2>2. ASSUME ~disturbed PROVE ~slipped' /\ Progress(r)' /\ ~Fresh(r)
    <3>1. Idle /\ ~slipped /\ Progress(task[k]) /\ offset \in Nat
      BY <1>1, <2>2, Undisturbed
    <3>2. n # 0
      BY <1>1, <1>2, <3>1 DEF Progress
    <3>3. Progress(r)' /\ ~Fresh(r)
      BY <1>1, <1>2, <1>3, <2>2, <3>1, <3>2, ChunkCounted
    <3> QED BY <1>1, <3>1, <3>3 DEF MovesTo
  <2> QED BY <1>1, <2>1, <2>2, SavingMove
<1>4. ASSUME ~disturbed, ~unread
      PROVE  /\ n # 0 /\ task[k].linked /\ task[k].wrote + task[k].left = task[k].len
             /\ fdPos = task[k].wrote + 1 /\ Copied(task[k].wrote) /\ Readable(n)
  <2>1. /\ Progress(task[k]) /\ offset \in Nat /\ Len(cache) \in Nat /\ offset <= Len(cache)
    BY <1>1, <1>4, Undisturbed
  <2>2. /\ cacheFd /\ task[k].linked /\ task[k].left \in 1 .. task[k].len /\ 1 + task[k].len <= offset
        /\ task[k].wrote + task[k].left = task[k].len
        /\ fdPos = task[k].wrote + 1 /\ Copied(task[k].wrote)
    BY <1>1, <1>4, <2>1 DEF Progress
  <2>3. task[k].len \in Nat
    BY TaskFields DEF TypeOK, TaskType
  <2>4. n # 0
    BY <1>2, <2>2
  <2>5. fdPos + n <= Len(cache)
    <3>1. fdPos = task[k].wrote + 1 /\ task[k].wrote + task[k].left = task[k].len
      BY <2>2
    <3>2. n <= task[k].left /\ task[k].wrote \in Nat /\ task[k].left \in Nat
      BY <1>1, <1>2
    <3>3. fdPos + n <= 1 + task[k].len
      BY <2>3, <3>1, <3>2
    <3>4. 1 + task[k].len <= offset /\ offset <= Len(cache) /\ offset \in Nat /\ Len(cache) \in Nat
      BY <1>1, <2>1, <2>2
    <3>5. fdPos \in Nat
      BY <3>1, <3>2
    <3> QED BY <2>3, <3>3, <3>4, <3>5
  <2> QED BY <2>2, <2>4, <2>5 DEF Readable
<1>5. CASE SaveChunk(k)
  <2>1. /\ Readable(n) /\ Unpack(k, n) /\ Counted(k, n, task[k].wrote + n)
        /\ fdPos' = fdPos + n /\ unread' = unread
    BY <1>2, <1>5 DEF SaveChunk, MovesTo
  <2> PICK w \in Nat : w = task[k].wrote
    BY <1>1
  <2>2. w + n \in Nat
    OBVIOUS
  <2>3. ASSUME ~disturbed, ~unread'
        PROVE  /\ (w + n) + (task[k].left - n) = task[k].len
               /\ fdPos' = (w + n) + 1 /\ Copied(w + n)'
    <3>1. /\ n # 0 /\ task[k].linked /\ w + task[k].left = task[k].len
          /\ fdPos = w + 1 /\ Copied(w)
      BY <1>4, <2>1, <2>3
    <3>2. Copied(w + n)'
      BY <1>1, <2>1, <3>1, ChunkCopied
    <3> QED BY <1>1, <2>1, <3>1, <3>2
  <2> QED BY <1>3, <2>1, <2>2, <2>3
<1>6. CASE SaveChunkShort(k)
  <2>1. ~Readable(n) /\ unread' = unread /\ Counted(k, n, task[k].wrote)
    BY <1>2, <1>6 DEF SaveChunkShort
  <2>2. disturbed \/ unread
    BY <1>4, <2>1
  <2> QED BY <1>1, <1>3, <2>1, <2>2
<1>7. CASE SaveReadFails(k)
  <2>1. unread' = TRUE /\ Counted(k, n, task[k].wrote)
    BY <1>2, <1>7 DEF SaveReadFails
  <2> QED BY <1>1, <1>3, <2>1
<1> QED BY <1>5, <1>6, <1>7

\* After a failing write the next entry is looked for inside the file.
LEMMA SavingWriteFails ==
  ASSUME TypeOK, FragInv, CrcCoversCache, SavingInv, NEW k \in Task, SaveWriteFails(k)
  PROVE  SavingInv'
<1>1. /\ Working(k) /\ task[k].pc = "copy" /\ task[k].off \in Nat /\ task[k].cnt \in Nat
      /\ task[k].len \in Nat
      /\ UNCHANGED <<updateState, disturbed, offset>> /\ \E pos : MovesTo(pos)
  BY TaskFields DEF SaveWriteFails, Working, saving, transfer, TypeOK, TaskType
<1> PICK r : r = Round(task[k].off, task[k].cnt + 1)
  OBVIOUS
<1>2. task' = [task EXCEPT ![k] = r] /\ r.pc = "seek" /\ r.off = task[k].off
  BY <1>1, RoundType DEF SaveWriteFails
<1>3. ASSUME ~disturbed PROVE ~slipped' /\ Progress(r)' /\ ~Fresh(r)
  <2>1. Idle /\ ~slipped /\ Progress(task[k]) /\ offset \in Nat
    BY <1>1, <1>3, Undisturbed
  <2>2. r.off = 1 /\ r.off # offset'
    BY <1>1, <1>2, <2>1 DEF Progress
  <2>3. ~slipped'
    BY <1>1, <2>1 DEF MovesTo
  <2> QED BY <1>2, <2>2, <2>3 DEF Progress, Fresh
<1> QED BY <1>1, <1>2, <1>3, SavingMove

\* The task closes the cache, or has failed.
LEMMA SavingEnd ==
  ASSUME TypeOK, FragInv, CrcCoversCache, SavingInv, NEW k \in Task, SaveClose(k) \/ SwitchFails(k)
  PROVE  SavingInv'
<1>1. /\ Working(k) /\ task[k] \in TaskState
      /\ UNCHANGED <<updateState, disturbed, slipped, unread, offset, cache, unpacked>>
  BY DEF SaveClose, SwitchFails, Working, transfer, history, TypeOK, TaskType
<1>2. CASE SaveClose(k)
  <2> PICK r : r = [NoTask EXCEPT !.pc = IF AllSaved(k) THEN "switch" ELSE "failed"]
    OBVIOUS
  <2>1. task' = [task EXCEPT ![k] = r] /\ ~cacheFd'
    BY <1>2 DEF SaveClose
  <2>2. r.pc = IF AllSaved(k) THEN "switch" ELSE "failed"
    BY DEF NoTask
  <2>3. ASSUME ~disturbed PROVE ~slipped' /\ Progress(r)'
    <3>1. ~slipped /\ Progress(task[k])
      BY <1>1, <2>3, Undisturbed
    <3>2. AllSaved(k) => FileSaved
      BY <3>1 DEF AllSaved, Progress, FileSaved
    <3>3. AllSaved(k) => FileSaved'
      BY <1>1, <3>2 DEF FileSaved, Copied
    <3> QED BY <1>1, <2>1, <2>2, <3>1, <3>3 DEF Progress
  <2> QED BY <1>1, <2>1, <2>3, SavingMove
<1>3. CASE SwitchFails(k)
  <2> PICK r : r = [task[k] EXCEPT !.pc = "failed"]
    OBVIOUS
  <2>1. task' = [task EXCEPT ![k] = r] /\ task[k].pc = "switch" /\ cacheFd' = cacheFd
    BY <1>3 DEF SwitchFails, transfer
  <2>2. r.pc = "failed"
    BY <1>1 DEF TaskState
  <2>3. ASSUME ~disturbed PROVE ~slipped' /\ Progress(r)' /\ ~cacheFd'
    <3>1. ~slipped /\ Progress(task[k])
      BY <1>1, <2>3, Undisturbed
    <3> QED BY <1>1, <2>1, <2>2, <3>1 DEF Progress
  <2> QED BY <1>1, <2>1, <2>3, SavingMove
<1> QED BY <1>2, <1>3

LEMMA SavingStep ==
  TypeOK /\ FragInv /\ CrcCoversCache /\ SavingInv /\ [Next]_vars => SavingInv'
<1> SUFFICES ASSUME TypeOK, FragInv, CrcCoversCache, SavingInv, [Next]_vars PROVE SavingInv'
  OBVIOUS
<1>1. ASSUME NEW k \in Task, SwitchAndReboot(k) PROVE SavingInv'
  <2>1. \A j \in Task : ~Working(j)'
    BY <1>1 DEF SwitchAndReboot, Working, NoTask
  <2> QED BY <1>1, <2>1, SavingIdle DEF SwitchAndReboot
<1>2. CASE UNCHANGED vars
  BY <1>2, SavingKept DEF vars, history, Downloading
<1> QED
  BY <1>1, <1>2, SavingHost, SavingSeek, SavingHead, SavingAbandon, SavingChunk,
     SavingWriteFails, SavingEnd
  DEF Next, Save

(* Unless a new request or a second run command comes in between, or a     *)
(* read of the cache fails (which firmware_write takes for a copy), the    *)
(* task that is about to run the switch script has unpacked exactly what   *)
(* was received behind the entry header: no failing write, seek or open is *)
(* passed over, no chunk was skipped by a seek of another user of          *)
(* cache_file_fd, none lies beyond uOffset.                                *)
THEOREM SwitchTheorem == Spec => []SwitchesToReceivedFile
<1>1. Init => SavingInv
  <2> SUFFICES ASSUME Init PROVE SavingInv
    OBVIOUS
  <2>1. \A k \in Task : task[k].pc = "none"
    BY DEF Init, NoTask
  <2> QED BY <2>1 DEF Init, SavingInv, Working, Progress
<1>2. TypeOK /\ CrcCoversCache /\ SavingInv => SwitchesToReceivedFile
  <2> SUFFICES ASSUME TypeOK, CrcCoversCache, SavingInv, NEW k \in Task, task[k].pc = "switch",
                      ~disturbed, ~unread, offset # 0
               PROVE  /\ Len(unpacked) = offset - 1
                      /\ \A i \in 1 .. offset - 1 : unpacked[i] = crc[i + 1]
    BY DEF SwitchesToReceivedFile
  <2>1. offset \in Nat
    BY FirmwareAssumption DEF TypeOK, TransferType
  <2>2. Copied(offset - 1) /\ ~slipped
    BY DEF SavingInv, Progress, FileSaved
  <2>3. ASSUME NEW i \in 1 .. offset - 1 PROVE unpacked[i] = crc[i + 1]
    <3>1. i + 1 \in 1 .. offset
      BY <2>1
    <3> QED BY <2>2, <3>1 DEF CrcCoversCache, Copied
  <2> QED BY <2>2, <2>3 DEF Copied
<1> QED BY <1>1, <1>2, SavingStep, Typed, CrcTheorem, PTL DEF Spec
=============================================================================
