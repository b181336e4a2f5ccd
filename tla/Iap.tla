-------------------------------- MODULE Iap --------------------------------
(***************************************************************************)
(* The in-application programming module of the updater (iap.c): one       *)
(* programming session at a time, opened by iap_begin, fed by iap_write    *)
(* through a one-page buffer, closed by iap_commit or iap_abort.           *)
(*                                                                         *)
(* The client may call any operation in any order.  An operation that      *)
(* writes flash is split at each flash write, because power may be cut     *)
(* there: `call' is the operation that is under way and `todo' is what     *)
(* iap_write still has to copy.  Flash and the boot choice survive Reset,  *)
(* the rest of the state is RAM.                                           *)
(***************************************************************************)

EXTENDS Integers, Sequences

CONSTANTS Byte,             \* the values of a byte
          Block,            \* the blocks a client passes to iap_write
          PageSize,         \* IAP_PAGE_SIZE
          PartitionTable,   \* the labels of the application partitions
          Image,            \* the byte sequences esp_ota_end accepts
          OtaEndValidates,  \* does esp_ota_end look at the image at all?
          FlashMayFail,     \* can esp_ota_write fail?
          MaxStream         \* bound: the bytes passed in one session

Label == {"factory", "ota_0", "ota_1"}

ASSUME PageSizeAssumption  == PageSize \in Nat \ {0}
ASSUME BlockAssumption     == Block \subseteq Seq(Byte)
ASSUME ImageAssumption     == Image \subseteq Seq(Byte)
ASSUME PartitionAssumption == PartitionTable \subseteq Label

VARIABLES
    module_state_flags,     \* subset of {"INITIALIZED", "SESSION_OPEN"}
    partition_to_program,   \* a label, or "null"
    ota_handle,             \* "zero", "live", or "ended": esp_ota_end took it
    page_buffer,            \* "null", "allocated", or "freed": dangling
    page,                   \* what the buffer holds; page_buffer_ix is Len(page)
    call,                   \* the operation under way, or "none"
    todo,                   \* the bytes iap_write has not copied yet
    ret,                    \* the result of the last operation that returned
    flash,                  \* what each partition holds; << >> is erased
    wrote_size,             \* how far the live OTA handle has written
    boot,                   \* the partition the boot loader starts
    faulty,                 \* FALSE: heap, flash and power have become reliable
    stream                  \* history: what the open session has been passed

moduleVars == <<module_state_flags, partition_to_program, ota_handle, page_buffer, page>>
callVars   == <<call, todo, ret>>
flashVars  == <<flash, wrote_size, stream>>
vars       == <<moduleVars, callVars, flashVars, boot, faulty>>

Prefix(s, n) == SubSeq(s, 1, n)

\* Mutant: the pointer into the block is advanced too far.
SuffixTooShort(s, n) == SubSeq(s, n + 2, Len(s))

Suffix(s, n) == SubSeq(s, n + 1, Len(s))

Smaller(m, n) == IF m < n THEN m ELSE n

initialized == "INITIALIZED" \in module_state_flags
sessionOpen == "SESSION_OPEN" \in module_state_flags

Init ==
    /\ module_state_flags = {}
    /\ partition_to_program = "null"
    /\ ota_handle = "zero"
    /\ page_buffer = "null"
    /\ page = << >>
    /\ call = "none"
    /\ todo = << >>
    /\ ret = "OK"
    /\ flash \in [PartitionTable -> Image \cup {<< >>}]
    /\ wrote_size = 0
    /\ boot \in PartitionTable
    /\ flash[boot] \in Image
    /\ faulty = TRUE
    /\ stream = << >>

-----------------------------------------------------------------------------
(* The OTA functions of the platform, as iap.c uses them.                  *)

\* esp_ota_write appends to what the handle has written so far.
EspOtaWrites(bytes) ==
    /\ ota_handle = "live"
    /\ flash' = [flash EXCEPT ![partition_to_program] = Prefix(@, wrote_size) \o bytes]
    /\ wrote_size' = wrote_size + Len(bytes)

\* A write that fails may have programmed some of the bytes.
EspOtaWriteFails(bytes) ==
    /\ (FlashMayFail /\ faulty) \/ ota_handle # "live"
    /\ \E n \in 0..Len(bytes) :
          flash' = [flash EXCEPT ![partition_to_program] =
                        Prefix(@, wrote_size) \o Prefix(bytes, n)]
    /\ UNCHANGED wrote_size

\* esp_ota_end uses the handle up, and says whether the image is acceptable.
EspOtaEndSucceeds ==
    /\ ota_handle = "live"
    /\ OtaEndValidates => flash[partition_to_program] \in Image

-----------------------------------------------------------------------------
iap_init ==
    /\ call = "none"
    /\ \/ /\ initialized
          /\ ret' = "ALREADY_INITIALIZED"
          /\ UNCHANGED module_state_flags
       \/ /\ ~initialized
          /\ ret' = "OK"
          /\ module_state_flags' = {"INITIALIZED"}
    /\ UNCHANGED <<partition_to_program, ota_handle, page_buffer, page, call, todo>>
    /\ UNCHANGED <<flashVars, boot, faulty>>

\* Mutant: the table does not lead back to the first OTA partition.
NextLabelStuck == [factory |-> "ota_0", ota_0 |-> "ota_1", ota_1 |-> "ota_1"]

NextLabel == [factory |-> "ota_0", ota_0 |-> "ota_1", ota_1 |-> "ota_0"]

\* Mutant: a missing partition is replaced by the one in use.
FallBackToBoot ==
    IF NextLabel[boot] \in PartitionTable THEN NextLabel[boot] ELSE boot

iap_find_next_boot_partition ==
    IF NextLabel[boot] \in PartitionTable THEN NextLabel[boot] ELSE "null"

\* The part of iap_begin behind its two guards.  esp_ota_begin may fail, and may have
\* erased the partition all the same.
OpenSession ==
    /\ page' = << >>
    /\ \/ /\ faulty
          /\ page_buffer' = "null"
          /\ ret' = "OUT_OF_MEMORY"
          /\ UNCHANGED <<module_state_flags, partition_to_program, ota_handle, flashVars>>
       \/ /\ iap_find_next_boot_partition = "null"
          /\ partition_to_program' = "null"
          /\ page_buffer' = "freed"
          /\ ret' = "PARTITION_NOT_FOUND"
          /\ UNCHANGED <<module_state_flags, ota_handle, flashVars>>
       \/ /\ iap_find_next_boot_partition # "null"
          /\ partition_to_program' = iap_find_next_boot_partition
          /\ \/ /\ page_buffer' = "freed"
                /\ ret' = "FAIL"
                /\ flash' \in {flash, [flash EXCEPT ![partition_to_program'] = << >>]}
                /\ UNCHANGED <<module_state_flags, ota_handle, wrote_size, stream>>
             \/ /\ page_buffer' = "allocated"
                /\ ret' = "OK"
                /\ flash' = [flash EXCEPT ![partition_to_program'] = << >>]
                /\ ota_handle' = "live"
                /\ module_state_flags' = module_state_flags \cup {"SESSION_OPEN"}
                /\ wrote_size' = 0
                /\ stream' = << >>

iap_begin ==
    /\ call = "none"
    /\ \/ /\ ~initialized
          /\ ret' = "NOT_INITIALIZED"
          /\ UNCHANGED <<moduleVars, flashVars>>
       \/ /\ initialized /\ sessionOpen
          /\ ret' = "SESSION_ALREADY_OPEN"
          /\ UNCHANGED <<moduleVars, flashVars>>
       \/ /\ initialized /\ ~sessionOpen
          /\ OpenSession
    /\ UNCHANGED <<call, todo, boot, faulty>>

\* iap_write up to its loop.
iap_write(bytes) ==
    /\ call = "none"
    /\ \/ /\ ~initialized
          /\ ret' = "NOT_INITIALIZED"
          /\ UNCHANGED <<call, todo, stream>>
       \/ /\ initialized /\ ~sessionOpen
          /\ ret' = "NO_SESSION"
          /\ UNCHANGED <<call, todo, stream>>
       \/ /\ initialized /\ sessionOpen
          /\ Len(stream) + Len(bytes) =< MaxStream      \* bound
          /\ call' = "write"
          /\ todo' = bytes
          /\ stream' = stream \o bytes
          /\ UNCHANGED ret
    /\ UNCHANGED <<moduleVars, flash, wrote_size, boot, faulty>>

\* iap_write_page_buffer on a page that is not empty: the page is empty after a
\* write that succeeds, and as it was after one that fails.
\* Mutant: the index is not put back to the start of the page.
PageKeptAfterWrite(bytes) == EspOtaWrites(bytes) /\ page' = bytes

PageWritten(bytes)    == EspOtaWrites(bytes) /\ page' = << >>
PageNotWritten(bytes) == EspOtaWriteFails(bytes) /\ page' = bytes

\* Mutant: the page counts as full when it has overflowed.
PageOverflowed(bytes) == Len(bytes) > PageSize

PageFull(bytes) == Len(bytes) = PageSize

\* How many bytes go into the page in this turn of the loop, and the page then.
\* Mutant: the space that remains in the page is not looked at.
nofBytesUnlimited == Len(todo)

nofBytesToCopy == Smaller(PageSize - Len(page), Len(todo))
filled         == page \o Prefix(todo, nofBytesToCopy)

\* One turn of the loop in iap_write: copy what fits into the page, and write
\* the page out when that fills it.  After a failed write the call returns, and
\* what it has not copied counts as never passed in.
WriteChunk ==
    /\ call = "write"
    /\ todo # << >>
    /\ page_buffer = "allocated"
    /\ \/ /\ ~PageFull(filled)
          /\ page' = filled
          /\ todo' = Suffix(todo, nofBytesToCopy)
          /\ UNCHANGED <<call, ret, flashVars>>
       \/ /\ PageFull(filled)
          /\ PageWritten(filled)
          /\ todo' = Suffix(todo, nofBytesToCopy)
          /\ UNCHANGED <<call, ret, stream>>
       \/ /\ PageFull(filled)
          /\ PageNotWritten(filled)
          /\ todo' = << >>
          /\ stream' = Prefix(stream, Len(stream) - Len(todo) + nofBytesToCopy)
          /\ call' = "none"
          /\ ret' = "WRITE_FAILED"
    /\ UNCHANGED <<module_state_flags, partition_to_program, ota_handle, page_buffer>>
    /\ UNCHANGED <<boot, faulty>>

WriteReturns ==
    /\ call = "write"
    /\ todo = << >>
    /\ call' = "none"
    /\ ret' = "OK"
    /\ UNCHANGED <<moduleVars, todo, flashVars, boot, faulty>>

\* iap_commit up to iap_finish: the last, partly filled page.  The result of
\* this write is logged and then overwritten by the result of iap_finish.
iap_commit ==
    /\ call = "none"
    /\ call' = "commit"
    /\ \/ /\ page = << >>
          /\ UNCHANGED <<page, flash, wrote_size>>
       \/ /\ page # << >>
          /\ PageWritten(page)
       \/ /\ page # << >>
          /\ PageNotWritten(page)
    /\ UNCHANGED <<module_state_flags, partition_to_program, ota_handle, page_buffer>>
    /\ UNCHANGED <<todo, ret, stream, boot, faulty>>

\* Mutant: the index is not reset with the buffer.
ReleaseBufferOnly == page_buffer' = "null" /\ UNCHANGED page

ReleaseBuffer == page_buffer' = "null" /\ page' = << >>

CloseSession ==
    /\ ota_handle' = "zero"
    /\ partition_to_program' = "null"
    /\ module_state_flags' = module_state_flags \ {"SESSION_OPEN"}
    /\ ret' = "OK"

\* Mutant: the result of esp_ota_end is ignored on a commit, too.
FinishUnchecked(commit) ==
    /\ sessionOpen
    /\ ReleaseBuffer
    /\ CloseSession
    /\ boot' = IF commit THEN partition_to_program ELSE boot
    /\ wrote_size' = 0
    /\ stream' = << >>
    /\ UNCHANGED <<todo, flash, faulty>>

\* iap_finish releases the buffer first.  When a commit then fails, in
\* esp_ota_end or in esp_ota_set_boot_partition, the session stays open.
iap_finish(commit) ==
    /\ \/ /\ ~initialized
          /\ ret' = "NOT_INITIALIZED"
          /\ UNCHANGED <<moduleVars, wrote_size, stream, boot>>
       \/ /\ initialized /\ ~sessionOpen
          /\ ret' = "NO_SESSION"
          /\ UNCHANGED <<moduleVars, wrote_size, stream, boot>>
       \/ /\ initialized /\ sessionOpen
          /\ ReleaseBuffer
          /\ wrote_size' = 0
          /\ stream' = << >>
          /\ \/ /\ commit
                /\ faulty \/ ~EspOtaEndSucceeds
                /\ ota_handle' = "ended"
                /\ ret' = "FAIL"
                /\ UNCHANGED <<module_state_flags, partition_to_program, boot>>
             \/ /\ commit
                /\ EspOtaEndSucceeds
                /\ boot' = partition_to_program
                /\ CloseSession
             \/ /\ ~commit
                /\ CloseSession
                /\ UNCHANGED boot
    /\ UNCHANGED <<todo, flash, faulty>>

CommitFinishes ==
    /\ call = "commit"
    /\ call' = "none"
    /\ iap_finish(TRUE)

iap_abort ==
    /\ call = "none"
    /\ iap_finish(FALSE)
    /\ UNCHANGED call

-----------------------------------------------------------------------------
\* The chip restarts, at any point: power is cut, the application calls
\* esp_restart.  The static variables are zero again, flash is kept.
Reset ==
    /\ module_state_flags' = {}
    /\ partition_to_program' = "null"
    /\ ota_handle' = "zero"
    /\ page_buffer' = "null"
    /\ page' = << >>
    /\ call' = "none"
    /\ todo' = << >>
    /\ ret' = "OK"
    /\ wrote_size' = 0
    /\ stream' = << >>
    /\ UNCHANGED <<flash, boot, faulty>>

\* Copying to a page that is not allocated raises an exception; the panic
\* handler restarts the chip.
Panic ==
    /\ call = "write"
    /\ todo # << >>
    /\ page_buffer # "allocated"
    /\ Reset

Settle ==
    /\ faulty
    /\ faulty' = FALSE
    /\ UNCHANGED <<moduleVars, callVars, flashVars, boot>>

Next ==
    \/ iap_init
    \/ iap_begin
    \/ \E bytes \in Block : iap_write(bytes)
    \/ WriteChunk
    \/ WriteReturns
    \/ iap_commit
    \/ CommitFinishes
    \/ iap_abort
    \/ Reset
    \/ Panic
    \/ Settle

\* A call that has begun runs on: nothing in iap.c waits.
Fairness ==
    /\ WF_vars(WriteChunk)
    /\ WF_vars(WriteReturns)
    /\ WF_vars(CommitFinishes)
    /\ WF_vars(Panic)

Spec == Init /\ [][Next]_vars /\ Fairness

-----------------------------------------------------------------------------
\* The variables hold what the C types and the heap allow; the page buffer
\* never holds more than a page.
TypeOK ==
    /\ module_state_flags \subseteq {"INITIALIZED", "SESSION_OPEN"}
    /\ partition_to_program \in PartitionTable \cup {"null"}
    /\ ota_handle \in {"zero", "live", "ended"}
    /\ page_buffer \in {"null", "allocated", "freed"}
    /\ page \in Seq(Byte) /\ Len(page) =< PageSize
    /\ call \in {"none", "write", "commit"}
    /\ todo \in Seq(Byte)
    /\ ret \in {"OK", "FAIL", "ALREADY_INITIALIZED", "NOT_INITIALIZED",
               "SESSION_ALREADY_OPEN", "OUT_OF_MEMORY", "NO_SESSION",
               "PARTITION_NOT_FOUND", "WRITE_FAILED"}
    /\ flash \in [PartitionTable -> Seq(Byte)]
    /\ wrote_size \in Nat
    /\ boot \in PartitionTable
    /\ faulty \in BOOLEAN
    /\ stream \in Seq(Byte)

\* Outside a session no byte waits in the page (iap_commit would write it with
\* a stale handle: it looks at the page before anything checks the session) and
\* no buffer is held (iap_begin would leak it).
NothingHeldOutsideSession ==
    ~sessionOpen =>
        /\ page = << >>
        /\ page_buffer # "allocated"
        /\ ota_handle = "zero"
        /\ call # "write"

\* An open session has either a buffer and a live OTA handle, or, after a commit
\* that failed, neither: its buffer is never freed twice, nor its handle used.
SessionHoldsBufferAndHandle ==
    sessionOpen =>
        /\ initialized
        /\ \/ page_buffer = "allocated" /\ ota_handle = "live"
           \/ page_buffer = "null" /\ ota_handle = "ended" /\ page = << >>

\* Page, buffer and handle are there for a session and for no longer, whatever has
\* failed (iap.c frees the buffer, and tests the flag, in three places each).
BuffersFollowSession == NothingHeldOutsideSession /\ SessionHoldsBufferAndHandle

\* A session never programs the partition the device boots from, even after
\* commits have moved the boot choice around the table.
SessionSparesBootPartition ==
    sessionOpen => partition_to_program \in PartitionTable \ {boot}

\* While the handle is live, what it has written, then what the page holds, then
\* what iap_write has yet to copy is exactly what the client has passed in: no
\* byte is lost, repeated or moved by the paging, also when a failed write is
\* retried by the next iap_write.
NoByteLost ==
    ota_handle = "live" =>
        /\ wrote_size =< Len(flash[partition_to_program])
        /\ (Prefix(flash[partition_to_program], wrote_size) \o page) \o todo = stream
        /\ page = << >> => wrote_size = Len(flash[partition_to_program])

\* The device can always boot: the boot partition holds an image.
BootPartitionHoldsImage == flash[boot] \in Image

\* "Call to close a programming session and activate the programmed partition" (iap.h):
\* what is activated is everything the client has passed in.
ActivatesWholeStream == [][boot' # boot => flash[boot'] = stream]_vars

\* A partition is activated only by iap_commit, and if the last page went out
\* it then holds everything the client has passed in.
ActivatesWhatWasStreamed ==
    [][boot' # boot /\ page = << >> => flash[boot'] = stream]_vars

\* Every call returns, or the chip restarts: the loop of iap_write ends.
CallsReturn == call # "none" ~> call = "none"

Slots == INSTANCE FirmwareSlots WITH Partition <- PartitionTable, slot <- flash

\* The module keeps the promise of FirmwareSlots.
ImplementsFirmwareSlots == Slots!Spec

=============================================================================
