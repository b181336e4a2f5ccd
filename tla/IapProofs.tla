----------------------------- MODULE IapProofs -----------------------------
(***************************************************************************)
(* What Iap guarantees for every page size, partition table, set of blocks *)
(* and set of images.                                                      *)
(***************************************************************************)

EXTENDS Iap, SequenceTheorems, TLAPS

-----------------------------------------------------------------------------
(* Prefixes and suffixes.                                                  *)

LEMMA PrefixIsSeq ==
    ASSUME NEW S, NEW s \in Seq(S), NEW n \in 0..Len(s)
    PROVE  Prefix(s, n) \in Seq(S) /\ Len(Prefix(s, n)) = n
BY SubSeqProperties, LenProperties DEF Prefix

LEMMA SuffixIsSeq ==
    ASSUME NEW S, NEW s \in Seq(S), NEW n \in 0..Len(s)
    PROVE  Suffix(s, n) \in Seq(S) /\ Len(Suffix(s, n)) = Len(s) - n
BY SubSeqProperties, LenProperties DEF Suffix

LEMMA PrefixThenSuffix ==
    ASSUME NEW S, NEW s \in Seq(S), NEW n \in 0..Len(s)
    PROVE  s = Prefix(s, n) \o Suffix(s, n)
<1>1. 1 \in 1..(Len(s) + 1) /\ n \in (1 - 1)..Len(s) /\ Len(s) \in n..Len(s)
  BY LenProperties
<1>2. SubSeq(s, 1, n) \o SubSeq(s, n + 1, Len(s)) = SubSeq(s, 1, Len(s))
  BY <1>1, ConcatAdjacentSubSeq
<1>3. QED
  BY <1>2, SubSeqFull DEF Prefix, Suffix

LEMMA AnyPrefixIsSeq ==
    ASSUME NEW S, NEW s \in Seq(S), NEW n \in Int, n =< Len(s)
    PROVE  Prefix(s, n) \in Seq(S)
BY SubSeqProperties, LenProperties DEF Prefix

LEMMA PrefixOfAll ==
    ASSUME NEW S, NEW s \in Seq(S)
    PROVE  Prefix(s, Len(s)) = s
BY SubSeqFull DEF Prefix

LEMMA PrefixOfConcat ==
    ASSUME NEW S, NEW s \in Seq(S), NEW t \in Seq(S)
    PROVE  Prefix(s \o t, Len(s)) = s
<1>1. s \o t \in Seq(S) /\ Len(s \o t) = Len(s) + Len(t) /\ Len(s) \in Nat /\ Len(t) \in Nat
  BY ConcatProperties, LenProperties
<1>2. Len(s) \in 0..Len(s \o t)
  BY <1>1
<1>3. Prefix(s \o t, Len(s)) \in Seq(S) /\ Len(Prefix(s \o t, Len(s))) = Len(s)
  BY <1>1, <1>2, PrefixIsSeq
<1>4. \A i \in 1..Len(s) : (s \o t)[i] \in S /\ (s \o t)[i] = s[i]
  BY <1>1, ConcatProperties, ElementOfSeq
<1>5. \A i \in 1..Len(s) : Prefix(s \o t, Len(s))[i] = s[i]
  <2>1. \A i \in 1..(Len(s) - 1 + 1) : Prefix(s \o t, Len(s))[i] = (s \o t)[1 + i - 1]
    BY <1>1, <1>4, SubSeqProperties DEF Prefix
  <2>2. QED
    BY <1>1, <1>4, <2>1
<1>6. QED
  BY <1>3, <1>5, SeqEqual

LEMMA PrefixBeyondFirst ==
    ASSUME NEW S, NEW s \in Seq(S), NEW t \in Seq(S), NEW n \in 0..Len(t)
    PROVE  Prefix(s \o t, Len(s) + n) = s \o Prefix(t, n)
<1> DEFINE first == Prefix(t, n)
           rest  == Suffix(t, n)
<1>1. first \in Seq(S) /\ Len(first) = n /\ rest \in Seq(S) /\ t = first \o rest
  BY PrefixIsSeq, SuffixIsSeq, PrefixThenSuffix
<1> HIDE DEF first, rest
<1>2. s \o first \in Seq(S) /\ Len(s \o first) = Len(s) + n
  BY <1>1, ConcatProperties
<1>3. s \o (first \o rest) = (s \o first) \o rest
  BY <1>1, ConcatAssociative, SMTT(30)
<1>4. Prefix((s \o first) \o rest, Len(s \o first)) = s \o first
  BY <1>1, <1>2, PrefixOfConcat
<1>5. QED
  BY <1>1, <1>2, <1>3, <1>4 DEF first

-----------------------------------------------------------------------------
(* The shape of a session.  Typing the flash needs to know that the handle  *)
(* has not written past what the partition holds.                          *)

WrittenIsInFlash ==
    ota_handle = "live" => wrote_size =< Len(flash[partition_to_program])

\* Bytes wait to be copied only while iap_write runs.
TodoOnlyInWrite == call # "write" => todo = << >>

SessionInv ==
    /\ TypeOK
    /\ NothingHeldOutsideSession
    /\ SessionHoldsBufferAndHandle
    /\ SessionSparesBootPartition
    /\ WrittenIsInFlash
    /\ TodoOnlyInWrite

\* A live handle belongs to an open session on a partition of the table.
LEMMA LiveHandle ==
    ASSUME SessionInv, ota_handle = "live"
    PROVE  /\ partition_to_program \in PartitionTable \ {boot}
           /\ flash[partition_to_program] \in Seq(Byte)
           /\ wrote_size \in 0..Len(flash[partition_to_program])
           /\ Prefix(flash[partition_to_program], wrote_size) \in Seq(Byte)
           /\ Len(Prefix(flash[partition_to_program], wrote_size)) = wrote_size
<1>1. partition_to_program \in PartitionTable \ {boot} /\ flash[partition_to_program] \in Seq(Byte)
  BY DEF SessionInv, TypeOK, NothingHeldOutsideSession, SessionSparesBootPartition
<1>2. wrote_size \in 0..Len(flash[partition_to_program])
  BY <1>1, LenProperties DEF SessionInv, TypeOK, WrittenIsInFlash
<1>3. QED
  BY <1>1, <1>2, PrefixIsSeq

\* What a turn of iap_write's loop takes fits into the page.
LEMMA ChunkFits ==
    ASSUME SessionInv
    PROVE  /\ nofBytesToCopy \in 0..Len(todo)
           /\ Prefix(todo, nofBytesToCopy) \in Seq(Byte)
           /\ Len(Prefix(todo, nofBytesToCopy)) = nofBytesToCopy
           /\ Suffix(todo, nofBytesToCopy) \in Seq(Byte)
           /\ filled \in Seq(Byte)
           /\ Len(filled) = Len(page) + nofBytesToCopy
           /\ Len(filled) =< PageSize
<1>1. /\ page \in Seq(Byte) /\ Len(page) \in Nat /\ Len(page) =< PageSize
      /\ todo \in Seq(Byte) /\ Len(todo) \in Nat
      /\ PageSize \in Nat \ {0}
  BY LenProperties, PageSizeAssumption DEF SessionInv, TypeOK
<1>2. nofBytesToCopy \in 0..Len(todo) /\ Len(page) + nofBytesToCopy =< PageSize
  BY <1>1 DEF nofBytesToCopy, Smaller
<1>3. /\ Prefix(todo, nofBytesToCopy) \in Seq(Byte)
      /\ Len(Prefix(todo, nofBytesToCopy)) = nofBytesToCopy
      /\ Suffix(todo, nofBytesToCopy) \in Seq(Byte)
  BY <1>1, <1>2, PrefixIsSeq, SuffixIsSeq
<1>4. filled \in Seq(Byte) /\ Len(filled) = Len(page) + nofBytesToCopy
  BY <1>1, <1>3, ConcatProperties DEF filled
<1>5. QED
  BY <1>2, <1>3, <1>4

\* A write that succeeds programs its bytes, in the session's partition only.
LEMMA WriteSucceeds ==
    ASSUME SessionInv, NEW bytes \in Seq(Byte), EspOtaWrites(bytes)
    PROVE  /\ flash' \in [PartitionTable -> Seq(Byte)]
           /\ \A q \in PartitionTable \ {partition_to_program} : flash'[q] = flash[q]
           /\ flash'[partition_to_program] =
                  Prefix(flash[partition_to_program], wrote_size) \o bytes
           /\ wrote_size' \in Nat
           /\ wrote_size' = Len(flash'[partition_to_program])
<1>1. ota_handle = "live"
  BY DEF EspOtaWrites
<1> DEFINE written == Prefix(flash[partition_to_program], wrote_size) \o bytes
<1>2. /\ partition_to_program \in PartitionTable
      /\ Prefix(flash[partition_to_program], wrote_size) \in Seq(Byte)
      /\ Len(Prefix(flash[partition_to_program], wrote_size)) = wrote_size
  BY <1>1, LiveHandle
<1>3. written \in Seq(Byte) /\ Len(written) = wrote_size + Len(bytes) /\ Len(bytes) \in Nat
  BY <1>2, ConcatProperties, LenProperties
<1>4. flash' = [flash EXCEPT ![partition_to_program] = written] /\ wrote_size' = wrote_size + Len(bytes)
  BY DEF EspOtaWrites
<1>5. flash \in [PartitionTable -> Seq(Byte)] /\ wrote_size \in Nat
  BY DEF SessionInv, TypeOK
<1> HIDE DEF written
<1>6. flash' \in [PartitionTable -> Seq(Byte)] /\ flash'[partition_to_program] = written
      /\ \A q \in PartitionTable \ {partition_to_program} : flash'[q] = flash[q]
  BY <1>2, <1>3, <1>4, <1>5
<1>7. wrote_size' \in Nat /\ wrote_size' = Len(flash'[partition_to_program])
  BY <1>3, <1>4, <1>5, <1>6
<1>8. QED
  BY <1>6, <1>7 DEF written

\* A write that fails keeps what was written before it.
LEMMA WriteFails ==
    ASSUME SessionInv, ota_handle = "live",
           NEW bytes \in Seq(Byte), EspOtaWriteFails(bytes)
    PROVE  /\ flash' \in [PartitionTable -> Seq(Byte)]
           /\ \A q \in PartitionTable \ {partition_to_program} : flash'[q] = flash[q]
           /\ \E torn \in Seq(Byte) : flash'[partition_to_program] =
                  Prefix(flash[partition_to_program], wrote_size) \o torn
           /\ wrote_size' = wrote_size
           /\ wrote_size =< Len(flash'[partition_to_program])
<1>1. PICK n \in 0..Len(bytes) :
         flash' = [flash EXCEPT ![partition_to_program] =
                      Prefix(flash[partition_to_program], wrote_size) \o Prefix(bytes, n)]
  BY DEF EspOtaWriteFails
<1> DEFINE torn == Prefix(bytes, n)
           written == Prefix(flash[partition_to_program], wrote_size) \o torn
<1>2. /\ partition_to_program \in PartitionTable
      /\ Prefix(flash[partition_to_program], wrote_size) \in Seq(Byte)
      /\ Len(Prefix(flash[partition_to_program], wrote_size)) = wrote_size
  BY LiveHandle
<1>3. torn \in Seq(Byte) /\ Len(torn) \in Nat
  BY PrefixIsSeq, LenProperties
<1>4. flash \in [PartitionTable -> Seq(Byte)] /\ wrote_size \in Nat
  BY DEF SessionInv, TypeOK
<1>5. written \in Seq(Byte) /\ Len(written) = wrote_size + Len(torn)
  BY <1>2, <1>3, ConcatProperties
<1>6. wrote_size =< Len(written)
  BY <1>3, <1>4, <1>5
<1> HIDE DEF written
<1>7. flash' \in [PartitionTable -> Seq(Byte)] /\ flash'[partition_to_program] = written
      /\ \A q \in PartitionTable \ {partition_to_program} : flash'[q] = flash[q]
  BY <1>1, <1>2, <1>4, <1>5 DEF written
<1>8. \E t \in Seq(Byte) : flash'[partition_to_program] =
         Prefix(flash[partition_to_program], wrote_size) \o t
  BY <1>3, <1>7 DEF written
<1>9. wrote_size' = wrote_size
  BY DEF EspOtaWriteFails
<1>10. QED
  BY <1>6, <1>7, <1>8, <1>9

LEMMA InitSession == Init => SessionInv
<1> SUFFICES ASSUME Init PROVE SessionInv
  OBVIOUS
<1>1. << >> \in Seq(Byte) /\ Len(<< >>) = 0
  BY EmptySeq
<1>2. flash \in [PartitionTable -> Seq(Byte)]
  BY <1>1, ImageAssumption DEF Init
<1>3. TypeOK
  BY <1>1, <1>2, PageSizeAssumption DEF Init, TypeOK
<1>4. QED
  BY <1>3 DEF Init, SessionInv, NothingHeldOutsideSession, SessionHoldsBufferAndHandle,
         SessionSparesBootPartition, WrittenIsInFlash, TodoOnlyInWrite, sessionOpen

\* The partition a session opens on is in the table and is not the boot partition.
LEMMA NextPartition ==
    ASSUME TypeOK, iap_find_next_boot_partition # "null"
    PROVE  iap_find_next_boot_partition \in PartitionTable \ {boot}
BY PartitionAssumption DEF TypeOK, iap_find_next_boot_partition, NextLabel, Label

LEMMA BeginKeepsSession == SessionInv /\ iap_begin => SessionInv'
<1> SUFFICES ASSUME SessionInv, iap_begin PROVE SessionInv'
  OBVIOUS
<1> USE DEF SessionInv, TypeOK, NothingHeldOutsideSession, SessionHoldsBufferAndHandle,
            SessionSparesBootPartition, WrittenIsInFlash, TodoOnlyInWrite, sessionOpen, initialized
<1>0. << >> \in Seq(Byte) /\ Len(<< >>) = 0
  BY EmptySeq
<1>1. CASE ~(initialized /\ ~sessionOpen)
  BY <1>1 DEF iap_begin, moduleVars, flashVars
<1>2. CASE initialized /\ ~sessionOpen /\ iap_find_next_boot_partition = "null"
  BY <1>0, <1>2, PageSizeAssumption DEF iap_begin, OpenSession, flashVars
<1>3. CASE initialized /\ ~sessionOpen /\ iap_find_next_boot_partition # "null"
  <2> DEFINE p == iap_find_next_boot_partition
  <2>1. p \in PartitionTable \ {boot}
    BY <1>3, NextPartition
  <2>2. [flash EXCEPT ![p] = << >>] \in [PartitionTable -> Seq(Byte)]
        /\ [flash EXCEPT ![p] = << >>][p] = << >>
    BY <1>0, <2>1
  <2>3. OpenSession /\ UNCHANGED <<call, todo, boot, faulty>>
    BY <1>3 DEF iap_begin
  <2> HIDE DEF p
  <2>4. CASE ret' = "OUT_OF_MEMORY"
    BY <1>0, <1>3, <2>3, <2>4, PageSizeAssumption DEF OpenSession, flashVars
  <2>5. CASE ret' = "FAIL"
    BY <1>0, <1>3, <2>1, <2>2, <2>3, <2>5, PageSizeAssumption DEF OpenSession, p
  <2>6. CASE ret' = "OK"
    <3>1. /\ page' = << >> /\ page_buffer' = "allocated" /\ ota_handle' = "live"
          /\ partition_to_program' = p /\ flash' = [flash EXCEPT ![p] = << >>]
          /\ module_state_flags' = module_state_flags \cup {"SESSION_OPEN"}
          /\ wrote_size' = 0 /\ stream' = << >>
          /\ UNCHANGED <<call, todo, boot, faulty>>
      BY <2>3, <2>6 DEF OpenSession, p
    <3>2. TypeOK'
      BY <1>0, <2>1, <2>2, <2>6, <3>1, PageSizeAssumption
    <3>3. /\ sessionOpen' /\ initialized' /\ partition_to_program' \in PartitionTable \ {boot'}
          /\ wrote_size' =< Len(flash'[partition_to_program'])
      BY <1>0, <1>3, <2>1, <2>2, <3>1
    <3>4. QED
      BY <3>1, <3>2, <3>3
  <2>7. QED
    BY <1>3, <2>3, <2>4, <2>5, <2>6 DEF OpenSession
<1>4. QED
  BY <1>1, <1>2, <1>3

LEMMA WriteChunkKeepsSession == SessionInv /\ WriteChunk => SessionInv'
<1> SUFFICES ASSUME SessionInv, WriteChunk PROVE SessionInv'
  OBVIOUS
<1>0. << >> \in Seq(Byte) /\ Len(<< >>) = 0 /\ PageSize \in Nat \ {0}
  BY EmptySeq, PageSizeAssumption
<1>1. /\ sessionOpen /\ initialized /\ ota_handle = "live" /\ page_buffer = "allocated"
      /\ call = "write"
  BY DEF WriteChunk, SessionInv, NothingHeldOutsideSession, SessionHoldsBufferAndHandle
<1>2. /\ partition_to_program \in PartitionTable \ {boot}
      /\ wrote_size \in 0..Len(flash[partition_to_program])
  BY <1>1, LiveHandle
<1>3. /\ filled \in Seq(Byte) /\ Len(filled) =< PageSize
      /\ Suffix(todo, nofBytesToCopy) \in Seq(Byte)
      /\ Prefix(todo, nofBytesToCopy) \in Seq(Byte)
  BY ChunkFits
<1>4. stream' \in Seq(Byte)
  <2>1. /\ stream \in Seq(Byte) /\ Len(stream) \in Nat /\ Len(todo) \in Nat
        /\ nofBytesToCopy \in 0..Len(todo)
    BY LenProperties, ChunkFits DEF SessionInv, TypeOK
  <2>2. Prefix(stream, Len(stream) - Len(todo) + nofBytesToCopy) \in Seq(Byte)
    BY <2>1, AnyPrefixIsSeq
  <2>3. QED
    BY <2>1, <2>2 DEF WriteChunk, flashVars
<1>5. UNCHANGED <<module_state_flags, partition_to_program, ota_handle, page_buffer, boot, faulty>>
  BY DEF WriteChunk
<1> USE DEF SessionInv, TypeOK, NothingHeldOutsideSession, SessionHoldsBufferAndHandle,
            SessionSparesBootPartition, WrittenIsInFlash, TodoOnlyInWrite, sessionOpen, initialized
<1>6. CASE ~PageFull(filled)
  BY <1>1, <1>2, <1>3, <1>4, <1>5, <1>6 DEF WriteChunk, flashVars
<1>7. CASE PageFull(filled) /\ EspOtaWrites(filled) /\ page' = << >>
           /\ todo' = Suffix(todo, nofBytesToCopy) /\ UNCHANGED <<call, ret>>
  <2>1. /\ flash' \in [PartitionTable -> Seq(Byte)] /\ wrote_size' \in Nat
        /\ wrote_size' = Len(flash'[partition_to_program])
    BY <1>3, <1>7, WriteSucceeds
  <2>2. QED
    BY <1>0, <1>1, <1>2, <1>3, <1>4, <1>5, <1>7, <2>1
<1>8. CASE PageFull(filled) /\ EspOtaWriteFails(filled) /\ page' = filled
           /\ todo' = << >> /\ call' = "none" /\ ret' = "WRITE_FAILED"
  <2>1. /\ flash' \in [PartitionTable -> Seq(Byte)] /\ wrote_size' = wrote_size
        /\ wrote_size =< Len(flash'[partition_to_program])
    BY <1>1, <1>3, <1>8, WriteFails
  <2>2. QED
    BY <1>0, <1>1, <1>2, <1>3, <1>4, <1>5, <1>8, <2>1
<1>9. QED
  BY <1>6, <1>7, <1>8 DEF WriteChunk, PageWritten, PageNotWritten

LEMMA CommitKeepsSession == SessionInv /\ iap_commit => SessionInv'
<1> SUFFICES ASSUME SessionInv, iap_commit PROVE SessionInv'
  OBVIOUS
<1>0. << >> \in Seq(Byte) /\ Len(<< >>) = 0 /\ PageSize \in Nat \ {0} /\ page \in Seq(Byte)
  BY EmptySeq, PageSizeAssumption DEF SessionInv, TypeOK
<1>1. /\ UNCHANGED <<module_state_flags, partition_to_program, ota_handle, page_buffer>>
      /\ UNCHANGED <<todo, ret, stream, boot, faulty>>
      /\ call' = "commit" /\ call = "none"
  BY DEF iap_commit
<1> USE DEF SessionInv, TypeOK, NothingHeldOutsideSession, SessionHoldsBufferAndHandle,
            SessionSparesBootPartition, WrittenIsInFlash, TodoOnlyInWrite, sessionOpen, initialized
<1>2. CASE page = << >> /\ UNCHANGED <<page, flash, wrote_size>>
  BY <1>1, <1>2
<1>3. CASE page # << >> /\ EspOtaWrites(page) /\ page' = << >>
  <2>1. /\ flash' \in [PartitionTable -> Seq(Byte)] /\ wrote_size' \in Nat
        /\ wrote_size' = Len(flash'[partition_to_program])
    BY <1>0, <1>3, WriteSucceeds
  <2>2. QED
    BY <1>0, <1>1, <1>3, <2>1
<1>4. CASE page # << >> /\ EspOtaWriteFails(page) /\ UNCHANGED page
  <2>1. ota_handle = "live"
    BY <1>4
  <2>2. /\ flash' \in [PartitionTable -> Seq(Byte)] /\ wrote_size' = wrote_size
        /\ wrote_size =< Len(flash'[partition_to_program])
    BY <1>0, <1>4, <2>1, WriteFails
  <2>3. QED
    BY <1>0, <1>1, <1>4, <2>1, <2>2
<1>5. QED
  BY <1>2, <1>3, <1>4 DEF iap_commit, PageWritten, PageNotWritten

LEMMA FinishKeepsSession ==
    ASSUME SessionInv, NEW commit \in BOOLEAN, iap_finish(commit),
           call # "write", call' = "none"
    PROVE  SessionInv'
<1>0. << >> \in Seq(Byte) /\ Len(<< >>) = 0 /\ PageSize \in Nat \ {0}
  BY EmptySeq, PageSizeAssumption
<1> USE DEF SessionInv, TypeOK, NothingHeldOutsideSession, SessionHoldsBufferAndHandle,
            SessionSparesBootPartition, WrittenIsInFlash, TodoOnlyInWrite, sessionOpen, initialized
<1>1. CASE ~(initialized /\ sessionOpen)
  BY <1>1 DEF iap_finish, moduleVars
<1>2. CASE initialized /\ sessionOpen
  <2>1. /\ page_buffer' = "null" /\ page' = << >> /\ wrote_size' = 0 /\ stream' = << >>
        /\ UNCHANGED <<todo, flash, faulty>>
    BY <1>2 DEF iap_finish, ReleaseBuffer
  <2>2. CASE ret' = "FAIL"
    <3>1. /\ ota_handle' = "ended"
          /\ UNCHANGED <<module_state_flags, partition_to_program, boot>>
      BY <1>2, <2>2 DEF iap_finish, CloseSession
    <3>2. TypeOK'
      BY <1>0, <2>1, <2>2, <3>1
    <3>3. QED
      BY <1>0, <1>2, <2>1, <3>1, <3>2
  <2>3. CASE ret' = "OK"
    <3>1. CloseSession /\ (boot' = partition_to_program \/ UNCHANGED boot)
      BY <1>2, <2>3 DEF iap_finish
    <3>2. partition_to_program \in PartitionTable
      BY <1>2
    <3>3. QED
      BY <1>0, <2>1, <3>1, <3>2 DEF CloseSession
  <2>4. QED
    BY <1>2, <2>2, <2>3 DEF iap_finish, CloseSession
<1>3. QED
  BY <1>1, <1>2

LEMMA ResetKeepsSession == SessionInv /\ Reset => SessionInv'
<1> SUFFICES ASSUME SessionInv, Reset PROVE SessionInv'
  OBVIOUS
<1>1. << >> \in Seq(Byte) /\ Len(<< >>) = 0 /\ PageSize \in Nat \ {0}
  BY EmptySeq, PageSizeAssumption
<1>2. QED
  BY <1>1 DEF Reset, SessionInv, TypeOK, NothingHeldOutsideSession, SessionHoldsBufferAndHandle,
         SessionSparesBootPartition, WrittenIsInFlash, TodoOnlyInWrite, sessionOpen, initialized

LEMMA NextKeepsSession == SessionInv /\ [Next]_vars => SessionInv'
<1> SUFFICES ASSUME SessionInv, [Next]_vars PROVE SessionInv'
  OBVIOUS
<1>1. CASE iap_init
  BY <1>1 DEF iap_init, flashVars, SessionInv, TypeOK, NothingHeldOutsideSession,
         SessionHoldsBufferAndHandle, SessionSparesBootPartition, WrittenIsInFlash, TodoOnlyInWrite,
         sessionOpen, initialized
<1>2. CASE iap_begin
  BY <1>2, BeginKeepsSession
<1>3. ASSUME NEW bytes \in Block, iap_write(bytes) PROVE SessionInv'
  <2>1. bytes \in Seq(Byte) /\ stream \o bytes \in Seq(Byte)
    BY BlockAssumption, ConcatProperties DEF SessionInv, TypeOK
  <2>2. QED
    BY <1>3, <2>1 DEF iap_write, moduleVars, flashVars, SessionInv, TypeOK,
         NothingHeldOutsideSession, SessionHoldsBufferAndHandle, SessionSparesBootPartition,
         WrittenIsInFlash, TodoOnlyInWrite, sessionOpen, initialized
<1>4. CASE WriteChunk
  BY <1>4, WriteChunkKeepsSession
<1>5. CASE WriteReturns
  BY <1>5 DEF WriteReturns, moduleVars, flashVars, SessionInv, TypeOK, NothingHeldOutsideSession,
         SessionHoldsBufferAndHandle, SessionSparesBootPartition, WrittenIsInFlash, TodoOnlyInWrite,
         sessionOpen, initialized
<1>6. CASE iap_commit
  BY <1>6, CommitKeepsSession
<1>7. CASE CommitFinishes
  BY <1>7, FinishKeepsSession DEF CommitFinishes
<1>8. CASE iap_abort
  BY <1>8, FinishKeepsSession DEF iap_abort
<1>9. CASE Reset \/ Panic
  BY <1>9, ResetKeepsSession DEF Reset, Panic
<1>10. CASE Settle \/ UNCHANGED vars
  BY <1>10, ZenonT(30) DEF Settle, vars, moduleVars, callVars, flashVars, SessionInv, TypeOK,
         NothingHeldOutsideSession, SessionHoldsBufferAndHandle, SessionSparesBootPartition,
         WrittenIsInFlash, TodoOnlyInWrite, sessionOpen, initialized
<1>11. QED
  BY <1>1, <1>2, <1>3, <1>4, <1>5, <1>6, <1>7, <1>8, <1>9, <1>10 DEF Next

\* The invariants need no fairness: this lemma and those named Always below hold of
\* every client that calls iap.c as Next allows.
LEMMA SessionAlways == Init /\ [][Next]_vars => []SessionInv
BY InitSession, NextKeepsSession, PTL

\* The page buffer, the OTA handle and the session flag agree in every reachable
\* state, whatever the client calls: no buffer is leaked or freed twice, no byte is
\* left in the page outside a session, and no session is on the boot partition.
THEOREM SessionCorrect == Spec => []SessionInv
BY SessionAlways, PTL DEF Spec

\* The type invariant alone, as the runs check it.
THEOREM TypeCorrect == Spec => []TypeOK
<1>1. SessionInv => TypeOK
  BY DEF SessionInv
<1>2. QED
  BY <1>1, SessionCorrect, PTL

\* The page buffer and the OTA handle come and go with the session.  Outside a session
\* iap.c holds neither a page nor a handle: whatever failed, nothing of the last session
\* is left for the next one to find.
THEOREM SessionsWellFormed == Spec => []BuffersFollowSession
BY SessionCorrect, PTL DEF SessionInv, BuffersFollowSession

\* The partition the chip boots from is never the one a session programs.
THEOREM BootPartitionSpared == Spec => []SessionSparesBootPartition
BY SessionCorrect, PTL DEF SessionInv

-----------------------------------------------------------------------------
(* What a step does to the device.                                         *)

ProgramsOther ==
    /\ UNCHANGED boot
    /\ \E p \in PartitionTable \ {boot} :
          \A q \in PartitionTable \ {p} : flash'[q] = flash[q]

ActivatesOther ==
    /\ CommitFinishes
    /\ EspOtaEndSucceeds
    /\ partition_to_program \in PartitionTable \ {boot}
    /\ boot' = partition_to_program
    /\ UNCHANGED flash

LEMMA FinishStep ==
    ASSUME SessionInv, NEW commit \in BOOLEAN, iap_finish(commit)
    PROVE  /\ \/ UNCHANGED boot
              \/ /\ commit
                 /\ EspOtaEndSucceeds
                 /\ partition_to_program \in PartitionTable \ {boot}
                 /\ boot' = partition_to_program
           /\ UNCHANGED flash
BY DEF iap_finish, SessionInv, SessionSparesBootPartition

LEMMA DeviceStep ==
    ASSUME SessionInv, [Next]_vars
    PROVE  UNCHANGED <<flash, boot>> \/ ProgramsOther \/ ActivatesOther
<1>1. CASE iap_begin
  <2>1. CASE UNCHANGED flash
    BY <1>1, <2>1 DEF iap_begin
  <2>2. CASE ~UNCHANGED flash
    <3> DEFINE p == iap_find_next_boot_partition
    <3>1. iap_find_next_boot_partition # "null" /\ flash' = [flash EXCEPT ![p] = << >>]
      BY <1>1, <2>2 DEF iap_begin, OpenSession, moduleVars, flashVars
    <3>2. p \in PartitionTable \ {boot}
      BY <3>1, NextPartition DEF SessionInv
    <3>3. \A q \in PartitionTable \ {p} : flash'[q] = flash[q]
      BY <3>1, <3>2 DEF SessionInv, TypeOK
    <3>4. UNCHANGED boot
      BY <1>1 DEF iap_begin
    <3>5. QED
      BY <3>2, <3>3, <3>4 DEF ProgramsOther
  <2>3. QED
    BY <2>1, <2>2
<1>2. CASE WriteChunk
  <2>1. ota_handle = "live" /\ partition_to_program \in PartitionTable \ {boot}
    BY <1>2, LiveHandle DEF WriteChunk, SessionInv, NothingHeldOutsideSession, SessionHoldsBufferAndHandle
  <2>2. filled \in Seq(Byte)
    BY ChunkFits
  <2>3. UNCHANGED boot /\ (UNCHANGED flash \/ EspOtaWrites(filled) \/ EspOtaWriteFails(filled))
    BY <1>2 DEF WriteChunk, PageWritten, PageNotWritten, flashVars
  <2>4. QED
    BY <2>1, <2>2, <2>3, WriteSucceeds, WriteFails DEF ProgramsOther
<1>3. CASE iap_commit
  <2>1. UNCHANGED boot /\ page \in Seq(Byte)
    BY <1>3 DEF iap_commit, SessionInv, TypeOK
  <2>2. CASE UNCHANGED flash
    BY <2>1, <2>2
  <2>3. CASE page # << >> /\ (EspOtaWrites(page) \/ EspOtaWriteFails(page))
    <3>1. ota_handle = "live"
      BY <2>3 DEF SessionInv, NothingHeldOutsideSession, SessionHoldsBufferAndHandle
    <3>2. partition_to_program \in PartitionTable \ {boot}
      BY <3>1, LiveHandle
    <3>3. QED
      BY <2>1, <2>3, <3>1, <3>2, WriteSucceeds, WriteFails DEF ProgramsOther
  <2>4. QED
    BY <1>3, <2>2, <2>3 DEF iap_commit, PageWritten, PageNotWritten
<1>4. CASE CommitFinishes
  BY <1>4, FinishStep DEF CommitFinishes, ActivatesOther
<1>5. CASE iap_abort
  BY <1>5, FinishStep DEF iap_abort
<1>6. CASE iap_init \/ (\E bytes \in Block : iap_write(bytes)) \/ WriteReturns \/ Reset
           \/ Panic \/ Settle \/ UNCHANGED vars
  BY <1>6 DEF iap_init, iap_write, WriteReturns, Panic, Reset, Settle, vars, flashVars
<1>7. QED
  BY <1>1, <1>2, <1>3, <1>4, <1>5, <1>6 DEF Next

\* What is to be activated holds an image.
ActivatesImage == ActivatesOther => flash[partition_to_program] \in Image

LEMMA StepKeepsBootable ==
    ASSUME SessionInv, BootPartitionHoldsImage, [Next]_vars, ActivatesImage
    PROVE  BootPartitionHoldsImage'
<1>1. boot \in PartitionTable
  BY DEF SessionInv, TypeOK
<1>2. QED
  BY <1>1, DeviceStep DEF ProgramsOther, ActivatesOther, ActivatesImage, BootPartitionHoldsImage

LEMMA StepKeepsPromise ==
    ASSUME SessionInv, SessionInv', [Next]_vars, ActivatesImage
    PROVE  [Slots!Next]_(Slots!vars)
<1>1. flash' \in [PartitionTable -> Seq(Byte)]
  BY DEF SessionInv, TypeOK
<1>2. CASE UNCHANGED <<flash, boot>>
  BY <1>2 DEF Slots!vars
<1>3. CASE ProgramsOther
  BY <1>1, <1>3 DEF ProgramsOther, Slots!Next, Slots!Program
<1>4. CASE ActivatesOther
  BY <1>4 DEF ActivatesOther, ActivatesImage, Slots!Next, Slots!Activate
<1>5. QED
  BY <1>2, <1>3, <1>4, DeviceStep

LEMMA InitKeepsPromise == Init => Slots!Init
BY InitSession DEF SessionInv, TypeOK, Init, Slots!Init

\* If esp_ota_end looks at the image, it is an image that is activated.
LEMMA ValidationSuffices ==
    ASSUME OtaEndValidates
    PROVE  ActivatesImage
BY DEF ActivatesImage, ActivatesOther, EspOtaEndSucceeds

LEMMA BootableAlways ==
    ASSUME OtaEndValidates
    PROVE  Init /\ [][Next]_vars => []BootPartitionHoldsImage
<1>1. Init => BootPartitionHoldsImage
  BY DEF Init, BootPartitionHoldsImage
<1>2. SessionInv /\ BootPartitionHoldsImage /\ [Next]_vars => BootPartitionHoldsImage'
  BY ValidationSuffices, StepKeepsBootable
<1>3. QED
  BY <1>1, <1>2, SessionAlways, PTL

\* If esp_ota_end looks at the image, the boot partition holds an image in every
\* reachable state: after any order of calls, failed writes and power cuts.
THEOREM AlwaysBootable ==
    ASSUME OtaEndValidates
    PROVE  Spec => []BootPartitionHoldsImage
BY BootableAlways, PTL DEF Spec

\* Iap implements FirmwareSlots: whatever the client does, what happens to flash is
\* the programming of a spare slot or the activation of one that holds an image.
THEOREM KeepsSlotPromise ==
    ASSUME OtaEndValidates
    PROVE  Spec => ImplementsFirmwareSlots
<1>1. SessionInv /\ SessionInv' /\ [Next]_vars => [Slots!Next]_(Slots!vars)
  BY ValidationSuffices, StepKeepsPromise
<1>2. QED
  BY <1>1, SessionCorrect, InitKeepsPromise, PTL DEF Spec, ImplementsFirmwareSlots, Slots!Spec

-----------------------------------------------------------------------------
(* What reaches the flash.                                                 *)

LEMMA BeginLosesNoByte == SessionInv /\ NoByteLost /\ iap_begin => NoByteLost'
<1> SUFFICES ASSUME SessionInv, NoByteLost, iap_begin, ota_handle' = "live" PROVE NoByteLost'
  BY DEF NoByteLost
<1>1. todo' = << >>
  BY DEF iap_begin, SessionInv, TodoOnlyInWrite
<1>2. CASE UNCHANGED <<moduleVars, flashVars>>
  BY <1>1, <1>2 DEF NoByteLost, moduleVars, flashVars, iap_begin
<1>3. CASE ~sessionOpen /\ OpenSession
  <2> DEFINE p == iap_find_next_boot_partition
  <2>1. /\ p # "null" /\ partition_to_program' = p /\ page' = << >> /\ wrote_size' = 0
        /\ stream' = << >> /\ flash' = [flash EXCEPT ![p] = << >>]
    BY <1>3 DEF OpenSession, SessionInv, NothingHeldOutsideSession
  <2>2. p \in PartitionTable
    BY <2>1, NextPartition DEF SessionInv
  <2>3. flash'[partition_to_program'] = << >>
    BY <2>1, <2>2 DEF SessionInv, TypeOK
  <2>4. Prefix(<< >>, 0) = << >> /\ << >> \o << >> = << >> /\ Len(<< >>) = 0
    BY EmptySeq, PrefixOfAll, ConcatEmptySeq
  <2>5. QED
    BY <1>1, <2>1, <2>3, <2>4 DEF NoByteLost
<1>4. QED
  BY <1>2, <1>3 DEF iap_begin

LEMMA WriteCallLosesNoByte ==
    ASSUME SessionInv, NoByteLost, NEW bytes \in Block, iap_write(bytes)
    PROVE  NoByteLost'
<1>1. CASE ~sessionOpen
  BY <1>1 DEF iap_write, moduleVars, SessionInv, NothingHeldOutsideSession, NoByteLost
<1>2. CASE ~initialized
  BY <1>2 DEF iap_write, moduleVars, SessionInv, SessionHoldsBufferAndHandle, NoByteLost
<1>3. CASE initialized /\ sessionOpen
  <2> SUFFICES ASSUME ota_handle = "live" PROVE NoByteLost'
    BY <1>3 DEF iap_write, moduleVars, NoByteLost
  <2> DEFINE before == Prefix(flash[partition_to_program], wrote_size) \o page
  <2>1. bytes \in Seq(Byte) /\ before \in Seq(Byte)
    BY BlockAssumption, LiveHandle, ConcatProperties DEF SessionInv, TypeOK
  <2>2. todo = << >> /\ todo' = bytes /\ stream' = stream \o bytes
        /\ UNCHANGED <<moduleVars, flash, wrote_size>>
    BY <1>3 DEF iap_write, SessionInv, TodoOnlyInWrite
  <2>3. stream = before
    BY <2>1, <2>2, ConcatEmptySeq DEF NoByteLost
  <2>4. QED
    BY <2>2, <2>3 DEF NoByteLost, moduleVars
<1>4. QED
  BY <1>1, <1>2, <1>3

\* Writing out bytes that follow what was written gives the concatenation, and
\* nothing after it.
LEMMA WrittenThrough ==
    ASSUME SessionInv, ota_handle = "live",
           NEW bytes \in Seq(Byte), EspOtaWrites(bytes)
    PROVE  /\ wrote_size' \in Nat /\ wrote_size' = Len(flash'[partition_to_program])
           /\ Prefix(flash'[partition_to_program], wrote_size') \o << >> =
                  Prefix(flash[partition_to_program], wrote_size) \o bytes
<1>1. /\ flash'[partition_to_program] \in Seq(Byte) /\ wrote_size' \in Nat
      /\ wrote_size' = Len(flash'[partition_to_program])
      /\ flash'[partition_to_program] = Prefix(flash[partition_to_program], wrote_size) \o bytes
  BY LiveHandle, WriteSucceeds
<1>2. Prefix(flash'[partition_to_program], wrote_size') = flash'[partition_to_program]
  BY <1>1, PrefixOfAll
<1>3. QED
  BY <1>1, <1>2, ConcatEmptySeq

\* A failed write leaves what was written before it readable as a prefix.
LEMMA WrittenBefore ==
    ASSUME SessionInv, ota_handle = "live",
           NEW bytes \in Seq(Byte), EspOtaWriteFails(bytes)
    PROVE  /\ wrote_size' = wrote_size /\ wrote_size =< Len(flash'[partition_to_program])
           /\ Prefix(flash'[partition_to_program], wrote_size) =
                  Prefix(flash[partition_to_program], wrote_size)
<1>1. PICK torn \in Seq(Byte) :
         flash'[partition_to_program] = Prefix(flash[partition_to_program], wrote_size) \o torn
  BY WriteFails
<1>2. /\ Prefix(flash[partition_to_program], wrote_size) \in Seq(Byte)
      /\ Len(Prefix(flash[partition_to_program], wrote_size)) = wrote_size
  BY LiveHandle
<1>3. Prefix(flash'[partition_to_program], wrote_size) = Prefix(flash[partition_to_program], wrote_size)
  BY <1>1, <1>2, PrefixOfConcat
<1>4. QED
  BY <1>3, WriteFails

\* A turn of the loop moves bytes from the front of todo to the end of the page.
LEMMA ChunkMovesBytes ==
    ASSUME SessionInv, NoByteLost, ota_handle = "live"
    PROVE  LET written == Prefix(flash[partition_to_program], wrote_size)
               rest    == Suffix(todo, nofBytesToCopy)
           IN  /\ (written \o filled) \o rest = stream
               /\ (written \o filled) \o << >> =
                      Prefix(stream, Len(stream) - Len(todo) + nofBytesToCopy)
<1> DEFINE written == Prefix(flash[partition_to_program], wrote_size)
           chunk   == Prefix(todo, nofBytesToCopy)
           rest    == Suffix(todo, nofBytesToCopy)
<1>1. /\ written \in Seq(Byte) /\ page \in Seq(Byte) /\ todo \in Seq(Byte) /\ chunk \in Seq(Byte)
      /\ rest \in Seq(Byte) /\ filled \in Seq(Byte) /\ filled = page \o chunk
      /\ nofBytesToCopy \in 0..Len(todo)
  BY LiveHandle, ChunkFits DEF SessionInv, TypeOK, filled
<1>2. todo = chunk \o rest
  BY <1>1, PrefixThenSuffix
<1>3. stream = (written \o page) \o todo
  BY DEF NoByteLost
<1> HIDE DEF written, chunk, rest
<1>4. (written \o page) \in Seq(Byte) /\ (written \o filled) \in Seq(Byte)
  BY <1>1, ConcatProperties
<1>5. (written \o page) \o (chunk \o rest) = (written \o (page \o chunk)) \o rest
  <2>1. written \in Seq(Byte) /\ page \in Seq(Byte) /\ chunk \in Seq(Byte) /\ rest \in Seq(Byte)
    BY <1>1
  <2>2. \A a \in Seq(Byte) : a \o (chunk \o rest) = (a \o chunk) \o rest
    <3>1. chunk \in Seq(Byte) /\ rest \in Seq(Byte)
      BY <2>1
    <3>2. QED
      BY <3>1, ConcatAssociative, SMTT(30)
  <2>3. (written \o page) \o (chunk \o rest) = ((written \o page) \o chunk) \o rest
    BY <1>4, <2>2, Zenon
  <2>4. (written \o page) \o chunk = written \o (page \o chunk)
    BY <2>1, ConcatAssociative
  <2>5. QED
    BY <2>3, <2>4, Zenon
<1>6. stream = (written \o filled) \o rest
  BY <1>1, <1>2, <1>3, <1>5
<1>7. Len(stream) = Len(written \o filled) + Len(rest)
  BY <1>1, <1>4, <1>6, ConcatProperties
<1>8. Len(rest) = Len(todo) - nofBytesToCopy
  BY <1>1, SuffixIsSeq DEF rest
<1>9. Len(stream) - Len(todo) + nofBytesToCopy = Len(written \o filled)
  BY <1>1, <1>4, <1>7, <1>8, LenProperties
<1>10. Prefix(stream, Len(written \o filled)) = written \o filled
  BY <1>1, <1>4, <1>6, PrefixOfConcat
<1>11. QED
  BY <1>4, <1>6, <1>9, <1>10, ConcatEmptySeq DEF written, rest

LEMMA WriteChunkLosesNoByte == SessionInv /\ NoByteLost /\ WriteChunk => NoByteLost'
<1> SUFFICES ASSUME SessionInv, NoByteLost, WriteChunk PROVE NoByteLost'
  OBVIOUS
<1> DEFINE written == Prefix(flash[partition_to_program], wrote_size)
           rest    == Suffix(todo, nofBytesToCopy)
<1>1. ota_handle = "live" /\ UNCHANGED <<ota_handle, partition_to_program>>
  BY DEF WriteChunk, SessionInv, NothingHeldOutsideSession, SessionHoldsBufferAndHandle
<1>2. filled \in Seq(Byte)
  BY ChunkFits
<1>3. /\ (written \o filled) \o rest = stream
      /\ (written \o filled) \o << >> =
             Prefix(stream, Len(stream) - Len(todo) + nofBytesToCopy)
  BY <1>1, ChunkMovesBytes
<1>4. CASE PageFull(filled) /\ EspOtaWrites(filled) /\ page' = << >>
           /\ todo' = rest /\ UNCHANGED stream
  <2>1. /\ wrote_size' \in Nat /\ wrote_size' = Len(flash'[partition_to_program])
        /\ Prefix(flash'[partition_to_program], wrote_size') \o << >> = written \o filled
    BY <1>1, <1>2, <1>4, WrittenThrough
  <2>2. (Prefix(flash'[partition_to_program'], wrote_size') \o page') \o todo' = stream'
    BY <1>1, <1>3, <1>4, <2>1
  <2>3. wrote_size' =< Len(flash'[partition_to_program']) /\ wrote_size' = Len(flash'[partition_to_program'])
    BY <1>1, <2>1
  <2>4. QED
    BY <2>2, <2>3 DEF NoByteLost
<1>5. CASE PageFull(filled) /\ EspOtaWriteFails(filled) /\ page' = filled /\ todo' = << >>
           /\ stream' = Prefix(stream, Len(stream) - Len(todo) + nofBytesToCopy)
  <2>1. filled # << >>
    BY <1>5, EmptySeq, PageSizeAssumption DEF PageFull
  <2>2. /\ wrote_size' = wrote_size /\ wrote_size =< Len(flash'[partition_to_program])
        /\ Prefix(flash'[partition_to_program], wrote_size) = written
    BY <1>1, <1>2, <1>5, WrittenBefore
  <2>3. QED
    BY <1>1, <1>3, <1>5, <2>1, <2>2 DEF NoByteLost
<1>6. CASE ~PageFull(filled) /\ page' = filled /\ todo' = rest /\ UNCHANGED flashVars
  <2>1. filled # << >>
    <3>1. /\ Len(page) \in Nat /\ Len(todo) \in Nat \ {0} /\ Len(page) =< PageSize
          /\ Len(filled) = Len(page) + nofBytesToCopy
      BY LenProperties, EmptySeq, ChunkFits DEF WriteChunk, SessionInv, TypeOK
    <3>2. Len(filled) # 0
      BY <1>6, <3>1, PageSizeAssumption DEF PageFull, nofBytesToCopy, Smaller
    <3>3. QED
      BY <3>2, EmptySeq
  <2>2. QED
    BY <1>1, <1>3, <1>6, <2>1 DEF NoByteLost, flashVars
<1>7. QED
  BY <1>4, <1>5, <1>6 DEF WriteChunk, PageWritten, PageNotWritten

LEMMA CommitLosesNoByte == SessionInv /\ NoByteLost /\ iap_commit => NoByteLost'
<1> SUFFICES ASSUME SessionInv, NoByteLost, iap_commit, ota_handle = "live" PROVE NoByteLost'
  BY DEF NoByteLost, iap_commit
<1>1. UNCHANGED <<ota_handle, partition_to_program, stream, todo>> /\ page \in Seq(Byte)
  BY DEF iap_commit, SessionInv, TypeOK
<1>2. stream = (Prefix(flash[partition_to_program], wrote_size) \o page) \o todo
  BY DEF NoByteLost
<1>3. CASE UNCHANGED <<page, flash, wrote_size>>
  BY <1>1, <1>3 DEF NoByteLost
<1>4. CASE EspOtaWrites(page) /\ page' = << >>
  <2>1. /\ wrote_size' \in Nat /\ wrote_size' = Len(flash'[partition_to_program])
        /\ Prefix(flash'[partition_to_program], wrote_size') \o << >> =
               Prefix(flash[partition_to_program], wrote_size) \o page
    BY <1>1, <1>4, WrittenThrough
  <2>2. (Prefix(flash'[partition_to_program'], wrote_size') \o page') \o todo' = stream'
    BY <1>1, <1>2, <1>4, <2>1
  <2>3. wrote_size' =< Len(flash'[partition_to_program']) /\ wrote_size' = Len(flash'[partition_to_program'])
    BY <1>1, <2>1
  <2>4. QED
    BY <2>2, <2>3 DEF NoByteLost
<1>5. CASE page # << >> /\ EspOtaWriteFails(page) /\ UNCHANGED page
  BY <1>1, <1>2, <1>5, WrittenBefore DEF NoByteLost
<1>6. QED
  BY <1>3, <1>4, <1>5 DEF iap_commit, PageWritten, PageNotWritten

LEMMA NextLosesNoByte == SessionInv /\ NoByteLost /\ [Next]_vars => NoByteLost'
<1> SUFFICES ASSUME SessionInv, NoByteLost, [Next]_vars PROVE NoByteLost'
  OBVIOUS
<1>1. CASE iap_begin
  BY <1>1, BeginLosesNoByte
<1>2. ASSUME NEW bytes \in Block, iap_write(bytes) PROVE NoByteLost'
  BY <1>2, WriteCallLosesNoByte
<1>3. CASE WriteChunk
  BY <1>3, WriteChunkLosesNoByte
<1>4. CASE iap_commit
  BY <1>4, CommitLosesNoByte
<1>5. CASE CommitFinishes \/ iap_abort
  <2>1. \/ ota_handle' # "live"
        \/ UNCHANGED <<moduleVars, todo, flash, wrote_size, stream>>
    BY <1>5 DEF CommitFinishes, iap_abort, iap_finish, CloseSession
  <2>2. QED
    BY <2>1 DEF NoByteLost, moduleVars
<1>6. CASE Reset \/ Panic
  BY <1>6 DEF Panic, Reset, NoByteLost
<1>7. CASE iap_init \/ WriteReturns \/ Settle \/ UNCHANGED vars
  BY <1>7 DEF iap_init, WriteReturns, Settle, vars, moduleVars, callVars, flashVars, NoByteLost
<1>8. QED
  BY <1>1, <1>2, <1>3, <1>4, <1>5, <1>6, <1>7 DEF Next

LEMMA StreamAlways == Init /\ [][Next]_vars => []NoByteLost
<1>1. Init => NoByteLost
  BY DEF Init, NoByteLost
<1>2. QED
  BY <1>1, NextLosesNoByte, SessionAlways, PTL

\* The paging is exact for every page size and every split of the data into blocks:
\* flash, then the page buffer, then what iap_write has yet to copy, is what the
\* client has passed in.
THEOREM StreamCorrect == Spec => []NoByteLost
BY StreamAlways, PTL DEF Spec

LEMMA WholeAlways == Init /\ [][Next]_vars => ActivatesWhatWasStreamed
<1>1. SessionInv /\ NoByteLost /\ [Next]_vars
         => [boot' # boot /\ page = << >> => flash[boot'] = stream]_vars
  <2> SUFFICES ASSUME SessionInv, NoByteLost, [Next]_vars, boot' # boot, page = << >>
               PROVE  flash[boot'] = stream
    OBVIOUS
  <2>1. ota_handle = "live" /\ boot' = partition_to_program /\ todo = << >>
    BY DeviceStep DEF ProgramsOther, ActivatesOther, CommitFinishes, EspOtaEndSucceeds,
           SessionInv, TodoOnlyInWrite
  <2>2. flash[partition_to_program] \in Seq(Byte)
    BY <2>1, LiveHandle
  <2>3. QED
    BY <2>1, <2>2, PrefixOfAll, ConcatEmptySeq DEF NoByteLost
<1>2. QED
  BY <1>1, SessionAlways, StreamAlways, PTL DEF ActivatesWhatWasStreamed

\* A partition that is activated with its last page written out holds exactly the
\* bytes that were passed in since iap_begin.
THEOREM ActivationIsWhole == Spec => ActivatesWhatWasStreamed
BY WholeAlways, PTL DEF Spec
=============================================================================
