--------------------------- MODULE IapHttpsProofs ---------------------------
(***************************************************************************)
(* What the firmware updater guarantees for every page size, image length, *)
(* fragment size, partition table and polling interval.                    *)
(***************************************************************************)

EXTENDS IapHttps, IapProofs

\* The groups of variables a step leaves alone.
USE DEF vars, moduleVars, callVars, flashVars, configVars, sessionVars, bodyVars, timerVars,
        wakeVars, restVars, OnlyTask

-----------------------------------------------------------------------------
(* The pending download.                                                   *)

\* A download is pending from the metadata that named it to the end of the download.
DownloadPending ==
    /\ server \in Version
    /\ "DOWNLOAD_IMAGE" \in event_group => server_firmware_path # 0
    /\ task \in Downloading \cup {"wait_wifi_to_download"} => "DOWNLOAD_IMAGE" \in event_group

LEMMA NextKeepsPending == DownloadPending /\ [UpdaterNext]_updaterVars => DownloadPending'
<1> SUFFICES ASSUME DownloadPending, [UpdaterNext]_updaterVars PROVE DownloadPending'
  OBVIOUS
<1> USE DEF DownloadPending, Downloading
<1>1. CASE AwaitWifi \/ WaitBits \/ WaitWifi
  BY <1>1 DEF AwaitWifi, WaitBits, WaitWifi
<1>2. CASE CheckFails \/ CheckAnswered
  BY <1>2, VersionAssumption DEF CheckFails, CheckAnswered, RequestsDownload
<1>3. CASE RearmTimer \/ ClearCheck
  BY <1>3 DEF RearmTimer, ClearCheck
<1>4. CASE StartDownload \/ BodyBreaksOff \/ BodyArrives
  BY <1>4 DEF StartDownload, BodyBreaksOff, BodyArrives
<1>5. CASE BeginSession \/ AbortOldSession \/ BeginAgain
  BY <1>5 DEF BeginSession, AbortOldSession, BeginAgain, SessionOpened
<1>6. CASE WriteFragment \/ Writing \/ AbortFailedWrite
  BY <1>6 DEF WriteFragment, Writing, AbortFailedWrite
<1>7. CASE AllReceived \/ Commit \/ ClearDownload
  BY <1>7 DEF AllReceived, Commit, AfterCommit, ClearDownload
<1>8. CASE Restart
  BY <1>8 DEF Restart
<1>9. CASE iap_https_init
  BY <1>9 DEF iap_https_init
<1>10. CASE iap_https_check_now \/ TimerFires \/ LostTimerEnds
  BY <1>10 DEF iap_https_check_now, TimerFires, LostTimerEnds, Triggered
<1>11. CASE WifiConnects \/ WifiDisconnects \/ Publish \/ Settles
  BY <1>11 DEF WifiConnects, WifiDisconnects, Publish, Settles
<1>12. CASE UNCHANGED updaterVars
  BY <1>12 DEF updaterVars
<1>13. QED
  BY <1>1, <1>2, <1>3, <1>4, <1>5, <1>6, <1>7, <1>8, <1>9, <1>10, <1>11, <1>12
     DEF UpdaterNext, UpdaterTask, AutomaticRestart, ApplicationRestarts, RunningCodeLost, PowerCut

\* No image is requested before the server has named it, and no bit set by a timer
\* or by the application in between takes a download's bit away.
THEOREM DownloadsAreNamed == UpdaterSpec => []DownloadIsNamed
<1>1. UpdaterInit => DownloadPending
  BY DEF UpdaterInit, DownloadPending, Downloading
<1>2. DownloadPending => DownloadIsNamed
  BY DEF DownloadPending, DownloadIsNamed
<1>3. QED
  BY <1>1, <1>2, NextKeepsPending, PTL DEF UpdaterSpec

-----------------------------------------------------------------------------
(* The session of the firmware callback and the session of iap.c.          *)

\* While a download that has opened a session goes on, iap.c has that session open,
\* with its page buffer.
SessionUsable ==
    /\ has_iap_session \in {0, 1}
    /\ main = "init" => task = "none"
    /\ task \in {"write", "writing"} \/ (task \in {"body", "callback"} /\ has_iap_session = 1) =>
           sessionOpen /\ page_buffer = "allocated"

\* iap_begin returns OK only with a new session.
LEMMA BeginOpens ==
    ASSUME iap_begin, ret' = "OK"
    PROVE  sessionOpen' /\ page_buffer' = "allocated"
BY DEF iap_begin, OpenSession, sessionOpen

LEMMA NextKeepsSessionUsable == SessionUsable /\ [UpdaterNext]_updaterVars => SessionUsable'
<1> SUFFICES ASSUME SessionUsable, [UpdaterNext]_updaterVars PROVE SessionUsable'
  OBVIOUS
<1> USE DEF SessionUsable, sessionOpen
<1>1. CASE AwaitWifi \/ WaitBits \/ WaitWifi
  BY <1>1 DEF AwaitWifi, WaitBits, WaitWifi
<1>2. CASE CheckFails \/ CheckAnswered \/ RearmTimer \/ ClearCheck
  BY <1>2 DEF CheckFails, CheckAnswered, RearmTimer, ClearCheck
<1>3. CASE StartDownload \/ BodyBreaksOff \/ BodyArrives
  BY <1>3 DEF StartDownload, ResetSession, BodyBreaksOff, BodyArrives
<1>4. CASE BeginSession
  <2>1. CASE has_iap_session = 0 /\ ret' = "OK"
    BY <1>4, <2>1, BeginOpens DEF BeginSession, Opened, SessionOpened
  <2>2. CASE has_iap_session = 0 /\ ret' # "OK"
    BY <1>4, <2>2 DEF BeginSession, Opened
  <2>3. CASE has_iap_session = 1
    BY <1>4, <2>3 DEF BeginSession
  <2>4. QED
    BY <2>1, <2>2, <2>3
<1>5. CASE AbortOldSession
  BY <1>5 DEF AbortOldSession
<1>6. CASE BeginAgain
  <2>1. CASE ret' = "OK"
    BY <1>6, <2>1, BeginOpens DEF BeginAgain, Opened, SessionOpened
  <2>2. CASE ret' # "OK"
    BY <1>6, <2>2 DEF BeginAgain, Opened
  <2>3. QED
    BY <2>1, <2>2
<1>7. CASE WriteFragment
  BY <1>7 DEF WriteFragment, iap_write, moduleVars
<1>8. CASE Writing
  BY <1>8 DEF Writing, WriteChunk, WriteReturns, moduleVars
<1>9. CASE AbortFailedWrite \/ AllReceived \/ Commit \/ ClearDownload
  BY <1>9 DEF AbortFailedWrite, AllReceived, Commit, AfterCommit, ClearDownload
<1>10. CASE Restart
  BY <1>10 DEF Restart
<1>11. CASE iap_https_init
  BY <1>11 DEF iap_https_init
<1>12. CASE iap_https_check_now \/ TimerFires \/ LostTimerEnds
  BY <1>12 DEF iap_https_check_now, TimerFires, LostTimerEnds, Triggered
<1>13. CASE WifiConnects \/ WifiDisconnects \/ Publish
  BY <1>13 DEF WifiConnects, WifiDisconnects, Publish
<1>14. CASE Settles
  BY <1>14 DEF Settles, Settle, moduleVars
<1>15. CASE UNCHANGED updaterVars
  BY <1>15 DEF updaterVars
<1>16. QED
  BY <1>1, <1>2, <1>3, <1>4, <1>5, <1>6, <1>7, <1>8, <1>9, <1>10, <1>11, <1>12, <1>13, <1>14, <1>15
     DEF UpdaterNext, UpdaterTask, AutomaticRestart, ApplicationRestarts, RunningCodeLost, PowerCut

\* Bytes are only ever written into an open session that has its page buffer, so that
\* iap_write never copies to a pointer that is NULL or has been freed.
THEOREM WritesNeedNoLuck == UpdaterSpec => []WritesIntoBuffer
<1>1. UpdaterInit => SessionUsable
  BY DEF UpdaterInit, SessionUsable
<1>2. SessionUsable => WritesIntoBuffer
  BY DEF SessionUsable, WritesIntoBuffer
<1>3. QED
  BY <1>1, <1>2, NextKeepsSessionUsable, PTL DEF UpdaterSpec

-----------------------------------------------------------------------------
(* The running partition.                                                  *)

\* With automatic restarts the chip boots something else than it runs only while it
\* is about to restart, and no session is on what it runs.
SparesRunning ==
    /\ boot \in PartitionTable
    /\ task # "restarting" => boot = running
    /\ sessionOpen => partition_to_program \in PartitionTable \ {running}

LEMMA NextBootPartition ==
    ASSUME boot \in PartitionTable, iap_find_next_boot_partition # "null"
    PROVE  iap_find_next_boot_partition \in PartitionTable \ {boot}
BY PartitionAssumption DEF iap_find_next_boot_partition, NextLabel, Label

LEMMA BeginSparesRunning ==
    ASSUME SparesRunning, boot = running, iap_begin
    PROVE  /\ UNCHANGED boot
           /\ sessionOpen' => partition_to_program' \in PartitionTable \ {running}
BY NextBootPartition DEF SparesRunning, iap_begin, OpenSession, sessionOpen, moduleVars

LEMMA FinishSparesRunning ==
    ASSUME SparesRunning, NEW commit \in BOOLEAN, iap_finish(commit)
    PROVE  /\ boot' \in PartitionTable
           /\ ~commit => UNCHANGED boot
           /\ sessionOpen' => partition_to_program' \in PartitionTable \ {running}
BY DEF SparesRunning, iap_finish, CloseSession, sessionOpen, moduleVars

LEMMA NextSparesRunning ==
    ASSUME AutoReboot, SessionUsable, SparesRunning, [UpdaterNext]_updaterVars
    PROVE  SparesRunning'
<1> USE DEF SparesRunning, sessionOpen
<1>1. CASE AwaitWifi \/ WaitBits \/ WaitWifi
  BY <1>1 DEF AwaitWifi, WaitBits, WaitWifi
<1>2. CASE CheckFails \/ CheckAnswered \/ RearmTimer \/ ClearCheck
  BY <1>2 DEF CheckFails, CheckAnswered, RearmTimer, ClearCheck
<1>3. CASE StartDownload \/ BodyBreaksOff \/ BodyArrives
  BY <1>3 DEF StartDownload, BodyBreaksOff, BodyArrives
<1>4. CASE BeginSession
  <2>1. boot = running /\ UNCHANGED running /\ task' # "restarting"
    BY <1>4 DEF BeginSession, SessionOpened
  <2>2. CASE has_iap_session = 0
    BY <1>4, <2>1, <2>2, BeginSparesRunning DEF BeginSession
  <2>3. CASE has_iap_session # 0
    BY <1>4, <2>1, <2>3 DEF BeginSession
  <2>4. QED
    BY <2>2, <2>3
<1>5. CASE AbortOldSession \/ AbortFailedWrite
  BY <1>5, FinishSparesRunning DEF AbortOldSession, AbortFailedWrite, iap_abort
<1>6. CASE BeginAgain
  <2>1. boot = running /\ UNCHANGED running /\ task' # "restarting"
    BY <1>6 DEF BeginAgain, SessionOpened
  <2>2. QED
    BY <1>6, <2>1, BeginSparesRunning DEF BeginAgain
<1>7. CASE WriteFragment
  BY <1>7 DEF WriteFragment, iap_write, moduleVars
<1>8. CASE Writing
  BY <1>8 DEF Writing, WriteChunk, WriteReturns, moduleVars
<1>9. CASE AllReceived
  <2>1. CASE iap_commit /\ task' = "committing"
    BY <1>9, <2>1 DEF AllReceived, iap_commit
  <2>2. CASE iap_abort /\ task' = "clear_download"
    BY <1>9, <2>2, FinishSparesRunning DEF AllReceived, iap_abort
  <2>3. QED
    BY <1>9, <2>1, <2>2 DEF AllReceived
<1>10. CASE Commit
  BY <1>10, FinishSparesRunning DEF Commit, AfterCommit, CommitFinishes
<1>11. CASE ClearDownload
  BY <1>11 DEF ClearDownload
<1>12. CASE Restart
  BY <1>12 DEF Restart, Reset
<1>13. CASE iap_https_init
  BY <1>13 DEF iap_https_init, iap_init, flashVars, SessionUsable
<1>14. CASE iap_https_check_now \/ TimerFires \/ LostTimerEnds
  BY <1>14 DEF iap_https_check_now, TimerFires, LostTimerEnds, Triggered
<1>15. CASE WifiConnects \/ WifiDisconnects \/ Publish
  BY <1>15 DEF WifiConnects, WifiDisconnects, Publish
<1>16. CASE Settles
  BY <1>16 DEF Settles, Settle, moduleVars
<1>17. CASE UNCHANGED updaterVars
  BY <1>17 DEF updaterVars
<1>18. QED
  BY <1>1, <1>2, <1>3, <1>4, <1>5, <1>6, <1>7, <1>8, <1>9, <1>10, <1>11, <1>12, <1>13, <1>14,
     <1>15, <1>16, <1>17
     DEF UpdaterNext, UpdaterTask, AutomaticRestart, ApplicationRestarts, RunningCodeLost, PowerCut

\* With automatic restarts the code that runs is never programmed, for every
\* partition table.
THEOREM RunningCodeIsSpared ==
    ASSUME AutoReboot
    PROVE  UpdaterSpec => []NeverProgramsRunning
<1>1. UpdaterInit => SessionUsable /\ SparesRunning
  BY DEF UpdaterInit, Init, SessionUsable, SparesRunning, sessionOpen
<1>2. SessionUsable /\ SparesRunning /\ [UpdaterNext]_updaterVars => SessionUsable' /\ SparesRunning'
  BY NextKeepsSessionUsable, NextSparesRunning
<1>3. SparesRunning => NeverProgramsRunning
  BY DEF SparesRunning, NeverProgramsRunning
<1>4. QED
  BY <1>1, <1>2, <1>3, PTL DEF UpdaterSpec

-----------------------------------------------------------------------------
(* The image in the session.                                               *)

\* The image of a version is a sequence of bytes.
LEMMA ImageIsSeq ==
    ASSUME NEW v \in Version
    PROVE  /\ ImageOf(v) \in Image
           /\ ImageOf(v) \in Seq(Byte)
           /\ Len(ImageOf(v)) = ImageLen
<1>1. ImageOf(v) \in Image
  BY ImagesAssumption
<1>2. ImageOf(v) \in Seq(Byte)
  BY <1>1, ImageAssumption
<1>3. DOMAIN ImageOf(v) = 1..ImageLen
  BY DEF ImageOf
<1>4. \A a, b \in Nat : 1..a = 1..b => a =< b
  <2> SUFFICES ASSUME NEW a \in Nat, NEW b \in Nat, 1..a = 1..b, a # 0 PROVE a =< b
    OBVIOUS
  <2>1. a \in 1..a
    OBVIOUS
  <2>2. QED
    BY <2>1
<1>5. /\ DOMAIN ImageOf(v) = 1..Len(ImageOf(v))
      /\ Len(ImageOf(v)) \in Nat /\ ImageLen \in Nat
  BY <1>2, LenProperties, LengthAssumption
<1>6. Len(ImageOf(v)) = ImageLen
  BY <1>3, <1>4, <1>5
<1>7. QED
  BY <1>1, <1>2, <1>6

\* A piece of an image follows the piece before it.
LEMMA ImagePieces ==
    ASSUME NEW v \in Version, NEW m \in 0..ImageLen, NEW n \in m..ImageLen
    PROVE  /\ Len(SubSeq(ImageOf(v), m + 1, n)) = n - m
           /\ SubSeq(ImageOf(v), 1, m) \o SubSeq(ImageOf(v), m + 1, n) = SubSeq(ImageOf(v), 1, n)
<1>1. ImageLen \in Nat /\ m \in Nat /\ n \in Nat /\ m =< n /\ n =< ImageLen
  BY LengthAssumption
<1>2. ImageOf(v) \in Seq(Byte) /\ Len(ImageOf(v)) = ImageLen
  BY ImageIsSeq
<1>3. \A i \in (m + 1)..n : ImageOf(v)[i] \in Byte
  BY <1>1, <1>2, ElementOfSeq
<1>4. Len(SubSeq(ImageOf(v), m + 1, n)) = n - m
  <2>1. m + 1 \in Int /\ n \in Int
    BY <1>1
  <2>2. Len(SubSeq(ImageOf(v), m + 1, n)) = IF m + 1 =< n THEN n - (m + 1) + 1 ELSE 0
    BY <1>3, <2>1, SubSeqProperties
  <2>3. QED
    BY <1>1, <2>2
<1>5. 1 \in 1..(ImageLen + 1) /\ m \in (1 - 1)..ImageLen /\ n \in m..ImageLen
  BY <1>1
<1>6. SubSeq(ImageOf(v), 1, m) \o SubSeq(ImageOf(v), m + 1, n) = SubSeq(ImageOf(v), 1, n)
  BY <1>2, <1>5, ConcatAdjacentSubSeq
<1>7. QED
  BY <1>4, <1>6

\* Every piece of an image is a block that iap_write may be called with.
LEMMA PieceIsBlock ==
    ASSUME NEW v \in Version, NEW i \in 1..ImageLen, NEW j \in 1..ImageLen
    PROVE  SubSeq(ImageOf(v), i, j) \in Block
BY FragmentAssumption

LEMMA NothingOfImage ==
    ASSUME NEW v
    PROVE  SubSeq(ImageOf(v), 1, 0) = << >>
BY SubSeqEmpty

\* Until the session is open nothing of the image has been passed on; then all of what
\* has been received, in order.
HoldsImage ==
    /\ server \in Version
    /\ has_iap_session \in {0, 1}
    /\ main = "init" => task = "none"
    /\ received \in 0..ImageLen
    /\ task \in {"none", "await_wifi", "wait_bits", "wait_wifi_to_check",
                 "wait_wifi_to_download", "check", "rearm", "clear_check", "download"} =>
           received = 0
    /\ task \in {"body", "callback", "reopen", "begin_again", "write", "writing"} =>
           body \in Version
    /\ task \in {"callback", "reopen", "begin_again", "write"} =>
           \E n \in 1..(ImageLen - received) :
               fragment = SubSeq(ImageOf(body), received + 1, received + n)
    /\ task \in {"body", "callback"} /\ has_iap_session = 0 => received = 0
    /\ task \in {"reopen", "begin_again"} => has_iap_session = 0 /\ received = 0
    /\ task \in {"write", "writing"} => has_iap_session = 1
    /\ task \in {"body", "callback", "write", "writing", "finish"} /\ has_iap_session = 1 =>
           stream = SubSeq(ImageOf(body), 1, received) /\ total_nof_bytes_received = received

LEMMA BeginStartsStream ==
    ASSUME iap_begin
    PROVE  ret' = "OK" => stream' = << >>
BY DEF iap_begin, OpenSession

\* A fragment is a block iap_write may be given, and is appended to the stream.
LEMMA FragmentFits ==
    ASSUME HoldsImage, task = "write"
    PROVE  /\ fragment \in Block
           /\ received + Len(fragment) \in 0..ImageLen
           /\ stream \o fragment = SubSeq(ImageOf(body), 1, received + Len(fragment))
<1>1. PICK n \in 1..(ImageLen - received) :
          fragment = SubSeq(ImageOf(body), received + 1, received + n)
  BY DEF HoldsImage
<1>2. /\ body \in Version /\ ImageLen \in Nat /\ received \in Nat /\ n \in Nat
      /\ received \in 0..ImageLen /\ received + n \in received..ImageLen
      /\ received + 1 \in 1..ImageLen /\ received + n \in 1..ImageLen
  BY <1>1, LengthAssumption DEF HoldsImage
<1>3. fragment \in Block
  BY <1>1, <1>2, PieceIsBlock
<1>4. Len(fragment) = (received + n) - received
  BY <1>1, <1>2, ImagePieces
<1>5. SubSeq(ImageOf(body), 1, received) \o fragment = SubSeq(ImageOf(body), 1, received + n)
  BY <1>1, <1>2, ImagePieces
<1>6. Len(fragment) = n /\ received + n \in 0..ImageLen
  BY <1>2, <1>4
<1>7. stream = SubSeq(ImageOf(body), 1, received)
  BY DEF HoldsImage
<1>8. QED
  BY <1>3, <1>5, <1>6, <1>7

LEMMA NextHoldsImage == HoldsImage /\ [UpdaterNext]_updaterVars => HoldsImage'
<1> SUFFICES ASSUME HoldsImage, [UpdaterNext]_updaterVars PROVE HoldsImage'
  OBVIOUS
<1> USE DEF HoldsImage
<1>1. CASE AwaitWifi \/ WaitBits \/ WaitWifi
  BY <1>1 DEF AwaitWifi, WaitBits, WaitWifi
<1>2. CASE CheckFails \/ CheckAnswered \/ RearmTimer \/ ClearCheck
  BY <1>2 DEF CheckFails, CheckAnswered, RearmTimer, ClearCheck
<1>3. CASE StartDownload
  BY <1>3 DEF StartDownload, ResetSession
<1>4. CASE BodyBreaksOff
  BY <1>4 DEF BodyBreaksOff
<1>5. CASE BodyArrives
  <2>1. PICK n \in 1..MaxFragment :
            /\ received + n =< ImageLen
            /\ fragment' = SubSeq(ImageOf(body), received + 1, received + n)
    BY <1>5 DEF BodyArrives
  <2>2. n \in 1..(ImageLen - received)
    BY <2>1, LengthAssumption
  <2>3. QED
    BY <1>5, <2>1, <2>2 DEF BodyArrives
<1>6. CASE BeginSession
  <2>1. CASE has_iap_session = 0 /\ ret' = "OK"
    BY <1>6, <2>1, BeginStartsStream, NothingOfImage DEF BeginSession, Opened, SessionOpened
  <2>2. CASE has_iap_session = 0 /\ ret' # "OK"
    BY <1>6, <2>2 DEF BeginSession, Opened
  <2>3. CASE has_iap_session = 1
    BY <1>6, <2>3 DEF BeginSession
  <2>4. QED
    BY <2>1, <2>2, <2>3
<1>7. CASE AbortOldSession
  BY <1>7 DEF AbortOldSession
<1>8. CASE BeginAgain
  <2>1. CASE ret' = "OK"
    BY <1>8, <2>1, BeginStartsStream, NothingOfImage DEF BeginAgain, Opened, SessionOpened
  <2>2. CASE ret' # "OK"
    BY <1>8, <2>2 DEF BeginAgain, Opened
  <2>3. QED
    BY <2>1, <2>2
<1>9. CASE WriteFragment
  <2>1. received' \in 0..ImageLen
    BY <1>9, FragmentFits DEF WriteFragment
  <2>2. CASE call' = "write"
    <3>1. stream' = stream \o fragment
      BY <1>9, <2>2 DEF WriteFragment, iap_write
    <3>2. stream' = SubSeq(ImageOf(body), 1, received') /\ total_nof_bytes_received' = received'
      BY <1>9, <3>1, FragmentFits DEF WriteFragment
    <3>3. QED
      BY <1>9, <2>1, <2>2, <3>2 DEF WriteFragment
  <2>3. CASE call' # "write"
    BY <1>9, <2>1, <2>3 DEF WriteFragment
  <2>4. QED
    BY <2>2, <2>3
<1>10. CASE Writing
  <2>1. CASE task' = "write_failed"
    BY <1>10, <2>1 DEF Writing
  <2>2. CASE task' # "write_failed"
    <3>1. UNCHANGED stream
      BY <1>10, <2>2 DEF Writing, WriteChunk, WriteReturns, flashVars
    <3>2. task' \in {"writing", "body", "finish"}
      BY <1>10, <2>2 DEF Writing
    <3>3. QED
      BY <1>10, <3>1, <3>2 DEF Writing
  <2>3. QED
    BY <2>1, <2>2
<1>11. CASE AbortFailedWrite \/ AllReceived
  BY <1>11 DEF AbortFailedWrite, AllReceived
<1>12. CASE Commit
  BY <1>12 DEF Commit, AfterCommit
<1>13. CASE ClearDownload
  BY <1>13, LengthAssumption DEF ClearDownload
<1>14. CASE Restart
  BY <1>14, LengthAssumption DEF Restart
<1>15. CASE iap_https_init
  BY <1>15 DEF iap_https_init
<1>16. CASE iap_https_check_now
  BY <1>16 DEF iap_https_check_now
<1>17. CASE TimerFires \/ LostTimerEnds \/ WifiConnects \/ WifiDisconnects \/ Publish
  BY <1>17 DEF TimerFires, LostTimerEnds, WifiConnects, WifiDisconnects, Publish
<1>18. CASE Settles
  BY <1>18 DEF Settles, Settle, flashVars
<1>19. CASE UNCHANGED updaterVars
  BY <1>19 DEF updaterVars
<1>20. QED
  BY <1>1, <1>2, <1>3, <1>4, <1>5, <1>6, <1>7, <1>8, <1>9, <1>10, <1>11, <1>12, <1>13, <1>14,
     <1>15, <1>16, <1>17, <1>18, <1>19
     DEF UpdaterNext, UpdaterTask, AutomaticRestart, ApplicationRestarts, RunningCodeLost, PowerCut

LEMMA InitHoldsImage == UpdaterInit => HoldsImage
BY LengthAssumption DEF UpdaterInit, HoldsImage

\* An open session holds exactly the beginning of the one image being received, for
\* every image, fragment and page size: downloads that break off, sessions opened
\* anew and failed writes never mix two images or lose a piece.
THEOREM SessionsAreOneImage == UpdaterSpec => []SessionHoldsOneImage
<1>1. HoldsImage => SessionHoldsOneImage
  BY DEF HoldsImage, SessionHoldsOneImage
<1>2. QED
  BY <1>1, InitHoldsImage, NextHoldsImage, PTL DEF UpdaterSpec

-----------------------------------------------------------------------------
(* The updater as a client of iap.c.                                       *)

LEMMA NextIsClientStep == HoldsImage /\ [UpdaterNext]_updaterVars => [Next]_vars
<1> SUFFICES ASSUME HoldsImage, [UpdaterNext]_updaterVars PROVE [Next]_vars
  OBVIOUS
<1> DEFINE Same == UNCHANGED vars
<1>1. Same => UNCHANGED vars
  OBVIOUS
<1>2. AwaitWifi \/ WaitBits \/ WaitWifi \/ CheckFails \/ CheckAnswered => Same
  BY DEF AwaitWifi, WaitBits, WaitWifi, CheckFails, CheckAnswered
<1>3. RearmTimer \/ ClearCheck \/ StartDownload \/ BodyBreaksOff \/ BodyArrives \/ ClearDownload => Same
  BY DEF RearmTimer, ClearCheck, StartDownload, BodyBreaksOff, BodyArrives, ClearDownload
<1>4. iap_https_check_now \/ TimerFires \/ LostTimerEnds \/ WifiConnects \/ WifiDisconnects \/ Publish => Same
  BY DEF iap_https_check_now, TimerFires, LostTimerEnds, Triggered, WifiConnects, WifiDisconnects, Publish
<1>5. BeginSession => iap_begin \/ Same
  BY DEF BeginSession
<1>6. AbortOldSession \/ AbortFailedWrite => iap_abort
  BY DEF AbortOldSession, AbortFailedWrite
<1>7. BeginAgain => iap_begin
  BY DEF BeginAgain
<1>8. WriteFragment => \E bytes \in Block : iap_write(bytes)
  BY FragmentFits DEF WriteFragment
<1>9. Writing => WriteChunk \/ WriteReturns
  BY DEF Writing
<1>10. AllReceived => iap_commit \/ iap_abort
  BY DEF AllReceived
<1>11. Commit => CommitFinishes
  BY DEF Commit
<1>12. Restart => Reset
  BY DEF Restart
<1>13. iap_https_init => iap_init
  BY DEF iap_https_init
<1>14. Settles => Settle
  BY DEF Settles
<1>15. UNCHANGED updaterVars => Same
  BY DEF updaterVars
<1> HIDE DEF Same
<1>16. QED
  BY <1>1, <1>2, <1>3, <1>4, <1>5, <1>6, <1>7, <1>8, <1>9, <1>10, <1>11, <1>12, <1>13, <1>14, <1>15
     DEF UpdaterNext, UpdaterTask, AutomaticRestart, ApplicationRestarts, RunningCodeLost, PowerCut, Next

\* Whatever the server, the network and the timers do, the updater calls iap.c as Iap
\* allows: what is proved of Iap's behaviours holds of those of the updater.
THEOREM UpdaterIsClientOfIap == UpdaterSpec => Init /\ [][Next]_vars
<1>1. UpdaterInit => Init
  BY DEF UpdaterInit
<1>2. QED
  BY <1>1, InitHoldsImage, NextHoldsImage, NextIsClientStep, PTL DEF UpdaterSpec

\* Of all that is proved of the clients of iap.c, what the rest of this module uses.
LEMMA UpdaterSessionAlways == UpdaterSpec => [](SessionInv /\ NoByteLost)
BY UpdaterIsClientOfIap, SessionAlways, StreamAlways, PTL

-----------------------------------------------------------------------------
(* The end of a download.                                                  *)

\* Where the last callback comes all of the image has been passed on; where the
\* commit is finished the beginning of it is in flash, and all of it if the flash has
\* not failed.
EndsWithImage ==
    /\ task = "finish" => body \in Version /\ received = ImageLen /\ has_iap_session = 1
    /\ task = "committing" /\ ota_handle = "live" =>
           /\ body \in Version
           /\ \E n \in 0..ImageLen : flash[partition_to_program] = Prefix(ImageOf(body), n)
           /\ ~FlashMayFail => flash[partition_to_program] = ImageOf(body)

\* The first half of a commit leaves the beginning of the image in flash, and with
\* reliable flash the whole, whether or not it fills its last page.
LEMMA CommitWritesImage ==
    ASSUME SessionInv, NoByteLost, HoldsImage, EndsWithImage,
           task = "finish", iap_commit, ota_handle = "live"
    PROVE  /\ \E n \in 0..ImageLen : flash'[partition_to_program] = Prefix(ImageOf(body), n)
           /\ ~FlashMayFail => flash'[partition_to_program] = ImageOf(body)
<1>1. stream = ImageOf(body) /\ ImageOf(body) \in Seq(Byte) /\ Len(ImageOf(body)) = ImageLen
  <2>1. body \in Version /\ stream = SubSeq(ImageOf(body), 1, ImageLen)
    BY DEF HoldsImage, EndsWithImage
  <2>2. ImageOf(body) \in Seq(Byte) /\ Len(ImageOf(body)) = ImageLen
    BY <2>1, ImageIsSeq
  <2>3. QED
    BY <2>1, <2>2, SubSeqFull
<1> DEFINE written == Prefix(flash[partition_to_program], wrote_size)
<1>2. /\ todo = << >> /\ page \in Seq(Byte)
      /\ flash[partition_to_program] \in Seq(Byte) /\ partition_to_program \in PartitionTable
      /\ written \in Seq(Byte) /\ Len(written) = wrote_size
  BY LiveHandle DEF iap_commit, SessionInv, TypeOK, TodoOnlyInWrite
<1>3. ImageOf(body) = written \o page
  BY <1>1, <1>2, ConcatProperties, ConcatEmptySeq DEF NoByteLost
<1>4. Prefix(ImageOf(body), ImageLen) = ImageOf(body) /\ ImageLen \in 0..ImageLen
  BY <1>1, PrefixOfAll, LengthAssumption
<1>5. CASE page = << >> /\ UNCHANGED flash
  <2>1. written = flash[partition_to_program]
    BY <1>2, <1>5, PrefixOfAll DEF NoByteLost
  <2>2. flash'[partition_to_program] = ImageOf(body)
    BY <1>2, <1>3, <1>5, <2>1, ConcatEmptySeq
  <2>3. QED
    BY <1>4, <2>2
<1>6. CASE EspOtaWrites(page)
  <2>1. flash'[partition_to_program] = ImageOf(body)
    BY <1>2, <1>3, <1>6, WriteSucceeds
  <2>2. QED
    BY <1>4, <2>1
<1>7. CASE EspOtaWriteFails(page)
  <2>1. PICK n \in 0..Len(page) :
           flash' = [flash EXCEPT ![partition_to_program] = written \o Prefix(page, n)]
    BY <1>7 DEF EspOtaWriteFails
  <2>2. flash'[partition_to_program] = written \o Prefix(page, n)
    BY <1>2, <2>1 DEF SessionInv, TypeOK
  <2>3. Prefix(ImageOf(body), wrote_size + n) = written \o Prefix(page, n)
    <3> HIDE DEF written
    <3>1. Prefix(written \o page, Len(written) + n) = written \o Prefix(page, n)
      BY <1>2, <2>1, PrefixBeyondFirst
    <3>2. QED
      BY <1>2, <1>3, <3>1, Zenon
  <2>4. wrote_size + n \in 0..ImageLen
    <3>1. Len(page) \in Nat /\ wrote_size \in Nat /\ ImageLen = wrote_size + Len(page)
      BY <1>1, <1>2, <1>3, ConcatProperties, LenProperties
    <3>2. QED
      BY <3>1
  <2>5. FlashMayFail
    BY <1>7 DEF EspOtaWriteFails
  <2>6. QED
    BY <2>2, <2>3, <2>4, <2>5
<1>8. QED
  BY <1>5, <1>6, <1>7 DEF iap_commit, PageWritten, PageNotWritten

LEMMA NextEndsWithImage ==
    ASSUME SessionInv, NoByteLost, HoldsImage, EndsWithImage, [UpdaterNext]_updaterVars
    PROVE  EndsWithImage'
<1> USE DEF EndsWithImage
<1>1. CASE AwaitWifi \/ WaitBits \/ WaitWifi
  BY <1>1 DEF AwaitWifi, WaitBits, WaitWifi
<1>2. CASE CheckFails \/ CheckAnswered \/ RearmTimer \/ ClearCheck
  BY <1>2 DEF CheckFails, CheckAnswered, RearmTimer, ClearCheck
<1>3. CASE StartDownload \/ BodyBreaksOff \/ BodyArrives
  BY <1>3 DEF StartDownload, BodyBreaksOff, BodyArrives
<1>4. CASE BeginSession \/ AbortOldSession \/ BeginAgain
  BY <1>4 DEF BeginSession, SessionOpened, AbortOldSession, BeginAgain
<1>5. CASE WriteFragment \/ AbortFailedWrite \/ ClearDownload
  BY <1>5 DEF WriteFragment, AbortFailedWrite, ClearDownload
<1>6. CASE Writing
  <2>1. task' # "committing" /\ UNCHANGED <<body, received, has_iap_session>>
    BY <1>6 DEF Writing
  <2>2. task' = "finish" => ~(received < ImageLen)
    BY <1>6 DEF Writing
  <2>3. body \in Version /\ has_iap_session = 1 /\ received \in 0..ImageLen /\ ImageLen \in Nat
    BY <1>6, LengthAssumption DEF Writing, HoldsImage
  <2>4. QED
    BY <2>1, <2>2, <2>3
<1>7. CASE AllReceived
  <2>1. CASE task' = "committing"
    <3>1. /\ task = "finish" /\ iap_commit
          /\ UNCHANGED <<ota_handle, partition_to_program, body>>
      BY <1>7, <2>1 DEF AllReceived, iap_commit
    <3>2. QED
      BY <2>1, <3>1, CommitWritesImage
  <2>2. CASE task' # "committing"
    BY <1>7, <2>2 DEF AllReceived
  <2>3. QED
    BY <2>1, <2>2
<1>8. CASE Commit
  BY <1>8 DEF Commit, AfterCommit
<1>9. CASE Restart
  BY <1>9 DEF Restart
<1>10. CASE iap_https_init
  BY <1>10 DEF iap_https_init
<1>11. CASE iap_https_check_now \/ TimerFires \/ LostTimerEnds
  BY <1>11 DEF iap_https_check_now, TimerFires, LostTimerEnds, Triggered
<1>12. CASE WifiConnects \/ WifiDisconnects \/ Publish
  BY <1>12 DEF WifiConnects, WifiDisconnects, Publish
<1>13. CASE Settles
  BY <1>13 DEF Settles, Settle
<1>14. CASE UNCHANGED updaterVars
  BY <1>14 DEF updaterVars
<1>15. QED
  BY <1>1, <1>2, <1>3, <1>4, <1>5, <1>6, <1>7, <1>8, <1>9, <1>10, <1>11, <1>12, <1>13, <1>14
     DEF UpdaterNext, UpdaterTask, AutomaticRestart, ApplicationRestarts, RunningCodeLost, PowerCut

\* Only the second half of a commit activates a partition.
LEMMA OnlyCommitActivates ==
    ASSUME [UpdaterNext]_updaterVars, ActivatesOther
    PROVE  task = "committing"
<1>1. call = "commit" /\ call' = "none" /\ boot' # boot
  BY DEF ActivatesOther, CommitFinishes
<1>2. ~(iap_begin \/ iap_abort \/ iap_commit \/ iap_init \/ Reset \/ UNCHANGED call)
  BY <1>1 DEF iap_begin, iap_abort, iap_commit, iap_init, Reset
<1>3. ~(WriteChunk \/ WriteReturns \/ \E bytes : iap_write(bytes))
  BY <1>1 DEF WriteChunk, WriteReturns, iap_write
<1>4. CASE AwaitWifi \/ WaitBits \/ WaitWifi \/ CheckFails \/ CheckAnswered
  BY <1>2, <1>4 DEF AwaitWifi, WaitBits, WaitWifi, CheckFails, CheckAnswered
<1>5. CASE RearmTimer \/ ClearCheck \/ StartDownload \/ BodyBreaksOff \/ BodyArrives \/ ClearDownload
  BY <1>2, <1>5 DEF RearmTimer, ClearCheck, StartDownload, BodyBreaksOff, BodyArrives, ClearDownload
<1>6. CASE BeginSession \/ AbortOldSession \/ BeginAgain \/ AbortFailedWrite \/ AllReceived
  BY <1>2, <1>6 DEF BeginSession, AbortOldSession, BeginAgain, AbortFailedWrite, AllReceived
<1>7. CASE WriteFragment \/ Writing
  BY <1>3, <1>7 DEF WriteFragment, Writing
<1>8. CASE Commit
  BY <1>8 DEF Commit
<1>9. CASE Restart \/ iap_https_init
  BY <1>2, <1>9 DEF Restart, iap_https_init
<1>10. CASE iap_https_check_now \/ TimerFires \/ LostTimerEnds \/ WifiConnects \/ WifiDisconnects \/ Publish
  BY <1>2, <1>10 DEF iap_https_check_now, TimerFires, LostTimerEnds, Triggered, WifiConnects, WifiDisconnects, Publish
<1>11. CASE Settles \/ UNCHANGED updaterVars
  BY <1>2, <1>11 DEF Settles, Settle, updaterVars
<1>12. QED
  BY <1>4, <1>5, <1>6, <1>7, <1>8, <1>9, <1>10, <1>11
     DEF UpdaterNext, UpdaterTask, AutomaticRestart, ApplicationRestarts, RunningCodeLost, PowerCut

LEMMA InitEndsWithImage == UpdaterInit => EndsWithImage
BY DEF UpdaterInit, EndsWithImage

\* Either esp_ota_end notices what is not a whole image, or there is nothing to notice.
LEMMA CommitActivatesBody ==
    ASSUME OtaEndValidates \/ ~FlashMayFail, EndsWithImage, [UpdaterNext]_updaterVars, ActivatesOther
    PROVE  flash[partition_to_program] = ImageOf(body) /\ body \in Version
<1>1. /\ task = "committing" /\ ota_handle = "live"
      /\ OtaEndValidates => flash[partition_to_program] \in Image
  BY OnlyCommitActivates DEF ActivatesOther, EspOtaEndSucceeds
<1>2. /\ body \in Version
      /\ \E n \in 0..ImageLen : flash[partition_to_program] = Prefix(ImageOf(body), n)
      /\ ~FlashMayFail => flash[partition_to_program] = ImageOf(body)
  BY <1>1 DEF EndsWithImage
<1>3. CASE flash[partition_to_program] \in Image
  <2>1. PICK v \in Version : flash[partition_to_program] = ImageOf(v)
    BY <1>3, ImagesAssumption
  <2>2. PICK n \in 0..ImageLen : flash[partition_to_program] = Prefix(ImageOf(body), n)
    BY <1>2
  <2>3. ImageOf(body) \in Seq(Byte) /\ Len(ImageOf(body)) = ImageLen /\ Len(ImageOf(v)) = ImageLen
    BY <1>2, ImageIsSeq
  <2>4. n = ImageLen
    BY <2>1, <2>2, <2>3, PrefixIsSeq
  <2>5. QED
    BY <1>2, <2>2, <2>3, <2>4, PrefixOfAll
<1>4. QED
  BY <1>1, <1>2, <1>3

LEMMA NextActivatesImage ==
    ASSUME OtaEndValidates \/ ~FlashMayFail, EndsWithImage, [UpdaterNext]_updaterVars
    PROVE  ActivatesImage
BY CommitActivatesBody, ImageIsSeq DEF ActivatesImage

\* What the updater's steps are taken from in the proofs below.
UpdaterInv == SessionInv /\ NoByteLost /\ HoldsImage /\ EndsWithImage

LEMMA UpdaterAlways == UpdaterSpec => []UpdaterInv
<1>1. SessionInv /\ NoByteLost /\ HoldsImage /\ EndsWithImage /\ [UpdaterNext]_updaterVars
         => EndsWithImage'
  BY NextEndsWithImage
<1>2. QED
  BY <1>1, UpdaterSessionAlways, InitHoldsImage, NextHoldsImage, InitEndsWithImage, PTL
     DEF UpdaterSpec, UpdaterInv

\* With a flash that can be written, or an esp_ota_end that looks at the image, a boot
\* partition is only ever changed to one that holds the whole image just downloaded.
THEOREM WholeDownloadIsActivated ==
    ASSUME OtaEndValidates \/ ~FlashMayFail
    PROVE  UpdaterSpec => ActivatesTheDownload
<1>1. UpdaterInv /\ [UpdaterNext]_updaterVars
         => [boot' # boot => flash[boot'] = ImageOf(body)]_updaterVars
  <2> SUFFICES ASSUME UpdaterInv, [UpdaterNext]_updaterVars, boot' # boot
               PROVE  flash[boot'] = ImageOf(body)
    OBVIOUS
  <2>1. ActivatesOther
    BY NextIsClientStep, DeviceStep DEF UpdaterInv, ProgramsOther
  <2>2. QED
    BY <2>1, CommitActivatesBody DEF UpdaterInv, ActivatesOther
<1>2. QED
  BY <1>1, UpdaterAlways, PTL DEF UpdaterSpec, ActivatesTheDownload

\* The updater keeps the promise of FirmwareSlots even if esp_ota_end looks at nothing,
\* as long as the flash can be written: downloads that break off, aborted sessions and
\* power cuts alone never make it activate a part of an image, or parts of two.
THEOREM UpdaterKeepsSlotPromise ==
    ASSUME OtaEndValidates \/ ~FlashMayFail
    PROVE  UpdaterSpec => ImplementsFirmwareSlots
<1>1. UpdaterInit => Slots!Init
  BY InitKeepsPromise DEF UpdaterInit
<1>2. UpdaterInv /\ UpdaterInv' /\ [UpdaterNext]_updaterVars => [Slots!Next]_(Slots!vars)
  BY NextIsClientStep, NextActivatesImage, StepKeepsPromise DEF UpdaterInv
<1>3. QED
  BY <1>1, <1>2, UpdaterAlways, PTL DEF UpdaterSpec, ImplementsFirmwareSlots, Slots!Spec

\* The device can always boot, whatever the updater was doing when something failed.
THEOREM UpdaterKeepsBootable ==
    ASSUME OtaEndValidates \/ ~FlashMayFail
    PROVE  UpdaterSpec => []BootPartitionHoldsImage
<1>1. UpdaterInit => BootPartitionHoldsImage
  BY DEF UpdaterInit, Init, BootPartitionHoldsImage
<1>2. UpdaterInv /\ BootPartitionHoldsImage /\ [UpdaterNext]_updaterVars => BootPartitionHoldsImage'
  BY NextIsClientStep, NextActivatesImage, StepKeepsBootable DEF UpdaterInv
<1>3. QED
  BY <1>1, <1>2, UpdaterAlways, PTL DEF UpdaterSpec

-----------------------------------------------------------------------------
(* The version that runs.                                                  *)

LEMMA VersionOfImage ==
    ASSUME NEW p, flash[p] \in Image
    PROVE  VersionIn(p) \in Version /\ flash[p] = ImageOf(VersionIn(p))
<1>1. \E v \in Version : flash[p] = ImageOf(v)
  BY ImagesAssumption
<1>2. QED
  BY <1>1 DEF VersionIn

\* While the chip waits for its restart nothing is programmed.
LEMMA RestartingSparesFlash ==
    ASSUME [UpdaterNext]_updaterVars, task = "restarting"
    PROVE  UNCHANGED flash
<1>1. CASE Restart
  BY <1>1 DEF Restart, Reset
<1>2. CASE iap_https_init
  BY <1>2 DEF iap_https_init, iap_init
<1>3. CASE iap_https_check_now \/ TimerFires \/ LostTimerEnds
  BY <1>3 DEF iap_https_check_now, TimerFires, LostTimerEnds, Triggered
<1>4. CASE WifiConnects \/ WifiDisconnects \/ Publish
  BY <1>4 DEF WifiConnects, WifiDisconnects, Publish
<1>5. CASE Settles \/ UNCHANGED updaterVars
  BY <1>5 DEF Settles, Settle, updaterVars
<1>6. UpdaterTask => AutomaticRestart
  BY DEF UpdaterTask, AwaitWifi, WaitBits, WaitWifi, CheckFails, CheckAnswered, RearmTimer, ClearCheck,
         StartDownload, BodyBreaksOff, BodyArrives, BeginSession, AbortOldSession, BeginAgain,
         WriteFragment, Writing, AbortFailedWrite, AllReceived, Commit, ClearDownload
<1>7. QED
  BY <1>1, <1>2, <1>3, <1>4, <1>5, <1>6
     DEF UpdaterNext, AutomaticRestart, ApplicationRestarts, RunningCodeLost, PowerCut

\* Only a restart changes what runs, and what the updater takes it for.
LEMMA OnlyRestartRuns ==
    ASSUME [UpdaterNext]_updaterVars
    PROVE  Restart \/ UNCHANGED <<running, current_software_version>>
<1>1. CASE AwaitWifi \/ WaitBits \/ WaitWifi \/ CheckFails \/ CheckAnswered
  BY <1>1 DEF AwaitWifi, WaitBits, WaitWifi, CheckFails, CheckAnswered
<1>2. CASE RearmTimer \/ ClearCheck \/ StartDownload \/ BodyBreaksOff \/ BodyArrives \/ ClearDownload
  BY <1>2 DEF RearmTimer, ClearCheck, StartDownload, BodyBreaksOff, BodyArrives, ClearDownload
<1>3. CASE BeginSession \/ AbortOldSession \/ BeginAgain \/ AbortFailedWrite \/ AllReceived
  BY <1>3 DEF BeginSession, AbortOldSession, BeginAgain, AbortFailedWrite, AllReceived
<1>4. CASE WriteFragment \/ Writing \/ Commit
  BY <1>4 DEF WriteFragment, Writing, Commit
<1>5. CASE iap_https_init \/ iap_https_check_now \/ TimerFires \/ LostTimerEnds
  BY <1>5 DEF iap_https_init, iap_https_check_now, TimerFires, LostTimerEnds
<1>6. CASE WifiConnects \/ WifiDisconnects \/ Publish \/ Settles
  BY <1>6 DEF WifiConnects, WifiDisconnects, Publish, Settles
<1>7. CASE UNCHANGED updaterVars
  BY <1>7 DEF updaterVars
<1>8. QED
  BY <1>1, <1>2, <1>3, <1>4, <1>5, <1>6, <1>7
     DEF UpdaterNext, UpdaterTask, AutomaticRestart, ApplicationRestarts, RunningCodeLost, PowerCut

RunsWhatItKnows == running \in PartitionTable /\ KnowsWhatRuns

LEMMA NextKnowsWhatRuns ==
    ASSUME UpdaterInv, SparesRunning, BootPartitionHoldsImage, RunsWhatItKnows,
           [UpdaterNext]_updaterVars
    PROVE  RunsWhatItKnows'
<1> USE DEF RunsWhatItKnows, UpdaterInv
<1>1. CASE Restart
  <2>1. boot \in PartitionTable /\ flash[boot] = ImageOf(VersionIn(boot))
    BY VersionOfImage DEF SparesRunning, BootPartitionHoldsImage
  <2>2. QED
    BY <1>1, <2>1 DEF Restart, Reset, KnowsWhatRuns
<1>2. CASE UNCHANGED <<running, current_software_version>>
  <2>1. CASE UNCHANGED flash
    BY <1>2, <2>1 DEF KnowsWhatRuns
  <2>2. CASE ~UNCHANGED flash
    <3>1. boot = running
      BY <2>2, RestartingSparesFlash DEF SparesRunning
    <3>2. ProgramsOther
      BY <2>2, NextIsClientStep, DeviceStep DEF ActivatesOther
    <3>3. flash'[running] = flash[running]
      BY <3>1, <3>2 DEF ProgramsOther
    <3>4. QED
      BY <1>2, <3>3 DEF KnowsWhatRuns
  <2>3. QED
    BY <2>1, <2>2
<1>3. QED
  BY <1>1, <1>2, OnlyRestartRuns

\* With automatic restarts the code that runs stays whole in flash, whatever happens to
\* downloads and commits, and the updater knows its version.
THEOREM RunningVersionIsKnown ==
    ASSUME AutoReboot, OtaEndValidates \/ ~FlashMayFail
    PROVE  UpdaterSpec => []KnowsWhatRuns
<1>1. UpdaterInit => SessionUsable /\ SparesRunning
  BY DEF UpdaterInit, Init, SessionUsable, SparesRunning, sessionOpen
<1>2. SessionUsable /\ SparesRunning /\ [UpdaterNext]_updaterVars => SessionUsable' /\ SparesRunning'
  BY NextKeepsSessionUsable, NextSparesRunning
<1>3. UpdaterInit => RunsWhatItKnows
  BY VersionOfImage DEF UpdaterInit, Init, RunsWhatItKnows, KnowsWhatRuns
<1>4. UpdaterInv /\ SparesRunning /\ BootPartitionHoldsImage /\ RunsWhatItKnows
         /\ [UpdaterNext]_updaterVars => RunsWhatItKnows'
  BY NextKnowsWhatRuns
<1>5. RunsWhatItKnows => KnowsWhatRuns
  BY DEF RunsWhatItKnows
<1>6. QED
  BY <1>1, <1>2, <1>3, <1>4, <1>5, UpdaterAlways, UpdaterKeepsBootable, PTL DEF UpdaterSpec

-----------------------------------------------------------------------------
(* Types.                                                                  *)

LEMMA TimerKept ==
    ASSUME UpdaterTypeOK, NEW interval, iap_https_prepare_timer(interval)
    PROVE  check_for_updates_timer' \in {"null", "dormant", "armed"} /\ lost_timer' \in BOOLEAN
<1>1. check_for_updates_timer' \in {"null", "dormant", "armed"}
  BY DEF UpdaterTypeOK, iap_https_prepare_timer
<1>2. lost_timer' \in BOOLEAN
  BY Zenon DEF UpdaterTypeOK, iap_https_prepare_timer
<1>3. QED
  BY <1>1, <1>2

LEMMA NextKeepsUpdaterTypes ==
    ASSUME UpdaterInv, UpdaterInv', BootPartitionHoldsImage, UpdaterTypeOK, [UpdaterNext]_updaterVars
    PROVE  UpdaterTypeOK'
<1>1. TypeOK' /\ received' \in 0..ImageLen /\ server' \in Version /\ has_iap_session' \in {0, 1}
  BY DEF UpdaterInv, SessionInv, HoldsImage
<1>2. << >> \in Seq(Byte)
  BY EmptySeq
<1> USE DEF UpdaterTypeOK, TaskLabel
<1>3. CASE AwaitWifi \/ WaitBits \/ WaitWifi
  <2>1. CASE AwaitWifi
    BY <1>1, <2>1 DEF AwaitWifi
  <2>2. CASE WaitBits
    BY <1>1, <2>2 DEF WaitBits
  <2>3. CASE WaitWifi
    BY <1>1, <2>3 DEF WaitWifi
  <2>4. QED
    BY <1>3, <2>1, <2>2, <2>3
<1>4. CASE CheckFails \/ RearmTimer \/ ClearCheck
  <2>1. CASE CheckFails
    BY <1>1, <2>1 DEF CheckFails
  <2>2. CASE RearmTimer
    <3>1. check_for_updates_timer' \in {"null", "dormant", "armed"} /\ lost_timer' \in BOOLEAN
      BY <2>2, TimerKept DEF RearmTimer
    <3>2. QED
      BY <1>1, <2>2, <3>1 DEF RearmTimer
  <2>3. CASE ClearCheck
    <3>1. event_group' \subseteq {"CHECK_FOR_UPDATE", "DOWNLOAD_IMAGE"}
      BY <2>3 DEF ClearCheck
    <3>2. QED
      BY <1>1, <2>3, <3>1 DEF ClearCheck
  <2>4. QED
    BY <1>4, <2>1, <2>2, <2>3
<1>5. CASE CheckAnswered
  BY <1>1, <1>5, IntervalAssumption DEF CheckAnswered
<1>6. CASE StartDownload \/ BodyBreaksOff
  BY <1>1, <1>6, ZenonT(60) DEF StartDownload, BodyBreaksOff
<1>7. CASE BodyArrives
  <2>1. PICK n \in 1..MaxFragment : fragment' = SubSeq(ImageOf(body), received + 1, received + n)
                                   /\ received + n =< ImageLen
    BY <1>7 DEF BodyArrives
  <2>2. /\ body \in Version /\ received + 1 \in 1..ImageLen /\ received + n \in 1..ImageLen
    BY <1>7, <2>1, LengthAssumption DEF BodyArrives, UpdaterInv, HoldsImage
  <2>3. fragment' \in Seq(Byte)
    BY <2>1, <2>2, PieceIsBlock, BlockAssumption
  <2>4. QED
    BY <1>1, <1>7, <2>3 DEF BodyArrives
<1>8. CASE BeginSession
  BY <1>1, <1>8 DEF BeginSession, SessionOpened
<1>9. CASE AbortOldSession \/ AbortFailedWrite
  BY <1>1, <1>9, ZenonT(60) DEF AbortOldSession, AbortFailedWrite
<1>10. CASE BeginAgain
  BY <1>1, <1>10 DEF BeginAgain, SessionOpened
<1>11. CASE WriteFragment
  BY <1>1, <1>2, <1>11, LenProperties DEF WriteFragment
<1>12. CASE Writing
  BY <1>1, <1>12 DEF Writing
<1>13. CASE AllReceived
  BY <1>1, <1>13 DEF AllReceived
<1>14. CASE Commit \/ ClearDownload
  BY <1>1, <1>2, <1>14, ZenonT(60) DEF Commit, AfterCommit, ClearDownload
<1>15. CASE Restart
  <2>1. boot \in PartitionTable /\ VersionIn(boot) \in Version
    BY VersionOfImage DEF BootPartitionHoldsImage, TypeOK
  <2>2. QED
    BY <1>1, <1>2, <1>15, <2>1, IntervalAssumption DEF Restart
<1>16. CASE iap_https_init
  <2>1. check_for_updates_timer' \in {"null", "dormant", "armed"} /\ lost_timer' \in BOOLEAN
    BY <1>16, TimerKept DEF iap_https_init
  <2>2. QED
    BY <1>1, <1>16, <2>1 DEF iap_https_init
<1>17. CASE iap_https_check_now
  BY <1>1, <1>17 DEF iap_https_check_now, Triggered
<1>18. CASE TimerFires \/ LostTimerEnds
  <2>1. event_group' \subseteq {"CHECK_FOR_UPDATE", "DOWNLOAD_IMAGE"}
    BY <1>18 DEF TimerFires, LostTimerEnds
  <2>2. lost_timer' \in BOOLEAN
    BY <1>18, Zenon DEF TimerFires, LostTimerEnds
  <2>3. CASE TimerFires
    BY <1>1, <2>1, <2>2, <2>3 DEF TimerFires
  <2>4. CASE LostTimerEnds
    BY <1>1, <2>1, <2>2, <2>4 DEF LostTimerEnds
  <2>5. QED
    BY <1>18, <2>3, <2>4
<1>19. CASE WifiConnects
  <2>1. connected' \in BOOLEAN
    BY <1>19 DEF WifiConnects, Link!Connects
  <2>2. QED
    BY <1>1, <1>19, <2>1 DEF WifiConnects
<1>20. CASE WifiDisconnects
  <2>1. connected' \in BOOLEAN
    BY <1>20 DEF WifiDisconnects, Link!Disconnects
  <2>2. QED
    BY <1>1, <1>20, <2>1 DEF WifiDisconnects
<1>21. CASE Publish
  BY <1>1, <1>21 DEF Publish
<1>22. CASE Settles
  BY <1>1, <1>22 DEF Settles
<1>23. CASE UNCHANGED updaterVars
  BY <1>1, <1>23 DEF updaterVars
<1>24. QED
  BY <1>3, <1>4, <1>5, <1>6, <1>7, <1>8, <1>9, <1>10, <1>11, <1>12, <1>13, <1>14, <1>15, <1>16, <1>17,
     <1>18, <1>19, <1>20, <1>21, <1>22, <1>23
     DEF UpdaterNext, UpdaterTask, AutomaticRestart, ApplicationRestarts, RunningCodeLost, PowerCut

\* The variables of iap_https.c keep their types, and the version it finds itself to be is
\* one that was published: what boots is always the whole image of a version.
THEOREM UpdaterTypesAreKept ==
    ASSUME OtaEndValidates \/ ~FlashMayFail
    PROVE  UpdaterSpec => []UpdaterTypeOK
<1>1. UpdaterInit => UpdaterTypeOK
  <2> SUFFICES ASSUME UpdaterInit PROVE UpdaterTypeOK
    OBVIOUS
  <2>1. TypeOK
    BY InitSession DEF UpdaterInit, SessionInv
  <2>2. boot \in PartitionTable /\ VersionIn(boot) \in Version
    BY VersionOfImage DEF UpdaterInit, Init
  <2>3. << >> \in Seq(Byte) /\ 0 \in 0..ImageLen /\ PollingInterval \in Nat
    BY EmptySeq, IntervalAssumption, LengthAssumption
  <2>4. QED
    BY <2>1, <2>2, <2>3 DEF UpdaterInit, UpdaterTypeOK, TaskLabel
<1>2. UpdaterInv /\ UpdaterInv' /\ BootPartitionHoldsImage /\ UpdaterTypeOK
         /\ [UpdaterNext]_updaterVars => UpdaterTypeOK'
  BY NextKeepsUpdaterTypes
<1>3. QED
  BY <1>1, <1>2, UpdaterAlways, UpdaterKeepsBootable, PTL DEF UpdaterSpec
=============================================================================
